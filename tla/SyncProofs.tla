----------------------------- MODULE SyncProofs -----------------------------
(* Proofs about what several parts hold a copy of and must come to agree on.  *)
(* SettingsForms, for any number of saves: a save changes what was typed, and *)
(* a form at rest shows the record.  ConfigRuntime, for any number of         *)
(* instances and handlers: an instance whose counter is that of the database  *)
(* has the database's tables.  Breaker, for any number of instances and calls *)
(* and every threshold, reset time and throttle: a connected instance agrees  *)
(* with the shared key a second after it changed.                             *)
EXTENDS SettingsForms, ConfigRuntime, Breaker, TLAPS

-----------------------------------------------------------------------------
(* The forms: SettingsForms.                                                  *)

-----------------------------------------------------------------------------
(* The invariant.                                                             *)

\* x was put there before the page's next save and by a known save of others.
Below(x, m, o) ==
    /\ x[1] = "mine" => x[2] \in Int /\ x[2] < m
    /\ x[1] = "theirs" => x[2] \in Int /\ x[2] <= o

\* The address of a channel that has none.
NoAddress(f, v) == page = "alerts" /\ f = "webhook_url" /\ ~Webhook(v)

\* MFA is enabled in r, because it is required, and not in v.
Forced(f, r, v) ==
    /\ page = "security" /\ f = "mfa_enabled"
    /\ r["mfa_required_for_all"] \in RequiredOn /\ v[f] \notin EnabledOn

Shape ==
    /\ page \in FormPages
    /\ mine \in Int /\ others \in Nat
    /\ on \in BOOLEAN /\ stale \in BOOLEAN /\ unheard \in BOOLEAN /\ blind \in BOOLEAN
    /\ DOMAIN form = {"v", "typed", "filled"} /\ form.typed \subseteq I
    /\ DOMAIN save = {"st", "body", "typed", "base", "over"} /\ save.over \in BOOLEAN
    /\ save.st \in {"none", "sent", "ok", "error"}
    /\ fetch.st \in {"none", "sent", "done"}
    /\ cache.known \in BOOLEAN

\* Where a value can be, and what was never filled in.
Origin ==
    /\ \A f \in I :
          /\ Below(row[f], mine, others) /\ row[f] # Blank
          /\ Below(cache.v[f], mine, others) /\ (cache.known => cache.v[f] # Blank)
          /\ Below(fetch.v[f], mine, others) /\ (fetch.st = "done" => fetch.v[f] # Blank)
          /\ Below(form.filled.v[f], mine, others)
          /\ Below(save.body[f], mine, others) /\ Below(save.base[f], mine, others)
          /\ Below(form.v[f], mine + 1, others) /\ (form.filled.known => form.v[f] # Blank)
    /\ \A f \in form.typed : form.v[f][1] = "mine" /\ form.v[f] # form.filled.v[f]

\* MFA that is required of all is enabled.
Consistent ==
    page = "security" /\ row["mfa_required_for_all"] \in RequiredOn => row["mfa_enabled"] \in EnabledOn

\* The form is filled with what is cached, and a page that is left has none.
Filled ==
    /\ ~cache.known => cache = NoAnswer
    /\ on => form.filled = cache
    /\ ~on => form = Untouched

\* An item that is not typed and not as it was filled is one whose save was
\* heard: the record has moved on from what the form was filled with.
Detached(f) == f \notin form.typed /\ form.v[f] # form.filled.v[f]
Typed ==
    /\ form.filled.known =>
         \A f \in I : Detached(f) =>
            row[f] # form.filled.v[f] \/ NoAddress(f, row) \/ Forced(f, row, form.v)
    /\ form.filled.known /\ save.st = "sent" =>
         \A f \in I : Detached(f) => save.body[f] = form.v[f] \/ NoAddress(f, save.body)
    /\ save.st = "ok" =>
         \A f \in form.typed : form.v[f] = save.body[f] =>
            row[f] # form.filled.v[f] \/ Forced(f, row, form.v)

\* What is about to be stored.
Saving ==
    save.st = "sent" /\ ~blind =>
        /\ \A f \in I : save.base[f] # Blank
        /\ \/ \E f \in I : row[f] # save.base[f]
           \/ \A f \in I : \/ f \in save.typed \/ save.body[f] = save.base[f]
                           \/ NoAddress(f, save.body) \/ Forced(f, save.base, Parsed(save.body))

\* What a query has read is the record, unless the page has saved since.
Read ==
    ~unheard =>
        /\ fetch.st = "done" /\ "fetch" \notin older => \A f \in I : fetch.v[f] = row[f]
        /\ cache.known /\ fetch.st = "none" /\ "cache" \notin older => \A f \in I : cache.v[f] = row[f]

\* On the pages that invalidate their query a save that was heard is followed by
\* a fetch, at once or when the page is opened.
Invalidated ==
    page \in Invalidates /\ ~unheard /\ save.st # "ok" =>
        /\ fetch.st = "done" => \A f \in I : fetch.v[f] = row[f]
        /\ cache.known /\ fetch.st = "none" =>
              (\A f \in I : cache.v[f] = row[f]) \/ (stale /\ ~on)

\* On the others the form keeps what was saved while it is not filled again.
Kept ==
    page \notin Invalidates /\ on /\ form.filled.known =>
        /\ save.st = "sent" /\ ~save.over =>
              \A f \in I : f \in form.typed \/ form.v[f] = save.body[f]
        /\ ~unheard /\ fetch.st = "none" /\ "form" \notin older =>
              /\ \A f \in I : f \in form.typed \/ form.v[f] = row[f] \/ Forced(f, row, form.v)
              /\ save.st = "ok" => \A f \in form.typed : form.v[f] = save.body[f] =>
                                     form.v[f] = row[f] \/ Forced(f, row, form.v)

FormsInv == Shape /\ Origin /\ Consistent /\ Filled /\ Typed /\ Saving /\ Read /\ Invalidated /\ Kept

-----------------------------------------------------------------------------
(* The items of the pages.                                                    *)

LEMMA Items ==
    ASSUME page \in FormPages, NEW v
    PROVE  /\ I \subseteq Fills[page] /\ I # {}
           /\ FormItems(v) \subseteq I /\ FormItems(v) \subseteq FormSends(v)
           /\ \A f \in I : f \in FormItems(v) \/ NoAddress(f, v)
           /\ page \notin Invalidates => FormItems(v) = I
           /\ page = "alerts" => "channel" \in FormItems(v) \ Optional
<1>1. CASE page = "failover"
  BY <1>1 DEF I, Settings, Fills, FormItems, FormSends, FailoverItems, FailoverFills, FailoverSends,
       Invalidates, FailoverAfter
<1>2. CASE page = "output"
  BY <1>2 DEF I, Settings, Fills, FormItems, FormSends, OutputItems, OutputFills, OutputSends,
       Invalidates, OutputAfter
<1>3. CASE page = "alerts"
  BY <1>3 DEF I, Settings, Fills, FormItems, FormSends, AlertItems, AlertFields, AlertFills, AlertSends,
       Invalidates, AlertsAfter, Optional, Switches, NoAddress
<1>4. CASE page = "general"
  BY <1>4 DEF I, Settings, Fills, FormItems, FormSends, GeneralItems, GeneralFills
<1>5. CASE page = "security"
  BY <1>5 DEF I, Settings, Fills, FormItems, FormSends, SecurityItems
<1> QED BY <1>1, <1>2, <1>3, <1>4, <1>5 DEF FormPages

LEMMA SamePage ==
    ASSUME page' = page
    PROVE  /\ I' = I /\ NoValues' = NoValues /\ NoAnswer' = NoAnswer /\ Untouched' = Untouched
           /\ (page \in FormPages)' <=> page \in FormPages
           /\ (page \in Invalidates)' <=> page \in Invalidates
BY DEF I, NoValues, NoAnswer, Untouched

-----------------------------------------------------------------------------
(* The steps.                                                                 *)

\* What a query fills is the whole form.
LEMMA Filling ==
    ASSUME Shape, NEW v
    PROVE  Fill(v) = [v |-> [f \in I |-> v[f]], typed |-> {}, filled |-> [known |-> TRUE, v |-> v]]
<1>1. I \subseteq Fills[page] /\ form.typed \subseteq I
  BY Items DEF Shape
<1>2. form.typed \ Fills[page] = {}
  BY <1>1
<1>3. [f \in I |-> IF f \in Fills[page] THEN v[f] ELSE form.v[f]] = [f \in I |-> v[f]]
  BY <1>1
<1> QED BY <1>2, <1>3 DEF Fill

\* What is sent is what the form holds, but for the address of a channel that
\* has none.
LEMMA Sent ==
    ASSUME Shape, Submit
    PROVE  /\ save'.st = "sent" /\ save'.typed = form.typed /\ save'.base = form.filled.v
           /\ save'.over = FALSE /\ DOMAIN save' = {"st", "body", "typed", "base", "over"}
           /\ \A f \in I : save'.body[f] = form.v[f] \/ (save'.body[f] = Blank /\ NoAddress(f, form.v))
           /\ page = "alerts" => save'.body["channel"] = form.v["channel"] /\ "channel" \in I
           /\ page = "alerts" => (Webhook(save'.body) <=> Webhook(form.v))
           /\ page \notin Invalidates => \A f \in I : save'.body[f] = form.v[f]
<1> DEFINE S == FormItems(form.v)
           b == [f \in I |-> IF f \in S \cap FormSends(form.v) THEN form.v[f] ELSE Blank]
<1>1. /\ S \subseteq I /\ S \subseteq FormSends(form.v)
      /\ \A f \in I : f \in S \/ NoAddress(f, form.v)
      /\ page \notin Invalidates => S = I
      /\ page = "alerts" => "channel" \in S
  BY Items DEF Shape
<1>2. save' = [st |-> "sent", typed |-> form.typed, base |-> form.filled.v, over |-> FALSE, body |-> b]
  BY DEF Submit
<1>3. /\ \A f \in S : b[f] = form.v[f]
      /\ \A f \in I \ S : b[f] = Blank
  BY <1>1
<1> HIDE DEF b, S
<1>4. page = "alerts" => b["channel"] = form.v["channel"] /\ "channel" \in I
  BY <1>1, <1>3
<1> QED BY <1>1, <1>2, <1>3, <1>4 DEF Webhook

\* What the server makes of what it has parsed: w of v.
Makes(w, v) ==
    /\ \A f \in I : \/ w[f] = v[f] /\ ~Forced(f, v, v)
                    \/ /\ Forced(f, v, v)
                       /\ w[f] = IF row[f] \in EnabledOn THEN row[f] ELSE On
    /\ page = "security" =>
         /\ w["mfa_required_for_all"] = v["mfa_required_for_all"]
         /\ v["mfa_required_for_all"] \in RequiredOn => w["mfa_enabled"] \in EnabledOn
    /\ page = "alerts" => w = v

LEMMA Validated ==
    ASSUME page \in FormPages, NEW v, v = [f \in I |-> v[f]]
    PROVE  Makes(validateSecurity(v), v)
<1>1. page = "security" => "mfa_enabled" \in I /\ "mfa_required_for_all" \in I
  BY DEF I, Settings, SecurityItems
<1>2. On \in EnabledOn
  BY FormsAssumption DEF FormsAssumption
<1>3. \A x : [v EXCEPT !["mfa_enabled"] = x] = [f \in I |-> IF f = "mfa_enabled" THEN x ELSE v[f]]
  OBVIOUS
<1>4. \A f \in I : \/ validateSecurity(v)[f] = v[f] /\ ~Forced(f, v, v)
                   \/ /\ Forced(f, v, v)
                      /\ validateSecurity(v)[f] = IF row[f] \in EnabledOn THEN row[f] ELSE On
  BY <1>1, <1>3 DEF validateSecurity, Forced
<1>5. page = "alerts" => validateSecurity(v) = v
  BY DEF validateSecurity
<1>6. page = "security" =>
        /\ validateSecurity(v)["mfa_required_for_all"] = v["mfa_required_for_all"]
        /\ v["mfa_required_for_all"] \in RequiredOn => validateSecurity(v)["mfa_enabled"] \in EnabledOn
  BY <1>1, <1>2, <1>4 DEF Forced
<1> QED BY <1>4, <1>5, <1>6 DEF Makes

\* What is stored is what was sent, and what was blank is neither a value of
\* the form nor a channel with an address; MFA may have been switched on.
StoredOf(z) ==
    /\ \A f \in I : \/ row'[f] = z[f]
                    \/ /\ Forced(f, row', z)
                       /\ row'[f] = IF row[f] \in EnabledOn THEN row[f] ELSE On
    /\ \A f \in I : z[f] = IF save.body[f] = Blank THEN <<"zero", 0>> ELSE save.body[f]
    /\ page = "security" => /\ row'["mfa_required_for_all"] = z["mfa_required_for_all"]
                            /\ "mfa_required_for_all" \in I
    /\ Consistent'
    /\ \A f \in I : NoAddress(f, save.body) => NoAddress(f, row')

LEMMA Stored ==
    ASSUME Shape, StoreSettings, save'.st = "ok"
    PROVE  StoredOf(Parsed(save.body))
<1> DEFINE z == Parsed(save.body)
<1>1. row' = validateSecurity(z) /\ page' = page /\ page \in FormPages
  BY DEF StoreSettings, Shape
<1>2. z = [f \in I |-> z[f]]
  BY DEF Parsed
<1>3. \A f \in I : z[f] = IF save.body[f] = Blank THEN <<"zero", 0>> ELSE save.body[f]
  BY DEF Parsed
<1>4. (page = "alerts" => "channel" \in I) /\ (page = "security" => "mfa_required_for_all" \in I)
  BY Items DEF Shape, I, Settings, SecurityItems
<1> HIDE DEF z
<1>5. /\ \A f \in I : \/ row'[f] = z[f]
                      \/ Forced(f, z, z) /\ row'[f] = IF row[f] \in EnabledOn THEN row[f] ELSE On
      /\ page = "security" =>
           /\ row'["mfa_required_for_all"] = z["mfa_required_for_all"]
           /\ z["mfa_required_for_all"] \in RequiredOn => row'["mfa_enabled"] \in EnabledOn
      /\ page = "alerts" => row' = z
  <2>1. Makes(validateSecurity(z), z)
    BY <1>1, <1>2, Validated
  <2>2. Makes(row', z)
    BY <1>1, <2>1
  <2> QED BY <2>2 DEF Makes
<1>6. Consistent'
  BY <1>1, <1>5 DEF Consistent
<1>7. \A f : Forced(f, z, z) => Forced(f, row', z)
  BY <1>5 DEF Forced
<1>8. \A f \in I : NoAddress(f, save.body) => NoAddress(f, row')
  BY <1>3, <1>4, <1>5 DEF NoAddress, Webhook
<1>9. StoredOf(z)
  BY <1>3, <1>4, <1>5, <1>6, <1>7, <1>8 DEF StoredOf
<1> QED BY <1>9 DEF z

\* Typing and hearing of a save touch the values and the typed items only.
LEMMA TypedItems ==
    ASSUME Shape, TypeItems
    PROVE  \E S \in SUBSET I :
              /\ form'.typed = form.typed \cup S /\ form'.filled = form.filled
              /\ DOMAIN form' = {"v", "typed", "filled"}
              /\ \A f \in S : form'.v[f] = <<"mine", mine>>
              /\ \A f \in I \ S : form'.v[f] = form.v[f]
<1>1. PICK S \in {FormItems(form.v), FormItems(form.v) \ Switches}
                    \cup {{f} \cap I : f \in {"channel", "mfa_enabled", "mfa_required_for_all"}} :
          form' = [form EXCEPT !.v = [f \in I |-> IF f \in S THEN <<"mine", mine>> ELSE @[f]],
                               !.typed = @ \cup S]
  BY DEF TypeItems
<1>2. S \in SUBSET I
  BY Items DEF Shape
<1>3. DOMAIN form = {"v", "typed", "filled"}
  BY DEF Shape
<1> QED BY <1>1, <1>2, <1>3

LEMMA Heard ==
    ASSUME Shape, Filled, SaveHeard
    PROVE  /\ form'.v = form.v /\ form'.filled = form.filled /\ form'.typed \subseteq form.typed
           /\ DOMAIN form' = {"v", "typed", "filled"}
           /\ \A f \in form.typed \ form'.typed : save.st = "ok" /\ form.v[f] = save.body[f]
           /\ save.st = "ok" => \A f \in form'.typed : form.v[f] # save.body[f]
           /\ ~on => form' = Untouched
<1>1. /\ DOMAIN form = {"v", "typed", "filled"}
      /\ form' = IF save.st = "ok" THEN [form EXCEPT !.typed = {f \in @ : form.v[f] # save.body[f]}] ELSE form
  BY DEF Shape, SaveHeard
<1>2. ~on => form' = Untouched
  <2>1. ~on => form = Untouched
    BY DEF Filled
  <2>2. ~on => form.typed = {}
    BY <2>1 DEF Untouched
  <2>3. ~on => {f \in form.typed : form.v[f] # save.body[f]} = {}
    BY <2>2
  <2>4. [Untouched EXCEPT !.typed = {}] = Untouched
    BY DEF Untouched
  <2> QED BY <1>1, <2>1, <2>3, <2>4
<1> QED BY <1>1, <1>2

\* Other data fills the form, the same data leaves it.
LEMMA Delivered ==
    ASSUME Shape, Filled, QueryDeliver
    PROVE  /\ fetch.st = "done" /\ fetch' = NoQuery /\ cache'.known = TRUE /\ cache'.v = fetch.v
           /\ save'.st = save.st /\ save'.body = save.body /\ save'.base = save.base
           /\ save'.typed = save.typed
           /\ \/ form' = form /\ (on => /\ form.filled.known /\ form.filled.v = fetch.v
                                        /\ save'.over = save.over)
              \/ /\ on /\ (save.st = "sent" => save'.over)
                 /\ form'.typed = {} /\ form'.filled.known /\ form'.filled.v = fetch.v
                 /\ \A f \in I : form'.v[f] = fetch.v[f]
<1>1. /\ fetch.st = "done" /\ fetch' = NoQuery /\ cache' = [known |-> TRUE, v |-> fetch.v]
      /\ form' = IF on /\ cache' # cache THEN Fill(fetch.v) ELSE form
      /\ save' = [save EXCEPT !.over = @ \/ (save.st = "sent" /\ cache' # cache)]
  BY DEF QueryDeliver
<1>2. /\ save'.st = save.st /\ save'.body = save.body /\ save'.base = save.base
      /\ save'.typed = save.typed
      /\ save'.over = (save.over \/ (save.st = "sent" /\ cache' # cache))
  BY <1>1 DEF Shape
<1>3. CASE on /\ cache' # cache
  <2>1. form' = [v |-> [f \in I |-> fetch.v[f]], typed |-> {},
                 filled |-> [known |-> TRUE, v |-> fetch.v]]
    BY <1>1, <1>3, Filling
  <2>2. save.st = "sent" => save'.over
    BY <1>2, <1>3
  <2>3. cache'.known = TRUE /\ cache'.v = fetch.v /\ fetch.st = "done" /\ fetch' = NoQuery
    BY <1>1
  <2>4. form'.typed = {} /\ form'.filled.known /\ form'.filled.v = fetch.v
        /\ \A f \in I : form'.v[f] = fetch.v[f]
    BY <2>1
  <2> QED BY <1>2, <1>3, <2>2, <2>3, <2>4
<1>4. CASE on /\ cache' = cache
  <2>1. form.filled = [known |-> TRUE, v |-> fetch.v]
    BY <1>1, <1>4 DEF Filled
  <2>2. save'.over = save.over
    BY <1>2, <1>4 DEF Shape
  <2> QED BY <1>1, <1>2, <1>4, <2>1, <2>2
<1>5. CASE ~on
  BY <1>1, <1>2, <1>5
<1> QED BY <1>3, <1>4, <1>5

LEMMA FormsStart == FormsInit => FormsInv
<1> SUFFICES ASSUME FormsInit PROVE FormsInv
  OBVIOUS
<1>1. /\ cache = NoAnswer /\ form = Untouched /\ save = NoSave /\ fetch = NoQuery
      /\ \A f \in I : row[f] = <<"old", 0>> /\ NoValues[f] = Blank
  BY DEF FormsInit, NoValues
<1>2. Shape
  <2>1. mine \in Int /\ others \in Nat
    BY FormsAssumption DEF FormsInit, FormsAssumption
  <2>2. form.typed = {} /\ save.st = "none" /\ save.over = FALSE /\ fetch.st = "none" /\ cache.known = FALSE
    BY <1>1 DEF Untouched, NoSave, NoQuery, NoAnswer
  <2> QED BY <1>1, <2>1, <2>2 DEF FormsInit, Shape, Untouched, NoSave
<1>3. Origin
  BY <1>1, FormsAssumption DEF FormsInit, Origin, Below, Blank, NoAnswer, Untouched, NoSave, NoQuery, FormsAssumption
<1>4. Filled
  BY <1>1, FormsAssumption DEF FormsInit, Filled, Below, Blank, NoAnswer, Untouched, NoSave, NoQuery, FormsAssumption
<1>5. Typed
  BY <1>1, FormsAssumption DEF FormsInit, Typed, Detached, NoAddress, Below, Blank, NoAnswer, Untouched, NoSave, NoQuery, FormsAssumption, Forced
<1>6. Saving
  BY <1>1, FormsAssumption DEF FormsInit, Saving, NoAddress, Below, Blank, NoAnswer, Untouched, NoSave, NoQuery, FormsAssumption, Forced, Parsed
<1>7. Read
  BY <1>1, FormsAssumption DEF FormsInit, Read, Below, Blank, NoAnswer, Untouched, NoSave, NoQuery, FormsAssumption
<1>8. Invalidated
  BY <1>1, FormsAssumption DEF FormsInit, Invalidated, Below, Blank, NoAnswer, Untouched, NoSave, NoQuery, FormsAssumption
<1>9. Kept
  BY <1>1, FormsAssumption DEF FormsInit, Kept, Below, Blank, NoAnswer, Untouched, NoSave, NoQuery, FormsAssumption, Forced
<1>10. Consistent
  <2>1. page = "security" => "mfa_enabled" \in I /\ "mfa_required_for_all" \in I
    BY DEF I, Settings, SecurityItems
  <2> QED BY <1>1, <2>1, FormsAssumption DEF Consistent, FormsAssumption
<1> QED BY <1>2, <1>3, <1>4, <1>5, <1>6, <1>7, <1>8, <1>9, <1>10 DEF FormsInv

LEMMA OpenFormKeeps ==
    ASSUME FormsInv, OpenForm
    PROVE  FormsInv'
<1>0. page' = page /\ FormsInv
  BY DEF OpenForm
<1> USE SamePage, <1>0
<1>1. Shape'
  BY DEF OpenForm, FormsInv, Shape, Asked, NoQuery, NoValues, NoAnswer, Untouched
<1>2. Origin'
  BY DEF OpenForm, FormsInv, Shape, Origin, Below, Blank, Asked, NoQuery, NoValues, NoAnswer, Untouched
<1>3. Filled'
  BY DEF OpenForm, FormsInv, Shape, Filled, Asked, NoQuery, NoValues, NoAnswer, Untouched
<1>4. Typed'
  BY DEF OpenForm, FormsInv, Shape, Typed, Detached, NoAddress, Asked, NoQuery, NoValues, NoAnswer, Untouched, Forced
<1>5. Saving'
  BY DEF OpenForm, FormsInv, Shape, Saving, NoAddress, Asked, NoQuery, NoValues, NoAnswer, Untouched, Forced, Parsed
<1>6. Read'
  BY DEF OpenForm, FormsInv, Shape, Read, Asked, NoQuery, NoValues, NoAnswer, Untouched
<1>7. Invalidated'
  BY DEF OpenForm, FormsInv, Shape, Invalidated, Asked, NoQuery, NoValues, NoAnswer, Untouched
<1>8. Kept'
  <2>1. CASE cache.known
    <3>1. form'.v = cache.v /\ form'.typed = {}
      BY <2>1 DEF OpenForm
    <3>2. save'.st = save.st /\ save'.body = save.body /\ (save.st = "sent" => save'.over)
      BY DEF OpenForm, FormsInv, Shape
    <3>3. ~unheard /\ fetch'.st = "none" /\ "form" \notin older' => \A f \in I : cache.v[f] = row[f]
      BY <2>1 DEF OpenForm, FormsInv, Shape, Read, Asked, NoQuery
    <3> QED BY <3>1, <3>2, <3>3 DEF OpenForm, Kept, Forced
  <2>2. CASE ~cache.known
    BY <2>2 DEF OpenForm, Kept, Untouched, NoAnswer, Forced
  <2> QED BY <2>1, <2>2
<1>9. Consistent'
  BY DEF OpenForm, FormsInv, Consistent
<1> QED BY <1>1, <1>2, <1>3, <1>4, <1>5, <1>6, <1>7, <1>8, <1>9 DEF FormsInv

LEMMA LeaveFormKeeps ==
    ASSUME FormsInv, LeaveForm
    PROVE  FormsInv'
<1>0. page' = page /\ FormsInv
  BY DEF LeaveForm
<1> USE SamePage, <1>0
<1>1. Shape'
  BY DEF LeaveForm, FormsInv, Shape, NoValues, NoAnswer, Untouched
<1>2. Origin'
  BY DEF LeaveForm, FormsInv, Shape, Origin, Below, Blank, NoValues, NoAnswer, Untouched
<1>3. Filled'
  BY DEF LeaveForm, FormsInv, Shape, Filled, NoValues, NoAnswer, Untouched
<1>4. Typed'
  BY DEF LeaveForm, FormsInv, Shape, Typed, Detached, NoAddress, NoValues, NoAnswer, Untouched, Forced
<1>5. Saving'
  BY DEF LeaveForm, FormsInv, Shape, Saving, NoAddress, NoValues, NoAnswer, Untouched, Forced, Parsed
<1>6. Read'
  BY DEF LeaveForm, FormsInv, Shape, Read, NoValues, NoAnswer, Untouched
<1>7. Invalidated'
  BY DEF LeaveForm, FormsInv, Shape, Invalidated, NoValues, NoAnswer, Untouched
<1>8. Kept'
  BY DEF LeaveForm, FormsInv, Shape, Kept, NoValues, NoAnswer, Untouched, Forced
<1>9. Consistent'
  BY DEF LeaveForm, FormsInv, Consistent
<1> QED BY <1>1, <1>2, <1>3, <1>4, <1>5, <1>6, <1>7, <1>8, <1>9 DEF FormsInv

LEMMA AgesQueryKeeps ==
    ASSUME FormsInv, AgesQuery
    PROVE  FormsInv'
<1>0. page' = page /\ FormsInv
  BY DEF AgesQuery
<1> USE SamePage, <1>0
<1>1. Shape'
  BY DEF AgesQuery, FormsInv, Shape
<1>2. Origin'
  BY DEF AgesQuery, FormsInv, Shape, Origin, Below, Blank
<1>3. Filled'
  BY DEF AgesQuery, FormsInv, Shape, Filled
<1>4. Typed'
  BY DEF AgesQuery, FormsInv, Shape, Typed, Detached, NoAddress, Forced
<1>5. Saving'
  BY DEF AgesQuery, FormsInv, Shape, Saving, NoAddress, Forced, Parsed
<1>6. Read'
  BY DEF AgesQuery, FormsInv, Shape, Read
<1>7. Invalidated'
  BY DEF AgesQuery, FormsInv, Shape, Invalidated
<1>8. Kept'
  BY DEF AgesQuery, FormsInv, Shape, Kept, Forced
<1>9. Consistent'
  BY DEF AgesQuery, FormsInv, Consistent
<1> QED BY <1>1, <1>2, <1>3, <1>4, <1>5, <1>6, <1>7, <1>8, <1>9 DEF FormsInv

LEMMA QueryServeKeeps ==
    ASSUME FormsInv, QueryServe
    PROVE  FormsInv'
<1>0. page' = page /\ FormsInv
  BY DEF QueryServe
<1> USE SamePage, <1>0
<1>1. Shape'
  BY DEF QueryServe, FormsInv, Shape
<1>2. Origin'
  BY DEF QueryServe, FormsInv, Shape, Origin, Below, Blank
<1>3. Filled'
  BY DEF QueryServe, FormsInv, Shape, Filled
<1>4. Typed'
  BY DEF QueryServe, FormsInv, Shape, Typed, Detached, NoAddress, Forced
<1>5. Saving'
  BY DEF QueryServe, FormsInv, Shape, Saving, NoAddress, Forced, Parsed
<1>6. Read'
  BY DEF QueryServe, FormsInv, Shape, Read
<1>7. Invalidated'
  BY DEF QueryServe, FormsInv, Shape, Invalidated
<1>8. Kept'
  BY DEF QueryServe, FormsInv, Shape, Kept, Forced
<1>9. Consistent'
  BY DEF QueryServe, FormsInv, Consistent
<1> QED BY <1>1, <1>2, <1>3, <1>4, <1>5, <1>6, <1>7, <1>8, <1>9 DEF FormsInv

LEMMA QueryDeliverKeeps ==
    ASSUME FormsInv, QueryDeliver
    PROVE  FormsInv'
<1>0. page' = page /\ FormsInv
  BY DEF QueryDeliver
<1> USE SamePage, <1>0
<1>1. Shape'
  BY DEF QueryDeliver, FormsInv, Shape, NoQuery, NoValues, NoAnswer, Fill
<1>2. Origin'
  <2>1. \A f \in I : /\ Below(fetch'.v[f], mine, others) /\ fetch'.st # "done"
                     /\ Below(fetch.v[f], mine, others) /\ fetch.v[f] # Blank
    BY Delivered DEF FormsInv, Origin, NoQuery, NoValues, Below, Blank
  <2>2. \A f \in I : Below(fetch.v[f], mine + 1, others)
    BY <2>1 DEF Below, FormsInv, Shape
  <2>3. form' = form \/ (/\ form'.typed = {} /\ form'.filled.v = fetch.v
                         /\ \A f \in I : form'.v[f] = fetch.v[f])
    BY Delivered DEF FormsInv
  <2>4. row' = row /\ mine' = mine /\ others' = others
    BY DEF QueryDeliver
  <2> QED BY <2>1, <2>2, <2>3, <2>4, Delivered DEF FormsInv, Origin
<1>3. Filled'
  BY DEF QueryDeliver, FormsInv, Shape, Filled, NoQuery, NoValues, NoAnswer, Fill
<1>4. Typed'
  <2>1. row' = row /\ save'.st = save.st /\ save'.body = save.body
    BY Delivered DEF QueryDeliver, FormsInv
  <2>2. CASE form' = form
    BY <2>1, <2>2 DEF FormsInv, Typed, Detached, NoAddress, Forced
  <2>3. CASE /\ form'.typed = {} /\ form'.filled.v = fetch.v
             /\ \A f \in I : form'.v[f] = fetch.v[f]
    BY <2>1, <2>3 DEF Typed, Detached, Forced
  <2> QED BY <2>2, <2>3, Delivered DEF FormsInv
<1>5. Saving'
  BY DEF QueryDeliver, FormsInv, Shape, Saving, NoAddress, NoQuery, NoValues, NoAnswer, Fill, Forced, Parsed
<1>6. Read'
  BY DEF QueryDeliver, FormsInv, Shape, Read, NoQuery, NoValues, NoAnswer, Fill
<1>7. Invalidated'
  BY DEF QueryDeliver, FormsInv, Shape, Invalidated, NoQuery, NoValues, NoAnswer, Fill
<1>8. Kept'
  <2> SUFFICES ASSUME page \notin Invalidates, on, form'.filled.known PROVE Kept'
    BY DEF Kept, QueryDeliver, Forced
  <2>1. page # "alerts"
    BY DEF Invalidates, AlertsAfter
  <2>2. ~unheard /\ "form" \notin older' => \A f \in I : fetch.v[f] = row[f]
    BY Delivered DEF QueryDeliver, FormsInv, Read
  <2>3. row' = row /\ unheard' = unheard
    BY DEF QueryDeliver
  <2>4. CASE form' = form /\ form.filled.known /\ form.filled.v = fetch.v /\ save'.over = save.over
    <3>1. form.filled.known /\ form.filled.v = fetch.v /\ save'.over = save.over
      BY <2>4
    <3>2. ~unheard /\ "form" \notin older' =>
             \A f \in I : f \in form.typed \/ form.v[f] = row[f] \/ Forced(f, row, form.v)
      BY <2>1, <2>2, <3>1 DEF FormsInv, Typed, Detached, NoAddress
    <3>3. ~unheard /\ "form" \notin older' /\ save.st = "ok" =>
             \A f \in form.typed : form.v[f] # save.body[f] \/ Forced(f, row, form.v)
      BY <2>2, <3>1 DEF FormsInv, Typed, Shape
    <3>4. save.st = "sent" /\ ~save.over => \A f \in I : f \in form.typed \/ form.v[f] = save.body[f]
      BY <3>1 DEF FormsInv, Kept, Forced
    <3> QED BY <2>3, <2>4, <3>1, <3>2, <3>3, <3>4, Delivered DEF Kept, FormsInv, Forced
  <2>5. CASE /\ save.st = "sent" => save'.over
             /\ form'.typed = {} /\ \A f \in I : form'.v[f] = fetch.v[f]
    BY <2>2, <2>3, <2>5, Delivered DEF Kept, FormsInv, Forced
  <2> QED BY <2>4, <2>5, Delivered DEF FormsInv
<1>9. Consistent'
  BY DEF QueryDeliver, FormsInv, Consistent
<1> QED BY <1>1, <1>2, <1>3, <1>4, <1>5, <1>6, <1>7, <1>8, <1>9 DEF FormsInv

LEMMA QueryFailsKeeps ==
    ASSUME FormsInv, QueryFails
    PROVE  FormsInv'
<1>0. page' = page /\ FormsInv
  BY DEF QueryFails
<1> USE SamePage, <1>0
<1>1. Shape'
  BY DEF QueryFails, FormsInv, Shape, NoQuery, NoValues
<1>2. Origin'
  BY DEF QueryFails, FormsInv, Shape, Origin, Below, Blank, NoQuery, NoValues
<1>3. Filled'
  BY DEF QueryFails, FormsInv, Shape, Filled, NoQuery, NoValues
<1>4. Typed'
  BY DEF QueryFails, FormsInv, Shape, Typed, Detached, NoAddress, NoQuery, NoValues, Forced
<1>5. Saving'
  BY DEF QueryFails, FormsInv, Shape, Saving, NoAddress, NoQuery, NoValues, Forced, Parsed
<1>6. Read'
  BY DEF QueryFails, FormsInv, Shape, Read, NoQuery, NoValues
<1>7. Invalidated'
  BY DEF QueryFails, FormsInv, Shape, Invalidated, NoQuery, NoValues
<1>8. Kept'
  BY DEF QueryFails, FormsInv, Shape, Kept, NoQuery, NoValues, Forced
<1>9. Consistent'
  BY DEF QueryFails, FormsInv, Consistent
<1> QED BY <1>1, <1>2, <1>3, <1>4, <1>5, <1>6, <1>7, <1>8, <1>9 DEF FormsInv

LEMMA TypeItemsKeeps ==
    ASSUME FormsInv, TypeItems
    PROVE  FormsInv'
<1>0. page' = page /\ FormsInv
  BY DEF TypeItems
<1>a. PICK S \in SUBSET I :
         /\ form'.typed = form.typed \cup S /\ form'.filled = form.filled
         /\ DOMAIN form' = {"v", "typed", "filled"}
         /\ \A f \in S : form'.v[f] = <<"mine", mine>>
         /\ \A f \in I \ S : form'.v[f] = form.v[f]
  BY TypedItems, <1>0 DEF FormsInv
<1>b. on /\ row' = row /\ cache' = cache /\ stale' = stale /\ fetch' = fetch /\ on' = on /\ save' = save
      /\ mine' = mine /\ others' = others /\ unheard' = unheard /\ older' = older /\ blind' = blind
  BY DEF TypeItems, Ready
<1> USE SamePage, <1>0
<1>1. Shape'
  BY <1>a, <1>b DEF FormsInv, Shape
<1>2. Origin'
  <2>1. \A f \in S : /\ Below(form'.v[f], mine + 1, others) /\ form'.v[f] # Blank
                     /\ form'.v[f][1] = "mine"
    BY <1>a DEF FormsInv, Shape, Below, Blank
  <2>2. \A f \in S : form'.v[f] # form'.filled.v[f]
    BY <1>a DEF FormsInv, Shape, Origin, Below
  <2>3. \A f \in I : Below(form'.v[f], mine + 1, others) /\ (form'.filled.known => form'.v[f] # Blank)
    BY <1>a, <2>1 DEF FormsInv, Origin
  <2>4. \A f \in form'.typed : form'.v[f][1] = "mine" /\ form'.v[f] # form'.filled.v[f]
    BY <1>a, <2>1, <2>2 DEF FormsInv, Origin, Shape
  <2> QED BY <1>a, <1>b, <2>3, <2>4 DEF FormsInv, Origin
<1>3. Filled'
  BY <1>a, <1>b DEF FormsInv, Filled
<1>4. Typed'
  <2>1. \A f \in S : form'.v[f] # save.body[f]
    BY <1>a DEF FormsInv, Shape, Origin, Below
  <2> QED BY <1>a, <1>b, <2>1 DEF FormsInv, Shape, Typed, Detached, NoAddress, Forced
<1>5. Saving'
  BY DEF TypeItems, FormsInv, Shape, Saving, NoAddress, Forced, Parsed
<1>6. Read'
  BY DEF TypeItems, FormsInv, Shape, Read
<1>7. Invalidated'
  BY DEF TypeItems, FormsInv, Shape, Invalidated
<1>8. Kept'
  <2>1. \A f \in S : form'.v[f] # save.body[f]
    BY <1>a DEF FormsInv, Shape, Origin, Below
  <2> QED BY <1>a, <1>b, <2>1 DEF FormsInv, Shape, Kept, Forced
<1>9. Consistent'
  BY DEF TypeItems, FormsInv, Consistent
<1> QED BY <1>1, <1>2, <1>3, <1>4, <1>5, <1>6, <1>7, <1>8, <1>9 DEF FormsInv

LEMMA SubmitKeeps ==
    ASSUME FormsInv, Submit
    PROVE  FormsInv'
<1>0. page' = page /\ FormsInv
  BY DEF Submit
<1> USE SamePage, <1>0
<1>1. Shape'
  BY DEF Submit, FormsInv, Shape
<1>2. Origin'
  BY DEF Submit, FormsInv, Shape, Origin, Below, Blank
<1>3. Filled'
  BY DEF Submit, FormsInv, Shape, Filled
<1>4. Typed'
  <2>1. form' = form /\ row' = row
    BY DEF Submit
  <2>2. \A f \in I : save'.body[f] = form.v[f] \/ NoAddress(f, save'.body)
    BY Sent DEF FormsInv, NoAddress
  <2> QED BY <2>1, <2>2, Sent DEF FormsInv, Typed, Detached, NoAddress, Forced
<1>5. Saving'
  <2> SUFFICES ASSUME ~blind' PROVE Saving'
    BY DEF Saving, Forced, Parsed
  <2>1. form.filled.known /\ form.filled = cache /\ row' = row
    BY DEF Submit, Ready, FormsInv, Filled
  <2>2. \A f \in I : form.filled.v[f] # Blank
    BY <2>1 DEF FormsInv, Origin
  <2>3. ASSUME \A f \in I : row[f] = form.filled.v[f], NEW f \in I
        PROVE  \/ f \in form.typed \/ save'.body[f] = form.filled.v[f]
               \/ NoAddress(f, save'.body) \/ Forced(f, form.filled.v, Parsed(save'.body))
    <3>1. save'.body[f] = form.v[f] \/ NoAddress(f, save'.body)
      BY Sent DEF FormsInv, NoAddress
    <3>2. ASSUME NoAddress(f, row), ~NoAddress(f, form.v) PROVE FALSE
      <4>1. page = "alerts" /\ "channel" \in I /\ Webhook(form.v) /\ ~Webhook(row)
        BY <3>2, Sent DEF NoAddress, FormsInv
      <4>2. "channel" \notin form.typed
        BY <4>1 DEF FormsInv, Origin, Webhook
      <4>3. form.v["channel"] = form.filled.v["channel"]
        BY <2>1, <2>3, <4>1, <4>2 DEF FormsInv, Typed, Detached, NoAddress, Forced
      <4> QED BY <2>3, <4>1, <4>3 DEF Webhook
    <3>3. \/ f \in form.typed \/ form.v[f] = form.filled.v[f] \/ NoAddress(f, row)
          \/ Forced(f, row, form.v)
      BY <2>1, <2>3 DEF FormsInv, Typed, Detached, Forced
    <3>4. NoAddress(f, form.v) => NoAddress(f, save'.body)
      BY Sent DEF FormsInv, NoAddress
    <3>5. Forced(f, row, form.v) => Forced(f, form.filled.v, Parsed(save'.body))
      <4> SUFFICES ASSUME Forced(f, row, form.v) PROVE Forced(f, form.filled.v, Parsed(save'.body))
        OBVIOUS
      <4>1. "mfa_required_for_all" \in I /\ page \notin Invalidates
        BY DEF Forced, I, Settings, SecurityItems, Invalidates, FailoverAfter, OutputAfter, AlertsAfter
      <4>2. save'.body[f] = form.v[f] /\ form.v[f] # Blank
        BY <2>1, <4>1, Sent DEF FormsInv, Origin
      <4>3. Parsed(save'.body)[f] = form.v[f]
        BY <4>2 DEF Parsed
      <4> QED BY <2>3, <4>1, <4>3 DEF Forced
    <3> QED BY <3>1, <3>2, <3>3, <3>4, <3>5
  <2>4. Parsed(save.body)' = Parsed(save'.body)
    BY DEF Parsed
  <2> QED BY <2>1, <2>2, <2>3, <2>4, Sent DEF FormsInv, Saving, NoAddress, Forced, Parsed
<1>6. Read'
  BY DEF Submit, FormsInv, Shape, Read
<1>7. Invalidated'
  BY DEF Submit, FormsInv, Shape, Invalidated
<1>8. Kept'
  BY Sent DEF Submit, FormsInv, Kept, Forced
<1>9. Consistent'
  BY DEF Submit, FormsInv, Consistent
<1> QED BY <1>1, <1>2, <1>3, <1>4, <1>5, <1>6, <1>7, <1>8, <1>9 DEF FormsInv

LEMMA StoreSettingsKeeps ==
    ASSUME FormsInv, StoreSettings
    PROVE  FormsInv'
<1>0. page' = page /\ FormsInv
  BY DEF StoreSettings
<1> USE SamePage, <1>0
<1>1. Shape'
  BY DEF StoreSettings, FormsInv, Shape
<1>2. Origin'
  <2>1. \A f \in I : Below(row'[f], mine, others) /\ row'[f] # Blank
    <3>1. CASE save'.st = "ok"
      <4>1. \A f \in I : \/ row'[f] = save.body[f] /\ save.body[f] # Blank
                         \/ row'[f] \in {<<"zero", 0>>, row[f], On}
        BY <3>1, Stored DEF StoredOf, FormsInv
      <4> QED BY <4>1 DEF FormsInv, Origin, Below, Blank, On
    <3>2. CASE save'.st # "ok"
      BY <3>2 DEF StoreSettings, FormsInv, Shape, Origin
    <3> QED BY <3>1, <3>2
  <2>2. UNCHANGED <<cache, fetch, form, mine, others>> /\ save'.body = save.body /\ save'.base = save.base
    BY DEF StoreSettings, FormsInv, Shape
  <2> QED BY <2>1, <2>2 DEF FormsInv, Origin
<1>3. Filled'
  BY DEF StoreSettings, FormsInv, Shape, Filled
<1>4. Typed'
  <2>1. form' = form /\ DOMAIN form = {"v", "typed", "filled"} /\ save.st = "sent" /\ save'.body = save.body
    BY DEF StoreSettings, FormsInv, Shape
  <2>2. CASE save'.st = "ok"
    <3>1. \A f \in form.typed : form.v[f] # Blank
      BY DEF FormsInv, Origin, Blank
    <3>a. \A f \in I : form.v[f] = save.body[f] /\ form.v[f] # Blank =>
                        row'[f] = form.v[f] \/ Forced(f, row', form.v)
      <4>1. \A f \in I : form.v[f] = save.body[f] /\ form.v[f] # Blank => Parsed(save.body)[f] = form.v[f]
        BY <2>2, Stored DEF StoredOf, FormsInv
      <4> QED BY <2>2, <4>1, Stored DEF StoredOf, FormsInv, Forced
    <3>2. \A f \in I : Detached(f) /\ form.filled.known =>
                        row'[f] # form.filled.v[f] \/ NoAddress(f, row') \/ Forced(f, row', form.v)
      <4>1. \A f \in I : Detached(f) /\ form.filled.known =>
                         (save.body[f] = form.v[f] \/ NoAddress(f, save.body)) /\ form.v[f] # Blank
        BY <2>1 DEF FormsInv, Typed, Origin
      <4>2. \A f \in I : NoAddress(f, save.body) => NoAddress(f, row')
        BY <2>2, Stored DEF StoredOf, FormsInv
      <4> QED BY <3>a, <4>1, <4>2 DEF Detached
    <3>3. \A f \in form.typed : form.v[f] = save.body[f] =>
                               row'[f] # form.filled.v[f] \/ Forced(f, row', form.v)
      BY <3>1, <3>a DEF FormsInv, Shape, Origin
    <3> QED BY <2>1, <2>2, <3>2, <3>3 DEF Typed, Detached, NoAddress, Forced
  <2>3. CASE save'.st # "ok"
    BY <2>1, <2>3 DEF StoreSettings, FormsInv, Shape, Typed, Detached, NoAddress, Forced
  <2> QED BY <2>2, <2>3
<1>5. Saving'
  BY DEF StoreSettings, FormsInv, Shape, Saving, NoAddress, Forced, Parsed
<1>6. Read'
  BY DEF StoreSettings, FormsInv, Shape, Read
<1>7. Invalidated'
  BY DEF StoreSettings, FormsInv, Shape, Invalidated
<1>8. Kept'
  <2>1. form' = form /\ save.st = "sent" /\ save'.body = save.body /\ fetch' = fetch /\ on' = on
        /\ unheard' = unheard
    BY DEF StoreSettings, FormsInv, Shape
  <2>2. CASE save'.st = "ok"
    <3>1. \A f \in form.typed : form.v[f] # Blank
      BY DEF FormsInv, Origin, Blank
    <3>2. "form" \notin older' => ~save.over
      BY <2>2 DEF StoreSettings, FormsInv, Shape
    <3>3. form.filled.known => \A f \in I : form.v[f] = save.body[f] =>
                                            row'[f] = form.v[f] \/ Forced(f, row', form.v)
      <4>1. form.filled.known => \A f \in I : form.v[f] = save.body[f] => Parsed(save.body)[f] = form.v[f]
        BY <2>2, Stored DEF StoredOf, FormsInv, Origin
      <4> QED BY <2>2, <4>1, Stored DEF StoredOf, FormsInv, Forced
    <3> QED BY <2>1, <2>2, <3>2, <3>3 DEF FormsInv, Shape, Kept, Forced
  <2>3. CASE save'.st # "ok"
    BY <2>1, <2>3 DEF StoreSettings, FormsInv, Shape, Kept, Forced
  <2> QED BY <2>2, <2>3
<1>9. Consistent'
  <2>1. save'.st # "ok" => row' = row
    BY DEF StoreSettings, FormsInv, Shape
  <2> QED BY <2>1, Stored DEF StoredOf, FormsInv, Consistent
<1> QED BY <1>1, <1>2, <1>3, <1>4, <1>5, <1>6, <1>7, <1>8, <1>9 DEF FormsInv

LEMMA SaveHeardKeeps ==
    ASSUME FormsInv, SaveHeard
    PROVE  FormsInv'
<1>0. page' = page /\ FormsInv
  BY DEF SaveHeard
<1>a. /\ form'.v = form.v /\ form'.filled = form.filled /\ form'.typed \subseteq form.typed
      /\ DOMAIN form' = {"v", "typed", "filled"}
      /\ \A f \in form.typed \ form'.typed : save.st = "ok" /\ form.v[f] = save.body[f]
      /\ save.st = "ok" => \A f \in form'.typed : form.v[f] # save.body[f]
      /\ ~on => form' = Untouched
  BY Heard, <1>0 DEF FormsInv
<1>b. /\ save' = NoSave /\ save.st \in {"ok", "error"}
      /\ row' = row /\ cache' = cache /\ on' = on /\ mine' = mine /\ others' = others
      /\ fetch' = fetch \/ fetch' = Asked
  BY DEF SaveHeard
<1> USE SamePage, <1>0
<1>1. Shape'
  BY DEF SaveHeard, FormsInv, Shape, Asked, NoQuery, NoSave, NoValues
<1>2. Origin'
  <2>1. \A f \in I : /\ Below(fetch'.v[f], mine, others) /\ (fetch'.st = "done" => fetch'.v[f] # Blank)
    BY <1>b DEF FormsInv, Origin, Below, Blank, Asked, NoQuery, NoValues
  <2>2. \A f \in I : Below(save'.body[f], mine, others) /\ Below(save'.base[f], mine, others)
    BY <1>b DEF NoSave, NoValues, Below, Blank
  <2> QED BY <1>a, <1>b, <2>1, <2>2 DEF FormsInv, Origin
<1>3. Filled'
  BY <1>a, <1>b DEF FormsInv, Filled
<1>4. Typed'
  BY DEF SaveHeard, FormsInv, Shape, Typed, Detached, NoAddress, Asked, NoQuery, NoSave, NoValues, Forced
<1>5. Saving'
  BY DEF SaveHeard, FormsInv, Shape, Saving, NoAddress, Asked, NoQuery, NoSave, NoValues, Forced, Parsed
<1>6. Read'
  BY DEF SaveHeard, FormsInv, Shape, Read, Asked, NoQuery, NoSave, NoValues
<1>7. Invalidated'
  BY DEF SaveHeard, FormsInv, Shape, Invalidated, Asked, NoQuery, NoSave, NoValues
<1>8. Kept'
  BY DEF SaveHeard, FormsInv, Shape, Kept, Asked, NoQuery, NoSave, NoValues, Forced
<1>9. Consistent'
  BY DEF SaveHeard, FormsInv, Consistent
<1> QED BY <1>1, <1>2, <1>3, <1>4, <1>5, <1>6, <1>7, <1>8, <1>9 DEF FormsInv

LEMMA SaveLostKeeps ==
    ASSUME FormsInv, SaveLost
    PROVE  FormsInv'
<1>0. page' = page /\ FormsInv
  BY DEF SaveLost
<1> USE SamePage, <1>0
<1>1. Shape'
  BY DEF SaveLost, FormsInv, Shape, NoSave, NoValues
<1>2. Origin'
  BY DEF SaveLost, FormsInv, Shape, Origin, Below, Blank, NoSave, NoValues
<1>3. Filled'
  BY DEF SaveLost, FormsInv, Shape, Filled, NoSave, NoValues
<1>4. Typed'
  BY DEF SaveLost, FormsInv, Shape, Typed, Detached, NoAddress, NoSave, NoValues, Forced
<1>5. Saving'
  BY DEF SaveLost, FormsInv, Shape, Saving, NoAddress, NoSave, NoValues, Forced, Parsed
<1>6. Read'
  BY DEF SaveLost, FormsInv, Shape, Read, NoSave, NoValues
<1>7. Invalidated'
  BY DEF SaveLost, FormsInv, Shape, Invalidated, NoSave, NoValues
<1>8. Kept'
  BY DEF SaveLost, FormsInv, Shape, Kept, NoSave, NoValues, Forced
<1>9. Consistent'
  BY DEF SaveLost, FormsInv, Consistent
<1> QED BY <1>1, <1>2, <1>3, <1>4, <1>5, <1>6, <1>7, <1>8, <1>9 DEF FormsInv

LEMMA OthersSaveKeeps ==
    ASSUME FormsInv, OthersSave
    PROVE  FormsInv'
<1>0. page' = page /\ FormsInv
  BY DEF OthersSave
<1> USE SamePage, <1>0
<1>1. Shape'
  BY DEF OthersSave, FormsInv, Shape
<1>2. Origin'
  BY DEF OthersSave, FormsInv, Shape, Origin, Below, Blank
<1>3. Filled'
  BY DEF OthersSave, FormsInv, Shape, Filled
<1>4. Typed'
  <2>1. \A f \in I : row'[f] # form.filled.v[f]
    BY DEF OthersSave, FormsInv, Shape, Origin, Below
  <2> QED BY <2>1 DEF OthersSave, FormsInv, Shape, Typed, Detached, NoAddress, Forced
<1>5. Saving'
  <2>1. \A f \in I : row'[f] # save.base[f]
    BY DEF OthersSave, FormsInv, Shape, Origin, Below
  <2>2. I # {}
    BY Items DEF FormsInv, Shape
  <2> QED BY <2>1, <2>2 DEF OthersSave, FormsInv, Saving, NoAddress, Forced, Parsed
<1>6. Read'
  BY DEF OthersSave, FormsInv, Shape, Read
<1>7. Invalidated'
  BY DEF OthersSave, FormsInv, Shape, Invalidated
<1>8. Kept'
  BY DEF OthersSave, FormsInv, Shape, Kept, Forced
<1>9. Consistent'
  <2>1. page = "security" => "mfa_enabled" \in I /\ "mfa_required_for_all" \in I
    BY DEF I, Settings, SecurityItems
  <2>2. others' \in 0 .. MaxOthers
    BY FormsAssumption DEF OthersSave, FormsInv, Shape, FormsAssumption
  <2> QED BY <2>1, <2>2, FormsAssumption DEF OthersSave, Consistent, FormsAssumption
<1> QED BY <1>1, <1>2, <1>3, <1>4, <1>5, <1>6, <1>7, <1>8, <1>9 DEF FormsInv

-----------------------------------------------------------------------------
(* The theorems.                                                              *)

LEMMA FormsStep == FormsInv /\ [FormsNext]_formVars => FormsInv'
<1> SUFFICES ASSUME FormsInv, [FormsNext]_formVars PROVE FormsInv'
  OBVIOUS
<1>1. CASE UNCHANGED formVars
  <2>1. page' = page
    BY <1>1 DEF formVars
  <2>2. I' = I /\ NoAnswer' = NoAnswer /\ Untouched' = Untouched
    BY <2>1, SamePage
  <2> QED BY <1>1, <2>2 DEF formVars, FormsInv, Shape, Origin, Consistent, Filled, Typed, Detached,
       NoAddress, Forced, Parsed, Saving, Read, Invalidated, Kept
<1> QED BY <1>1, OpenFormKeeps, LeaveFormKeeps, AgesQueryKeeps, QueryServeKeeps, QueryDeliverKeeps,
     QueryFailsKeeps, TypeItemsKeeps, SubmitKeeps, StoreSettingsKeeps, SaveHeardKeeps, SaveLostKeeps,
     OthersSaveKeeps DEF FormsNext, Requests

\* Every reachable state of a settings page satisfies the invariant.
THEOREM FormsInvThm == FormsSpec => []FormsInv
BY FormsStart, FormsStep, PTL DEF FormsSpec

\* A form at rest shows what the server stores, but for what is being typed:
\* whatever order opening, fetching, typing, saving and the saves of others
\* come in, and however many there are.
THEOREM ShowsThm == FormsSpec => []FormShowsRecord
<1>1. FormsInv => FormShowsRecord
  <2> SUFFICES ASSUME FormsInv, on, form.filled.known, fetch.st = "none", save.st = "none", ~unheard,
                      page \in Invalidates \/ "form" \notin older, NEW f \in I
               PROVE  \/ f \in form.typed \/ form.v[f] = row[f]
                      \/ (page = "alerts" /\ f = "webhook_url" /\ ~Webhook(row))
                      \/ (page = "security" /\ f = "mfa_enabled" /\ form.v[f] \notin EnabledOn
                          /\ row["mfa_required_for_all"] \in RequiredOn)
    BY DEF FormShowsRecord
  <2>1. CASE page \in Invalidates
    <3>1. form.filled.v[f] = row[f]
      BY <2>1 DEF FormsInv, Filled, Invalidated
    <3> QED BY <3>1 DEF FormsInv, Typed, Detached, NoAddress, Forced
  <2>2. CASE page \notin Invalidates
    BY <2>2 DEF FormsInv, Kept, Forced
  <2> QED BY <2>1, <2>2
<1> QED BY <1>1, FormsInvThm, PTL

\* The server's record changes by a save of this page only where it was typed.
THEOREM SaveThm == FormsSpec => SaveChangesWhatWasTyped
<1>1. FormsInv /\ [FormsNext]_formVars =>
        (save.st = "sent" /\ row' # row /\ others' = others /\ row = save.base /\ ~blind =>
           \A f \in I : \/ row'[f] = row[f] \/ f \in save.typed
                        \/ page = "alerts" /\ f = "webhook_url" /\ ~Webhook(row')
                        \/ page = "security" /\ f = "mfa_enabled"
                           /\ "mfa_required_for_all" \in save.typed)
  <2> SUFFICES ASSUME FormsInv, [FormsNext]_formVars, save.st = "sent", row' # row, others' = others,
                      row = save.base, ~blind, NEW f \in I
               PROVE  \/ row'[f] = row[f] \/ f \in save.typed
                      \/ page = "alerts" /\ f = "webhook_url" /\ ~Webhook(row')
                      \/ page = "security" /\ f = "mfa_enabled"
                         /\ "mfa_required_for_all" \in save.typed
    OBVIOUS
  <2>1. StoreSettings
    <3>1. ~OthersSave
      BY DEF OthersSave, FormsInv, Shape
    <3> QED BY <3>1 DEF FormsNext, Requests, formVars, OpenForm, LeaveForm, AgesQuery, TypeItems, Submit,
         QueryServe, QueryDeliver, SaveHeard, QueryFails, SaveLost
  <2>2. save'.st = "ok"
    BY <2>1 DEF StoreSettings, FormsInv, Shape
  <2> DEFINE z == Parsed(save.body)
             all == "mfa_required_for_all"
  <2>3. \A g \in I : \/ g \in save.typed \/ save.body[g] = row[g] \/ NoAddress(g, save.body)
                     \/ Forced(g, row, z)
    BY DEF FormsInv, Saving
  <2>4. \A g \in I : row[g] # Blank
    BY DEF FormsInv, Origin
  <2>5. /\ \A g \in I : \/ row'[g] = z[g]
                        \/ /\ Forced(g, row', z)
                           /\ row'[g] = IF row[g] \in EnabledOn THEN row[g] ELSE On
        /\ \A g \in I : z[g] = IF save.body[g] = Blank THEN <<"zero", 0>> ELSE save.body[g]
        /\ page = "security" => row'[all] = z[all] /\ all \in I
        /\ \A g \in I : NoAddress(g, save.body) => NoAddress(g, row')
        /\ Consistent'
    <3>1. StoredOf(z)
      BY <2>1, <2>2, Stored DEF FormsInv
    <3> HIDE DEF z
    <3> QED BY <3>1 DEF StoredOf
  <2> HIDE DEF z
  <2>6. CASE ~(page = "security" /\ f = "mfa_enabled")
    BY <2>3, <2>4, <2>5, <2>6 DEF NoAddress, Forced
  <2>7. CASE page = "security" /\ f = "mfa_enabled" /\ all \notin save.typed
    <3>1. z[all] = row[all]
      BY <2>3, <2>4, <2>5, <2>7 DEF NoAddress, Forced
    <3>2. row[all] \in RequiredOn => row[f] \in EnabledOn
      BY <2>7 DEF FormsInv, Consistent
    <3>3. row'[f] = z[f] \/ (row[all] \in RequiredOn /\ row'[f] = row[f])
      BY <2>5, <2>7, <3>1, <3>2 DEF Forced
    <3>4. row[all] \in RequiredOn => row'[f] \in EnabledOn
      BY <2>1, <2>5, <2>7, <3>1 DEF Consistent, StoreSettings
    <3>5. CASE Forced(f, row, z)
      BY <3>3, <3>4, <3>5 DEF Forced
    <3>6. CASE save.body[f] = row[f]
      BY <2>4, <2>5, <3>3, <3>6
    <3> QED BY <2>3, <2>7, <3>5, <3>6 DEF NoAddress
  <2> QED BY <2>6, <2>7
<1> QED BY <1>1, FormsInvThm, PTL DEF FormsSpec, SaveChangesWhatWasTyped

-----------------------------------------------------------------------------
(* The hot reload: ConfigRuntime.                                             *)

USE ConfigAssumption DEF ConfigAssumption

-----------------------------------------------------------------------------
(* Types.                                                                     *)

LEMMA Constants ==
    /\ EmptySnapshot \in Snapshots /\ NoReload \in Reloads /\ NoHandler \in Handlers
<1>1. EmptySnapshot \in Snapshots
  BY DEF EmptySnapshot, Snapshots, Values
<1> QED BY <1>1 DEF NoReload, Reloads, NoHandler, Handlers

LEMMA InitTypes == ConfigInit => ConfigTypeOK
<1> SUFFICES ASSUME ConfigInit PROVE ConfigTypeOK
  OBVIOUS
<1>1. cfg \in Snapshots /\ cfg["apikeys"] # Empty /\ cfg["settings"] # Empty /\ counter \in Nat
  BY DEF ConfigInit, Snapshots, Values, Tables, Empty
<1>2. versions \in Seq(Snapshots)
  <2>1. versions = <<>> \/ versions = <<cfg>> \/ versions = <<EmptySnapshot>>
    BY DEF ConfigInit
  <2>2. ASSUME NEW S, NEW c \in S PROVE <<>> \in Seq(S) /\ <<c>> \in Seq(S)
    OBVIOUS
  <2> QED BY <1>1, <2>1, <2>2, Constants
<1>3. snap \in [Inst -> Snapshots] /\ count \in [Inst -> Nat] /\ status \in [Inst -> {"new", "ok", "error"}]
  BY <1>1, Constants DEF ConfigInit
<1>4. trig \in [Inst -> BOOLEAN] /\ rl \in [Inst -> Reloads] /\ hs \in [Admins -> Handlers]
  BY Constants DEF ConfigInit
<1>5. ops \in Nat /\ crashes \in Nat /\ errors \in Nat
  <2>1. ops \in 0 .. MaxOps /\ crashes \in {0, MaxCrashes} /\ errors \in {0, MaxErrors}
    BY DEF ConfigInit
  <2> QED BY <2>1
<1>6. lost \in BOOLEAN
  BY DEF ConfigInit
<1> QED BY <1>1, <1>2, <1>3, <1>4, <1>5, <1>6 DEF ConfigTypeOK

\* A reload that goes on is still a reload.
LEMMA Moves ==
    ASSUME NEW r \in Reloads, NEW pc \in {"record", "meta", "swap"} \cup Tables
    PROVE  [r EXCEPT !.pc = pc] \in Reloads
BY DEF Reloads

LEMMA ReloadTypes ==
    ASSUME ConfigTypeOK, NEW i \in Inst, NEW by \in {"loop", "handler"},
           NEW start \in {counter, 0}, Reload(i, by, start)
    PROVE  rl' \in [Inst -> Reloads]
<1>1. ASSUME NEW n \in Nat PROVE [NoReload EXCEPT !.pc = "aliases", !.by = by, !.start = n] \in Reloads
  BY Constants DEF Reloads, Tables
<1>2. start \in Nat
  BY DEF ConfigTypeOK
<1> QED BY <1>1, <1>2 DEF ConfigTypeOK, Reload

\* The failures that are counted.
LEMMA FailsTypes ==
    ASSUME ConfigTypeOK
    PROVE  /\ Fails => errors' \in Nat
           /\ \A seen, start : currentMeta(seen, start) => errors' \in Nat
BY DEF ConfigTypeOK, Fails, currentMeta

LEMMA ReadTypes ==
    ASSUME ConfigTypeOK, NEW i \in Inst, ReadTable(i)
    PROVE  rl' \in [Inst -> Reloads] /\ errors' \in Nat
<1> DEFINE t == rl[i].pc
           next == After[t]
<1>1. rl[i] \in Reloads /\ t \in Tables /\ rl[i].read \in Snapshots /\ rl[i].errs \in BOOLEAN
  BY DEF ReadTable, ConfigTypeOK, Reloads
<1>2. next \in {"swap"} \cup Tables
  BY <1>1 DEF After, Tables
<1>3. Empty \in Values /\ cfg[t] \in Values
  BY <1>1 DEF ConfigTypeOK, Values, Snapshots
<1>4. ASSUME NEW v \in Values, NEW e \in BOOLEAN
      PROVE  [rl[i] EXCEPT !.read[t] = v, !.errs = e, !.pc = next] \in Reloads
  <2> HIDE DEF t, next
  <2>1. [rl[i].read EXCEPT ![t] = v] \in Snapshots
    BY <1>1 DEF Snapshots
  <2> QED BY <1>1, <1>2, <2>1 DEF Reloads
<1>5. PICK v \in Values, e \in BOOLEAN :
          rl' = [rl EXCEPT ![i] = [rl[i] EXCEPT !.read[t] = v, !.errs = e, !.pc = next]]
  <2>1. PICK v \in Values, f \in BOOLEAN :
            rl' = [rl EXCEPT ![i].read[t] = v, ![i].errs = @ \/ f, ![i].pc = After[t]]
    BY <1>1, <1>3 DEF ReadTable
  <2> QED BY <1>1, <2>1 DEF ConfigTypeOK
<1>6. errors' \in Nat
  BY FailsTypes DEF ReadTable, ConfigTypeOK
<1> HIDE DEF t, next
<1> QED BY <1>4, <1>5, <1>6 DEF ConfigTypeOK

\* The steps of a reload keep the types.
LEMMA RunsTypes ==
    ASSUME ConfigTypeOK, NEW i \in Inst, Runs(i)
    PROVE  ConfigTypeOK'
<1>0. rl[i] \in Reloads
  BY DEF ConfigTypeOK
<1>1. CASE Loop(i)
  <2>1. rl' \in [Inst -> Reloads] /\ errors' \in Nat
    BY <1>1, ReloadTypes, FailsTypes DEF Loop, MayReload, ConfigTypeOK
  <2> QED BY <1>1, <2>1 DEF Loop, ConfigTypeOK, dbVars
<1>2. CASE ReadTable(i)
  <2>1. rl' \in [Inst -> Reloads] /\ errors' \in Nat
    BY <1>2, ReadTypes
  <2> QED BY <1>2, <2>1 DEF ReadTable, ConfigTypeOK, dbVars
<1>3. CASE Swap(i)
  <2>1. [rl[i] EXCEPT !.pc = "record"] \in Reloads /\ rl[i].read \in Snapshots /\ rl[i].start \in Nat
    BY <1>0, Moves DEF Reloads
  <2>2. rl' \in [Inst -> Reloads] /\ snap' \in [Inst -> Snapshots] /\ count' \in [Inst -> Nat]
    BY <1>3, <2>1 DEF Swap, ConfigTypeOK
  <2>3. status' \in [Inst -> {"new", "ok", "error"}]
    BY <1>3 DEF Swap, ConfigTypeOK
  <2> QED BY <1>3, <2>2, <2>3 DEF Swap, ConfigTypeOK, dbVars
<1>4. CASE RecordVersion(i)
  <2>1. \A v \in Snapshots : Append(IF Len(versions) < 2 THEN versions ELSE Tail(versions), v) \in Seq(Snapshots)
    <3>1. ASSUME NEW S, NEW q \in Seq(S), NEW v \in S
          PROVE  Append(IF Len(q) < 2 THEN q ELSE Tail(q), v) \in Seq(S)
      OBVIOUS
    <3> QED BY <3>1 DEF ConfigTypeOK
  <2>2. versions' \in Seq(Snapshots) /\ errors' \in Nat
    BY <1>4, <2>1, Constants, FailsTypes DEF RecordVersion, ConfigTypeOK
  <2>3. rl' \in [Inst -> Reloads]
    BY <1>0, <1>4, Moves DEF RecordVersion, ConfigTypeOK
  <2> QED BY <1>4, <2>2, <2>3 DEF RecordVersion, ConfigTypeOK
<1>5. CASE MetaLoad(i)
  <2>1. ASSUME NEW c \in Nat PROVE [rl[i] EXCEPT !.pc = "save", !.meta = c] \in Reloads
    BY <1>0 DEF Reloads
  <2>2. PICK c \in {counter, 0} : currentMeta(c, c) /\ rl' = [rl EXCEPT ![i].pc = "save", ![i].meta = c]
    BY <1>5 DEF MetaLoad
  <2>3. c \in Nat
    BY DEF ConfigTypeOK
  <2>4. rl' \in [Inst -> Reloads] /\ errors' \in Nat
    BY <2>1, <2>2, <2>3, FailsTypes DEF ConfigTypeOK
  <2> QED BY <1>5, <2>4 DEF MetaLoad, ConfigTypeOK, dbVars
<1>6. CASE MetaSave(i)
  <2>1. rl[i].meta \in Nat
    BY <1>0 DEF Reloads
  <2>2. counter' \in Nat /\ errors' \in Nat /\ lost' \in BOOLEAN
    BY <1>6, <2>1, FailsTypes DEF MetaSave, ConfigTypeOK
  <2> QED BY <1>6, <2>2, Constants DEF MetaSave, ConfigTypeOK
<1> QED BY <1>1, <1>2, <1>3, <1>4, <1>5, <1>6 DEF Runs, ReloadStep

LEMMA BeginTypes ==
    ASSUME ConfigTypeOK, NEW a \in Admins, NEW i \in Inst, NEW op \in Ops,
           NEW pc \in {"restore", "bump"}, NEW target \in Snapshots, Begin(a, i, op, pc, target)
    PROVE  hs' \in [Admins -> Handlers] /\ ops' \in Nat
<1>1. [NoHandler EXCEPT !.pc = pc, !.op = op, !.at = i, !.target = target] \in Handlers
  BY Constants DEF Handlers
<1> QED BY <1>1 DEF ConfigTypeOK, Begin

\* The handlers keep the types.
LEMMA StartsTypes ==
    ASSUME ConfigTypeOK, NEW a \in Admins, NEW i \in Inst, Starts(a, i)
    PROVE  ConfigTypeOK'
<1>1. CASE Write(a, i)
  <2>1. hs' \in [Admins -> Handlers] /\ ops' \in Nat
    BY <1>1, BeginTypes, Constants DEF Write, Ops
  <2>2. ops' \in Values /\ ops' # Empty
    BY <2>1 DEF Values, Empty
  <2>3. cfg' \in Snapshots /\ cfg'["apikeys"] # Empty /\ cfg'["settings"] # Empty
    BY <1>1, <2>2 DEF Write, ConfigTypeOK, Snapshots
  <2> QED BY <1>1, <2>1, <2>3 DEF Write, ConfigTypeOK, instVars
<1>2. CASE reloadConfig(a, i)
  <2>1. hs' \in [Admins -> Handlers] /\ ops' \in Nat
    BY <1>2, BeginTypes, Constants DEF reloadConfig, Ops
  <2> QED BY <1>2, <2>1 DEF reloadConfig, ConfigTypeOK, instVars, dbVars
<1>3. CASE Rollback(a, i)
  <2>1. versions[1] \in Snapshots
    <3>1. ASSUME NEW S, NEW q \in Seq(S), Len(q) = 2 PROVE q[1] \in S
      BY <3>1
    <3> QED BY <1>3, <3>1 DEF Rollback, ConfigTypeOK
  <2>2. hs' \in [Admins -> Handlers] /\ ops' \in Nat
    BY <1>3, <2>1, BeginTypes DEF Rollback, Ops
  <2> QED BY <1>3, <2>2 DEF Rollback, ConfigTypeOK, instVars, dbVars
<1> QED BY <1>1, <1>2, <1>3 DEF Starts

LEMMA HandleTypes ==
    ASSUME ConfigTypeOK, NEW a \in Admins, Handle(a)
    PROVE  ConfigTypeOK'
<1>0. hs[a] \in Handlers /\ hs[a].at \in Inst /\ hs[a].target \in Snapshots /\ hs[a].meta \in Nat
  BY DEF ConfigTypeOK, Handlers
<1>1. [hs[a] EXCEPT !.pc = "load"] \in Handlers /\ [hs[a] EXCEPT !.pc = "bump"] \in Handlers
  BY <1>0 DEF Handlers
<1>2. CASE RestoreBundle(a)
  <2>1. cfg' \in Snapshots /\ cfg'["apikeys"] # Empty /\ cfg'["settings"] # Empty
    <3>1. cfg \in Snapshots /\ cfg["apikeys"] # Empty /\ cfg["settings"] # Empty
      BY DEF ConfigTypeOK
    <3>2. ASSUME NEW b \in Snapshots
          PROVE  Restored(b) \in Snapshots /\ Restored(b)["apikeys"] # Empty /\ Restored(b)["settings"] # Empty
      BY <3>1 DEF Restored, Snapshots, Tables
    <3> QED BY <1>0, <1>2, <3>1, <3>2 DEF RestoreBundle
  <2>2. hs' \in [Admins -> Handlers]
    BY <1>1, <1>2, Constants DEF RestoreBundle, ConfigTypeOK
  <2> QED BY <1>2, <2>1, <2>2 DEF RestoreBundle, ConfigTypeOK, instVars
<1>3. CASE BumpLoad(a)
  <2>1. [hs[a] EXCEPT !.pc = "bumped", !.meta = counter] \in Handlers
    BY <1>0 DEF Handlers, ConfigTypeOK
  <2>2. hs' \in [Admins -> Handlers]
    BY <1>3, <2>1 DEF BumpLoad, ConfigTypeOK
  <2> QED BY <1>3, <2>2 DEF BumpLoad, ConfigTypeOK, instVars, dbVars
<1>4. CASE BumpSave(a)
  <2>1. hs' \in [Admins -> Handlers]
    BY <1>1, <1>4, Constants DEF BumpSave, ConfigTypeOK
  <2>2. counter' \in Nat
    BY <1>0, <1>4 DEF BumpSave
  <2>3. lost' \in BOOLEAN /\ trig' \in [Inst -> BOOLEAN]
    BY <1>4 DEF BumpSave, ConfigTypeOK
  <2> QED BY <1>4, <2>1, <2>2, <2>3 DEF BumpSave, ConfigTypeOK
<1>5. CASE BumpFails(a)
  <2>1. hs' \in [Admins -> Handlers]
    BY <1>1, <1>5, Constants DEF BumpFails, ConfigTypeOK
  <2>2. errors' \in Nat /\ lost' \in BOOLEAN /\ trig' \in [Inst -> BOOLEAN]
    BY <1>5, FailsTypes DEF BumpFails, ConfigTypeOK
  <2> QED BY <1>5, <2>1, <2>2 DEF BumpFails, ConfigTypeOK, dbVars
<1>6. CASE HandlerReload(a)
  <2>1. rl' \in [Inst -> Reloads] /\ errors' \in Nat
    BY <1>0, <1>6, ReloadTypes, FailsTypes DEF HandlerReload, MayReload, ConfigTypeOK
  <2>2. hs' \in [Admins -> Handlers]
    BY <1>6, Constants DEF HandlerReload, ConfigTypeOK
  <2> QED BY <1>6, <2>1, <2>2 DEF HandlerReload, ConfigTypeOK, dbVars
<1> QED BY <1>2, <1>3, <1>4, <1>5, <1>6 DEF Handle

LEMMA RestartTypes ==
    ASSUME ConfigTypeOK, NEW i \in Inst, Restart(i)
    PROVE  ConfigTypeOK'
<1>1. hs' \in [Admins -> Handlers] /\ rl' \in [Inst -> Reloads]
  BY Constants DEF Restart, ConfigTypeOK
<1>2. snap' \in [Inst -> Snapshots] /\ count' \in [Inst -> Nat] /\ status' \in [Inst -> {"new", "ok", "error"}]
  BY Constants DEF Restart, ConfigTypeOK
<1>3. lost' \in BOOLEAN /\ trig' \in [Inst -> BOOLEAN]
  BY DEF Restart, ConfigTypeOK
<1> QED BY <1>1, <1>2, <1>3 DEF Restart, ConfigTypeOK, dbVars

LEMMA NextTypes == ConfigTypeOK /\ [ConfigNext]_cfgVars => ConfigTypeOK'
<1> SUFFICES ASSUME ConfigTypeOK, [ConfigNext]_cfgVars PROVE ConfigTypeOK'
  OBVIOUS
<1>1. CASE UNCHANGED cfgVars
  BY <1>1 DEF cfgVars, dbVars, instVars, ConfigTypeOK
<1> QED BY <1>1, RunsTypes, RestartTypes, HandleTypes, StartsTypes DEF ConfigNext

\* The configuration runtime keeps its types, and whatever version a rollback
\* restores, one recorded empty too (bundle.go:91-97), the keys and the settings
\* stay (bundle.go:129-133, 188-192).
THEOREM TypeCorrect == ConfigSpec => []ConfigTypeOK
BY InitTypes, NextTypes, PTL DEF ConfigSpec

-----------------------------------------------------------------------------
(* An unchanged counter.  While a write waits for its Bump anything may be    *)
(* old.  When none does, and no increment was lost, what was read or swapped  *)
(* in at the counter of the database is what the database holds: a later      *)
(* write has raised the counter above it.                                     *)

Announces(a) == hs[a].pc \in {"bump", "bumped"} /\ hs[a].op # "reload"
Pending == \E a \in Admins : Announces(a)

\* The tables a reload has read, and one that has been written since.
ReadSoFar(r) == CASE r.pc = "apikeys" -> {"aliases"}
                  [] r.pc = "settings" -> {"aliases", "apikeys"}
                  [] r.pc = "swap" -> Tables
                  [] OTHER -> {}
Agrees(r, t) == r.read[t] = cfg[t] \/ (t = "settings" /\ r.read[t] = Empty)
Outdated(r) == ~r.errs /\ \E t \in ReadSoFar(r) : ~Agrees(r, t)

Ordered == \A i \in Inst : count[i] <= counter /\ rl[i].start <= counter
SnapCurrent == \A i \in Inst : status[i] = "ok" /\ count[i] = counter /\ ~UsesDatabase(i) => Pending
ReadsCurrent == \A i \in Inst : rl[i].start = counter /\ Outdated(rl[i]) => Pending
Restores == \A a \in Admins : hs[a].pc = "restore" => hs[a].op = "rollback"

Current == Ordered /\ SnapCurrent /\ ReadsCurrent
CurrentInv == Restores /\ (~lost => Current)

LEMMA InitCurrent == ConfigInit => CurrentInv
<1> SUFFICES ASSUME ConfigInit PROVE CurrentInv
  OBVIOUS
<1>1. Restores
  BY DEF ConfigInit, Restores, NoHandler
<1>2. Ordered
  <2>1. counter = 0 /\ \A i \in Inst : count[i] = 0 /\ rl[i] = NoReload
    BY DEF ConfigInit
  <2>2. NoReload.start = 0
    BY DEF NoReload
  <2>3. counter <= counter
    BY <2>1
  <2>4. \A i \in Inst : count[i] = counter /\ rl[i].start = counter
    BY <2>1, <2>2
  <2> QED BY <2>3, <2>4 DEF Ordered
<1>3. SnapCurrent
  BY DEF ConfigInit, SnapCurrent, UsesDatabase, OnDefaults
<1>4. ReadsCurrent
  BY DEF ConfigInit, ReadsCurrent, Outdated, Agrees, ReadSoFar, NoReload
<1> QED BY <1>1, <1>2, <1>3, <1>4 DEF CurrentInv, Current

\* A reload that is put in flight has read nothing.
LEMMA ReloadCurrent ==
    ASSUME ConfigTypeOK, Current, NEW i \in Inst, NEW by, NEW start \in {counter, 0}, Reload(i, by, start),
           UNCHANGED <<cfg, counter>>, Pending' = Pending
    PROVE  ReadsCurrent' /\ \A j \in Inst : rl'[j].start <= counter
<1> DEFINE r == [NoReload EXCEPT !.pc = "aliases", !.by = by, !.start = start]
<1>1. r.pc = "aliases" /\ r.start <= counter
  BY DEF NoReload, ConfigTypeOK
<1>2. \A j \in Inst : rl'[j] = IF j = i THEN r ELSE rl[j]
  BY DEF Reload, ConfigTypeOK
<1> HIDE DEF r
<1>3. ReadSoFar(r) = {}
  BY <1>1 DEF ReadSoFar
<1> QED BY <1>1, <1>2, <1>3 DEF Current, Ordered, ReadsCurrent, Outdated, Agrees

LEMMA RunsCurrent ==
    ASSUME ConfigTypeOK, CurrentInv, NEW i \in Inst, Runs(i)
    PROVE  CurrentInv'
<1>1. hs' = hs /\ cfg' = cfg /\ Pending' = Pending /\ (lost => lost')
  <2>1. hs' = hs /\ cfg' = cfg
    BY DEF Runs, Loop, ReloadStep, ReadTable, Swap, RecordVersion, MetaLoad, MetaSave, dbVars
  <2>2. lost => lost'
    BY DEF Runs, Loop, ReloadStep, ReadTable, Swap, RecordVersion, MetaLoad, MetaSave
  <2> QED BY <2>1, <2>2 DEF Pending, Announces
<1>2. Restores'
  BY <1>1 DEF CurrentInv, Restores
<1> SUFFICES ASSUME ~lost' PROVE Current'
  BY <1>2 DEF CurrentInv
<1>3. Current
  BY <1>1 DEF CurrentInv
<1>4. counter' = counter
  BY DEF Runs, Loop, ReloadStep, ReadTable, Swap, RecordVersion, MetaLoad, MetaSave, dbVars, ConfigTypeOK
<1>5. CASE Loop(i)
  <2>1. CASE UNCHANGED rl
    BY <1>1, <1>3, <1>4, <1>5, <2>1 DEF Loop, Current, Ordered, SnapCurrent, UsesDatabase, OnDefaults, ReadsCurrent, Outdated, Agrees
  <2>2. ASSUME NEW start \in {counter, 0}, Reload(i, "loop", start) PROVE Current'
    BY <1>1, <1>3, <1>4, <1>5, <2>2, ReloadCurrent DEF Loop, Current, Ordered, SnapCurrent, UsesDatabase, OnDefaults
  <2> QED BY <1>5, <2>1, <2>2 DEF Loop, MayReload
<1>6. CASE ReadTable(i)
  <2> DEFINE t == rl[i].pc
             next == After[t]
  <2>0. cfg[t] \in Values /\ Empty \in Values
    BY <1>6 DEF ReadTable, ConfigTypeOK, Snapshots, Values
  <2>1. PICK v \in Values, e \in BOOLEAN :
            /\ rl' = [rl EXCEPT ![i].read[t] = v, ![i].errs = @ \/ e, ![i].pc = next]
            /\ (v = cfg[t] /\ ~e) \/ (v = Empty /\ (e <=> t # "settings"))
    <3> DEFINE Got(v, e) == rl' = [rl EXCEPT ![i].read[t] = v, ![i].errs = @ \/ e, ![i].pc = next]
    <3>1. Got(cfg[t], FALSE) \/ Got(Empty, t # "settings")
      BY <1>6, Zenon DEF ReadTable
    <3>2. (t # "settings") \in BOOLEAN
      OBVIOUS
    <3> HIDE DEF Got, t
    <3>3. \E v \in Values, e \in BOOLEAN : Got(v, e) /\ ((v = cfg[t] /\ ~e) \/ (v = Empty /\ (e <=> t # "settings")))
      <4>1. CASE Got(cfg[t], FALSE)
        BY <2>0, <4>1, Zenon
      <4>2. CASE Got(Empty, t # "settings")
        BY <2>0, <3>2, <4>2, Zenon
      <4> QED BY <3>1, <4>1, <4>2
    <3> QED BY <3>3 DEF Got, t
  <2>2. rl[i] \in Reloads /\ rl[i].read \in Snapshots /\ t \in Tables /\ rl[i].errs \in BOOLEAN
    BY <1>6 DEF ConfigTypeOK, Reloads, ReadTable
  <2>3. rl'[i] = [rl[i] EXCEPT !.read[t] = v, !.errs = rl[i].errs \/ e, !.pc = next]
    BY <2>1 DEF ConfigTypeOK
  <2>4. /\ rl'[i].pc = next /\ rl'[i].start = rl[i].start /\ rl'[i].read = [rl[i].read EXCEPT ![t] = v]
        /\ rl'[i].errs = (rl[i].errs \/ e)
    BY <2>2, <2>3 DEF Reloads
  <2>5. ReadSoFar(rl'[i]) = ReadSoFar(rl[i]) \cup {t}
    BY <2>2, <2>4 DEF ReadSoFar, After, Tables
  <2>6. rl'[i].read[t] = v /\ \A u \in Tables \ {t} : rl'[i].read[u] = rl[i].read[u]
    BY <2>2, <2>4 DEF Snapshots
  <2>7. ReadSoFar(rl[i]) \subseteq Tables \ {t}
    BY <2>2 DEF ReadSoFar, Tables
  <2>8. Outdated(rl[i])' => Outdated(rl[i])
    <3> SUFFICES ASSUME Outdated(rl[i])' PROVE Outdated(rl[i])
      OBVIOUS
    <3>1. ~rl[i].errs /\ ~e
      BY <2>2, <2>4 DEF Outdated
    <3>2. rl'[i].read[t] = cfg[t] \/ (t = "settings" /\ rl'[i].read[t] = Empty)
      BY <2>1, <2>6, <3>1
    <3>3. PICK u \in ReadSoFar(rl'[i]) : ~(rl'[i].read[u] = cfg[u] \/ (u = "settings" /\ rl'[i].read[u] = Empty))
      BY <1>1 DEF Outdated, Agrees
    <3>4. u # t
      BY <3>2, <3>3
    <3>5. u \in ReadSoFar(rl[i]) /\ rl'[i].read[u] = rl[i].read[u]
      BY <2>5, <2>6, <2>7, <3>3, <3>4
    <3> QED BY <3>1, <3>3, <3>5 DEF Outdated, Agrees
  <2>9. \A j \in Inst \ {i} : rl'[j] = rl[j]
    BY <2>1 DEF ConfigTypeOK
  <2>10. ReadsCurrent'
    <3>1. \A j \in Inst \ {i} : Outdated(rl[j])' => Outdated(rl[j])
      BY <1>1, <2>9 DEF Outdated, Agrees
    <3>2. \A j \in Inst : rl'[j].start = rl[j].start
      BY <2>4, <2>9
    <3>3. \A j \in Inst : rl[j].start = counter /\ Outdated(rl[j]) => Pending
      BY <1>3 DEF Current, ReadsCurrent
    <3> QED BY <1>1, <1>4, <2>8, <3>1, <3>2, <3>3 DEF ReadsCurrent
  <2>11. Ordered' /\ SnapCurrent'
    BY <1>1, <1>3, <1>4, <1>6, <2>4, <2>9 DEF Current, Ordered, SnapCurrent, UsesDatabase, OnDefaults, ReadTable
  <2> QED BY <2>10, <2>11 DEF Current
<1>7. CASE Swap(i)
  <2>1. \A j \in Inst : rl'[j].start = rl[j].start /\ (j # i => rl'[j] = rl[j]) /\ rl'[i].pc = "record"
    BY <1>7 DEF Swap, ConfigTypeOK, Reloads
  <2>2. \A j \in Inst \ {i} : snap'[j] = snap[j] /\ count'[j] = count[j] /\ status'[j] = status[j]
    BY <1>7 DEF Swap, ConfigTypeOK
  <2>3. snap'[i] = rl[i].read /\ count'[i] = rl[i].start
    BY <1>7 DEF Swap, ConfigTypeOK
  <2>4. status'[i] = "ok" => ~rl[i].errs
    BY <1>7 DEF Swap, ConfigTypeOK
  <2>5. Ordered'
    BY <1>3, <1>4, <2>1, <2>2, <2>3 DEF Current, Ordered
  <2>6. ReadSoFar(rl'[i]) = {}
    BY <2>1 DEF ReadSoFar
  <2>7. ReadsCurrent'
    BY <1>1, <1>3, <1>4, <2>1, <2>6 DEF Current, ReadsCurrent, Outdated, Agrees
  <2>8. ASSUME status'[i] = "ok", ~UsesDatabase(i)' PROVE Outdated(rl[i])
    <3>1. ReadSoFar(rl[i]) = Tables
      BY <1>7 DEF Swap, ReadSoFar
    <3> QED BY <1>1, <2>3, <2>4, <2>8, <3>1 DEF Outdated, Agrees, UsesDatabase, OnDefaults
  <2>9. SnapCurrent'
    BY <1>1, <1>3, <1>4, <2>2, <2>3, <2>8 DEF Current, SnapCurrent, UsesDatabase, OnDefaults, ReadsCurrent
  <2> QED BY <2>5, <2>7, <2>9 DEF Current
<1>8. CASE RecordVersion(i) \/ MetaLoad(i) \/ MetaSave(i)
  <2>1. \A j \in Inst \ {i} : rl'[j] = rl[j]
    BY <1>8 DEF RecordVersion, MetaLoad, MetaSave, ConfigTypeOK
  <2>2. rl'[i].pc \in {"idle", "meta", "save"} /\ (rl'[i].start = rl[i].start \/ rl'[i].start = 0)
    BY <1>8 DEF RecordVersion, MetaLoad, MetaSave, ConfigTypeOK, NoReload, Reloads
  <2>3. ReadSoFar(rl'[i]) = {}
    BY <2>2 DEF ReadSoFar
  <2>4. ReadsCurrent'
    BY <1>1, <1>3, <1>4, <2>1, <2>3 DEF Current, ReadsCurrent, Outdated, Agrees
  <2>5. snap' = snap /\ count' = count /\ status' = status
    BY <1>8 DEF RecordVersion, MetaLoad, MetaSave
  <2>6. Ordered'
    <3>1. 0 <= counter
      BY DEF ConfigTypeOK
    <3> QED BY <1>3, <1>4, <2>1, <2>2, <2>5, <3>1 DEF Current, Ordered
  <2>7. SnapCurrent'
    BY <1>1, <1>3, <1>4, <2>5 DEF Current, SnapCurrent, UsesDatabase, OnDefaults
  <2> QED BY <2>4, <2>6, <2>7 DEF Current
<1> QED BY <1>5, <1>6, <1>7, <1>8 DEF Runs, ReloadStep

\* What a handler's first step leaves behind of the others.
LEMMA BeginPending ==
    ASSUME ConfigTypeOK, CurrentInv, NEW a \in Admins, NEW i, NEW op, NEW pc, NEW target,
           Begin(a, i, op, pc, target), pc = "restore" => op = "rollback"
    PROVE  Restores' /\ (Pending => Pending') /\ (pc = "bump" /\ op # "reload" => Pending')
<1> DEFINE h == [NoHandler EXCEPT !.pc = pc, !.op = op, !.at = i, !.target = target]
<1>1. h.pc = pc /\ h.op = op
  BY DEF NoHandler
<1>2. \A b \in Admins : hs'[b] = IF b = a THEN h ELSE hs[b]
  BY DEF Begin, ConfigTypeOK
<1>3. hs[a].pc = "idle"
  BY DEF Begin
<1> HIDE DEF h
<1> QED BY <1>1, <1>2, <1>3 DEF CurrentInv, Restores, Pending, Announces

LEMMA StartsCurrent ==
    ASSUME ConfigTypeOK, CurrentInv, NEW a \in Admins, NEW i \in Inst, Starts(a, i)
    PROVE  CurrentInv'
<1>1. CASE Write(a, i)
  <2>1. Restores' /\ Pending'
    BY <1>1, BeginPending DEF Write
  <2>2. counter' = counter /\ count' = count /\ rl' = rl /\ lost' = lost
    BY <1>1 DEF Write, instVars
  <2> QED BY <2>1, <2>2 DEF CurrentInv, Current, Ordered, SnapCurrent, UsesDatabase, OnDefaults, ReadsCurrent
<1>2. CASE reloadConfig(a, i) \/ Rollback(a, i)
  <2>1. Restores' /\ (Pending => Pending')
    BY <1>2, BeginPending DEF reloadConfig, Rollback
  <2>2. UNCHANGED <<cfg, counter, snap, count, status, rl, lost>>
    BY <1>2 DEF reloadConfig, Rollback, instVars, dbVars
  <2> QED BY <2>1, <2>2 DEF CurrentInv, Current, Ordered, SnapCurrent, UsesDatabase, OnDefaults, ReadsCurrent, Outdated, Agrees
<1> QED BY <1>1, <1>2 DEF Starts

\* A handler that goes on, or ends, takes a write from the pending ones only
\* by saving the counter, or by losing the increment.
LEMMA HandleCurrent ==
    ASSUME ConfigTypeOK, CurrentInv, NEW a \in Admins, Handle(a)
    PROVE  CurrentInv'
<1>1. NoHandler.pc = "idle" /\ hs[a] \in Handlers /\ hs[a].at \in Inst
  BY DEF NoHandler, ConfigTypeOK, Handlers
<1>2. CASE RestoreBundle(a)
  <2>1. CASE cfg' = Restored(hs[a].target) /\ hs' = [hs EXCEPT ![a].pc = "bump"]
    <3>1. hs'[a].pc = "bump" /\ hs'[a].op = "rollback"
      BY <1>1, <1>2, <2>1 DEF RestoreBundle, CurrentInv, Restores, ConfigTypeOK, Handlers
    <3>2. Restores'
      BY <2>1, <3>1 DEF CurrentInv, Restores, ConfigTypeOK
    <3>3. Pending'
      BY <3>1 DEF Pending, Announces
    <3>4. UNCHANGED <<counter, count, rl, lost>>
      BY <1>2 DEF RestoreBundle, instVars
    <3> QED BY <3>2, <3>3, <3>4 DEF CurrentInv, Current, Ordered, SnapCurrent, UsesDatabase, OnDefaults, ReadsCurrent
  <2>2. CASE hs' = [hs EXCEPT ![a] = NoHandler] /\ UNCHANGED cfg
    <3>1. \A b \in Admins : hs'[b] = IF b = a THEN NoHandler ELSE hs[b]
      BY <2>2 DEF ConfigTypeOK
    <3>2. Restores'
      BY <1>1, <3>1 DEF CurrentInv, Restores
    <3>3. hs[a].pc = "restore"
      BY <1>2 DEF RestoreBundle
    <3>4. Pending => Pending'
      BY <3>1, <3>3 DEF Pending, Announces
    <3>5. UNCHANGED <<cfg, counter, snap, count, status, rl, lost>>
      BY <1>2, <2>2 DEF RestoreBundle, instVars
    <3> QED BY <3>2, <3>4, <3>5 DEF CurrentInv, Current, Ordered, SnapCurrent, UsesDatabase, OnDefaults, ReadsCurrent, Outdated, Agrees
  <2> QED BY <1>2, <2>1, <2>2 DEF RestoreBundle
<1>3. CASE BumpLoad(a)
  <2>1. \A b \in Admins : b # a => hs'[b] = hs[b]
    BY <1>3 DEF BumpLoad, ConfigTypeOK
  <2>2. hs'[a].pc = "bumped" /\ hs'[a].op = hs[a].op
    BY <1>1, <1>3 DEF BumpLoad, ConfigTypeOK, Handlers
  <2>3. Restores' /\ (Pending => Pending')
    BY <2>1, <2>2 DEF CurrentInv, Restores, Pending, Announces
  <2>4. UNCHANGED <<cfg, counter, snap, count, status, rl, lost>>
    BY <1>3 DEF BumpLoad, instVars, dbVars
  <2> QED BY <2>3, <2>4 DEF CurrentInv, Current, Ordered, SnapCurrent, UsesDatabase, OnDefaults, ReadsCurrent, Outdated, Agrees
<1>4. CASE BumpSave(a)
  <2>1. \A b \in Admins : b # a => hs'[b] = hs[b]
    BY <1>4 DEF BumpSave, ConfigTypeOK
  <2>2. hs'[a].pc \in {"idle", "load"}
    BY <1>1, <1>4 DEF BumpSave, ConfigTypeOK, Handlers
  <2>3. Restores'
    BY <2>1, <2>2 DEF CurrentInv, Restores
  <2>4. ~lost' => ~lost /\ counter' = counter + 1
    BY <1>4 DEF BumpSave
  <2>5. count' = count /\ rl' = rl /\ counter \in Nat
    BY <1>4 DEF BumpSave, ConfigTypeOK
  <2>6. \A j \in Inst : count[j] \in Nat /\ rl[j].start \in Nat
    BY DEF ConfigTypeOK, Reloads
  <2> QED BY <2>3, <2>4, <2>5, <2>6 DEF CurrentInv, Current, Ordered, SnapCurrent, UsesDatabase, OnDefaults, ReadsCurrent
<1>5. CASE BumpFails(a)
  <2>1. \A b \in Admins : b # a => hs'[b] = hs[b]
    BY <1>5 DEF BumpFails, ConfigTypeOK
  <2>2. hs'[a].pc \in {"idle", "load"}
    BY <1>1, <1>5 DEF BumpFails, ConfigTypeOK, Handlers
  <2>3. Restores'
    BY <2>1, <2>2 DEF CurrentInv, Restores
  <2>4. ~lost' => ~lost /\ hs[a].op = "reload"
    BY <1>5 DEF BumpFails
  <2>5. ~lost' => (Pending => Pending')
    BY <2>1, <2>4 DEF Pending, Announces
  <2>6. UNCHANGED <<cfg, counter, snap, count, status, rl>>
    BY <1>5 DEF BumpFails, dbVars
  <2> QED BY <2>3, <2>4, <2>5, <2>6 DEF CurrentInv, Current, Ordered, SnapCurrent, UsesDatabase, OnDefaults, ReadsCurrent, Outdated, Agrees
<1>6. CASE HandlerReload(a)
  <2>1. \A b \in Admins : hs'[b] = IF b = a THEN NoHandler ELSE hs[b]
    BY <1>6 DEF HandlerReload, ConfigTypeOK
  <2>2. Restores'
    BY <1>1, <2>1 DEF CurrentInv, Restores
  <2>3. hs[a].pc = "load"
    BY <1>6 DEF HandlerReload
  <2>4. Pending' = Pending
    BY <1>1, <2>1, <2>3 DEF Pending, Announces
  <2>5. UNCHANGED <<cfg, counter, snap, count, status, lost>>
    BY <1>6 DEF HandlerReload, dbVars
  <2>6. CASE UNCHANGED rl
    BY <2>2, <2>4, <2>5, <2>6 DEF CurrentInv, Current, Ordered, SnapCurrent, UsesDatabase, OnDefaults, ReadsCurrent, Outdated, Agrees
  <2>7. ASSUME NEW start \in {counter, 0}, Reload(hs[a].at, "handler", start) PROVE CurrentInv'
    <3> SUFFICES ASSUME ~lost' PROVE Current'
      BY <2>2 DEF CurrentInv
    <3>1. Current
      BY <2>5 DEF CurrentInv
    <3>2. ReadsCurrent' /\ \A j \in Inst : rl'[j].start <= counter
      BY <1>1, <2>4, <2>5, <2>7, <3>1, ReloadCurrent
    <3> QED BY <2>4, <2>5, <3>1, <3>2 DEF Current, Ordered, SnapCurrent, UsesDatabase, OnDefaults
  <2> QED BY <1>6, <2>6, <2>7 DEF HandlerReload, MayReload
<1> QED BY <1>2, <1>3, <1>4, <1>5, <1>6 DEF Handle

LEMMA RestartCurrent ==
    ASSUME ConfigTypeOK, CurrentInv, NEW i \in Inst, Restart(i)
    PROVE  CurrentInv'
<1>1. \A a \in Admins : hs'[a] = hs[a] \/ (hs'[a] = NoHandler /\ hs[a].at = i)
  BY DEF Restart
<1>2. Restores'
  <2>1. NoHandler.pc = "idle"
    BY DEF NoHandler
  <2> QED BY <1>1, <2>1 DEF CurrentInv, Restores
<1> SUFFICES ASSUME ~lost' PROVE Current'
  BY <1>2 DEF CurrentInv
<1>3. Current /\ \A a \in Admins : hs[a].at = i => ~Announces(a)
  BY DEF CurrentInv, Restart, Announces
<1>4. Pending => Pending'
  BY <1>1, <1>3 DEF Pending, Announces
<1>5. cfg' = cfg /\ counter' = counter /\ 0 <= counter
  BY DEF Restart, dbVars, ConfigTypeOK
<1>6. \A j \in Inst \ {i} : /\ rl'[j] = rl[j] /\ snap'[j] = snap[j]
                            /\ count'[j] = count[j] /\ status'[j] = status[j]
  BY DEF Restart, ConfigTypeOK
<1>7. rl'[i] = NoReload /\ count'[i] = 0 /\ status'[i] = "new"
  BY DEF Restart, ConfigTypeOK
<1>8. NoReload.start = 0 /\ ReadSoFar(NoReload) = {}
  BY DEF NoReload, ReadSoFar
<1>9. Ordered'
  BY <1>3, <1>5, <1>6, <1>7, <1>8 DEF Current, Ordered
<1>10. SnapCurrent'
  BY <1>3, <1>4, <1>5, <1>6, <1>7 DEF Current, SnapCurrent, UsesDatabase, OnDefaults
<1>11. ReadsCurrent'
  BY <1>3, <1>4, <1>5, <1>6, <1>7, <1>8 DEF Current, ReadsCurrent, Outdated, Agrees
<1> QED BY <1>9, <1>10, <1>11 DEF Current

LEMMA NextCurrent == ConfigTypeOK /\ CurrentInv /\ [ConfigNext]_cfgVars => CurrentInv'
<1> SUFFICES ASSUME ConfigTypeOK, CurrentInv, [ConfigNext]_cfgVars PROVE CurrentInv'
  OBVIOUS
<1>1. CASE UNCHANGED cfgVars
  BY <1>1 DEF cfgVars, dbVars, instVars, CurrentInv, Restores, Current, Ordered, SnapCurrent, UsesDatabase, OnDefaults,
     ReadsCurrent, Outdated, Agrees, Pending, Announces
<1> QED BY <1>1, RunsCurrent, RestartCurrent, HandleCurrent, StartsCurrent DEF ConfigNext

LEMMA CurrentSuffices == ConfigTypeOK /\ CurrentInv => UnchangedIsCurrent
<1> SUFFICES ASSUME ConfigTypeOK, CurrentInv, ~lost, ~Unannounced, NEW i \in Inst,
                    ~ReloadIfChanged(i, counter), status[i] = "ok"
             PROVE  UsesDatabase(i)
  BY DEF UnchangedIsCurrent
<1>1. ~Pending
  BY DEF Unannounced, Pending, Announces
<1>2. count[i] = counter
  BY DEF ReloadIfChanged
<1> QED BY <1>1, <1>2 DEF CurrentInv, Current, SnapCurrent

\* An instance that sees the counter it was loaded at has the tables of the
\* database, and its settings or, when a read of them failed, their defaults
\* (manager.go:182-205, 347-351), for any number of instances and handlers.
THEOREM UnchangedIsCurrentThm == ConfigSpec => []UnchangedIsCurrent
<1>1. ConfigSpec => [](ConfigTypeOK /\ CurrentInv)
  BY InitTypes, NextTypes, InitCurrent, NextCurrent, PTL DEF ConfigSpec
<1> QED BY <1>1, CurrentSuffices, PTL

-----------------------------------------------------------------------------
(* The circuit breakers: Breaker.                                             *)

HIDE ConfigAssumption DEF ConfigAssumption
USE BreakerAssumption

\* What the parts of healthy do to a breaker.
LEMMA HalfOpenEffect ==
    ASSUME NEW b \in Breakers
    PROVE  /\ HalfOpen(b) \in Breakers
           /\ HalfOpen(b).checkedAt = b.checkedAt
           /\ HalfOpen(b).remoteUntil = b.remoteUntil
BY DEF HalfOpen, Breakers

LEMMA RemoteHalfOpenEffect ==
    ASSUME NEW b \in Breakers, now \in Nat
    PROVE  /\ RemoteHalfOpen(b) \in Breakers
           /\ RemoteHalfOpen(b).checkedAt = b.checkedAt
           /\ \/ RemoteHalfOpen(b).remoteUntil = b.remoteUntil
              \/ b.remoteUntil <= now /\ RemoteHalfOpen(b).remoteUntil = 0
BY DEF RemoteHalfOpen, Breakers

LEMMA CachedEffect ==
    ASSUME NEW b \in Breakers, now \in Nat, NEW v \in Nat
    PROVE  /\ Cached(b, v) \in Breakers
           /\ Cached(b, v).checkedAt = now
           /\ Cached(b, v).remoteUntil = v \/ (v <= now /\ Cached(b, v).remoteUntil = 0)
<1> DEFINE d == [b EXCEPT !.checkedAt = now, !.remoteUntil = v]
<1>0. ASSUME NEW t \in Int PROVE [b EXCEPT !.checkedAt = t, !.remoteUntil = v] \in Breakers
  BY DEF Breakers
<1>1. d \in Breakers /\ d.checkedAt = now /\ d.remoteUntil = v
  <2>0. now \in Int
    OBVIOUS
  <2>1. d \in Breakers
    BY <1>0, <2>0
  <2>2. d.checkedAt = now /\ d.remoteUntil = v
    BY DEF Breakers
  <2> QED BY <2>1, <2>2
<1> HIDE DEF d
<1>2. Cached(b, v) = RemoteHalfOpen(d)
  BY DEF Cached, d
<1> QED BY <1>1, <1>2, RemoteHalfOpenEffect

\* Degrade keeps the types, and the instance is down and watched.
LEMMA DegradeEffect ==
    ASSUME Types, NEW i \in Instances, Degrade(i)
    PROVE  /\ down' \in [Instances -> BOOLEAN] /\ watchers' \in [Instances -> Nat]
           /\ down'[i] /\ watchers'[i] > 0
           /\ \A j \in Instances : j # i => down'[j] = down[j] /\ watchers'[j] = watchers[j]
BY DEF Types, Degrade

LEMMA InitType == Init => Types
BY DEF Init, Types, NoBreaker, Breakers, Idle

LEMMA CheckType ==
    ASSUME Types, NEW i \in Instances, Check(i)
    PROVE  br' \in [Instances -> Breakers]
<1>1. br \in [Instances -> Breakers] /\ now \in Nat /\ Answer \in Nat
  BY DEF Types, Answer
<1>2. HalfOpen(br[i]) \in Breakers
  BY <1>1, HalfOpenEffect
<1>3. PICK b \in Breakers : br' = [br EXCEPT ![i] = b]
  BY <1>1, <1>2, RemoteHalfOpenEffect, CachedEffect DEF Check
<1> QED BY <1>1, <1>3

LEMMA NextType == Types /\ [Next]_vars => Types'
<1> SUFFICES ASSUME Types, [Next]_vars PROVE Types'
  OBVIOUS
<1>1. ASSUME NEW i \in Instances, Elsewhere(i) PROVE Types'
  BY <1>1, DegradeEffect DEF Types, Elsewhere
<1>2. ASSUME NEW i \in Instances, Recover(i) PROVE Types'
  BY <1>2 DEF Types, Recover
<1>3. ASSUME NEW i \in Instances, Check(i) PROVE Types'
  <2>1. br' \in [Instances -> Breakers]
    BY <1>3, CheckType
  <2>2. down' \in [Instances -> BOOLEAN] /\ watchers' \in [Instances -> Nat]
    BY <1>3, DegradeEffect DEF Check, Fine, Types
  <2> QED BY <1>3, <2>1, <2>2 DEF Types, Check
<1>4. ASSUME NEW c \in Calls, RecordSuccess(c) PROVE Types'
  <2> DEFINE i == InstOf[c]
  <2>1. i \in Instances /\ br[i] \in Breakers
    BY DEF Types
  <2>2. [br[i] EXCEPT !.fails = 0, !.openUntil = 0, !.remoteUntil = 0] \in Breakers
    BY <2>1 DEF Breakers
  <2>3. br' = [br EXCEPT ![i] = [br[i] EXCEPT !.fails = 0, !.openUntil = 0, !.remoteUntil = 0]]
    BY <1>4 DEF RecordSuccess
  <2>4. br' \in [Instances -> Breakers]
    BY <2>2, <2>3 DEF Types
  <2> QED BY <1>4, <2>4 DEF Types, RecordSuccess
<1>5. ASSUME NEW c \in Calls, RecordFailure(c) PROVE Types'
  <2> DEFINE i == InstOf[c]
  <2>1. i \in Instances /\ br[i] \in Breakers /\ now \in Nat
    BY DEF Types
  <2>2. br[i].fails + 1 \in Nat /\ now + ResetTime \in Nat
    BY <2>1 DEF Breakers
  <2>3. ASSUME NEW n \in Nat, NEW u \in Nat
        PROVE  /\ [br[i] EXCEPT !.fails = n] \in Breakers
               /\ [br[i] EXCEPT !.fails = n, !.openUntil = u] \in Breakers
    BY <2>1 DEF Breakers
  <2>4. \/ br' = [br EXCEPT ![i] = [br[i] EXCEPT !.fails = br[i].fails + 1]]
        \/ br' = [br EXCEPT ![i] = [br[i] EXCEPT !.fails = br[i].fails + 1,
                                                !.openUntil = now + ResetTime]]
    BY <1>5 DEF RecordFailure
  <2>a. /\ [br[i] EXCEPT !.fails = br[i].fails + 1] \in Breakers
        /\ [br[i] EXCEPT !.fails = br[i].fails + 1, !.openUntil = now + ResetTime] \in Breakers
    BY <2>2, <2>3
  <2>b. ASSUME NEW b \in Breakers, br' = [br EXCEPT ![i] = b] PROVE br' \in [Instances -> Breakers]
    BY <2>b DEF Types
  <2>5. br' \in [Instances -> Breakers]
    BY <2>4, <2>a, <2>b
  <2> QED BY <1>5, <2>2, <2>5 DEF Types, RecordFailure
<1>6. ASSUME NEW c \in Calls, RemoteSkip(c) \/ RemoteBegin(c) PROVE Types'
  BY <1>6 DEF Types, RemoteSkip, RemoteBegin, Idle
<1>7. ASSUME NEW c \in Calls, WriteShared(c) PROVE Types'
  <2>1. down' \in [Instances -> BOOLEAN] /\ watchers' \in [Instances -> Nat]
    BY <1>7, DegradeEffect DEF WriteShared, Fine, Types
  <2> QED BY <1>7, <2>1 DEF Types, WriteShared, WriteKey, Idle
<1>8. ASSUME NEW c \in Calls, WriteFails(c) PROVE Types'
  BY <1>8, DegradeEffect DEF Types, WriteFails, Idle
<1>9. CASE Tick
  BY <1>9 DEF Types, Tick
<1>10. CASE UNCHANGED vars
  BY <1>10 DEF vars, Types
<1> QED BY <1>1, <1>2, <1>3, <1>4, <1>5, <1>6, <1>7, <1>8, <1>9, <1>10
        DEF Next, InstanceStep, CallStep

\* A breaker's step within an instance: what it makes of the two instants.
LEMMA CheckBounds ==
    ASSUME Types, NEW i \in Instances, Check(i), TypeOK
    PROVE  /\ br'[i].openUntil <= now + ResetTime
           /\ br'[i].remoteUntil <= now + ResetTime
<1>0. /\ br[i] \in Breakers /\ now \in Nat /\ key \in Nat
      /\ br[i].openUntil \in Nat /\ br[i].remoteUntil \in Nat
      /\ br[i].openUntil <= now + ResetTime /\ br[i].remoteUntil <= now + ResetTime
      /\ key <= now + ResetTime
  BY DEF TypeOK, Bounded, Types, Breakers
<1>1. PICK b \in Breakers :
         /\ b = HalfOpen(br[i])
         /\ b.openUntil <= now + ResetTime /\ b.remoteUntil <= now + ResetTime
  <2>1. HalfOpen(br[i]) \in Breakers /\ HalfOpen(br[i]).remoteUntil = br[i].remoteUntil
    BY <1>0, HalfOpenEffect
  <2>2. HalfOpen(br[i]).openUntil \in {0, br[i].openUntil}
    BY <1>0 DEF HalfOpen, Breakers
  <2> QED BY <1>0, <2>1, <2>2
<1>2. Answer \in Nat /\ Answer <= now + ResetTime
  BY <1>0 DEF Answer
<1>3. ASSUME NEW d \in Breakers, d.openUntil = b.openUntil
      PROVE  RemoteHalfOpen(d).openUntil = b.openUntil
  BY <1>3 DEF RemoteHalfOpen, Breakers
<1>4. ASSUME NEW v \in Nat
      PROVE  Cached(b, v).openUntil = b.openUntil
  <2> DEFINE d == [b EXCEPT !.checkedAt = now, !.remoteUntil = v]
  <2>0. ASSUME NEW t \in Int
        PROVE  /\ [b EXCEPT !.checkedAt = t, !.remoteUntil = v] \in Breakers
               /\ [b EXCEPT !.checkedAt = t, !.remoteUntil = v].openUntil = b.openUntil
    BY DEF Breakers
  <2>a. now \in Int
    BY <1>0
  <2>1. d \in Breakers /\ d.openUntil = b.openUntil
    BY <2>0, <2>a
  <2> HIDE DEF d
  <2>2. Cached(b, v) = RemoteHalfOpen(d)
    BY DEF Cached, d
  <2> QED BY <1>3, <2>1, <2>2
<1>5. \/ br'[i] = RemoteHalfOpen(b)
      \/ br'[i] = Cached(b, Answer)
      \/ br'[i] = Cached(b, 0)
  BY <1>1 DEF Check, Types
<1>6. CASE br'[i] = RemoteHalfOpen(b)
  BY <1>0, <1>1, <1>3, <1>6, RemoteHalfOpenEffect
<1>7. CASE br'[i] = Cached(b, Answer)
  <2>1. br'[i].openUntil = b.openUntil
    BY <1>4, <1>7, <1>2
  <2>2. br'[i].remoteUntil \in {0, Answer}
    BY <1>0, <1>7, <1>2, CachedEffect
  <2> QED BY <1>0, <1>1, <1>2, <2>1, <2>2
<1>8. CASE br'[i] = Cached(b, 0)
  <2>1. br'[i].openUntil = b.openUntil
    BY <1>4, <1>8
  <2>2. br'[i].remoteUntil \in {0, 0}
    BY <1>0, <1>8, CachedEffect
  <2> QED BY <1>0, <1>1, <2>1, <2>2
<1> QED BY <1>5, <1>6, <1>7, <1>8

LEMMA NextBounds == TypeOK /\ [Next]_vars => TypeOK'
<1> SUFFICES ASSUME TypeOK, [Next]_vars PROVE TypeOK'
  OBVIOUS
<1>t. Types /\ Types'
  BY NextType DEF TypeOK
<1>0. /\ now \in Nat /\ now' \in Nat /\ key \in Nat /\ key' \in Nat
      /\ \A i \in Instances : br[i].openUntil \in Nat /\ br[i].remoteUntil \in Nat
      /\ \A c \in Calls : call[c].until \in Nat
  BY <1>t DEF Types, Breakers
<1>a. /\ key <= now + ResetTime
      /\ \A i \in Instances : br[i].openUntil <= now + ResetTime /\ br[i].remoteUntil <= now + ResetTime
      /\ \A c \in Calls : call[c].until <= now + ResetTime
  BY DEF TypeOK, Bounded
<1> DEFINE Keys == key' <= now' + ResetTime
           Brs == \A i \in Instances :
                     br'[i].openUntil <= now' + ResetTime /\ br'[i].remoteUntil <= now' + ResetTime
           Untils == \A c \in Calls : call'[c].until <= now' + ResetTime
<1>q. ASSUME Keys, Brs, Untils PROVE TypeOK'
  BY <1>t, <1>q DEF TypeOK, Bounded
<1>k. ASSUME UNCHANGED <<now, key>> PROVE Keys
  BY <1>a, <1>k
<1>b. ASSUME UNCHANGED <<now, br>> PROVE Brs
  BY <1>a, <1>b
<1>u. ASSUME UNCHANGED <<now, call>> PROVE Untils
  BY <1>a, <1>u
<1>1. ASSUME NEW i \in Instances, Elsewhere(i) \/ Recover(i) PROVE TypeOK'
  <2>1. UNCHANGED <<now, br, key, call>>
    BY <1>1 DEF Elsewhere, Recover
  <2> QED BY <1>q, <1>k, <1>b, <1>u, <2>1
<1>3. ASSUME NEW i \in Instances, Check(i) PROVE TypeOK'
  <2>1. UNCHANGED <<now, key, call>>
    BY <1>3 DEF Check
  <2>2. br'[i].openUntil <= now + ResetTime /\ br'[i].remoteUntil <= now + ResetTime
    BY <1>3, <1>t, CheckBounds
  <2>3. \A j \in Instances : j # i => br'[j] = br[j]
    BY <1>3, <1>t DEF Check, Types
  <2>4. Brs
    BY <1>a, <2>1, <2>2, <2>3
  <2> QED BY <1>q, <1>k, <1>u, <2>1, <2>4
<1>4. ASSUME NEW c \in Calls, RecordSuccess(c) PROVE TypeOK'
  <2>1. UNCHANGED <<now, key>> /\ InstOf[c] \in Instances
    BY <1>4 DEF RecordSuccess
  <2>2. \A j \in Instances : /\ br'[j].openUntil \in {0, br[j].openUntil}
                             /\ br'[j].remoteUntil \in {0, br[j].remoteUntil}
    BY <1>4, <1>t DEF RecordSuccess, Types, Breakers
  <2>3. \A e \in Calls : call'[e].until = call[e].until
    BY <1>4, <1>t DEF RecordSuccess, Types
  <2>4. Brs
    BY <1>0, <1>a, <2>1, <2>2
  <2>5. Untils
    BY <1>a, <2>1, <2>3
  <2> QED BY <1>q, <1>k, <2>1, <2>4, <2>5
<1>5. ASSUME NEW c \in Calls, RecordFailure(c) PROVE TypeOK'
  <2>1. UNCHANGED <<now, key>>
    BY <1>5 DEF RecordFailure
  <2>2. \A j \in Instances : /\ br'[j].openUntil \in {now + ResetTime, br[j].openUntil}
                             /\ br'[j].remoteUntil = br[j].remoteUntil
    BY <1>5, <1>t DEF RecordFailure, Types, Breakers
  <2>3. \A e \in Calls : call'[e].until \in {now + ResetTime, call[e].until}
    BY <1>5, <1>t DEF RecordFailure, Types
  <2>4. Brs
    BY <1>0, <1>a, <2>1, <2>2
  <2>5. Untils
    BY <1>0, <1>a, <2>1, <2>3
  <2> QED BY <1>q, <1>k, <2>1, <2>4, <2>5
<1>6. ASSUME NEW c \in Calls, RemoteSkip(c) \/ RemoteBegin(c) \/ WriteFails(c) PROVE TypeOK'
  <2>1. UNCHANGED <<now, br, key>>
    BY <1>6 DEF RemoteSkip, RemoteBegin, WriteFails
  <2>2. \A e \in Calls : call'[e].until \in {0, call[e].until}
    BY <1>6, <1>t DEF RemoteSkip, RemoteBegin, WriteFails, Types, Idle
  <2>3. Untils
    BY <1>0, <1>a, <2>1, <2>2
  <2> QED BY <1>q, <1>k, <1>b, <2>1, <2>3
<1>7. ASSUME NEW c \in Calls, WriteShared(c) PROVE TypeOK'
  <2>1. UNCHANGED <<now, br>>
    BY <1>7 DEF WriteShared
  <2>2. \A e \in Calls : call'[e].until \in {0, call[e].until}
    BY <1>7, <1>t DEF WriteShared, Types, Idle
  <2>3. key' \in {0, call[c].until}
    BY <1>7 DEF WriteShared, WriteKey
  <2>4. Untils
    BY <1>0, <1>a, <2>1, <2>2
  <2>5. Keys
    BY <1>0, <1>a, <2>1, <2>3
  <2> QED BY <1>q, <1>b, <2>1, <2>4, <2>5
<1>9. CASE Tick
  <2>1. now' = now + 1 /\ UNCHANGED <<br, key, call>>
    BY <1>9 DEF Tick
  <2> QED BY <1>0, <1>a, <1>q, <2>1
<1>10. CASE UNCHANGED vars
  BY <1>q, <1>k, <1>b, <1>u, <1>10 DEF vars
<1> QED BY <1>1, <1>3, <1>4, <1>5, <1>6, <1>7, <1>9, <1>10
        DEF Next, InstanceStep, CallStep

LEMMA InitBounds == Init => TypeOK
<1> SUFFICES ASSUME Init PROVE TypeOK
  OBVIOUS
<1>1. Types
  BY InitType
<1>2. /\ now = 1 /\ key = 0
      /\ \A i \in Instances : br[i].openUntil = 0 /\ br[i].remoteUntil = 0
      /\ \A c \in Calls : call[c].until = 0
  BY DEF Init, NoBreaker, Idle
<1> QED BY <1>1, <1>2 DEF TypeOK, Bounded

\* Clock, breakers, flags and pending Redis commands keep their types, and
\* whatever the order of publications, clears and late reads no circuit is open
\* for longer than the reset time.
THEOREM BreakerTypes == Spec => []TypeOK
BY InitBounds, NextBounds, PTL DEF Spec

-----------------------------------------------------------------------------
LEMMA InitSync == Init => SyncInv
<1> SUFFICES ASSUME Init, NEW i \in Instances
             PROVE  /\ br[i].checkedAt <= now /\ due[i] <= now /\ CacheCurrent(i)
                    /\ (down[i] => watchers[i] > 0)
  BY DEF SyncInv
<1>1. /\ br[i].checkedAt = 1 - Throttle /\ now = 1 /\ due[i] = 1 /\ ~down[i]
  BY DEF Init, NoBreaker
<1> QED BY <1>1 DEF CacheCurrent

LEMMA NextSync == Types /\ SyncInv /\ [Next]_vars => SyncInv'
<1> SUFFICES ASSUME Types, SyncInv, [Next]_vars, NEW j \in Instances
             PROVE  /\ br'[j].checkedAt <= now' /\ due'[j] <= now' /\ CacheCurrent(j)'
                    /\ (down'[j] => watchers'[j] > 0)
  BY DEF SyncInv
<1>0. /\ br[j] \in Breakers /\ now \in Nat /\ key \in Nat /\ due[j] \in Nat
      /\ watchers[j] \in Nat /\ down[j] \in BOOLEAN
      /\ br[j].checkedAt \in Int /\ br[j].remoteUntil \in Nat
  BY DEF Types, Breakers
<1>a. /\ br[j].checkedAt <= now /\ due[j] <= now /\ CacheCurrent(j)
      /\ (down[j] => watchers[j] > 0)
  BY DEF SyncInv
<1> DEFINE Stays == /\ br'[j].checkedAt <= now' /\ due'[j] <= now' /\ CacheCurrent(j)'
                   /\ (down'[j] => watchers'[j] > 0)
<1>b. ASSUME UNCHANGED <<now, key>>, br'[j].checkedAt = br[j].checkedAt,
             br'[j].remoteUntil = br[j].remoteUntil, due'[j] = due[j],
             down[j] => down'[j], down'[j] => watchers'[j] > 0
      PROVE  Stays
  BY <1>0, <1>a, <1>b DEF CacheCurrent
<1>c. ASSUME now' = now, br'[j].checkedAt = br[j].checkedAt, due'[j] = now,
             down'[j] => watchers'[j] > 0
      PROVE  Stays
  BY <1>0, <1>a, <1>c DEF CacheCurrent
<1>d. ASSUME NEW i \in Instances, Degrade(i) \/ Fine
      PROVE  (down[j] => down'[j]) /\ (down'[j] => watchers'[j] > 0)
  BY <1>0, <1>a, <1>d, DegradeEffect DEF Fine
<1>1. ASSUME NEW i \in Instances, Elsewhere(i) PROVE Stays
  BY <1>1, <1>b, <1>d DEF Elsewhere
<1>2. ASSUME NEW i \in Instances, Recover(i) PROVE Stays
  <2>1. CASE i = j
    BY <1>0, <1>2, <1>c, <2>1 DEF Recover, Types
  <2>2. CASE i # j
    BY <1>0, <1>a, <1>2, <1>b, <2>2 DEF Recover, Types
  <2> QED BY <2>1, <2>2
<1>3. ASSUME NEW i \in Instances, Check(i) PROVE Stays
  <2> DEFINE b == HalfOpen(br[i])
  <2>1. UNCHANGED <<now, key, due>> /\ (Degrade(i) \/ Fine)
    BY <1>3 DEF Check
  <2>2. CASE i # j
    <3>1. br'[j] = br[j]
      BY <1>3, <2>2 DEF Check, Types
    <3> QED BY <1>b, <1>d, <2>1, <3>1
  <2>3. CASE i = j
    <3>0. /\ b \in Breakers /\ b.checkedAt = br[j].checkedAt
          /\ b.remoteUntil = br[j].remoteUntil
      BY <1>0, <2>3, HalfOpenEffect
    <3>a. (down[j] => down'[j]) /\ (down'[j] => watchers'[j] > 0)
      BY <1>d, <2>1
    <3> HIDE DEF b
    <3>1. CASE br'[j] = RemoteHalfOpen(b)
      <4>1. /\ br'[j].checkedAt = br[j].checkedAt
            /\ \/ br'[j].remoteUntil = br[j].remoteUntil
               \/ br[j].remoteUntil <= now /\ br'[j].remoteUntil = 0
        BY <1>0, <3>0, <3>1, RemoteHalfOpenEffect
      <4> QED BY <1>0, <1>a, <2>1, <3>a, <4>1 DEF CacheCurrent
    <3>2. CASE br'[j] = Cached(b, Answer)
      <4>1. Answer \in Nat /\ (Answer = key \/ (Answer = 0 /\ key <= now))
        BY <1>0 DEF Answer, KeyOpen
      <4>2. /\ br'[j].checkedAt = now
            /\ br'[j].remoteUntil = Answer \/ (Answer <= now /\ br'[j].remoteUntil = 0)
        BY <1>0, <3>0, <3>2, <4>1, CachedEffect
      <4> QED BY <1>0, <1>a, <2>1, <3>a, <4>1, <4>2 DEF CacheCurrent
    <3>3. CASE br'[j] = Cached(b, 0) /\ Degrade(i)
      <4>1. br'[j].checkedAt = now /\ down'[j]
        BY <1>0, <2>3, <3>0, <3>3, CachedEffect, DegradeEffect
      <4> QED BY <1>0, <1>a, <2>1, <3>a, <4>1 DEF CacheCurrent
    <3> QED BY <1>3, <2>3, <3>1, <3>2, <3>3 DEF Check, Types, b
  <2> QED BY <2>2, <2>3
<1>4. ASSUME NEW c \in Calls, RecordSuccess(c) PROVE Stays
  <2>0. InstOf[c] \in Instances /\ UNCHANGED <<now, down, watchers, key>>
    BY <1>4 DEF RecordSuccess
  <2>1. CASE InstOf[c] = j
    <3>1. br'[j].checkedAt = br[j].checkedAt /\ due'[j] = now
      BY <1>4, <2>1 DEF RecordSuccess, Types, Breakers
    <3> QED BY <1>a, <1>c, <2>0, <3>1
  <2>2. CASE InstOf[c] # j
    <3>1. br'[j] = br[j] /\ due'[j] = due[j]
      BY <1>4, <2>2 DEF RecordSuccess, Types
    <3> QED BY <1>a, <1>b, <2>0, <3>1
  <2> QED BY <2>1, <2>2
<1>5. ASSUME NEW c \in Calls, RecordFailure(c) PROVE Stays
  <2>1. /\ br'[j].checkedAt = br[j].checkedAt /\ br'[j].remoteUntil = br[j].remoteUntil
        /\ UNCHANGED <<now, down, watchers, key, due>>
    BY <1>5 DEF RecordFailure, Types, Breakers
  <2> QED BY <1>a, <1>b, <2>1
<1>6. ASSUME NEW c \in Calls, RemoteSkip(c) \/ RemoteBegin(c) PROVE Stays
  BY <1>a, <1>b, <1>6 DEF RemoteSkip, RemoteBegin
<1>7. ASSUME NEW c \in Calls, WriteShared(c) PROVE Stays
  <2>1. InstOf[c] \in Instances /\ (Degrade(InstOf[c]) \/ Fine)
    BY <1>7 DEF WriteShared
  <2>2. UNCHANGED <<now, br>> /\ due'[j] = now
    BY <1>7 DEF WriteShared, WriteKey
  <2> QED BY <1>c, <1>d, <2>1, <2>2
<1>8. ASSUME NEW c \in Calls, WriteFails(c) PROVE Stays
  BY <1>b, <1>d, <1>8 DEF WriteFails
<1>9. CASE Tick
  BY <1>0, <1>a, <1>9 DEF Tick, CacheCurrent
<1>10. CASE UNCHANGED vars
  BY <1>a, <1>b, <1>10 DEF vars
<1> QED BY <1>1, <1>2, <1>3, <1>4, <1>5, <1>6, <1>7, <1>8, <1>9, <1>10
        DEF Next, InstanceStep, CallStep

\* A cached answer that is younger than the last change of the key is right, and
\* a degraded instance has a watcher.
THEOREM SyncInvThm == Spec => [](Types /\ SyncInv)
<1>1. Types /\ SyncInv /\ [Next]_vars => (Types /\ SyncInv)'
  BY NextType, NextSync
<1> QED BY <1>1, InitType, InitSync, PTL DEF Spec

\* Instances that are not degraded agree with the shared circuit within a second.
THEOREM InSyncThm == Spec => []InSync
<1>1. Types /\ SyncInv => InSync
  <2> SUFFICES ASSUME Types, SyncInv, NEW i \in Instances, ~down[i], now >= due[i] + Throttle
               PROVE  Available(i) <=> ~LocallyOpen(i) /\ ~KeyOpen
    BY DEF InSync
  <2>0. /\ now \in Nat /\ key \in Nat /\ due[i] \in Nat
        /\ br[i].checkedAt \in Int /\ br[i].remoteUntil \in Nat
    BY DEF Types, Breakers
  <2>1. CASE MayRead(i)
    BY <2>0, <2>1 DEF Available, Answer, KeyOpen
  <2>2. CASE ~MayRead(i)
    <3>1. br[i].checkedAt > due[i]
      BY <2>0, <2>2 DEF MayRead
    <3>2. br[i].remoteUntil = key \/ (br[i].remoteUntil <= now /\ key <= now)
      BY <3>1 DEF SyncInv, CacheCurrent
    <3> QED BY <2>0, <2>2, <3>2 DEF Available, KeyOpen
  <2> QED BY <2>1, <2>2
<1> QED BY <1>1, SyncInvThm, PTL

=============================================================================
