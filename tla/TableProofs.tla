----------------------------- MODULE TableProofs ------------------------------
(* Proofs about TablePages, for any of the ten pages and any number of        *)
(* requests and of changes of others: a value stays with the row it was typed *)
(* or read for, a list at rest is the server's table unless something could   *)
(* not be known, and a save or a switch writes what was meant.                *)
EXTENDS TablePages, TLAPS

-----------------------------------------------------------------------------
(* What the ten pages have in common.                                         *)

\* The operations that add a row.
Adding == {"create", "import", "batch", "backup", "templates"}

\* Every operation of a page is followed by a refetch of the list.
LEMMA Refetched ==
    ASSUME NEW p \in All
    PROVE  /\ "delete" \in After[p]
           /\ RowOps[p] \ {"edit"} \subseteq After[p]
           /\ PageOps[p] \subseteq After[p]
           /\ "edit" \in RowOps[p] => {"create", "update"} \subseteq After[p]
           /\ RowOps[p] \cap Adding = {}
<1>1. CASE p = "providers"
  BY <1>1 DEF Adding, After, RowOps, PageOps, ProvidersRowOps, ProvidersPageOps,
      ProvidersAfter
<1>2. CASE p = "models"
  BY <1>2 DEF Adding, After, RowOps, PageOps, ModelsRowOps, ModelsPageOps, ModelsAfter
<1>3. CASE p = "keywords"
  BY <1>3 DEF Adding, After, RowOps, PageOps, KeywordsRowOps, KeywordsPageOps,
      KeywordsAfter
<1>4. CASE p = "pii"
  BY <1>4 DEF Adding, After, RowOps, PageOps, PiiRowOps, PiiPageOps, PiiAfter
<1>5. CASE p = "injection"
  BY <1>5 DEF Adding, After, RowOps, PageOps, InjectionRowOps, InjectionPageOps,
      InjectionAfter
<1>6. CASE p = "quotas"
  BY <1>6 DEF Adding, After, RowOps, PageOps, QuotasRowOps, QuotasPageOps, QuotasAfter
<1>7. CASE p = "ratelimits"
  BY <1>7 DEF Adding, After, RowOps, PageOps, RateLimitsRowOps, RateLimitsPageOps,
      RateLimitsAfter
<1>8. CASE p = "apikeys"
  BY <1>8 DEF Adding, After, RowOps, PageOps, ApiKeysRowOps, ApiKeysPageOps,
      ApiKeysAfter
<1>9. CASE p = "users"
  BY <1>9 DEF Adding, After, RowOps, PageOps, UsersRowOps, UsersPageOps, UsersAfter
<1>10. CASE p = "backups"
  BY <1>10 DEF Adding, After, RowOps, PageOps, BackupsRowOps, BackupsPageOps,
      BackupsAfter
<1> QED BY <1>1, <1>2, <1>3, <1>4, <1>5, <1>6, <1>7, <1>8, <1>9, <1>10 DEF All

\* A dialog that edits a row fills in or clears every item.
LEMMA FilledIn ==
    ASSUME NEW p \in All, "edit" \in RowOps[p], NEW e \in BOOLEAN, NEW v
    PROVE  /\ Items(p, e, v) \subseteq Filled[p] \cup Cleared[p]
           /\ Needs(p, e, v) \subseteq Filled[p] \cup Cleared[p]
           /\ Presets[p] \subseteq Filled[p] \cup Cleared[p]
<1>1. CASE p = "providers"
  BY <1>1 DEF RowOps, Items, Needs, Presets, Filled, Cleared, All, ProvidersNew,
      ProvidersFill, ProvidersItems, ProvidersNeeds, ProvidersRowOps, ProvidersClear
<1>2. CASE p = "models"
  BY <1>2 DEF RowOps, Items, Needs, Presets, Filled, Cleared, All, ModelsNew,
      ModelsFill, ModelsItems, ModelsNeeds, ModelsRowOps
<1>3. CASE p = "keywords"
  BY <1>3 DEF RowOps, Items, Needs, Presets, Filled, Cleared, All, KeywordsNew,
      KeywordsFill, KeywordsItems, KeywordsNeeds, KeywordsRowOps
<1>4. CASE p = "pii"
  BY <1>4 DEF RowOps, Items, Needs, Presets, Filled, Cleared, All, PiiNew, PiiFill,
      PiiItems, PiiNeeds, PiiRowOps
<1>5. CASE p = "injection"
  BY <1>5 DEF RowOps, Items, Needs, Presets, Filled, Cleared, All, InjectionNew,
      InjectionFill, InjectionItems, InjectionNeeds, InjectionRowOps
<1>6. CASE p = "quotas"
  BY <1>6 DEF RowOps, Items, Needs, Presets, Filled, Cleared, All, QuotasNew,
      QuotasFill, QuotasItems, QuotasNeeds, QuotasRowOps
<1>7. CASE p = "ratelimits"
  BY <1>7 DEF RowOps, Items, Needs, Presets, Filled, Cleared, All, RateLimitsNew,
      RateLimitsFill, RateLimitsItems, RateLimitsNeeds, RateLimitsRowOps
<1>8. CASE p = "apikeys"
  BY <1>8 DEF RowOps, Items, Needs, Presets, Filled, Cleared, All, ApiKeysNew,
      ApiKeysFill, ApiKeysItems, ApiKeysNeeds, ApiKeysRowOps
<1>9. CASE p = "users"
  BY <1>9 DEF RowOps, UsersRowOps
<1>10. CASE p = "backups"
  BY <1>10 DEF RowOps, BackupsRowOps
<1> QED BY <1>1, <1>2, <1>3, <1>4, <1>5, <1>6, <1>7, <1>8, <1>9, <1>10 DEF All

\* The server takes over what the dialog sends and what the switch sends, the
\* alias of a quota that rejects and an empty key of a provider apart.
Key(p, body) == {f \in {"api_key"} : p = "providers" /\ body[f][1] # "blank"}
Alias(p, v) == {f \in {"degrade_alias"} : p = "quotas" /\ ~Degrades(v)}

LEMMA TakenOver ==
    ASSUME NEW p \in All, "edit" \in RowOps[p] \/ "toggle" \in RowOps[p], NEW body, NEW v
    PROVE  LET U == Updates(p, body) IN
           /\ U \subseteq Fields[p]
           /\ U \subseteq (Items(p, TRUE, v) \cap Sends(p, v)) \cup Alias(p, v)
           /\ U \subseteq (Filled[p] \ Hidden[p]) \cup Key(p, body)
           /\ U \subseteq (Toggles[p] \ Hidden[p]) \cup {"enabled"} \cup Key(p, body)
           /\ Cleared[p] \cap Filled[p] = {}
           /\ Cleared[p] = {f \in {"api_key"} : p = "providers"}
           /\ Filled[p] \subseteq Fields[p] /\ Cleared[p] \subseteq Fields[p]
           /\ p = "quotas" => "over_action" \in U \cap Items(p, TRUE, v) \cap Sends(p, v)
<1>1. CASE p = "providers"
  BY <1>1 DEF RowOps, Items, Sends, Updates, Filled, Cleared, Toggles, Hidden, Fields,
      All, Key, Alias, ProvidersFill, ProvidersItems, ProvidersSends, ProvidersToggles,
      ProvidersRowOps, ProviderFields, updateProvider, ProvidersHidden, ProvidersClear
<1>2. CASE p = "models"
  BY <1>2 DEF RowOps, Items, Sends, Updates, Filled, Cleared, Toggles, Hidden, Fields,
      All, Key, Alias, ModelsFill, ModelsItems, ModelsSends, ModelsToggles,
      ModelsRowOps, ModelFields, updateModel
<1>3. CASE p = "keywords"
  BY <1>3 DEF RowOps, Items, Sends, Updates, Filled, Cleared, Toggles, Hidden, Fields,
      All, Key, Alias, KeywordsFill, KeywordsItems, KeywordsSends, KeywordsToggles,
      KeywordsRowOps, KeywordFields, updateKeyword
<1>4. CASE p = "pii"
  BY <1>4 DEF RowOps, Items, Sends, Updates, Filled, Cleared, Toggles, Hidden, Fields,
      All, Key, Alias, PiiFill, PiiItems, PiiSends, PiiToggles, PiiRowOps, PiiFields,
      updatePiiRule
<1>5. CASE p = "injection"
  BY <1>5 DEF RowOps, Items, Sends, Updates, Filled, Cleared, Toggles, Hidden, Fields,
      All, Key, Alias, InjectionFill, InjectionItems, InjectionSends, InjectionToggles,
      InjectionRowOps, InjectionFields, updateInjectionRule
<1>6. CASE p = "quotas"
  BY <1>6 DEF RowOps, Items, Sends, Updates, Filled, Cleared, Toggles, Hidden, Fields,
      All, Key, Alias, QuotasFill, QuotasItems, QuotasSends, QuotasToggles,
      QuotasRowOps, QuotaFields, updateQuota
<1>7. CASE p = "ratelimits"
  BY <1>7 DEF RowOps, Items, Sends, Updates, Filled, Cleared, Toggles, Hidden, Fields,
      All, Key, Alias, RateLimitsFill, RateLimitsItems, RateLimitsSends,
      RateLimitsToggles, RateLimitsRowOps, RateLimitFields, updateRateLimit
<1>8. CASE p = "apikeys"
  BY <1>8 DEF RowOps, Items, Sends, Updates, Filled, Cleared, Toggles, Hidden, Fields,
      All, Key, Alias, ApiKeysFill, ApiKeysItems, ApiKeysSends, ApiKeysToggles,
      ApiKeysRowOps, ApiKeyFields, updateApiKey
<1>9. CASE p = "users"
  BY <1>9 DEF RowOps, UsersRowOps
<1>10. CASE p = "backups"
  BY <1>10 DEF RowOps, BackupsRowOps
<1> QED BY <1>1, <1>2, <1>3, <1>4, <1>5, <1>6, <1>7, <1>8, <1>9, <1>10 DEF All

-----------------------------------------------------------------------------
(* The shapes of the records.                                                 *)

ReqFields == {"st", "op", "id", "body", "seen", "left", "gone", "lost"}

Shape ==
    /\ page \in All
    /\ DOMAIN table = {"known", "rows"}
    /\ DOMAIN fetch = {"st", "rows"}
    /\ fetch.st \in {"none", "sent", "done"}
    /\ fetch.st # "done" => fetch.rows = <<>>
    /\ DOMAIN form = {"open", "editing", "v", "row"}
    /\ DOMAIN reqs = Kinds
    /\ \A k \in Kinds : DOMAIN reqs[k] = ReqFields

-----------------------------------------------------------------------------
(* Whose a value is.  Values of row 0 are those of a row to be, which becomes *)
(* a new row and never an old one.                                            *)

Own(x, i) == x = Blank \/ x[2] = i \/ (i \notin OldIds /\ x[2] = 0)
Owned(X, g, i) == DOMAIN g = X /\ \A f \in X : Own(g[f], i)

ServerOwned ==
    /\ nextId \in Nat /\ nextId > 2
    /\ \A i \in DOMAIN rows : Owned(F, rows[i], i)

ListOwned ==
    /\ \A i \in DOMAIN table.rows : Owned(F, table.rows[i], i)
    /\ \A i \in DOMAIN fetch.rows : Owned(F, fetch.rows[i], i)

\* A form keeps the values of an earlier dialog, but none that the next one
\* for a row would not fill in or clear.
FormOwned ==
    /\ DOMAIN form.v = F
    /\ form.open => Owned(F, form.v, form.editing) /\ Owned(F, form.row, form.editing)
    /\ form.editing # 0 => "edit" \in RowOps[page]
    /\ form.open => "create" \in PageOps[page] \/ "edit" \in RowOps[page]
    /\ "edit" \in RowOps[page] =>
          \A f \in F \ (Filled[page] \cup Cleared[page]) : form.v[f] = Blank

ReqOwned(q) ==
    /\ Owned(F, q.body, q.id)
    /\ q.op \in Adding => q.id = 0
ReqsOwned == \A k \in Kinds : ReqOwned(reqs[k])

OwnInv == ServerOwned /\ ListOwned /\ FormOwned /\ ReqsOwned

-----------------------------------------------------------------------------
(* What was meant.  As long as no late answer has emptied the dialog, what it *)
(* holds of a row is what the row had or what was typed.                      *)

Mine(i) == <<"mine", i>>

FormMeant ==
    form.open /\ form.editing # 0 /\ ~wiped =>
        /\ \A f \in Filled[page] : form.v[f] \in {form.row[f], Mine(form.editing)}
        /\ \A f \in Cleared[page] : form.v[f] \in {Blank, Mine(form.editing)}

SaveMeant(q) ==
    q.st # "none" =>
        /\ q.op \in {"create", "update"}
        /\ q.op = "update" => "edit" \in RowOps[page]
        /\ q.op = "update" /\ ~wiped =>
              \A f \in Updates(page, q.body) :
                  q.body[f] \in {q.seen[f], Mine(q.id)} \/ f \in Alias(page, q.body)

ToggleMeant(q) ==
    q.st # "none" =>
        /\ q.op = "toggle" /\ "toggle" \in RowOps[page]
        /\ \A f \in F \ {"enabled"} : q.body[f] = IF f \in Toggles[page] THEN q.seen[f] ELSE Blank

MeantInv == FormMeant /\ SaveMeant(reqs["save"]) /\ ToggleMeant(reqs["toggle"])

-----------------------------------------------------------------------------
(* What the page can know.  A list, or a fetch that has been read, is the     *)
(* server's table, unless something unheard happened since or the answer to   *)
(* a change is still to be heard; a page that is left is due for a fetch.     *)

View == [i \in DOMAIN rows |-> Shown(rows[i])]
Untold(q) == q.st # "none" /\ (q.st = "ok" \/ q.op = "templates")
Pending == \E k \in Kinds : Untold(reqs[k])

Told(q) ==
    /\ q.st # "none" => q.op \in After[page]
    /\ q.lost => q.st = "sent" /\ q.op # "templates"

ListInv ==
    /\ \A k \in Kinds : Told(reqs[k])
    /\ ~unheard /\ ~Pending =>
          /\ fetch.st = "done" => fetch.rows = View
          /\ table.known /\ fetch.st = "none" => table.rows = View \/ (stale /\ ~on)

-----------------------------------------------------------------------------
(* Records of values and what is made of them.                                *)

LEMMA OwnedPut ==
    ASSUME NEW g, NEW i, NEW w, NEW S, Owned(F, g, i)
    PROVE  Owned(F, Put(w, i, S, g), i)
BY DEF Owned, Own, Put

LEMMA OwnedTake ==
    ASSUME NEW g, NEW h, NEW i, NEW S, Owned(F, g, i), Owned(F, h, i)
    PROVE  Owned(F, Take(g, S, h), i)
BY DEF Owned, Own, Take

LEMMA OwnedOnly ==
    ASSUME NEW g, NEW i, NEW S, Owned(F, g, i)
    PROVE  Owned(F, Only(g, S), i)
BY DEF Owned, Own, Only

LEMMA OwnedBlank == \A i : Owned(F, AllBlank, i)
BY DEF Owned, Own, AllBlank

\* What a creation stores: the values of row 0 become those of the new row.
LEMMA OwnedCreated ==
    ASSUME NEW body, Owned(F, body, 0), nextId \in Nat, nextId > 2
    PROVE  Owned(F, Created(body), nextId)
BY DEF Owned, Own, Created, OldIds

-----------------------------------------------------------------------------
(* The steps, by what they change.                                            *)

\* A change of others.
Theirs(id) == TheirSave(id) \/ TheirDelete(id)

\* The steps that start a request.
Started(k) ==
    \/ k = "save" /\ handleOk
    \/ k = "toggle" /\ \E id \in DOMAIN table.rows : toggleEnabled(id)
    \/ k = "delete" /\ \E id \in DOMAIN table.rows : Delete(id)
    \/ k = "act" /\ PageAct
    \/ k = "act" /\ \E id \in DOMAIN table.rows : RowAct(id)

\* What happens to a request that is not answered for good.
SameReq(q, r) ==
    /\ r.op = q.op /\ r.id = q.id /\ r.body = q.body /\ r.seen = q.seen
    /\ q.st # "none" /\ DOMAIN r = ReqFields

LEMMA PageStays ==
    ASSUME [Next]_vars
    PROVE  page' = page /\ F' = F
<1>1. page' = page
  BY DEF Next, Page, List, Others, Network, vars, Mount, Leave, openCreate, openEdit, Type,
         handleOk, Cancel, toggleEnabled, Delete, RowAct, PageAct, FetchServe, FetchDeliver,
         FetchFails, Ages, TheirSave, TheirDelete, Serve, Hear, Lose, ServerSame
<1> QED BY <1>1 DEF F

\* The server's table changes when a request is served and when others work.
LEMMA ServerMoves ==
    ASSUME [Next]_vars
    PROVE  \/ UNCHANGED <<rows, nextId>>
           \/ \E k \in Kinds : Serve(k)
           \/ \E id \in DOMAIN rows : Theirs(id)
BY DEF Next, Page, List, Others, Network, vars, Mount, Leave, openCreate, openEdit, Type,
       handleOk, Cancel, toggleEnabled, Delete, RowAct, PageAct, FetchServe, FetchDeliver,
       FetchFails, Ages, Hear, Lose, ServerSame, Theirs

\* The cached list and its fetch.
LEMMA ListMoves ==
    ASSUME [Next]_vars
    PROVE  \/ UNCHANGED <<table, fetch>>
           \/ Mount \/ FetchServe \/ FetchDeliver \/ FetchFails
           \/ \E k \in Kinds : Hear(k)
BY DEF Next, Page, List, Others, Network, vars, Leave, openCreate, openEdit, Type,
       handleOk, Cancel, toggleEnabled, Delete, RowAct, PageAct, Ages, Serve, Lose,
       TheirSave, TheirDelete, UiSame, Quiet

LEMMA FormMoves ==
    ASSUME [Next]_vars
    PROVE  \/ UNCHANGED <<form, wiped>>
           \/ Leave \/ openCreate \/ Type \/ Cancel
           \/ \E id \in DOMAIN table.rows : openEdit(id)
           \/ \E k \in Kinds : Hear(k)
BY DEF Next, Page, List, Others, Network, vars, Mount, FetchServe, FetchDeliver, FetchFails,
       handleOk, toggleEnabled, Delete, RowAct, PageAct, Ages, Serve, Lose,
       TheirSave, TheirDelete, UiSame, Quiet

LEMMA EmptyReq ==
    /\ DOMAIN NoReq = ReqFields
    /\ NoReq.st = "none" /\ NoReq.op = "none" /\ NoReq.id = 0
    /\ NoReq.body = AllBlank /\ ~NoReq.lost
BY DEF NoReq, ReqFields

\* What Start puts in the place of the request.
LEMMA StartsReq ==
    ASSUME Shape, NEW k \in Kinds, NEW op, NEW id, NEW body, NEW seen, NEW left,
           Start(k, op, id, body, seen, left)
    PROVE  /\ reqs[k].st = "none"
           /\ reqs'[k].st = "sent" /\ reqs'[k].op = op /\ reqs'[k].id = id
           /\ reqs'[k].body = body /\ reqs'[k].seen = seen /\ ~reqs'[k].lost
           /\ DOMAIN reqs' = Kinds /\ DOMAIN reqs'[k] = ReqFields
           /\ \A l \in Kinds \ {k} : reqs'[l] = reqs[l]
BY DEF Shape, Start, NoReq, ReqFields

LEMMA ReqMoves ==
    ASSUME Shape, [Next]_vars
    PROVE  /\ DOMAIN reqs' = Kinds
           /\ \A k \in Kinds : /\ DOMAIN reqs'[k] = ReqFields
                               /\ \/ reqs'[k] = reqs[k]
                                  \/ reqs'[k] = NoReq
                                  \/ SameReq(reqs[k], reqs'[k])
                                  \/ Started(k)
<1> DEFINE Good == /\ DOMAIN reqs' = Kinds
                   /\ \A k \in Kinds : /\ DOMAIN reqs'[k] = ReqFields
                                       /\ \/ reqs'[k] = reqs[k]
                                          \/ reqs'[k] = NoReq
                                          \/ SameReq(reqs[k], reqs'[k])
                                          \/ Started(k)
<1>1. CASE UNCHANGED reqs
  BY <1>1 DEF Shape
<1>2. CASE Leave
  BY <1>2 DEF Leave, Shape, SameReq, ReqFields
<1>3. CASE handleOk
  <2>1. \E op, id, body, seen, left : Start("save", op, id, body, seen, left)
    BY <1>3 DEF handleOk
  <2>2. "save" \in Kinds /\ Started("save")
    BY <1>3 DEF Kinds, Started
  <2> QED BY <2>1, <2>2, StartsReq DEF Shape
<1>4. ASSUME NEW id \in DOMAIN table.rows, toggleEnabled(id) PROVE Good
  <2>1. \E op, body, seen, left : Start("toggle", op, id, body, seen, left)
    BY <1>4 DEF toggleEnabled
  <2>2. "toggle" \in Kinds /\ Started("toggle")
    BY <1>4 DEF Kinds, Started
  <2> QED BY <2>1, <2>2, StartsReq DEF Shape
<1>5. ASSUME NEW id \in DOMAIN table.rows, Delete(id) PROVE Good
  <2>1. \E op, body, seen, left : Start("delete", op, id, body, seen, left)
    BY <1>5 DEF Delete
  <2>2. "delete" \in Kinds /\ Started("delete")
    BY <1>5 DEF Kinds, Started
  <2> QED BY <2>1, <2>2, StartsReq DEF Shape
<1>6. ASSUME NEW id \in DOMAIN table.rows, RowAct(id) PROVE Good
  <2>1. \E op, body, seen, left : Start("act", op, id, body, seen, left)
    BY <1>6 DEF RowAct
  <2>2. "act" \in Kinds /\ Started("act")
    BY <1>6 DEF Kinds, Started
  <2> QED BY <2>1, <2>2, StartsReq DEF Shape
<1>7. CASE PageAct
  <2>1. \E op, id, body, seen, left : Start("act", op, id, body, seen, left)
    BY <1>7 DEF PageAct
  <2>2. "act" \in Kinds /\ Started("act")
    BY <1>7 DEF Kinds, Started
  <2> QED BY <2>1, <2>2, StartsReq DEF Shape
<1>8. ASSUME NEW l \in Kinds, Serve(l) PROVE Good
  <2>1. \/ reqs' = [reqs EXCEPT ![l] = NoReq]
        \/ \E st : reqs' = [reqs EXCEPT ![l] = [@ EXCEPT !.st = st]]
    BY <1>8 DEF Serve
  <2>2. reqs[l].st = "sent"
    BY <1>8 DEF Serve
  <2> QED BY <2>1, <2>2, EmptyReq DEF Shape, SameReq, ReqFields
<1>9. ASSUME NEW l \in Kinds, Hear(l) PROVE Good
  <2>1. reqs' = [reqs EXCEPT ![l] = NoReq] \/ reqs' = [reqs EXCEPT ![l] = Next1(reqs[l])]
    BY <1>9 DEF Hear
  <2>2. reqs[l].st \in {"ok", "error"}
    BY <1>9 DEF Hear
  <2>3. SameReq(reqs[l], Next1(reqs[l]))
    BY <2>2 DEF Next1, SameReq, Shape, ReqFields
  <2> QED BY <2>1, <2>2, <2>3, EmptyReq DEF Shape, SameReq
<1>10. ASSUME NEW l \in Kinds, Lose(l) PROVE Good
  <2>1. reqs' = [reqs EXCEPT ![l] = NoReq] \/ reqs' = [reqs EXCEPT ![l].lost = TRUE]
    BY <1>10 DEF Lose
  <2>2. reqs[l].st # "none"
    BY <1>10 DEF Lose
  <2> QED BY <2>1, <2>2, EmptyReq DEF Shape, SameReq, ReqFields
<1> QED
  BY <1>1, <1>2, <1>3, <1>4, <1>5, <1>6, <1>7, <1>8, <1>9, <1>10
     DEF Next, Page, List, Others, Network, vars, Mount, openCreate, openEdit, Type, Cancel,
         FetchServe, FetchDeliver, FetchFails, Ages, TheirSave, TheirDelete, UiSame, Good

-----------------------------------------------------------------------------
(* The shapes.                                                                *)

LEMMA NextShape == Shape /\ [Next]_vars => Shape'
<1> SUFFICES ASSUME Shape, [Next]_vars PROVE Shape'
  OBVIOUS
<1>1. page' \in All
  BY PageStays DEF Shape
<1>2. DOMAIN reqs' = Kinds /\ \A k \in Kinds : DOMAIN reqs'[k] = ReqFields
  BY ReqMoves
<1>3. /\ DOMAIN table' = {"known", "rows"}
      /\ DOMAIN fetch' = {"st", "rows"}
      /\ fetch'.st \in {"none", "sent", "done"}
      /\ fetch'.st # "done" => fetch'.rows = <<>>
  <2>1. CASE UNCHANGED <<table, fetch>>
    BY <2>1 DEF Shape
  <2>2. CASE Mount
    BY <2>2 DEF Mount, Shape, Sent, NoFetch
  <2>3. CASE FetchServe
    BY <2>3 DEF FetchServe, Shape, UiSame
  <2>4. CASE FetchDeliver \/ FetchFails
    BY <2>4 DEF FetchDeliver, FetchFails, Shape, NoFetch
  <2>5. ASSUME NEW k \in Kinds, Hear(k) PROVE <1>3!:
    BY <2>5 DEF Hear, Shape, Invalidate, Sent, NoFetch
  <2> QED BY <2>1, <2>2, <2>3, <2>4, <2>5, ListMoves
<1>4. DOMAIN form' = {"open", "editing", "v", "row"}
  <2>1. ASSUME NEW k \in Kinds, Hear(k) PROVE <1>4!:
    BY <2>1 DEF Hear, Closes, Shut, Closed, Shape
  <2> QED
    BY <2>1, FormMoves DEF Leave, openCreate, openEdit, Type, Cancel, Shut, Closed, Shape
<1> QED BY <1>1, <1>2, <1>3, <1>4 DEF Shape

-----------------------------------------------------------------------------
(* Values stay with their row.                                                *)

LEMMA OwnStart == ASSUME TablesAssumption, Init PROVE Shape /\ OwnInv
<1>1. Shape
  BY DEF TablesAssumption, Init, Shape, NoList, NoFetch, Closed, NoReq, ReqFields
<1>2. ServerOwned
  BY DEF Init, ServerOwned, Owned, Own, Put, OldIds
<1>3. ListOwned
  BY DEF Init, ListOwned, NoList, NoFetch
<1>4. FormOwned
  BY DEF Init, FormOwned, Closed, AllBlank
<1>5. ReqsOwned
  BY OwnedBlank, EmptyReq DEF Init, ReqsOwned, ReqOwned, Adding
<1> QED BY <1>1, <1>2, <1>3, <1>4, <1>5 DEF OwnInv

\* The server: every branch of a handler stores values of the row it stores.
LEMMA ServerOwnedKept ==
    ASSUME Shape, OwnInv, [Next]_vars
    PROVE  ServerOwned'
<1>1. F' = F
  BY PageStays
<1>2. ServerOwned /\ ReqsOwned
  BY DEF OwnInv
<1>3. CASE UNCHANGED <<rows, nextId>>
  BY <1>1, <1>2, <1>3 DEF ServerOwned
<1>4. ASSUME NEW k \in Kinds, Serve(k) PROVE ServerOwned'
  <2> DEFINE q == reqs[k]
  <2>1. ReqOwned(q)
    BY <1>2 DEF ReqsOwned
  <2>2. CASE UNCHANGED <<rows, nextId>>
    BY <2>2, <1>3
  <2>3. CASE q.op \in Adding /\ Adds(Created(q.body))
    <3>1. Owned(F, Created(q.body), nextId)
      BY <2>1, <2>3, <1>2, OwnedCreated DEF ReqOwned, ServerOwned
    <3>2. \A i \in DOMAIN rows' : \/ i = nextId /\ rows'[i] = Created(q.body)
                                  \/ i \in DOMAIN rows /\ rows'[i] = rows[i]
      BY <2>3 DEF Adds
    <3>3. nextId' \in Nat /\ nextId' > 2
      BY <2>3, <1>2 DEF Adds, ServerOwned
    <3> QED BY <3>1, <3>2, <3>3, <1>1, <1>2 DEF ServerOwned
  <2>4. ASSUME NEW row, Stores(q.id, row), Owned(F, row, q.id) PROVE ServerOwned'
    BY <2>4, <1>1, <1>2 DEF ServerOwned, Stores
  <2>5. CASE /\ q.op \in {"update", "toggle"} /\ q.id \in DOMAIN rows
             /\ Stores(q.id, Take(q.body, Updates(page, q.body), rows[q.id]))
    BY <2>1, <2>4, <2>5, <1>2, OwnedTake DEF ReqOwned, ServerOwned
  <2>6. CASE /\ q.op \in DOMAIN Sets /\ q.id \in DOMAIN rows
             /\ Stores(q.id, Put("act", q.id, Sets[q.op], rows[q.id]))
    BY <2>4, <2>6, <1>2, OwnedPut DEF ServerOwned
  <2>7. CASE rows' = Without(rows, q.id) /\ UNCHANGED nextId
    BY <2>7, <1>1, <1>2 DEF ServerOwned, Without
  <2>8. CASE HalfDeletes(q)
    <3>1. PICK S : Stores(q.id, Put("act", q.id, S, rows[q.id])) /\ q.id \in DOMAIN rows
      BY <2>8 DEF HalfDeletes
    <3> QED BY <2>4, <3>1, <1>2, OwnedPut DEF ServerOwned
  <2>9. UNCHANGED <<rows, nextId>> \/ Does(q) \/ HalfDeletes(q)
    BY <1>4 DEF Serve
  <2> QED BY <2>2, <2>3, <2>5, <2>6, <2>7, <2>8, <2>9 DEF Does, Adding
<1>5. ASSUME NEW id \in DOMAIN rows, Theirs(id) PROVE ServerOwned'
  <2>1. nextId' = nextId
    BY <1>5 DEF Theirs, TheirSave, TheirDelete
  <2>2. CASE TheirDelete(id)
    BY <2>1, <2>2, <1>1, <1>2 DEF TheirDelete, Without, ServerOwned
  <2>3. CASE TheirSave(id)
    <3>1. Owned(F, Put("theirs", id, F, rows[id]), id)
      BY OwnedPut, <1>2 DEF ServerOwned
    <3> QED BY <2>1, <2>3, <3>1, <1>1, <1>2 DEF TheirSave, ServerOwned
  <2> QED BY <1>5, <2>2, <2>3 DEF Theirs
<1> QED BY <1>3, <1>4, <1>5, ServerMoves

\* The list: what is read is what the server shows of its rows.
LEMMA ListOwnedKept ==
    ASSUME Shape, OwnInv, [Next]_vars
    PROVE  ListOwned'
<1>1. F' = F
  BY PageStays
<1>2. ServerOwned /\ ListOwned
  BY DEF OwnInv
<1>3. CASE UNCHANGED <<table, fetch>>
  BY <1>1, <1>2, <1>3 DEF ListOwned
<1>4. CASE table' = table /\ fetch' \in {fetch, Sent, NoFetch}
  <2>1. fetch'.rows = fetch.rows \/ fetch'.rows = <<>>
    BY <1>4 DEF Sent, NoFetch
  <2> QED BY <2>1, <1>1, <1>2, <1>4 DEF ListOwned
<1>5. CASE FetchServe
  <2>1. table' = table /\ fetch'.rows = [i \in DOMAIN rows |-> Shown(rows[i])]
    BY <1>5 DEF FetchServe
  <2>2. \A i \in DOMAIN rows : Owned(F, Shown(rows[i]), i)
    BY <1>2, OwnedOnly DEF ServerOwned, Shown
  <2> QED BY <2>1, <2>2, <1>1, <1>2 DEF ListOwned
<1>6. CASE FetchDeliver
  BY <1>1, <1>2, <1>6 DEF FetchDeliver, ListOwned, NoFetch
<1> QED
  BY <1>3, <1>4, <1>5, <1>6, ListMoves DEF Mount, FetchFails, Hear, Invalidate, ServerSame, UiSame

\* The dialog of a row takes nothing over from the dialog of another: what it is
\* not filled with has never been filled in.
LEMMA FormOwnedKept ==
    ASSUME Shape, OwnInv, [Next]_vars
    PROVE  FormOwned'
<1>1. F' = F /\ page' = page /\ page \in All
  BY PageStays DEF Shape
<1>2. FormOwned /\ ListOwned
  BY DEF OwnInv
<1>3. CASE UNCHANGED form
  BY <1>1, <1>2, <1>3 DEF FormOwned
<1>4. CASE form' = Closed
  BY <1>1, <1>4 DEF Closed, AllBlank, FormOwned
<1>5. CASE form' = Shut(form)
  BY <1>1, <1>2, <1>5 DEF Shut, Closed, FormOwned
<1>6. CASE form' = [form EXCEPT !.v = AllBlank]
  <2>1. /\ form'.v = AllBlank /\ form'.editing = form.editing
        /\ form'.open = form.open /\ form'.row = form.row
    BY <1>6 DEF Shape
  <2>2. DOMAIN AllBlank = F /\ \A f \in F : AllBlank[f] = Blank
    BY DEF AllBlank
  <2> QED BY <2>1, <2>2, <1>1, <1>2, OwnedBlank DEF FormOwned
<1>7. CASE openCreate
  <2>1. /\ form'.v = Put("preset", 0, Presets[page], AllBlank)
        /\ form'.editing = 0 /\ form'.row = AllBlank
    BY <1>7 DEF openCreate, Closed
  <2>2. Owned(F, form'.v, 0) /\ Owned(F, form'.row, 0)
    BY <2>1, OwnedPut, OwnedBlank
  <2>3. "create" \in PageOps[page]
    BY <1>7 DEF openCreate
  <2>4. "edit" \in RowOps[page] => \A f \in F \ (Filled[page] \cup Cleared[page]) : form'.v[f] = Blank
    BY <2>1, <1>1, FilledIn DEF Put, AllBlank
  <2> QED BY <2>1, <2>2, <2>3, <2>4, <1>1 DEF FormOwned, Owned
<1>8. ASSUME NEW id \in DOMAIN table.rows, openEdit(id) PROVE FormOwned'
  <2>1. /\ form'.v = Only(Take(table.rows[id], Filled[page], form.v), F \ Cleared[page])
        /\ form'.editing = id /\ form'.row = table.rows[id]
        /\ "edit" \in RowOps[page]
    BY <1>8 DEF openEdit
  <2>2. DOMAIN form'.v = F
    BY <2>1 DEF Only
  <2>3. \A f \in F : form'.v[f] \in {table.rows[id][f], Blank}
    BY <2>1, <1>2 DEF FormOwned, Only, Take
  <2>4. Owned(F, table.rows[id], id)
    BY <1>2 DEF ListOwned
  <2>5. Owned(F, form'.v, id)
    BY <2>2, <2>3, <2>4 DEF Owned, Own
  <2>6. \A f \in F \ (Filled[page] \cup Cleared[page]) : form'.v[f] = Blank
    BY <2>1, <1>2 DEF FormOwned, Only, Take
  <2> QED BY <2>1, <2>2, <2>4, <2>5, <2>6, <1>1 DEF FormOwned
<1>9. CASE Type
  <2>1. PICK S \in {Items(page, Edit, form.v), Needs(page, Edit, form.v)} :
          form' = [form EXCEPT !.v = Put("mine", form.editing, S, form.v)]
    BY <1>9 DEF Type
  <2>2. /\ form'.v = Put("mine", form.editing, S, form.v)
        /\ form'.editing = form.editing /\ form'.row = form.row /\ form'.open = form.open
    BY <2>1 DEF Shape
  <2>3. form.open
    BY <1>9 DEF Type
  <2>4. DOMAIN form'.v = F /\ Owned(F, form'.v, form.editing)
    BY <2>2, <2>3, <1>2, OwnedPut DEF FormOwned, Put
  <2>5. "edit" \in RowOps[page] => S \subseteq Filled[page] \cup Cleared[page]
    BY <1>1, FilledIn DEF Edit
  <2>6. "edit" \in RowOps[page] => \A f \in F \ (Filled[page] \cup Cleared[page]) : form'.v[f] = Blank
    BY <2>2, <2>5, <1>2 DEF FormOwned, Put
  <2> QED BY <2>2, <2>3, <2>4, <2>6, <1>1, <1>2 DEF FormOwned
<1>10. ASSUME NEW k \in Kinds, Hear(k)
       PROVE  form' \in {form, Closed, Shut(form), [form EXCEPT !.v = AllBlank]}
  BY <1>10 DEF Hear, Closes
<1> QED
  BY <1>3, <1>4, <1>5, <1>6, <1>7, <1>8, <1>9, <1>10, FormMoves DEF Leave, Cancel

\* A request carries values of its row.
LEMMA ReqsOwnedKept ==
    ASSUME Shape, OwnInv, [Next]_vars
    PROVE  ReqsOwned'
<1> SUFFICES ASSUME NEW k \in Kinds PROVE ReqOwned(reqs[k])'
  BY DEF ReqsOwned
<1>1. F' = F /\ page \in All
  BY PageStays DEF Shape
<1>2. FormOwned /\ ListOwned /\ ReqOwned(reqs[k])
  BY DEF OwnInv, ReqsOwned
<1>3. CASE reqs'[k] = reqs[k] \/ SameReq(reqs[k], reqs'[k])
  BY <1>1, <1>2, <1>3 DEF SameReq, ReqOwned
<1>4. CASE reqs'[k] = NoReq
  BY <1>1, <1>4, EmptyReq, OwnedBlank DEF ReqOwned, Adding
<1>5. ASSUME NEW op, NEW id, NEW body, NEW seen, NEW left, Start(k, op, id, body, seen, left),
             Owned(F, body, id), op \in Adding => id = 0
      PROVE  ReqOwned(reqs[k])'
  BY <1>1, <1>5, StartsReq DEF ReqOwned
<1>6. ASSUME k = "save", handleOk PROVE ReqOwned(reqs[k])'
  <2> DEFINE v == Only(form.v, Items(page, Edit, form.v) \cap Sends(page, form.v))
             body == IF page = "apikeys" /\ Edit /\ v["enabled"] = Blank
                       THEN Take(form.row, {"enabled"}, v) ELSE v
  <2>1. Owned(F, form.v, form.editing) /\ Owned(F, form.row, form.editing)
    BY <1>2, <1>6 DEF FormOwned, handleOk
  <2>2. Owned(F, v, form.editing)
    BY <2>1, OwnedOnly
  <2>3. Owned(F, body, form.editing)
    BY <2>1, <2>2, OwnedTake
  <2>4. Start(k, IF Edit THEN "update" ELSE "create", form.editing, body, form.row, 0)
    BY <1>6 DEF handleOk
  <2> QED BY <2>3, <2>4, <1>5 DEF Edit, Adding
<1>7. ASSUME NEW id \in DOMAIN table.rows, k = "toggle", toggleEnabled(id) PROVE ReqOwned(reqs[k])'
  <2>1. Owned(F, Put("switched", id, {"enabled"}, Only(table.rows[id], Toggles[page])), id)
    BY <1>2, OwnedOnly, OwnedPut DEF ListOwned
  <2> QED BY <2>1, <1>5, <1>7 DEF toggleEnabled, Adding
<1>8. ASSUME NEW id \in DOMAIN table.rows, k = "delete", Delete(id) PROVE ReqOwned(reqs[k])'
  BY <1>5, <1>8, OwnedBlank DEF Delete, Adding
<1>9. ASSUME NEW id \in DOMAIN table.rows, k = "act", RowAct(id) PROVE ReqOwned(reqs[k])'
  BY <1>1, <1>5, <1>9, OwnedBlank, Refetched DEF RowAct
<1>10. ASSUME k = "act", PageAct PROVE ReqOwned(reqs[k])'
  BY <1>5, <1>10, OwnedBlank DEF PageAct
<1> QED BY <1>3, <1>4, <1>6, <1>7, <1>8, <1>9, <1>10, ReqMoves DEF Started

LEMMA OwnKept == Shape /\ OwnInv /\ [Next]_vars => OwnInv'
BY ServerOwnedKept, ListOwnedKept, FormOwnedKept, ReqsOwnedKept DEF OwnInv

THEOREM OwnInvThm == Spec => [](Shape /\ OwnInv)
<1>1. Init => Shape /\ OwnInv
  BY OwnStart, TablesAssumption
<1>2. (Shape /\ OwnInv) /\ [Next]_vars => (Shape /\ OwnInv)'
  BY NextShape, OwnKept
<1> QED BY <1>1, <1>2, PTL DEF Spec

\* What is typed or read for one row is never stored in another, over dialogs
\* that were cancelled and answers that come late.
THEOREM RowsThm == Spec => []ValuesStayWithTheirRow
<1>1. OwnInv => ValuesStayWithTheirRow
  BY DEF OwnInv, ServerOwned, Owned, Own, ValuesStayWithTheirRow
<1> QED BY <1>1, OwnInvThm, PTL

-----------------------------------------------------------------------------
(* What the page can know.                                                    *)

LEMMA ListStart == Init => ListInv
BY EmptyReq DEF Init, ListInv, Told, NoList, NoFetch

\* Every request is one that is followed by a refetch, and one that was lost is
\* not answered.
LEMMA ToldKept ==
    ASSUME Shape, FormOwned, NEW k \in Kinds, Told(reqs[k]), [Next]_vars
    PROVE  Told(reqs[k])'
<1>1. page' = page /\ page \in All
  BY PageStays DEF Shape
<1>2. CASE reqs'[k] = reqs[k] \/ reqs'[k] = NoReq
  BY <1>1, <1>2, EmptyReq DEF Told
<1>3. CASE Started(k)
  <2>1. ASSUME NEW op \in After[page], NEW id, NEW body, NEW seen, NEW left,
               Start(k, op, id, body, seen, left)
        PROVE  Told(reqs[k])'
    BY <1>1, <2>1, StartsReq DEF Told
  <2>2. /\ "delete" \in After[page]
        /\ RowOps[page] \ {"edit"} \subseteq After[page] /\ PageOps[page] \subseteq After[page]
    BY <1>1, Refetched
  <2>3. "edit" \in RowOps[page] => {"create", "update"} \subseteq After[page]
    BY <1>1, Refetched
  <2>4. CASE k = "save" /\ handleOk
    <3>1. (IF Edit THEN "update" ELSE "create") \in After[page]
      BY <2>2, <2>3, <2>4 DEF handleOk, FormOwned, Edit
    <3> QED BY <2>1, <2>4, <3>1 DEF handleOk
  <2>5. ASSUME NEW id \in DOMAIN table.rows, toggleEnabled(id), k = "toggle" PROVE Told(reqs[k])'
    BY <2>1, <2>2, <2>5 DEF toggleEnabled
  <2>6. ASSUME NEW id \in DOMAIN table.rows, Delete(id), k = "delete" PROVE Told(reqs[k])'
    BY <2>1, <2>2, <2>6 DEF Delete
  <2>7. ASSUME NEW id \in DOMAIN table.rows, RowAct(id), k = "act" PROVE Told(reqs[k])'
    BY <2>1, <2>2, <2>7 DEF RowAct
  <2>8. CASE k = "act" /\ PageAct
    BY <2>1, <2>2, <2>8 DEF PageAct
  <2> QED BY <1>3, <2>4, <2>5, <2>6, <2>7, <2>8 DEF Started
<1>4. CASE SameReq(reqs[k], reqs'[k]) /\ reqs'[k] # reqs[k]
  <2>1. reqs'[k].op \in After[page]
    BY <1>4 DEF SameReq, Told
  <2>2. reqs'[k].lost => reqs'[k].st = "sent" /\ reqs'[k].op # "templates"
    <3>1. CASE Leave
      BY <3>1 DEF Leave, Shape, Told, ReqFields
    <3>2. ASSUME NEW l \in Kinds, Serve(l) PROVE <2>2!:
      BY <3>2, EmptyReq DEF Serve, Shape, Told, ReqFields
    <3>3. ASSUME NEW l \in Kinds, Hear(l) PROVE <2>2!:
      BY <3>3, EmptyReq DEF Hear, Next1, Shape, Told, ReqFields
    <3>4. ASSUME NEW l \in Kinds, Lose(l) PROVE <2>2!:
      BY <3>4, EmptyReq DEF Lose, Shape, Told, ReqFields
    <3>5. ASSUME NEW l \in Kinds, NEW op, NEW id, NEW body, NEW seen, NEW left,
                 Start(l, op, id, body, seen, left)
          PROVE FALSE
      BY <1>4, <3>5, StartsReq DEF SameReq
    <3>6. CASE reqs' = reqs
      BY <1>4, <3>6
    <3> QED
      BY <3>1, <3>2, <3>3, <3>4, <3>5, <3>6
         DEF Next, Page, List, Others, Network, vars, Mount, openCreate, openEdit, Type, Cancel,
             handleOk, toggleEnabled, Delete, RowAct, PageAct, FetchServe, FetchDeliver,
             FetchFails, Ages, TheirSave, TheirDelete, UiSame, Kinds
  <2> QED BY <1>1, <2>1, <2>2 DEF Told
<1> QED BY <1>2, <1>3, <1>4, ReqMoves

\* The list and its fetch agree with the server's table as far as they can.
Agrees ==
    /\ fetch.st = "done" => fetch.rows = View
    /\ table.known /\ fetch.st = "none" => table.rows = View \/ (stale /\ ~on)

LEMMA ViewStays ==
    ASSUME [Next]_vars, rows' = rows
    PROVE  View' = View
BY PageStays DEF View, Shown, Only, F

\* A step that changes the page's requests only adds to what is to be told.
LEMMA AgreesStays ==
    ASSUME [Next]_vars, Agrees, rows' = rows, UNCHANGED <<table, fetch, stale, on>>
    PROVE  Agrees'
BY ViewStays DEF Agrees

LEMMA PendingSame ==
    ASSUME Shape, ~Pending', \A k \in Kinds : Untold(reqs[k]) => Untold(reqs'[k])
    PROVE  ~Pending
BY DEF Pending

\* A step that starts a request.
LEMMA StartAgrees ==
    ASSUME Shape, ListInv, [Next]_vars, ~unheard', ~Pending', ServerSame, Quiet,
           NEW k \in Kinds, NEW op, NEW id, NEW body, NEW seen, NEW left,
           Start(k, op, id, body, seen, left)
    PROVE  Agrees'
<1>1. \A l \in Kinds : Untold(reqs[l]) => Untold(reqs'[l])
  BY StartsReq DEF Untold
<1>2. ~Pending /\ ~unheard
  BY <1>1, PendingSame DEF Quiet
<1> QED BY <1>2, AgreesStays DEF Quiet, ServerSame, ListInv, Agrees

\* A request that is served changes the table and tells nothing yet, or its
\* answer is lost, which is unheard of.
LEMMA ServeAgrees ==
    ASSUME Shape, ListInv, [Next]_vars, ~unheard', ~Pending', NEW k \in Kinds, Serve(k)
    PROVE  Agrees'
<1> DEFINE q == reqs[k]
<1>1. q.st = "sent" /\ Told(q) /\ DOMAIN q = ReqFields /\ DOMAIN reqs = Kinds
  BY DEF Serve, ListInv, Shape
<1>2. \A l \in Kinds \ {k} : reqs'[l] = reqs[l]
  BY <1>1 DEF Serve
<1>3. ~Untold(reqs'[k])
  BY DEF Pending
<1>4. ~unheard
  BY DEF Serve
<1>5. rows' = rows /\ q.op # "templates"
  <2>1. CASE q.lost
    BY <1>1, <2>1 DEF Serve, Told
  <2>2. CASE ~q.lost
    <3>1. \/ reqs'[k] = [q EXCEPT !.st = "ok"]
          \/ reqs'[k] = [q EXCEPT !.st = "error"] /\ (rows' = rows \/ q.op = "templates")
      BY <1>1, <2>2 DEF Serve
    <3> QED BY <1>1, <1>3, <3>1 DEF Untold, ReqFields
  <2> QED BY <2>1, <2>2
<1>6. ~Untold(q)
  BY <1>1, <1>5 DEF Untold
<1>7. ~Pending
  BY <1>2, <1>6, PendingSame
<1>8. UNCHANGED <<table, fetch, stale, on>>
  BY DEF Serve
<1> QED BY <1>4, <1>5, <1>7, <1>8, AgreesStays DEF ListInv, Agrees

\* An answer that is heard of a change is followed by a new fetch; on a page
\* that is left the list is due for one.
LEMMA HearAgrees ==
    ASSUME Shape, ListInv, [Next]_vars, ~unheard', ~Pending', NEW k \in Kinds, Hear(k)
    PROVE  Agrees'
<1> DEFINE q == reqs[k]
<1>1. Told(q) /\ DOMAIN q = ReqFields /\ DOMAIN reqs = Kinds /\ q.st \in {"ok", "error"}
  BY DEF Hear, ListInv, Shape
<1>2. ~Goes(q) /\ reqs' = [reqs EXCEPT ![k] = NoReq]
  <2>1. ~Untold(reqs'[k])
    BY DEF Pending
  <2>2. CASE Goes(q) /\ reqs' = [reqs EXCEPT ![k] = Next1(q)]
    BY <1>1, <2>1, <2>2 DEF Untold, Goes, Next1, ReqFields
  <2> QED BY <2>2 DEF Hear
<1>3. rows' = rows /\ UNCHANGED <<table, on>>
  BY DEF Hear, ServerSame
<1>4. CASE q.st = "ok" \/ q.op = "templates"
  <2>1. Invalidate
    BY <1>1, <1>2, <1>4 DEF Hear, Told
  <2>2. CASE fetch' = Sent
    BY <2>2 DEF Agrees, Sent, NoFetch
  <2>3. CASE fetch' # Sent
    <3>1. fetch' = fetch /\ ~(on /\ fetch.st = "none") /\ fetch.st # "done" /\ stale'
      BY <2>1, <2>3 DEF Invalidate
    <3>2. fetch'.st = "none" => stale' /\ ~on'
      BY <1>3, <3>1
    <3> QED BY <3>1, <3>2 DEF Agrees
  <2> QED BY <2>2, <2>3
<1>5. CASE ~(q.st = "ok" \/ q.op = "templates")
  <2>1. UNCHANGED <<stale, fetch, unheard>>
    BY <1>2, <1>5 DEF Hear
  <2>2. ~Untold(q)
    BY <1>5 DEF Untold
  <2>3. ~Pending
    BY <1>1, <1>2, <2>2, PendingSame
  <2> QED BY <1>3, <2>1, <2>3, AgreesStays DEF ListInv, Agrees
<1> QED BY <1>4, <1>5

LEMMA ListKept ==
    ASSUME Shape, FormOwned, ListInv, [Next]_vars
    PROVE  ListInv'
<1>1. \A k \in Kinds : Told(reqs[k])'
  BY ToldKept DEF ListInv
<1>2. SUFFICES ASSUME ~unheard', ~Pending' PROVE Agrees'
  BY <1>1 DEF ListInv, Agrees
<1>3. ~unheard /\ ~Pending => Agrees
  BY DEF ListInv, Agrees
<1>4. CASE UNCHANGED <<rows, table, fetch, stale, on, reqs, unheard>>
  BY <1>3, <1>4, <1>2, AgreesStays DEF Pending
<1>5. CASE Mount
  <2>1. ~unheard /\ ~Pending /\ rows' = rows /\ table' = table /\ stale' = stale
    BY <1>5, <1>2 DEF Mount, ServerSame, Pending
  <2>2. CASE fetch' = Sent
    BY <2>2 DEF Agrees, Sent, NoFetch
  <2>3. CASE fetch' = fetch /\ ~(stale /\ fetch.st = "none")
    BY <1>3, <2>1, <2>3, ViewStays DEF Agrees
  <2> QED BY <1>5, <2>1, <2>2, <2>3 DEF Mount, Agrees
<1>6. CASE Leave
  <2>1. ~unheard /\ rows' = rows /\ UNCHANGED <<table, fetch, stale>> /\ ~on'
    BY <1>6, <1>2 DEF Leave, ServerSame
  <2>2. \A k \in Kinds : Untold(reqs[k]) => Untold(reqs'[k])
    BY <1>6 DEF Leave, Shape, Untold, ReqFields
  <2>3. ~Pending
    BY <1>2, <2>2, PendingSame
  <2> QED BY <1>3, <2>1, <2>3, ViewStays DEF Agrees, Leave
<1>7. CASE Ages
  <2>1. ~unheard /\ ~Pending /\ rows' = rows /\ UNCHANGED <<table, fetch, on>> /\ ~stale
    BY <1>7, <1>2 DEF Ages, ServerSame, UiSame, Pending
  <2> QED BY <1>3, <2>1, ViewStays DEF Agrees
<1>8. CASE FetchServe
  <2>1. rows' = rows /\ fetch'.st = "done" /\ fetch'.rows = View
    BY <1>8 DEF FetchServe, ServerSame, View
  <2> QED BY <2>1, ViewStays DEF Agrees
<1>9. CASE FetchDeliver
  <2>1. ~unheard /\ ~Pending /\ rows' = rows /\ fetch.st = "done"
    BY <1>9, <1>2 DEF FetchDeliver, ServerSame, UiSame, Pending
  <2>2. table'.rows = View /\ fetch'.st = "none"
    BY <1>3, <1>9, <2>1 DEF FetchDeliver, Agrees, NoFetch
  <2> QED BY <2>1, <2>2, ViewStays DEF Agrees
<1>10. CASE FetchFails
  BY <1>2, <1>10 DEF FetchFails
<1>11. ASSUME NEW k \in Kinds, Started(k) PROVE Agrees'
  <2>1. ServerSame /\ Quiet /\ \E op, id, body, seen, left : Start(k, op, id, body, seen, left)
    BY <1>11 DEF Started, handleOk, toggleEnabled, Delete, RowAct, PageAct
  <2> QED BY <1>2, <2>1, StartAgrees
<1>12. ASSUME NEW k \in Kinds, Serve(k) PROVE Agrees'
  BY <1>2, <1>12, ServeAgrees
<1>13. ASSUME NEW k \in Kinds, Hear(k) PROVE Agrees'
  BY <1>2, <1>13, HearAgrees
<1>14. ASSUME NEW k \in Kinds, Lose(k) PROVE Agrees'
  <2>1. /\ ~unheard /\ reqs' = [reqs EXCEPT ![k].lost = TRUE]
        /\ rows' = rows /\ UNCHANGED <<table, fetch, stale, on>>
    BY <1>2, <1>14 DEF Lose, ServerSame
  <2>2. \A l \in Kinds : Untold(reqs[l]) => Untold(reqs'[l])
    BY <2>1 DEF Shape, Untold, ReqFields
  <2>3. ~Pending
    BY <1>2, <2>2, PendingSame
  <2> QED BY <1>3, <2>1, <2>3, AgreesStays
<1>15. ASSUME NEW id, Theirs(id) PROVE FALSE
  BY <1>2, <1>15 DEF Theirs, TheirSave, TheirDelete
<1> QED
  BY <1>4, <1>5, <1>6, <1>7, <1>8, <1>9, <1>10, <1>11, <1>12, <1>13, <1>14, <1>15
     DEF Next, Page, List, Others, Network, Theirs, Started, Kinds, vars, openCreate, openEdit,
         Type, Cancel, ServerSame, Quiet

\* A list at rest differs from the server's table only for a cause.
THEOREM ListThm == Spec => []StaleHasCause
<1>1. Init => ListInv
  BY ListStart
<1>2. Shape /\ OwnInv /\ ListInv /\ [Next]_vars => ListInv'
  BY ListKept DEF OwnInv
<1>3. ListInv => StaleHasCause
  BY DEF ListInv, StaleHasCause, Busy, Pending, Untold, View
<1> QED BY <1>1, <1>2, <1>3, OwnInvThm, PTL DEF Spec

-----------------------------------------------------------------------------
(* What was meant.                                                            *)

LEMMA WipedStays == [Next]_vars /\ wiped => wiped'
BY DEF Next, Page, List, Others, Network, vars, Mount, Leave, openCreate, openEdit, Type,
       handleOk, Cancel, toggleEnabled, Delete, RowAct, PageAct, FetchServe, FetchDeliver,
       FetchFails, Ages, TheirSave, TheirDelete, Serve, Hear, Lose, UiSame, Quiet, Closes

LEMMA FormMeantKept ==
    ASSUME Shape, FormOwned, FormMeant, [Next]_vars
    PROVE  FormMeant'
<1>1. F' = F /\ page' = page /\ page \in All
  BY PageStays DEF Shape
<1>2. SUFFICES ASSUME form'.open, form'.editing # 0, ~wiped' PROVE FormMeant'
  BY DEF FormMeant
<1>3. ~wiped
  BY <1>2, WipedStays
<1>4. CASE UNCHANGED form
  BY <1>1, <1>2, <1>3, <1>4 DEF FormMeant
<1>5. CASE form' = Closed \/ form' = Shut(form) \/ openCreate
  <2>1. DOMAIN Closed = {"open", "editing", "v", "row"} /\ Closed.editing = 0
    BY DEF Closed
  <2>2. form'.editing = 0
    BY <1>5, <2>1 DEF Shut, openCreate
  <2> QED BY <1>2, <2>2
<1>6. ASSUME NEW id \in DOMAIN table.rows, openEdit(id) PROVE FormMeant'
  <2>1. /\ form'.v = Only(Take(table.rows[id], Filled[page], form.v), F \ Cleared[page])
        /\ form'.editing = id /\ form'.row = table.rows[id]
        /\ "edit" \in RowOps[page]
    BY <1>6 DEF openEdit
  <2>2. Filled[page] \subseteq F /\ Cleared[page] \subseteq F /\ Cleared[page] \cap Filled[page] = {}
    BY <1>1, <2>1, TakenOver DEF F
  <2>3. \A f \in Filled[page] : form'.v[f] = form'.row[f]
    BY <2>1, <2>2 DEF Only, Take
  <2>4. \A f \in Cleared[page] : form'.v[f] = Blank
    BY <2>1, <2>2 DEF Only, Take
  <2> QED BY <2>3, <2>4, <1>1 DEF FormMeant
<1>7. CASE Type
  <2>1. PICK S : form' = [form EXCEPT !.v = Put("mine", form.editing, S, form.v)]
    BY <1>7 DEF Type
  <2>2. /\ form'.v = Put("mine", form.editing, S, form.v)
        /\ form'.editing = form.editing /\ form'.row = form.row /\ form'.open = form.open
    BY <2>1 DEF Shape
  <2>3. "edit" \in RowOps[page]
    BY <1>2, <2>2 DEF FormOwned
  <2>4. Filled[page] \subseteq F /\ Cleared[page] \subseteq F
    BY <1>1, <2>3, TakenOver DEF F
  <2>5. \A f \in F : form'.v[f] \in {form.v[f], Mine(form.editing)}
    BY <2>2 DEF Put, Mine
  <2> QED BY <1>1, <1>2, <1>3, <2>2, <2>4, <2>5 DEF FormMeant
<1>8. ASSUME NEW k \in Kinds, Hear(k) PROVE form' = form \/ form' = Closed \/ form' = Shut(form)
  BY <1>2, <1>8 DEF Hear, Closes, Closed, Shut
<1> QED BY <1>4, <1>5, <1>6, <1>7, <1>8, FormMoves DEF Leave, Cancel

\* The body of a save has what the dialog has, for what the server takes over.
LEMMA SaveMeantStarts ==
    ASSUME Shape, FormOwned, FormMeant, handleOk, [Next]_vars
    PROVE  SaveMeant(reqs["save"])'
<1> DEFINE v == Only(form.v, Items(page, Edit, form.v) \cap Sends(page, form.v))
           body == IF page = "apikeys" /\ Edit /\ v["enabled"] = Blank
                     THEN Take(form.row, {"enabled"}, v) ELSE v
<1>1. F' = F /\ page' = page /\ page \in All /\ wiped' = wiped
  BY PageStays DEF Shape, handleOk, Quiet
<1>2. Start("save", IF Edit THEN "update" ELSE "create", form.editing, body, form.row, 0)
  BY DEF handleOk
<1>3. /\ reqs'["save"].op = (IF Edit THEN "update" ELSE "create")
      /\ reqs'["save"].id = form.editing
      /\ reqs'["save"].body = body /\ reqs'["save"].seen = form.row
  BY <1>2, StartsReq DEF Kinds
<1>4. Edit => "edit" \in RowOps[page]
  BY DEF Edit, FormOwned
<1>5. ASSUME Edit, ~wiped, NEW f \in Updates(page, body)
      PROVE  body[f] \in {form.row[f], Mine(form.editing)} \/ f \in Alias(page, body)
  <2> DEFINE Offered == Items(page, TRUE, form.v) \cap Sends(page, form.v)
  <2>1. /\ f \in F
        /\ f \in Offered \cup Alias(page, form.v)
        /\ f \in Filled[page] \cup Key(page, body)
        /\ Cleared[page] = {g \in {"api_key"} : page = "providers"}
        /\ page = "quotas" => "over_action" \in Updates(page, body) /\ "over_action" \in Offered
        /\ Updates(page, body) \subseteq F
    <3> HIDE DEF body
    <3> QED BY <1>1, <1>4, <1>5, TakenOver DEF F
  <2>2. Edit = TRUE
    BY <1>5 DEF Edit
  <2>3. \A g \in F \cap Offered : v[g] = form.v[g]
    BY <2>2 DEF Only
  <2>4. page # "apikeys" => body = v
    OBVIOUS
  <2>5. CASE f \in Alias(page, form.v)
    <3>1. page = "quotas" /\ f = "degrade_alias" /\ ~Degrades(form.v)
      BY <2>5 DEF Alias
    <3>2. body["over_action"] = form.v["over_action"]
      <4> HIDE DEF body, v, Offered
      <4> QED BY <2>1, <2>3, <2>4, <3>1
    <3> QED BY <3>1, <3>2 DEF Alias, Degrades
  <2>6. CASE f \in Offered
    <3>1. form.v[f] = form.row[f] \/ form.v[f] = Mine(form.editing) \/ f \in Key(page, body)
      BY <1>5, <2>1 DEF FormMeant, handleOk, Edit
    <3>2. CASE f \in Key(page, body)
      <4>1. page = "providers" /\ f = "api_key" /\ body[f][1] # "blank"
        BY <3>2 DEF Key
      <4>2. body[f] = form.v[f]
        <5> HIDE DEF body, v, Offered
        <5> QED BY <4>1, <2>1, <2>3, <2>4, <2>6
      <4>3. form.v[f] \in {Blank, Mine(form.editing)}
        BY <1>5, <4>1, <2>1 DEF FormMeant, handleOk, Edit
      <4> HIDE DEF body, v, Offered
      <4> QED BY <4>1, <4>2, <4>3 DEF Blank
    <3>3. CASE form.v[f] = form.row[f] \/ form.v[f] = Mine(form.editing)
      <4>1. body[f] = v[f] \/ body[f] = form.row[f]
        <5> HIDE DEF v
        <5> QED BY <2>1 DEF Take
      <4>2. v[f] = form.v[f]
        BY <2>1, <2>3, <2>6
      <4> HIDE DEF body, v, Offered
      <4> QED BY <3>3, <4>1, <4>2
    <3> QED BY <3>1, <3>2, <3>3
  <2> QED BY <2>1, <2>5, <2>6
<1> HIDE DEF body
<1> QED BY <1>1, <1>3, <1>4, <1>5 DEF SaveMeant

LEMMA ToggleMeantStarts ==
    ASSUME Shape, [Next]_vars, NEW id \in DOMAIN table.rows, toggleEnabled(id)
    PROVE  ToggleMeant(reqs["toggle"])'
<1> DEFINE body == Put("switched", id, {"enabled"}, Only(table.rows[id], Toggles[page]))
<1>1. F' = F /\ page' = page /\ "toggle" \in RowOps[page]
  BY PageStays DEF toggleEnabled
<1>2. Start("toggle", "toggle", id, body, table.rows[id], 0)
  BY DEF toggleEnabled
<1>3. /\ reqs'["toggle"].op = "toggle"
      /\ reqs'["toggle"].body = body /\ reqs'["toggle"].seen = table.rows[id]
  BY <1>2, StartsReq DEF Kinds
<1>4. \A f \in F \ {"enabled"} : body[f] = IF f \in Toggles[page] THEN table.rows[id][f] ELSE Blank
  BY DEF Put, Only
<1> HIDE DEF body
<1> QED BY <1>1, <1>3, <1>4 DEF ToggleMeant

LEMMA MeantKept ==
    ASSUME Shape, FormOwned, MeantInv, [Next]_vars
    PROVE  MeantInv'
<1>1. F' = F /\ page' = page
  BY PageStays
<1>2. FormMeant'
  BY FormMeantKept DEF MeantInv
<1>3. SaveMeant(reqs["save"])'
  <2>1. CASE reqs'["save"] = reqs["save"]
    BY <2>1, <1>1, WipedStays DEF MeantInv, SaveMeant
  <2>2. CASE reqs'["save"] = NoReq
    BY <2>2, EmptyReq DEF SaveMeant
  <2>3. CASE SameReq(reqs["save"], reqs'["save"])
    BY <2>3, <1>1, WipedStays DEF SameReq, MeantInv, SaveMeant
  <2>4. CASE Started("save")
    BY <2>4, SaveMeantStarts DEF Started, MeantInv
  <2> QED BY <2>1, <2>2, <2>3, <2>4, ReqMoves DEF Kinds
<1>4. ToggleMeant(reqs["toggle"])'
  <2>1. CASE reqs'["toggle"] = reqs["toggle"]
    BY <2>1, <1>1 DEF MeantInv, ToggleMeant
  <2>2. CASE reqs'["toggle"] = NoReq
    BY <2>2, EmptyReq DEF ToggleMeant
  <2>3. CASE SameReq(reqs["toggle"], reqs'["toggle"])
    BY <2>3, <1>1 DEF SameReq, MeantInv, ToggleMeant
  <2>4. CASE Started("toggle")
    BY <2>4, ToggleMeantStarts DEF Started
  <2> QED BY <2>1, <2>2, <2>3, <2>4, ReqMoves DEF Kinds
<1> QED BY <1>2, <1>3, <1>4 DEF MeantInv

\* A save changes only what was typed, the switch only the switch.
THEOREM WritesThm == Spec => WritesWhatWasMeant
<1> DEFINE Said(k) ==
      LET q == reqs[k]
          i == q.id
      IN  /\ q.st = "sent" /\ reqs'[k] # q /\ q.op # "create" /\ ~wiped
          /\ i \in DOMAIN rows /\ Shown(rows[i]) = q.seen
          => \A f \in F :
               \/ rows'[i][f] = rows[i][f]
               \/ k = "save" /\ rows'[i][f] = <<"mine", i>>
               \/ k = "toggle" /\ f = "enabled"
               \/ page = "quotas" /\ f = "degrade_alias" /\ ~Degrades(rows'[i])
<1>1. ASSUME Shape, MeantInv, Next, NEW k \in {"save", "toggle"} PROVE Said(k)
  <2> DEFINE q == reqs[k]
             i == q.id
             U == Updates(page, q.body)
  <2> SUFFICES ASSUME q.st = "sent", reqs'[k] # q, q.op # "create", ~wiped,
                      i \in DOMAIN rows, Shown(rows[i]) = q.seen, NEW f \in F
               PROVE  \/ rows'[i][f] = rows[i][f]
                      \/ k = "save" /\ rows'[i][f] = <<"mine", i>>
                      \/ k = "toggle" /\ f = "enabled"
                      \/ page = "quotas" /\ f = "degrade_alias" /\ ~Degrades(rows'[i])
    OBVIOUS
  <2>1. CASE rows' = rows
    BY <2>1
  <2>2. CASE Serve(k) /\ rows' # rows
    <3>1. /\ k = "save" => q.op = "update" /\ "edit" \in RowOps[page]
          /\ k = "toggle" => q.op = "toggle" /\ "toggle" \in RowOps[page]
      BY <1>1 DEF MeantInv, SaveMeant, ToggleMeant
    <3>2. rows' = [rows EXCEPT ![i] = Take(q.body, U, rows[i])]
      <4>1. Does(q)
        BY <2>2, <3>1 DEF Serve, HalfDeletes
      <4>2. q.op \in {"update", "toggle"}
        BY <3>1
      <4> QED BY <2>2, <4>1, <4>2 DEF Does, Stores, Sets, HalfDeletes
    <3>3. \A g \in F : rows'[i][g] = IF g \in U THEN q.body[g] ELSE rows[i][g]
      BY <3>2 DEF Take
    <3>4. \A g \in F : q.seen[g] = IF g \in Hidden[page] THEN Blank ELSE rows[i][g]
      BY DEF Shown, Only
    <3>5. /\ U \subseteq F
          /\ U \subseteq (Filled[page] \ Hidden[page]) \cup Key(page, q.body)
          /\ U \subseteq (Toggles[page] \ Hidden[page]) \cup {"enabled"} \cup Key(page, q.body)
          /\ page = "quotas" => "over_action" \in U
      <4>1. page \in All
        BY <1>1 DEF Shape
      <4> QED BY <3>1, <4>1, TakenOver DEF F
    <3> HIDE DEF U
    <3>6. f \in U /\ q.body[f] = Blank => f \notin Key(page, q.body)
      BY DEF Key, Blank
    <3>7. CASE k = "save" /\ f \in U
      <4>1. q.body[f] = q.seen[f] \/ q.body[f] = <<"mine", i>> \/ f \in Alias(page, q.body)
        BY <1>1, <3>1, <3>7 DEF MeantInv, SaveMeant, Mine, U
      <4>2. CASE q.body[f] = q.seen[f]
        <5>1. f \notin Hidden[page]
          BY <3>4, <3>5, <3>6, <3>7, <4>2
        <5> QED BY <3>3, <3>4, <3>7, <4>2, <5>1
      <4>3. CASE q.body[f] = <<"mine", i>>
        BY <3>3, <3>7, <4>3
      <4>4. CASE f \in Alias(page, q.body)
        <5>1. page = "quotas" /\ f = "degrade_alias" /\ ~Degrades(q.body)
          BY <4>4 DEF Alias
        <5>2. rows'[i]["over_action"] = q.body["over_action"]
          BY <3>3, <3>5, <5>1
        <5> QED BY <5>1, <5>2 DEF Degrades
      <4> QED BY <4>1, <4>2, <4>3, <4>4
    <3>8. CASE k = "toggle" /\ f \in U /\ f # "enabled"
      <4>1. q.body[f] = IF f \in Toggles[page] THEN q.seen[f] ELSE Blank
        BY <1>1, <3>8 DEF MeantInv, ToggleMeant
      <4>2. f \in Toggles[page] /\ f \notin Hidden[page]
        BY <3>4, <3>5, <3>6, <3>8, <4>1
      <4> QED BY <3>3, <3>4, <3>8, <4>1, <4>2
    <3>9. CASE f \notin U
      BY <3>3, <3>9
    <3> QED BY <3>7, <3>8, <3>9
  <2>3. ASSUME NEW l \in Kinds, l # k, Serve(l) PROVE FALSE
    BY <1>1, <2>3 DEF Serve, Shape, Kinds
  <2>4. ASSUME NEW id \in DOMAIN rows, Theirs(id) PROVE FALSE
    BY <2>4 DEF Theirs, TheirSave, TheirDelete
  <2> QED BY <1>1, <2>1, <2>2, <2>3, <2>4, ServerMoves
<1>2. Init => MeantInv
  BY EmptyReq DEF Init, MeantInv, FormMeant, SaveMeant, ToggleMeant, Closed, Kinds
<1>3. Shape /\ OwnInv /\ MeantInv /\ [Next]_vars => MeantInv'
  BY MeantKept DEF OwnInv
<1>4. Shape /\ MeantInv /\ [Next]_vars => [\A k \in {"save", "toggle"} : Said(k)]_vars
  BY <1>1
<1> QED BY <1>2, <1>3, <1>4, OwnInvThm, PTL DEF Spec, WritesWhatWasMeant

=============================================================================
