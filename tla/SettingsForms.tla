--------------------------- MODULE SettingsForms ---------------------------
(* The pages of the console that are one form over one record of settings     *)
(* (Failover, OutputFilter, QuotaAlerts, General, Security): the cached query *)
(* fills the form whenever its data changes, the form is sent whole and       *)
(* stored whole; the security settings are made consistent first.  A value is *)
(* <<who, n>>: who put it there, and when.                                    *)
EXTENDS Integers

CONSTANTS
    MaxSaves, MaxOthers,       \* bounds: saves of this page, of others
    RequiredOn, EnabledOn      \* values with which a switch of the security page is on:
                               \* MFA required of all, MFA enabled

\* What the server itself switches on.
On == <<"on", 0>>

\* What is stored at first, and by others, is consistent: it went the same way.
ASSUME FormsAssumption ==
    /\ MaxSaves \in Nat /\ MaxOthers \in Nat
    /\ On \in EnabledOn
    /\ \A who \in {"old", "theirs"}, n \in 0 .. MaxOthers : <<who, n>> \in RequiredOn => <<who, n>> \in EnabledOn

VARIABLES
    page,      \* the page
    row,       \* the record the server stores
    cache,     \* the cached answer of the query
    stale,     \* it is due for a refetch
    fetch,     \* the fetch in flight
    on,        \* the page is mounted
    form,      \* the values of the form and the items typed into
    save,      \* the save in flight
    mine, others,   \* how many saves there have been
    unheard,   \* history: the record changed since the query read it, and the page
               \* cannot know
    older,     \* history: which of form, cache and fetch were read before the page's
               \* own last save was stored
    blind      \* history: a form was used that had never been filled

formVars == <<page, row, cache, stale, fetch, on, form, save, mine, others, unheard, older, blind>>

FormPages == {"failover", "output", "alerts", "general", "security"}

-----------------------------------------------------------------------------
(* The items of each form, those filled from the query and those sent.        *)

FailoverItems == {"enabled", "retry_count", "backoff", "retry_interval_ms",
                  "trigger_status_codes", "circuit_failure_threshold", "circuit_reset_seconds"}
FailoverFills == {"enabled", "retry_count", "backoff", "retry_interval_ms",
                  "trigger_status_codes", "circuit_failure_threshold", "circuit_reset_seconds"}
FailoverSends == {"enabled", "retry_count", "backoff", "retry_interval_ms",
                  "trigger_status_codes", "circuit_failure_threshold", "circuit_reset_seconds"}
OutputItems == {"enabled", "violation_strategy", "safe_message", "stream_chunk_threshold"}
OutputFills == {"enabled", "violation_strategy", "safe_message", "stream_chunk_threshold"}
OutputSends == {"enabled", "violation_strategy", "safe_message", "stream_chunk_threshold"}

\* A channel typed on this page is "ui", any other is "webhook": the address is
\* an item, and is sent, only with the latter.
Webhook(v) == v["channel"][1] \in {"old", "theirs"}
AlertFields == {"enabled", "thresholds", "channel", "webhook_url", "receivers"}
AlertItems(v) == {"enabled", "thresholds", "channel", "receivers"}
                    \cup (IF Webhook(v) THEN {"webhook_url"} ELSE {})
AlertFills == {"enabled", "thresholds", "channel", "webhook_url", "receivers"}
AlertSends(v) == {"enabled", "thresholds", "channel", "receivers"}
                    \cup (IF Webhook(v) THEN {"webhook_url"} ELSE {})

GeneralItems == {"log_level", "audit_retention_days", "default_timeout_seconds", "max_connections",
                 "guard_enabled", "call_audit_enabled", "call_audit_only_errors",
                 "call_audit_sampling", "log_reasoning", "hot_reload_seconds"}
\* Mutant: the effect forgets an item.
ReasoningNotFilled == {"log_level", "audit_retention_days", "default_timeout_seconds", "max_connections",
                       "guard_enabled", "hot_reload_seconds", "call_audit_enabled",
                       "call_audit_only_errors", "call_audit_sampling"}

GeneralFills == {"log_level", "audit_retention_days", "default_timeout_seconds", "max_connections",
                 "guard_enabled", "hot_reload_seconds", "call_audit_enabled",
                 "call_audit_only_errors", "call_audit_sampling", "log_reasoning"}
SecurityItems == {"mfa_enabled", "mfa_required_for_all", "recovery_code_count", "grace_days"}

Settings == [failover |-> FailoverItems, output |-> OutputItems, alerts |-> AlertFields,
             general |-> GeneralItems, security |-> SecurityItems]
Fills == [failover |-> FailoverFills, output |-> OutputFills, alerts |-> AlertFills,
          general |-> GeneralFills, security |-> SecurityItems]
FormItems(v) == IF page = "alerts" THEN AlertItems(v) ELSE Settings[page]
FormSends(v) == CASE page = "failover" -> FailoverSends [] page = "output" -> OutputSends
                  [] page = "alerts" -> AlertSends(v) [] OTHER -> FormItems(v)

\* Switches may be blank; the other items are required, but the receivers.
Switches == {"enabled", "guard_enabled", "call_audit_enabled", "call_audit_only_errors",
             "log_reasoning", "mfa_enabled", "mfa_required_for_all"}
Optional == Switches \cup {"receivers"}

\* Pages whose save invalidates the query.
FailoverAfter == {"failover"}
OutputAfter == {"output"}
AlertsAfter == {"alerts"}
Invalidates == FailoverAfter \cup OutputAfter \cup AlertsAfter

-----------------------------------------------------------------------------

I == Settings[page]
Blank == <<"blank", 0>>
NoValues == [f \in I |-> Blank]
NoAnswer == [known |-> FALSE, v |-> NoValues]
NoQuery == [st |-> "none", v |-> NoValues]
\* over: the form was filled again since.
NoSave == [st |-> "none", body |-> NoValues, typed |-> {}, base |-> NoValues, over |-> FALSE]
\* filled is what the form was last filled with.
Untouched == [v |-> NoValues, typed |-> {}, filled |-> NoAnswer]

FormsInit ==
    /\ page \in FormPages
    /\ row = [f \in I |-> <<"old", 0>>]
    /\ cache = NoAnswer /\ stale = FALSE /\ fetch = NoQuery
    /\ on = FALSE /\ form = Untouched /\ save = NoSave
    /\ mine \in {0, MaxSaves - 1} /\ others \in {0, MaxOthers}
    /\ unheard = FALSE /\ older = {} /\ blind = FALSE

\* Mutant: only the first data fills the form.
FillOnce(v) == IF form.filled.known THEN form
               ELSE [v |-> v, typed |-> {}, filled |-> [known |-> TRUE, v |-> v]]

\* The effect: the query's data overwrites what it fills.
Fill(v) == [v |-> [f \in I |-> IF f \in Fills[page] THEN v[f] ELSE form.v[f]],
            typed |-> form.typed \ Fills[page], filled |-> [known |-> TRUE, v |-> v]]
Asked == [NoQuery EXCEPT !.st = "sent"]

\* The page comes up with a new form, filled from the cache when there is one.
OpenForm ==
    /\ ~on /\ on' = TRUE
    /\ form' = IF cache.known THEN [v |-> cache.v, typed |-> {}, filled |-> cache] ELSE Untouched
    /\ fetch' = IF (~cache.known \/ stale) /\ fetch.st = "none" THEN Asked ELSE fetch
    /\ older' = IF "cache" \in older THEN older \cup {"form"} ELSE older \ {"form"}
    /\ save' = [save EXCEPT !.over = @ \/ save.st = "sent"]
    /\ UNCHANGED <<page, row, cache, stale, mine, others, unheard, blind>>

LeaveForm ==
    /\ on /\ on' = FALSE
    /\ form' = Untouched
    /\ UNCHANGED <<page, row, cache, stale, fetch, save, mine, others, unheard, older, blind>>

AgesQuery ==
    /\ cache.known /\ ~stale /\ stale' = TRUE
    /\ UNCHANGED <<page, row, cache, fetch, on, form, save, mine, others, unheard, older, blind>>

QueryServe ==
    /\ fetch.st = "sent"
    /\ fetch' = [st |-> "done", v |-> row]
    /\ unheard' = FALSE
    /\ older' = older \ {"fetch"}
    /\ UNCHANGED <<page, row, cache, stale, on, form, save, mine, others, blind>>

\* Data equal to the cached data changes nothing; other data fills the form,
\* over what has been typed since.
QueryDeliver ==
    /\ fetch.st = "done"
    /\ cache' = [known |-> TRUE, v |-> fetch.v] /\ stale' = FALSE /\ fetch' = NoQuery
    /\ form' = IF on /\ cache' # cache THEN Fill(fetch.v) ELSE form
    /\ older' = IF "fetch" \in older THEN {"cache", "form"} ELSE {}
    /\ save' = [save EXCEPT !.over = @ \/ (save.st = "sent" /\ cache' # cache)]
    /\ UNCHANGED <<page, row, on, mine, others, unheard, blind>>

QueryFails ==
    /\ fetch.st # "none" /\ fetch' = NoQuery /\ unheard' = TRUE
    /\ UNCHANGED <<page, row, cache, stale, on, form, save, mine, others, older, blind>>

\* The form is there once the query has ended, with or without data.
Ready == on /\ (cache.known \/ fetch.st = "none")

TypeItems ==
    /\ Ready
    /\ \E S \in ({FormItems(form.v), FormItems(form.v) \ Switches}
                  \cup {{f} \cap I : f \in {"channel", "mfa_enabled", "mfa_required_for_all"}}) \ {{}} :
          form' = [form EXCEPT !.v = [f \in I |-> IF f \in S THEN <<"mine", mine>> ELSE @[f]],
                               !.typed = @ \cup S]
    /\ UNCHANGED <<page, row, cache, stale, fetch, on, save, mine, others, unheard, older, blind>>

\* The button is disabled while a save is pending.
Submit ==
    LET S == FormItems(form.v)
    IN  /\ Ready /\ save.st = "none" /\ mine < MaxSaves
        /\ \A f \in S \ Optional : form.v[f] # Blank
        /\ save' = [st |-> "sent", typed |-> form.typed, base |-> form.filled.v,
                    over |-> FALSE,
                    body |-> [f \in I |-> IF f \in S \cap FormSends(form.v) THEN form.v[f] ELSE Blank]]
        /\ mine' = mine + 1
        /\ blind' = (blind \/ ~form.filled.known)
        /\ UNCHANGED <<page, row, cache, stale, fetch, on, form, others, unheard, older>>

\* Required of all implies enabled: the server switches it on, which changes
\* nothing where it is on.
validateSecurity(v) ==
    IF page = "security" /\ v["mfa_required_for_all"] \in RequiredOn /\ v["mfa_enabled"] \notin EnabledOn
      THEN [v EXCEPT !["mfa_enabled"] = IF row["mfa_enabled"] \in EnabledOn THEN row["mfa_enabled"] ELSE On]
      ELSE v

\* What is blank in the body becomes off or empty.
Parsed(body) == [f \in I |-> IF body[f] = Blank THEN <<"zero", 0>> ELSE body[f]]

StoreSettings ==
    /\ save.st = "sent"
    /\ \/ /\ row' = validateSecurity(Parsed(save.body))
          /\ save' = [save EXCEPT !.st = "ok"]
          /\ older' = {"cache"} \cup (IF fetch.st = "done" THEN {"fetch"} ELSE {})
                                 \cup (IF save.over THEN {"form"} ELSE {})
       \/ save' = [save EXCEPT !.st = "error"] /\ UNCHANGED <<row, older>>
    /\ UNCHANGED <<page, cache, stale, fetch, on, form, mine, others, unheard, blind>>

\* onSuccess, whether or not the page is still there.
SaveHeard ==
    /\ save.st \in {"ok", "error"} /\ save' = NoSave
    /\ IF save.st = "ok" /\ page \in Invalidates
         THEN /\ stale' = TRUE
              /\ fetch' = IF on /\ (cache.known \/ fetch.st = "none") THEN Asked ELSE fetch
         ELSE UNCHANGED <<stale, fetch>>
    /\ unheard' = (unheard \/ (save.st = "ok" /\ fetch'.st = "done" /\ page \in Invalidates))
    /\ form' = IF save.st = "ok" THEN [form EXCEPT !.typed = {f \in @ : form.v[f] # save.body[f]}] ELSE form
    /\ UNCHANGED <<page, row, cache, on, mine, others, older, blind>>

\* The answer is lost: the page sees an error.
SaveLost ==
    /\ save.st = "ok" /\ save' = NoSave /\ unheard' = TRUE
    /\ UNCHANGED <<page, row, cache, stale, fetch, on, form, mine, others, older, blind>>

\* Another administrator, or a restored backup, changes the record.
OthersSave ==
    /\ others < MaxOthers /\ others' = others + 1
    /\ row' = [f \in I |-> <<"theirs", others'>>]
    /\ unheard' = TRUE
    /\ UNCHANGED <<page, cache, stale, fetch, on, form, save, mine, older, blind>>

Requests == QueryServe \/ QueryDeliver \/ StoreSettings \/ SaveHeard

FormsNext ==
    \/ OpenForm \/ LeaveForm \/ AgesQuery \/ TypeItems \/ Submit
    \/ Requests \/ QueryFails \/ SaveLost \/ OthersSave

FormsSpec == FormsInit /\ [][FormsNext]_formVars

-----------------------------------------------------------------------------

\* When the record is still what the form was filled with, a save changes only
\* what was typed: every item the server stores is filled in and sent.  The
\* address goes with the channel, and that MFA is enabled, with whether it is
\* required of all; a form that could never be filled is the exception (each
\* saveMutation, against the whole-record SaveKV and settings.go:126-140).
SaveChangesWhatWasTyped ==
    [][save.st = "sent" /\ row' # row /\ others' = others /\ row = save.base /\ ~blind =>
        \A f \in I : \/ row'[f] = row[f] \/ f \in save.typed
                     \/ page = "alerts" /\ f = "webhook_url" /\ ~Webhook(row')
                     \/ page = "security" /\ f = "mfa_enabled"
                        /\ "mfa_required_for_all" \in save.typed]_formVars

\* At rest the form shows what the server has, but for what is being typed,
\* unless the change was not this page's or its answer was lost.  A page that
\* does not invalidate its query is the exception: opened again within the
\* query's fifteen seconds, or filled by an answer under way, it shows the
\* settings of before its own save (General.tsx:52, Security.tsx:69).  Such a
\* page does not learn either that the server has enabled MFA, as it is required
\* of all: it shows a switch that is off (settings.go:134-138).
FormShowsRecord ==
    /\ on /\ form.filled.known /\ fetch.st = "none" /\ save.st = "none" /\ ~unheard
    /\ page \in Invalidates \/ "form" \notin older
    => \A f \in I : f \in form.typed \/ form.v[f] = row[f]
                    \/ (page = "alerts" /\ f = "webhook_url" /\ ~Webhook(row))
                    \/ (page = "security" /\ f = "mfa_enabled" /\ form.v[f] \notin EnabledOn
                        /\ row["mfa_required_for_all"] \in RequiredOn)

=============================================================================
