----------------------------- MODULE TablePages -----------------------------
(* A page of the console that shows a table of rows and changes them, against *)
(* the server's table: the cached list and its fetch, the dialog, the switch, *)
(* and the requests of the page, while another administrator works on the     *)
(* same rows.  What differs from page to page is in PageForms.                *)
EXTENDS PageForms, Integers, FiniteSets

CONSTANTS
    Explored, Deep,       \* the pages to explore, and those with all of MaxMine
    MaxMine, MaxTheirs    \* bounds: requests of the page, changes of others

ASSUME TablesAssumption ==
    /\ Explored \subseteq All /\ Deep \subseteq Explored
    /\ MaxMine \in Nat \ {0} /\ MaxTheirs \in Nat

VARIABLES
    page,      \* the page
    rows,      \* the server's table: the rows by their ids
    nextId,    \* the next id the server gives
    table,     \* the cached list
    stale,     \* the cached list is due for a refetch: old, or invalidated
    fetch,     \* the fetch of the list in flight
    on,        \* the page is mounted
    form,      \* the dialog
    reqs,      \* the requests in flight
    mine, theirs,   \* how many requests there have been
    unheard,   \* history: since the list was read something happened that the page
               \* cannot know: a change of others, a lost answer or fetch, an
               \* account that was half deleted and refused
    wiped      \* history: a late answer emptied a dialog in use

vars == <<page, rows, nextId, table, stale, fetch, on, form, reqs, mine, theirs, unheard, wiped>>

Kinds == {"save", "toggle", "delete", "act"}
OldIds == {1, 2}
F == Fields[page]
Blank == <<"blank", 0>>
AllBlank == [f \in F |-> Blank]
Only(v, S) == [f \in F |-> IF f \in S THEN v[f] ELSE Blank]
Take(v, S, left) == [f \in F |-> IF f \in S THEN v[f] ELSE left[f]]
Put(who, id, S, left) == [f \in F |-> IF f \in S THEN <<who, id>> ELSE left[f]]
Shown(r) == Only(r, F \ Hidden[page])
Without(g, id) == [i \in DOMAIN g \ {id} |-> g[i]]

NoList == [known |-> FALSE, rows |-> <<>>]
NoFetch == [st |-> "none", rows |-> <<>>]
Closed == [open |-> FALSE, editing |-> 0, v |-> AllBlank, row |-> AllBlank]
NoReq == [st |-> "none", op |-> "none", id |-> 0, body |-> AllBlank, seen |-> AllBlank,
          left |-> 0, gone |-> FALSE, lost |-> FALSE]

Init ==
    /\ page \in Explored
    /\ rows = [i \in OldIds |-> Put("old", i, F, AllBlank)]
    /\ nextId = 3
    /\ table = NoList /\ stale = FALSE /\ fetch = NoFetch
    /\ on = FALSE
    /\ form = Closed
    /\ reqs = [k \in Kinds |-> NoReq]
    /\ \/ mine = MaxMine - 1 /\ theirs = 0
       \/ mine = 0 /\ theirs = MaxTheirs /\ page \in Deep
    /\ unheard = FALSE /\ wiped = FALSE

-----------------------------------------------------------------------------
(* The cached list.                                                           *)

Sent == [NoFetch EXCEPT !.st = "sent"]
UiSame == UNCHANGED <<on, form, reqs, mine, wiped>>
ServerSame == UNCHANGED <<page, rows, nextId, theirs>>

\* The page comes up: without data, or with data due for it, it fetches.
Mount ==
    /\ ~on /\ on' = TRUE
    /\ fetch' = IF (~table.known \/ stale) /\ fetch.st = "none" THEN Sent ELSE fetch
    /\ ServerSame /\ UNCHANGED <<table, stale, form, reqs, mine, unheard, wiped>>

\* The page is left: its dialog is gone, what is in flight goes on.
Leave ==
    /\ on /\ on' = FALSE
    /\ form' = Closed
    /\ reqs' = [k \in Kinds |-> IF reqs[k].st = "none" THEN reqs[k] ELSE [reqs[k] EXCEPT !.gone = TRUE]]
    /\ ServerSame /\ UNCHANGED <<table, stale, fetch, mine, unheard, wiped>>

\* staleTime: fifteen seconds.
Ages ==
    /\ table.known /\ ~stale /\ stale' = TRUE
    /\ ServerSame /\ UiSame /\ UNCHANGED <<table, fetch, unheard>>

FetchServe ==
    /\ fetch.st = "sent"
    /\ fetch' = [st |-> "done", rows |-> [i \in DOMAIN rows |-> Shown(rows[i])]]
    /\ unheard' = FALSE
    /\ ServerSame /\ UiSame /\ UNCHANGED <<table, stale>>

FetchDeliver ==
    /\ fetch.st = "done"
    /\ table' = [known |-> TRUE, rows |-> fetch.rows]
    /\ stale' = FALSE
    /\ fetch' = NoFetch
    /\ ServerSame /\ UiSame /\ UNCHANGED unheard

\* Both tries of the query fail.
FetchFails ==
    /\ fetch.st # "none"
    /\ fetch' = NoFetch
    /\ unheard' = TRUE
    /\ ServerSame /\ UiSame /\ UNCHANGED <<table, stale>>

\* Mutant: the list is marked, and fetched when the page comes up the next time.
InvalidateLazily == stale' = TRUE /\ UNCHANGED <<fetch, unheard>>

\* invalidateQueries: a list that is on the screen is fetched again, and a
\* fetch in flight given up for it; without data the fetch in flight is joined,
\* and that of a page that is left goes on as it is.
Invalidate ==
    /\ stale' = TRUE
    /\ fetch' = IF on /\ (table.known \/ fetch.st = "none") THEN Sent ELSE fetch
    /\ unheard' = (unheard \/ (fetch' # Sent /\ fetch.st = "done"))

-----------------------------------------------------------------------------
(* The dialog and the operations of the page.                                 *)

Quiet == UNCHANGED <<table, stale, fetch, on, unheard, wiped>>
Free == on /\ ~form.open /\ mine < MaxMine

Start(k, op, id, body, seen, left) ==
    /\ reqs[k].st = "none" /\ mine < MaxMine
    /\ reqs' = [reqs EXCEPT ![k] = [NoReq EXCEPT !.st = "sent", !.op = op, !.id = id,
                                      !.body = body, !.seen = seen, !.left = left]]
    /\ mine' = mine + 1

\* The form is reset, the presets filled in.
openCreate ==
    /\ Free /\ "create" \in PageOps[page]
    /\ form' = [Closed EXCEPT !.open = TRUE, !.v = Put("preset", 0, Presets[page], AllBlank)]
    /\ ServerSame /\ Quiet /\ UNCHANGED <<reqs, mine>>

\* The form is filled from the cached row; what is not set keeps what an
\* earlier dialog left.
openEdit(id) ==
    /\ Free /\ "edit" \in RowOps[page]
    /\ form' = [open |-> TRUE, editing |-> id, row |-> table.rows[id],
                v |-> Only(Take(table.rows[id], Filled[page], form.v), F \ Cleared[page])]
    /\ ServerSame /\ Quiet /\ UNCHANGED <<reqs, mine>>

\* A dialog that is closed keeps its values.
Shut(d) == [Closed EXCEPT !.v = d.v]
Edit == form.editing # 0

\* The administrator types into all items, or into the required ones.
Type ==
    /\ on /\ form.open
    /\ \E S \in {Items(page, Edit, form.v), Needs(page, Edit, form.v)} :
          form' = [form EXCEPT !.v = Put("mine", form.editing, S, form.v)]
    /\ ServerSame /\ Quiet /\ UNCHANGED <<reqs, mine>>

\* Only items are in the validated values; a switch that is not one keeps the
\* row's state.
handleOk ==
    LET v == Only(form.v, Items(page, Edit, form.v) \cap Sends(page, form.v))
        body == IF page = "apikeys" /\ Edit /\ v["enabled"] = Blank
                  THEN Take(form.row, {"enabled"}, v) ELSE v
    IN  /\ on /\ form.open
        /\ \A f \in Needs(page, Edit, form.v) : v[f] # Blank
        /\ Start("save", IF Edit THEN "update" ELSE "create", form.editing, body, form.row, 0)
        /\ ServerSame /\ Quiet /\ UNCHANGED form

Cancel ==
    /\ on /\ form.open
    /\ form' = Shut(form)
    /\ ServerSame /\ Quiet /\ UNCHANGED <<reqs, mine>>

\* The switch sends the row as it is cached.
toggleEnabled(id) ==
    /\ Free /\ "toggle" \in RowOps[page]
    /\ Start("toggle", "toggle", id,
             Put("switched", id, {"enabled"}, Only(table.rows[id], Toggles[page])), table.rows[id], 0)
    /\ ServerSame /\ Quiet /\ UNCHANGED form

Delete(id) ==
    /\ Free /\ Start("delete", "delete", id, AllBlank, table.rows[id], 0)
    /\ ServerSame /\ Quiet /\ UNCHANGED form

RowAct(id) ==
    /\ Free
    /\ \E op \in RowOps[page] \ {"edit", "toggle", "delete"} :
          Start("act", op, id, AllBlank, table.rows[id], 0)
    /\ ServerSame /\ Quiet /\ UNCHANGED form

\* What the page does without a row: an import, a batch, a backup, a restore
\* from a file, or the templates that were checked, one request after the other.
PageAct ==
    /\ Free
    /\ \E op \in PageOps[page] \ {"create"} :
          Start("act", op, 0, AllBlank, AllBlank, Dialogs[page][op])
    /\ ServerSame /\ Quiet /\ UNCHANGED form

-----------------------------------------------------------------------------
(* The server.                                                                *)

Created(body) == [f \in F |-> IF body[f] = Blank THEN <<"default", nextId>> ELSE body[f]]
Adds(row) ==
    /\ rows' = [i \in DOMAIN rows \cup {nextId} |-> IF i = nextId THEN row ELSE rows[i]]
    /\ nextId' = nextId + 1
Stores(id, row) == rows' = [rows EXCEPT ![id] = row] /\ UNCHANGED nextId
OnRow(q) == q.op \notin {"create", "import", "batch", "backup", "restore", "templates"}

\* The last statement of a deletion fails, after what comes before it.
HalfDeletes(q) ==
    /\ q.op = "delete" /\ q.id \in DOMAIN rows
    /\ \E S \in {{}, EmptiedFirst[page]} : Stores(q.id, Put("act", q.id, S, rows[q.id]))

\* The handlers of providers.go, models.go, guard.go, quota.go, apikeys.go,
\* users.go and backup.go, when they answer that it is done.  Only the deletion
\* of an account, of these, looks at the error of its statement.
Does(q) ==
    \/ q.op \in {"create", "backup", "templates"} /\ Adds(Created(q.body))
    \/ /\ q.op \in {"import", "batch"}
       /\ Adds(Created(q.body)) \/ UNCHANGED <<rows, nextId>>
    \/ q.op = "restore" /\ q.id \in DOMAIN rows \cup {0} /\ UNCHANGED <<rows, nextId>>
    \/ /\ OnRow(q) /\ q.id \in DOMAIN rows
       /\ \/ /\ q.op \in {"update", "toggle"}
             /\ ~(page = "quotas" /\ Degrades(q.body) /\ q.body["degrade_alias"] = Blank)
             /\ Stores(q.id, Take(q.body, Updates(page, q.body), rows[q.id]))
          \/ q.op = "delete" /\ rows' = Without(rows, q.id) /\ UNCHANGED nextId
          \/ page # "users" /\ HalfDeletes(q)
          \/ q.op \in DOMAIN Sets /\ Stores(q.id, Put("act", q.id, Sets[q.op], rows[q.id]))
          \/ q.op \in DOMAIN Sets /\ UNCHANGED <<rows, nextId>>

\* An answer nobody waits for any more is dropped: the page does not learn what
\* was done.
Serve(k) ==
    LET q == reqs[k]
        Answers(st) == reqs' = [reqs EXCEPT ![k] = IF q.lost THEN NoReq ELSE [q EXCEPT !.st = st]]
    IN  /\ q.st = "sent"
        /\ \/ /\ Does(q) /\ Answers("ok")
              /\ unheard' = (unheard \/ q.lost)
           \/ /\ Answers("error")                 \* gone, refused or failed
              /\ UNCHANGED <<rows, nextId, unheard>>
           \/ /\ page = "users" /\ HalfDeletes(q)
              /\ Answers("error") /\ unheard' = TRUE
           \/ q.op = "templates" /\ Does(q) /\ Answers("error") /\ UNCHANGED unheard   \* unheard of
        /\ UNCHANGED <<page, theirs, table, stale, fetch, on, form, mine, wiped>>

TheirSave(id) ==
    /\ theirs < MaxTheirs /\ theirs' = theirs + 1
    /\ rows' = [rows EXCEPT ![id] = Put("theirs", id, F, @)]
    /\ unheard' = TRUE
    /\ UNCHANGED <<page, nextId, table, stale, fetch, on, form, reqs, mine, wiped>>

TheirDelete(id) ==
    /\ theirs < MaxTheirs /\ theirs' = theirs + 1
    /\ rows' = Without(rows, id)
    /\ unheard' = TRUE
    /\ UNCHANGED <<page, nextId, table, stale, fetch, on, form, reqs, mine, wiped>>

-----------------------------------------------------------------------------
(* The answers.                                                               *)

\* The creation of the templates goes on after a failure, also when that is an
\* answer that did not arrive.
Next1(q) == [q EXCEPT !.st = "sent", !.left = @ - 1]
Goes(q) == q.op = "templates" /\ q.left > 1

\* The dialog after a save: it is closed, whichever dialog it is by now.  The
\* page of the keys closes only a dialog of the kind that was saved, and a
\* late answer to a creation empties the form all the same.
Closes(q) ==
    IF q.gone THEN UNCHANGED <<form, wiped>>
    ELSE IF page = "apikeys" /\ q.op = "create" THEN
        /\ form' = IF form.open /\ Edit THEN [form EXCEPT !.v = AllBlank] ELSE Closed
        /\ wiped' = (wiped \/ (form.open /\ Edit))
    ELSE IF page = "users" THEN
        form' = Closed /\ UNCHANGED wiped
    ELSE
        /\ form' = IF page = "apikeys" /\ ~Edit THEN form ELSE Shut(form)
        /\ UNCHANGED wiped

Hear(k) ==
    LET q == reqs[k]
        done == [reqs EXCEPT ![k] = NoReq]
    IN  /\ q.st \in {"ok", "error"} /\ ~q.lost
        /\ \/ /\ Goes(q)
              /\ reqs' = [reqs EXCEPT ![k] = Next1(q)]
              /\ UNCHANGED <<stale, fetch, unheard, form, wiped>>
           \/ /\ ~Goes(q) /\ reqs' = done
              /\ IF (q.st = "ok" \/ q.op = "templates") /\ q.op \in After[page]
                   THEN Invalidate ELSE UNCHANGED <<stale, fetch, unheard>>
              /\ IF q.st = "ok" /\ k = "save" THEN Closes(q) ELSE UNCHANGED <<form, wiped>>
        /\ ServerSame /\ UNCHANGED <<table, on, mine>>

\* The connection is lost or the client's timeout is over: the page sees an
\* error.  The server may still do what it was asked.
Lose(k) ==
    LET q == reqs[k]
    IN  /\ q.st # "none" /\ ~q.lost /\ q.op # "templates"
        /\ \/ /\ q.st = "sent"
              /\ reqs' = [reqs EXCEPT ![k].lost = TRUE]
              /\ UNCHANGED unheard
           \/ /\ q.st # "sent"
              /\ reqs' = [reqs EXCEPT ![k] = NoReq]
              /\ unheard' = TRUE
        /\ ServerSame /\ UNCHANGED <<table, stale, fetch, on, form, mine, wiped>>

-----------------------------------------------------------------------------

Page ==
    \/ Mount \/ Leave \/ openCreate \/ Type \/ handleOk \/ Cancel \/ PageAct
    \/ \E id \in DOMAIN table.rows : openEdit(id) \/ toggleEnabled(id) \/ Delete(id) \/ RowAct(id)
List == FetchServe \/ FetchDeliver
\* The two old rows are alike: the other administrator works on the first.
Others == \E id \in DOMAIN rows \cap {1} : TheirSave(id) \/ TheirDelete(id)
Network == \E k \in Kinds : Serve(k) \/ Hear(k)

Next ==
    \/ Page \/ List \/ Ages \/ FetchFails \/ Others
    \/ Network \/ \E k \in Kinds : Lose(k)

Spec == Init /\ [][Next]_vars

-----------------------------------------------------------------------------
(* Properties.                                                                *)

\* What is typed or read for one row is never stored in another: not over a
\* dialog that was cancelled, nor over a late answer (saveMutation decides by
\* "editing" when it is called, openEdit fills a form that keeps its values).
ValuesStayWithTheirRow ==
    \A i \in DOMAIN rows, f \in F :
        rows[i][f] = Blank \/ rows[i][f][2] = i \/ (i \notin OldIds /\ rows[i][f][2] = 0)

\* When the row is still what the page showed, a save changes only items of the
\* dialog that were typed into, and the switch changes only the switch: every
\* field the server takes over is filled in and sent.  A degraded quota that
\* becomes a rejecting one loses its alias; a dialog emptied by a late answer
\* is the exception (ApiKeys.tsx:createMutation).
WritesWhatWasMeant ==
    [][\A k \in {"save", "toggle"} :
        LET q == reqs[k]
            i == q.id
        IN  /\ q.st = "sent" /\ reqs'[k] # q /\ q.op # "create" /\ ~wiped
            /\ i \in DOMAIN rows /\ Shown(rows[i]) = q.seen
            => \A f \in F :
                 \/ rows'[i][f] = rows[i][f]
                 \/ k = "save" /\ rows'[i][f] = <<"mine", i>>
                 \/ k = "toggle" /\ f = "enabled"
                 \/ page = "quotas" /\ f = "degrade_alias" /\ ~Degrades(rows'[i])]_vars

Busy == fetch.st # "none" \/ \E k \in Kinds : reqs[k].st # "none"

\* A list at rest differs from the server's table only when another
\* administrator changed it, an answer or a fetch was lost, an invalidation
\* joined a fetch that had been read before (every After), or the deletion of
\* an account failed after it had cleared its second factor (users.go:210-217).
StaleHasCause ==
    on /\ table.known /\ ~Busy /\ ~unheard =>
        table.rows = [i \in DOMAIN rows |-> Shown(rows[i])]

\* After a successful change the list catches up with the table by itself,
\* unless something unheard happens to one of them.
ListCatchesUp ==
    (on /\ table.known /\ ~unheard /\ table.rows # [i \in DOMAIN rows |-> Shown(rows[i])])
        ~> (~on \/ unheard \/ table.rows = [i \in DOMAIN rows |-> Shown(rows[i])])

=============================================================================
