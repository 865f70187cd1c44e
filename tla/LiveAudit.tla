----------------------------- MODULE LiveAudit -----------------------------
(* The call log: the rows the gateway writes go through a bounded queue and a *)
(* batch to the database (audit.go), and are broadcast to the WebSocket       *)
(* subscribers (hub.go, auditws.go), of which one is the live card of the     *)
(* console (useAuditStream.ts, LiveAuditStream.tsx).  What a subscriber does  *)
(* not read in time is dropped; the page connects again by itself.            *)
EXTENDS Sequences, SequencesExt, FiniteSets, Integers

CONSTANTS
    Rows,          \* the rows written: 1..n
    QueueCap,      \* the channel of the writer (4096)
    BatchCap,      \* the batch of the writer (64)
    HubBuffer,     \* the buffer of a subscriber (64)
    SlowLimit,     \* wsSubscriberSlowLimit (512)
    WireCap,       \* what the connection holds unread
    MaxEvents,     \* max of useAuditStream (30)
    MaxStops, MaxFaults, MaxZombies    \* bounds: restarts, failures, old connections

ASSUME LiveAssumption ==
    /\ Rows \subseteq Nat
    /\ {QueueCap, BatchCap, HubBuffer, SlowLimit, WireCap, MaxEvents} \subseteq Nat
    /\ {MaxStops, MaxFaults, MaxZombies} \subseteq Nat

VARIABLES
    wpc,       \* row -> "none", "kept" (queued or stored) or "done" (broadcast)
    queue, batch,          \* rows on their way to the database
    db, refused, held,     \* rows stored, rows whose own insert failed, rows of a stopped process
    up,        \* the process runs
    drops,     \* the drop counter of the hub
    sent,      \* history: the rows in the order they were broadcast
    link,      \* "none", "asked", "subscribed", "open", "closing" or "dead"
    buf, wire, \* the subscriber's buffer; frames written and not yet read
    base,      \* the drop counter when the connection was opened
    since,     \* history: Len(sent) at the 101 answer
    dropped, seen,         \* history: rows of this connection dropped, and read
    zombies,   \* subscribers of connections this page has left
    phase,     \* "off" (not mounted) or the phase of the stream
    events, total,         \* the list of the hook, newest first, and its count
    frozen,    \* the snapshot of a paused card, with the count of then
    stops, faults

dbVars == <<wpc, queue, batch, db, refused, held>>
linkVars == <<link, buf, wire, base, since, dropped, seen, zombies>>
cardVars == <<events, total, frozen>>
liveVars == <<dbVars, up, drops, sent, linkVars, phase, cardVars, stops, faults>>

NotPaused == [on |-> FALSE, list |-> <<>>, at |-> 0]
Holds(s) == {s[i] : i \in 1..Len(s)}

LiveInit ==
    /\ wpc = [r \in Rows |-> "none"] /\ queue = <<>> /\ batch = <<>>
    /\ db = {} /\ refused = {} /\ held = {} /\ up = TRUE /\ drops = 0 /\ sent = <<>>
    /\ link = "none" /\ buf = <<>> /\ wire = <<>> /\ base = 0 /\ since = 0
    /\ dropped = {} /\ seen = {} /\ zombies = 0
    /\ phase = "off" /\ events = <<>> /\ total = 0 /\ frozen = NotPaused
    /\ stops = 0 /\ faults = 0

Fault == faults < MaxFaults /\ faults' = faults + 1
NoFault == UNCHANGED faults

-----------------------------------------------------------------------------
(* The writer.                                                               *)

\* Write, by the handler of a request: never waits for the queue.
Write(r) ==
    /\ up /\ wpc[r] = "none" /\ \A s \in Rows : s < r => wpc[s] # "none"
    /\ wpc' = [wpc EXCEPT ![r] = "kept"]
    /\ \/ Len(queue) < QueueCap /\ queue' = Append(queue, r) /\ NoFault /\ UNCHANGED <<db, refused>>
       \/ Len(queue) = QueueCap /\ db' = db \cup {r} /\ NoFault /\ UNCHANGED <<queue, refused>>
       \/ Len(queue) = QueueCap /\ Fault /\ refused' = refused \cup {r} /\ UNCHANGED <<queue, db>>
    /\ UNCHANGED <<batch, held, up, drops, sent, linkVars, phase, cardVars, stops>>

\* Mutant: the subscription waits for the page to say that it is there.
SubscribesLate == (link = "open" /\ phase = "live") \/ link = "dead"

Subscribed == link \in {"subscribed", "open", "dead"}
Full == Len(buf) = HubBuffer

\* broadcastLive; the buffers of the connections left fill up, too.
Broadcast(r) ==
    /\ up /\ wpc[r] = "kept" /\ wpc' = [wpc EXCEPT ![r] = "done"]
    /\ sent' = Append(sent, r)
    /\ buf' = IF Subscribed /\ ~Full THEN Append(buf, r) ELSE buf
    /\ dropped' = IF Subscribed /\ Full THEN dropped \cup {r} ELSE dropped
    /\ \E z \in 0..zombies : drops' = drops + z + (IF Subscribed /\ Full THEN 1 ELSE 0)
    /\ UNCHANGED <<queue, batch, db, refused, held, up, link, wire, base, since, seen, zombies,
                   phase, cardVars, stops, faults>>

\* writerLoop takes a row while the batch is not full.
Take ==
    /\ up /\ queue # <<>> /\ Len(batch) < BatchCap
    /\ batch' = Append(batch, Head(queue)) /\ queue' = Tail(queue)
    /\ UNCHANGED <<wpc, db, refused, held, up, drops, sent, linkVars, phase, cardVars, stops, faults>>

\* Mutant: a batch that fails is not tried again row by row.
FlushAllOrNothing ==
    /\ up /\ batch # <<>> /\ batch' = <<>>
    /\ \/ db' = db \cup Holds(batch) /\ NoFault
       \/ Fault /\ UNCHANGED db
    /\ UNCHANGED <<wpc, queue, refused, held, up, drops, sent, linkVars, phase, cardVars, stops>>

\* Mutant: no ticker, only a full batch is stored.
FlushWhenFull ==
    /\ up /\ Len(batch) = BatchCap /\ batch' = <<>>
    /\ db' = db \cup Holds(batch) /\ NoFault
    /\ UNCHANGED <<wpc, queue, refused, held, up, drops, sent, linkVars, phase, cardVars, stops>>

\* flush, of a full batch or at a tick: as a whole, or else row by row.
Flush ==
    /\ up /\ batch # <<>> /\ batch' = <<>>
    /\ \/ db' = db \cup Holds(batch) /\ NoFault /\ UNCHANGED refused
       \/ /\ Fault
          /\ \E bad \in SUBSET Holds(batch) :
                db' = db \cup (Holds(batch) \ bad) /\ refused' = refused \cup bad
    /\ UNCHANGED <<wpc, queue, held, up, drops, sent, linkVars, phase, cardVars, stops>>

\* The process ends; the writer may flush its batch first, not the queue.
Stop ==
    /\ up /\ stops < MaxStops /\ stops' = stops + 1 /\ up' = FALSE
    /\ \E last \in {Holds(batch), {}} :
          db' = db \cup last /\ held' = held \cup Holds(queue) \cup (Holds(batch) \ last)
    /\ queue' = <<>> /\ batch' = <<>> /\ drops' = 0 /\ zombies' = 0
    /\ wpc' = [r \in Rows |-> IF wpc[r] = "kept" THEN "done" ELSE wpc[r]]
    /\ link' = (IF link = "none" THEN "none" ELSE "dead") /\ buf' = <<>> /\ wire' = <<>>
    /\ UNCHANGED <<refused, sent, base, since, dropped, seen, phase, cardVars, faults>>

Start == ~up /\ up' = TRUE /\ UNCHANGED <<dbVars, drops, sent, linkVars, phase, cardVars, stops, faults>>

-----------------------------------------------------------------------------
(* auditWS: one connection, from the handshake to its end.                   *)

\* The subscription comes before the 101 answer.
Subscribe ==
    /\ up /\ link = "asked" /\ link' = "subscribed"
    /\ UNCHANGED <<dbVars, up, drops, sent, buf, wire, base, since, dropped, seen, zombies, phase, cardVars, stops, faults>>

Upgrade ==
    /\ link = "subscribed" /\ link' = "open"
    /\ since' = Len(sent) /\ base' = drops
    /\ UNCHANGED <<dbVars, up, drops, sent, buf, wire, dropped, seen, zombies, phase, cardVars, stops, faults>>

\* A row is written to the connection; then the drops are looked at, of all
\* subscribers together.
Push ==
    /\ link = "open" /\ buf # <<>> /\ Len(wire) < WireCap
    /\ wire' = Append(wire, Head(buf))
    /\ \/ drops - base < SlowLimit /\ buf' = Tail(buf) /\ UNCHANGED link
       \/ drops - base >= SlowLimit /\ buf' = <<>> /\ link' = "closing"
    /\ UNCHANGED <<dbVars, up, drops, sent, base, since, dropped, seen, zombies, phase, cardVars, stops, faults>>

\* The network fails, or the handshake is refused.
Cut ==
    /\ link \in {"asked", "subscribed", "open"} /\ Fault
    /\ link' = "dead" /\ wire' = <<>>
    /\ UNCHANGED <<dbVars, up, drops, sent, buf, base, since, dropped, seen, zombies, phase, cardVars, stops>>

\* A connection is given up by the page; its subscriber stays until the server
\* notices.
Abandon ==
    /\ zombies' = (IF Subscribed /\ up THEN zombies + 1 ELSE zombies)
    /\ zombies' <= MaxZombies
    /\ link' = "none" /\ buf' = <<>> /\ wire' = <<>>
    /\ base' = 0 /\ since' = 0 /\ dropped' = {} /\ seen' = {}

\* A ping or a write fails, or the reader sees the close.
Unsubscribe ==
    /\ zombies > 0 /\ zombies' = zombies - 1
    /\ UNCHANGED <<dbVars, up, drops, sent, link, buf, wire, base, since, dropped, seen, phase, cardVars, stops, faults>>

-----------------------------------------------------------------------------
(* useAuditStream and its card.                                              *)

Mount ==
    /\ phase = "off" /\ phase' = "connecting" /\ link' = "asked"
    /\ UNCHANGED <<dbVars, up, drops, sent, buf, wire, base, since, dropped, seen, zombies, cardVars, stops, faults>>

\* The clean-up closes the socket and clears the timer.
Unmount ==
    /\ phase # "off" /\ phase' = "off" /\ Abandon
    /\ events' = <<>> /\ total' = 0 /\ frozen' = NotPaused
    /\ UNCHANGED <<dbVars, up, drops, sent, stops, faults>>

onopen ==
    /\ phase = "connecting" /\ link \in {"open", "closing"} /\ phase' = "live"
    /\ UNCHANGED <<dbVars, up, drops, sent, linkVars, cardVars, stops, faults>>

onmessage ==
    /\ phase = "live" /\ wire # <<>>
    /\ wire' = Tail(wire) /\ seen' = seen \cup {Head(wire)}
    /\ events' = SubSeq(<<Head(wire)>> \o events, 1, IF Len(events) < MaxEvents THEN Len(events) + 1 ELSE MaxEvents)
    /\ total' = total + 1
    /\ UNCHANGED <<dbVars, up, drops, sent, link, buf, base, since, dropped, zombies, phase, frozen, stops, faults>>

\* The connection has ended for the page; it tries again in three seconds.
onclose ==
    /\ phase \in {"connecting", "live"}
    /\ link = "dead" \/ (link = "closing" /\ phase = "live" /\ wire = <<>>) \/ (link = "asked" /\ ~up)
    /\ phase' = "disconnected" /\ Abandon
    /\ UNCHANGED <<dbVars, up, drops, sent, cardVars, stops, faults>>

\* Mutant: the old socket is still referred to, no new one is opened.
ConnectsToNothing ==
    /\ phase = "disconnected" /\ phase' = "connecting"
    /\ UNCHANGED <<dbVars, up, drops, sent, linkVars, cardVars, stops, faults>>

connect ==
    /\ phase = "disconnected" /\ phase' = "connecting" /\ link' = "asked"
    /\ UNCHANGED <<dbVars, up, drops, sent, buf, wire, base, since, dropped, seen, zombies, cardVars, stops, faults>>

Pause ==
    /\ phase # "off" /\ ~frozen.on
    /\ frozen' = [on |-> TRUE, list |-> events, at |-> total]
    /\ UNCHANGED <<dbVars, up, drops, sent, linkVars, phase, events, total, stops, faults>>

Resume ==
    /\ frozen.on /\ frozen' = NotPaused
    /\ UNCHANGED <<dbVars, up, drops, sent, linkVars, phase, events, total, stops, faults>>

\* Mutant: the list is emptied under a paused card.
ResetStaysPaused ==
    /\ total > 0 /\ events' = <<>> /\ total' = 0
    /\ UNCHANGED <<dbVars, up, drops, sent, linkVars, phase, frozen, stops, faults>>

reset ==
    /\ total > 0 /\ events' = <<>> /\ total' = 0 /\ frozen' = NotPaused
    /\ UNCHANGED <<dbVars, up, drops, sent, linkVars, phase, stops, faults>>

-----------------------------------------------------------------------------

Stores == Take \/ Flush
Connects == Subscribe \/ Upgrade \/ onopen \/ onclose \/ connect \/ Unsubscribe

LiveNext ==
    \/ \E r \in Rows : Write(r) \/ Broadcast(r)
    \/ Stores \/ Stop \/ Start \/ Connects \/ Push \/ Cut
    \/ Mount \/ Unmount \/ onmessage \/ Pause \/ Resume \/ reset

LiveSpec == LiveInit /\ [][LiveNext]_liveVars

-----------------------------------------------------------------------------

\* Every row written is in one place: on its way, stored, refused by its own
\* insert, or gone with the process (Write, writerLoop and its flush, which
\* tries a failed batch again row by row; audit.go:37-104).
EachRowInOnePlace ==
    \A r \in Rows :
        Cardinality({i \in 1..Len(queue) : queue[i] = r}) + Cardinality({i \in 1..Len(batch) : batch[i] = r})
          + Cardinality({S \in {<<"db", db>>, <<"refused", refused>>, <<"held", held>>} : r \in S[2]})
        = IF wpc[r] = "none" THEN 0 ELSE 1

\* What a connection does not show of what was broadcast since its 101 answer
\* is under way or was dropped for its full buffer: there is no window in which
\* a row is lost in silence (auditws.go:91-107).
GapsAreDrops ==
    link = "open" => \A i \in since + 1..Len(sent) : sent[i] \in seen \cup dropped \cup Holds(wire) \cup Holds(buf)

Published(r) == CHOOSE i \in 1..Len(sent) : sent[i] = r

\* The list is newest first and shows no row twice, over reconnections; a
\* paused card has the list of then, and the badge is the number of rows by
\* which the list has moved on (useAuditStream.ts:70-76, LiveAuditStream.tsx:20-67).
CardFollowsStream ==
    /\ \A i, j \in 1..Len(events) : i < j => Published(events[i]) > Published(events[j])
    /\ frozen.on =>
         LET pending == total - frozen.at
         IN  /\ pending >= 0
             /\ \A i \in 1..MaxEvents :
                (i + pending \in 1..Len(events) \/ (i \in 1..Len(frozen.list) /\ i + pending <= MaxEvents))
                    => i \in 1..Len(frozen.list) /\ events[i + pending] = frozen.list[i]

\* A mounted card that is not connected comes to be, or is left: after the
\* network, the server or its own slowness ended the connection.
Reconnects == (phase \in {"connecting", "disconnected"}) ~> (phase \in {"live", "off"})

\* What is on its way to the database settles, without another row written.
Drains == (queue # <<>> \/ batch # <<>>) ~> (queue = <<>> /\ batch = <<>>)

=============================================================================
