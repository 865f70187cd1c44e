---------------------------- MODULE ConsoleProofs -----------------------------
(* Proofs about what an administrator's browser and the server do together.   *)
(* LiveAudit, for any number of rows and any size of the queue, the batch,    *)
(* the buffers and the list: no row is lost on its way to the database, a     *)
(* connection loses rows only by dropping them, and the card shows the rows   *)
(* in the order of their broadcast.  Console and the account it works on, for *)
(* any number of devices, codes and bindings, and any threshold: recovery     *)
(* codes are accepted once, authenticator steps rise, the threshold locks.    *)
EXTENDS LiveAudit, Console, FiniteSetTheorems, SequenceTheorems, TLAPS

-----------------------------------------------------------------------------
(* The live stream: LiveAudit.                                                *)

LEMMA ListSize == MaxEvents \in Nat
BY LiveAssumption DEF LiveAssumption

-----------------------------------------------------------------------------
(* Sequences that hold a row at most once.                                    *)

Distinct(s) == \A i, j \in 1..Len(s) : s[i] = s[j] => i = j

LEMMA HoldsNothing == Holds(<<>>) = {} /\ Distinct(<<>>)
BY DEF Holds, Distinct

LEMMA HoldsAppend ==
    ASSUME NEW S, NEW s \in Seq(S), NEW e \in S
    PROVE  /\ Append(s, e) \in Seq(S)
           /\ Holds(Append(s, e)) = Holds(s) \cup {e}
           /\ Distinct(s) /\ e \notin Holds(s) => Distinct(Append(s, e))
<1>1. /\ Append(s, e) \in Seq(S) /\ Len(Append(s, e)) = Len(s) + 1 /\ Len(s) \in Nat
      /\ \A i \in 1..Len(s) : Append(s, e)[i] = s[i]
      /\ Append(s, e)[Len(s) + 1] = e
  BY AppendProperties
<1>2. 1..Len(s) + 1 = (1..Len(s)) \cup {Len(s) + 1}
  BY <1>1
<1>3. Holds(Append(s, e)) = Holds(s) \cup {e}
  BY <1>1, <1>2 DEF Holds
<1>4. ASSUME Distinct(s), e \notin Holds(s) PROVE Distinct(Append(s, e))
  BY <1>1, <1>2, <1>4 DEF Holds, Distinct
<1> QED BY <1>1, <1>3, <1>4

LEMMA HoldsTail ==
    ASSUME NEW S, NEW s \in Seq(S), s # <<>>
    PROVE  /\ Tail(s) \in Seq(S) /\ Head(s) \in S
           /\ Holds(s) = Holds(Tail(s)) \cup {Head(s)}
           /\ Distinct(s) => Distinct(Tail(s)) /\ Head(s) \notin Holds(Tail(s))
<1>1. /\ Tail(s) \in Seq(S) /\ Head(s) \in S /\ Len(s) \in Nat /\ Len(s) > 0
      /\ Head(s) = s[1] /\ Len(Tail(s)) = Len(s) - 1
      /\ \A i \in 1..Len(Tail(s)) : Tail(s)[i] = s[i + 1]
  BY HeadTailProperties, EmptySeq
<1>2. \A i \in 1..Len(s) : i = 1 \/ (i - 1 \in 1..Len(Tail(s)) /\ s[i] = Tail(s)[i - 1])
  BY <1>1
<1>3. Holds(s) = Holds(Tail(s)) \cup {Head(s)}
  <2>1. Holds(s) \subseteq Holds(Tail(s)) \cup {Head(s)}
    BY <1>1, <1>2 DEF Holds
  <2>2. Holds(Tail(s)) \cup {Head(s)} \subseteq Holds(s)
    BY <1>1 DEF Holds
  <2> QED BY <2>1, <2>2
<1>4. ASSUME Distinct(s) PROVE Distinct(Tail(s)) /\ Head(s) \notin Holds(Tail(s))
  BY <1>1, <1>4 DEF Holds, Distinct
<1> QED BY <1>1, <1>3, <1>4

\* The rows of a sequence are counted as the places that hold them.
LEMMA PlacesOf ==
    ASSUME NEW s \in Seq(Rows), Distinct(s), NEW r \in Rows
    PROVE  Cardinality({i \in 1..Len(s) : s[i] = r}) = IF r \in Holds(s) THEN 1 ELSE 0
<1> DEFINE P == {i \in 1..Len(s) : s[i] = r}
<1>1. CASE r \in Holds(s)
  <2>1. PICK i \in 1..Len(s) : s[i] = r
    BY <1>1 DEF Holds
  <2>2. P = {i}
    BY <2>1 DEF Distinct
  <2> QED BY <1>1, <2>2, FS_Singleton
<1>2. CASE r \notin Holds(s)
  <2>1. P = {}
    BY <1>2 DEF Holds
  <2> QED BY <1>2, <2>1, FS_EmptySet
<1> QED BY <1>1, <1>2

-----------------------------------------------------------------------------
(* Types.                                                                     *)

Shape ==
    /\ wpc \in [Rows -> {"none", "kept", "done"}]
    /\ queue \in Seq(Rows) /\ batch \in Seq(Rows)
    /\ db \subseteq Rows /\ refused \subseteq Rows /\ held \subseteq Rows
    /\ sent \in Seq(Rows) /\ buf \in Seq(Rows) /\ wire \in Seq(Rows)
    /\ since \in Nat
    /\ events \in Seq(Rows) /\ total \in Nat
    /\ frozen \in [on: BOOLEAN, list: Seq(Rows), at: Nat]

\* The rows the list keeps of those it has counted.
Kept(n) == IF n < MaxEvents THEN n ELSE MaxEvents

LEMMA KeptBounds ==
    ASSUME NEW n \in Nat
    PROVE  /\ Kept(n) \in Nat /\ Kept(n) <= n /\ Kept(n) <= MaxEvents
           /\ \A m \in Nat : m <= n /\ m <= MaxEvents => m <= Kept(n)
BY ListSize DEF Kept

\* A place of the list of then in the list of now, after n - a rows more.
LEMMA MovedBack ==
    ASSUME NEW n \in Nat, NEW a \in Nat, a <= n, NEW i \in 1..MaxEvents, i + (n - a) \in 1..Kept(n)
    PROVE  i \in 1..Kept(a) /\ i + (n - a) <= MaxEvents
<1>1. i <= a /\ i \in Nat /\ i + (n - a) <= MaxEvents
  BY ListSize, KeptBounds
<1> QED BY <1>1, ListSize, KeptBounds

LEMMA MovedOn ==
    ASSUME NEW n \in Nat, NEW a \in Nat, a <= n, NEW i \in 1..Kept(a), i + ((n + 1) - a) <= MaxEvents
    PROVE  /\ i + (n - a) \in Nat /\ i + ((n + 1) - a) = (i + (n - a)) + 1
           /\ i + (n - a) <= MaxEvents
           /\ (i + (n - a)) + 1 \in 1..Kept(n + 1) /\ (i + (n - a)) + 1 # 1
           /\ ((i + (n - a)) + 1) - 1 = i + (n - a)
<1>1. i \in Nat /\ i >= 1 /\ i <= a
  BY ListSize, KeptBounds
<1>2. /\ i + (n - a) \in Nat /\ i + (n - a) >= 1 /\ i + (n - a) <= n
      /\ i + ((n + 1) - a) = (i + (n - a)) + 1
  BY <1>1
<1>3. (i + (n - a)) + 1 <= n + 1 /\ (i + (n - a)) + 1 <= MaxEvents /\ (i + (n - a)) + 1 \in Nat
  BY <1>2
<1>4. (i + (n - a)) + 1 <= Kept(n + 1) /\ Kept(n + 1) \in Nat
  BY <1>3, KeptBounds
<1> QED BY <1>2, <1>3, <1>4, ListSize

\* One row more on the list: it is the first, the others move on by one.
Prepend(r, s) ==
    SubSeq(<<r>> \o s, 1, IF Len(s) < MaxEvents THEN Len(s) + 1 ELSE MaxEvents)

LEMMA Prepended ==
    ASSUME NEW s \in Seq(Rows), NEW r \in Rows, NEW n \in Nat, Len(s) = Kept(n)
    PROVE  /\ Prepend(r, s) \in Seq(Rows)
           /\ Len(Prepend(r, s)) = Kept(n + 1)
           /\ \A i \in 1..Len(Prepend(r, s)) :
                 Prepend(r, s)[i] = IF i = 1 THEN r ELSE s[i - 1]
<1>0. MaxEvents \in Nat /\ Len(s) \in Nat
  BY ListSize
<1>1. PICK m \in Nat : /\ m = IF Len(s) < MaxEvents THEN Len(s) + 1 ELSE MaxEvents
                       /\ m <= Len(s) + 1 /\ m = Kept(n + 1)
  <2>1. CASE n < MaxEvents
    <3>1. Len(s) = n /\ Len(s) + 1 \in Nat /\ Len(s) + 1 = Kept(n + 1)
      BY <1>0, <2>1 DEF Kept
    <3> QED BY <1>0, <2>1, <3>1
  <2>2. CASE ~(n < MaxEvents)
    <3>1. Len(s) = MaxEvents /\ MaxEvents = Kept(n + 1)
      BY <1>0, <2>2 DEF Kept
    <3> QED BY <1>0, <2>2, <3>1
  <2> QED BY <2>1, <2>2
<1>2. PICK u \in Seq(Rows) : /\ u = <<r>> \o s
                             /\ Len(u) = Len(s) + 1
                             /\ u[1] = r
                             /\ \A i \in 1..Len(s) : u[i + 1] = s[i]
  <2>1. PICK o \in Seq(Rows) : o = <<r>> /\ Len(o) = 1 /\ o[1] = r
    <3>1. <<r>> \in Seq(Rows) /\ Len(<<r>>) = 1 /\ <<r>>[1] = r
      OBVIOUS
    <3> QED BY <3>1
  <2> DEFINE w == o \o s
  <2>2. /\ w \in Seq(Rows) /\ Len(w) = 1 + Len(s) /\ w = <<r>> \o s
        /\ \A i \in 1..1 + Len(s) : w[i] = IF i <= 1 THEN o[i] ELSE s[i - 1]
    BY <2>1, ConcatProperties
  <2> HIDE DEF w
  <2>3. Len(w) = Len(s) + 1 /\ w[1] = r /\ \A i \in 1..Len(s) : w[i + 1] = s[i]
    BY <1>0, <2>1, <2>2
  <2> QED BY <2>2, <2>3, Zenon
<1>3. \A i \in 1..m : u[i] \in Rows
  BY <1>0, <1>1, <1>2
<1>4. /\ SubSeq(u, 1, m) \in Seq(Rows)
      /\ Len(SubSeq(u, 1, m)) = m
      /\ \A i \in 1..m : SubSeq(u, 1, m)[i] = u[i]
  BY <1>1, <1>3, SubSeqProperties
<1>5. \A i \in 1..m : i = 1 \/ (i - 1 \in 1..Len(s) /\ u[(i - 1) + 1] = s[i - 1])
  BY <1>0, <1>1, <1>2
<1> DEFINE t == Prepend(r, s)
<1>6. t = SubSeq(u, 1, m)
  BY <1>1, <1>2 DEF Prepend
<1> HIDE DEF t
<1>7. /\ t \in Seq(Rows) /\ Len(t) = Kept(n + 1)
      /\ \A i \in 1..Len(t) : t[i] = IF i = 1 THEN r ELSE s[i - 1]
  <2>1. t \in Seq(Rows) /\ Len(t) = Kept(n + 1) /\ Len(t) = m
    BY <1>1, <1>4, <1>6
  <2>2. ASSUME NEW i \in 1..m PROVE t[i] = IF i = 1 THEN r ELSE s[i - 1]
    <3>1. t[i] = u[i]
      BY <1>4, <1>6
    <3>2. CASE i = 1
      BY <1>2, <3>1, <3>2
    <3>3. CASE i # 1
      <4>1. i - 1 \in 1..Len(s) /\ u[(i - 1) + 1] = s[i - 1] /\ (i - 1) + 1 = i
        BY <1>5, <3>3
      <4> QED BY <3>1, <3>3, <4>1
    <3> QED BY <3>2, <3>3
  <2> QED BY <2>1, <2>2
<1> QED BY <1>7 DEF t

-----------------------------------------------------------------------------
(* The invariants.                                                            *)

\* The places a row can be in are disjoint, each holds it once, and together
\* they hold the rows written.
Disjoint ==
    /\ Holds(queue) \cap (Holds(batch) \cup db \cup refused \cup held) = {}
    /\ Holds(batch) \cap (db \cup refused \cup held) = {}
    /\ db \cap (refused \cup held) = {}
    /\ refused \cap held = {}

PlaceInv ==
    /\ Distinct(queue) /\ Distinct(batch)
    /\ Disjoint
    /\ \A r \in Rows :
          wpc[r] # "none" <=> r \in Holds(queue) \cup Holds(batch) \cup db \cup refused \cup held

\* Row r was broadcast before row s, as the history h tells.
Earlier(h, r, s) == \E i, j \in 1..Len(h) : i < j /\ h[i] = r /\ h[j] = s
Ahead(h, A, B) == \A r \in A, s \in B : Earlier(h, r, s)
InOrder(h, q) == \A i, j \in 1..Len(q) : i < j => Earlier(h, q[i], q[j])
NewestFirst(h, q) == \A i, j \in 1..Len(q) : i < j => Earlier(h, q[j], q[i])

\* A row is broadcast once; what the list shows was broadcast before what the
\* connection carries, and that before what waits in the buffer.
OrderInv ==
    /\ Distinct(sent)
    /\ \A r \in Holds(sent) : wpc[r] = "done"
    /\ Holds(buf) \cup Holds(wire) \cup Holds(events) \subseteq Holds(sent)
    /\ InOrder(sent, buf) /\ InOrder(sent, wire) /\ NewestFirst(sent, events)
    /\ Ahead(sent, Holds(wire), Holds(buf))
    /\ Ahead(sent, Holds(events), Holds(wire) \cup Holds(buf))

\* The list of a paused card is where the list was, moved on by what came since.
FrozenInv ==
    /\ Len(events) = Kept(total)
    /\ frozen.on =>
         /\ frozen.at <= total
         /\ Len(frozen.list) = Kept(frozen.at)
         /\ \A i \in 1..Len(frozen.list) :
               i + (total - frozen.at) <= MaxEvents
                  => events[i + (total - frozen.at)] = frozen.list[i]

LiveInv == Shape /\ PlaceInv /\ GapsAreDrops /\ OrderInv /\ FrozenInv

-----------------------------------------------------------------------------
(* The steps.                                                                 *)

LEMMA InitLive == LiveInit => LiveInv
<1> SUFFICES ASSUME LiveInit PROVE LiveInv
  OBVIOUS
<1>1. /\ <<>> \in Seq(Rows) /\ Len(<<>>) = 0
      /\ frozen \in [on: BOOLEAN, list: Seq(Rows), at: Nat]
  BY DEF LiveInit, NotPaused
<1>2. Shape
  BY <1>1 DEF LiveInit, Shape
<1>3. PlaceInv
  BY HoldsNothing DEF LiveInit, PlaceInv, Disjoint
<1>4. GapsAreDrops
  BY DEF LiveInit, GapsAreDrops
<1>5. OrderInv
  BY <1>1, HoldsNothing DEF LiveInit, OrderInv, InOrder, NewestFirst, Ahead
<1>6. FrozenInv
  BY <1>1, ListSize DEF LiveInit, FrozenInv, Kept, NotPaused
<1> QED BY <1>2, <1>3, <1>4, <1>5, <1>6 DEF LiveInv

\* A page that gives up its connection.
LEMMA AbandonShape ==
    ASSUME Shape, Abandon
    PROVE  /\ buf' = <<>> /\ wire' = <<>> /\ buf' \in Seq(Rows) /\ wire' \in Seq(Rows)
           /\ since' \in Nat /\ link' = "none"
BY DEF Abandon

LEMMA NextShape == Shape /\ [LiveNext]_liveVars => Shape'
<1> SUFFICES ASSUME Shape, [LiveNext]_liveVars PROVE Shape'
  OBVIOUS
<1> USE DEF Shape, dbVars, linkVars, cardVars
<1>0. <<>> \in Seq(Rows)
  OBVIOUS
<1> DEFINE F == [on: BOOLEAN, list: Seq(Rows), at: Nat]
<1>n. NotPaused \in F
  BY DEF NotPaused
<1>1. ASSUME NEW r \in Rows, Write(r) PROVE Shape'
  <2>1. Append(queue, r) \in Seq(Rows)
    BY AppendProperties
  <2> QED BY <1>1, <2>1 DEF Write
<1>2. ASSUME NEW r \in Rows, Broadcast(r) PROVE Shape'
  <2>1. Append(sent, r) \in Seq(Rows) /\ Append(buf, r) \in Seq(Rows)
    BY AppendProperties
  <2> QED BY <1>2, <2>1 DEF Broadcast
<1>3. CASE Take
  <2>1. queue # <<>> /\ queue' = Tail(queue) /\ batch' = Append(batch, Head(queue))
    BY <1>3 DEF Take
  <2>2. Head(queue) \in Rows /\ Tail(queue) \in Seq(Rows)
    BY <2>1, HoldsTail
  <2>3. Append(batch, Head(queue)) \in Seq(Rows)
    BY <2>2, AppendProperties
  <2> QED BY <1>3, <2>1, <2>2, <2>3 DEF Take
<1>4. CASE Flush
  <2>1. Holds(batch) \subseteq Rows
    BY DEF Holds
  <2> QED BY <1>0, <1>4, <2>1 DEF Flush
<1>5. CASE Stop
  <2>1. Holds(batch) \subseteq Rows /\ Holds(queue) \subseteq Rows
    BY DEF Holds
  <2> QED BY <1>0, <1>5, <2>1 DEF Stop
<1>6. CASE Start \/ Subscribe \/ Upgrade \/ Unsubscribe \/ Mount \/ connect \/ onopen
  <2>1. Len(sent) \in Nat
    OBVIOUS
  <2> QED BY <1>6, <2>1 DEF Start, Subscribe, Upgrade, Unsubscribe, Mount, connect, onopen
<1>7. CASE Push
  <2>1. buf # <<>> /\ wire' = Append(wire, Head(buf)) /\ buf' \in {Tail(buf), <<>>}
    BY <1>7 DEF Push
  <2>2. Head(buf) \in Rows /\ Tail(buf) \in Seq(Rows)
    BY <2>1, HoldsTail
  <2>3. Append(wire, Head(buf)) \in Seq(Rows)
    BY <2>2, AppendProperties
  <2> QED BY <1>0, <1>7, <2>1, <2>2, <2>3 DEF Push
<1>8. CASE Cut
  BY <1>0, <1>8 DEF Cut
<1>9. CASE Unmount \/ onclose
  <2>1. /\ buf' \in Seq(Rows) /\ wire' \in Seq(Rows) /\ since' \in Nat
        /\ UNCHANGED <<dbVars, sent>>
    BY <1>9, AbandonShape DEF Unmount, onclose
  <2>2. \/ events' = events /\ total' = total /\ frozen' = frozen
        \/ events' = <<>> /\ total' = 0 /\ frozen' = NotPaused
    BY <1>9 DEF Unmount, onclose
  <2>3. frozen \in F /\ 0 \in Nat
    OBVIOUS
  <2> HIDE DEF F
  <2>4. events' \in Seq(Rows) /\ total' \in Nat /\ frozen' \in F
    BY <1>0, <1>n, <2>2, <2>3, Zenon
  <2> QED BY <2>1, <2>4 DEF F
<1>10. CASE onmessage
  <2>1. wire # <<>> /\ wire' = Tail(wire) /\ total' = total + 1
    BY <1>10 DEF onmessage
  <2>2. Head(wire) \in Rows /\ Tail(wire) \in Seq(Rows)
    BY <2>1, HoldsTail
  <2>3. events' \in Seq(Rows)
    <3> DEFINE u == <<Head(wire)>> \o events
               m == IF Len(events) < MaxEvents THEN Len(events) + 1 ELSE MaxEvents
    <3>1. u \in Seq(Rows) /\ Len(u) = Len(events) + 1
      <4>1. <<Head(wire)>> \in Seq(Rows) /\ Len(<<Head(wire)>>) = 1
        BY <2>2
      <4> QED BY <4>1, ConcatProperties
    <3>2. m \in Nat /\ m <= Len(events) + 1
      BY ListSize
    <3>3. events' = SubSeq(u, 1, m)
      BY <1>10 DEF onmessage
    <3> HIDE DEF u, m
    <3>4. \A i \in 1..m : u[i] \in Rows
      BY <3>1, <3>2
    <3> QED BY <3>2, <3>3, <3>4, SubSeqProperties
  <2>4. UNCHANGED <<dbVars, sent, buf, since, frozen>>
    BY <1>10 DEF onmessage
  <2>5. wire' \in Seq(Rows) /\ total' \in Nat
    BY <2>1, <2>2
  <2> HIDE DEF F
  <2> QED BY <2>3, <2>4, <2>5
<1>11. CASE Pause \/ Resume \/ reset
  <2>1. UNCHANGED <<dbVars, sent, buf, wire, since>>
    BY <1>11 DEF Pause, Resume, reset
  <2>2. /\ events' = events \/ events' = <<>>
        /\ total' = total \/ total' = 0
        /\ frozen' = NotPaused \/ frozen' = [on |-> TRUE, list |-> events, at |-> total]
    BY <1>11 DEF Pause, Resume, reset
  <2>3. [on |-> TRUE, list |-> events, at |-> total] \in F /\ 0 \in Nat
    OBVIOUS
  <2> HIDE DEF F
  <2>4. events' \in Seq(Rows) /\ total' \in Nat /\ frozen' \in F
    BY <1>0, <1>n, <2>2, <2>3, Zenon
  <2> QED BY <2>1, <2>4 DEF F
<1>12. CASE UNCHANGED liveVars
  BY <1>12 DEF liveVars
<1> QED
  BY <1>1, <1>2, <1>3, <1>4, <1>5, <1>6, <1>7, <1>8, <1>9, <1>10, <1>11, <1>12
     DEF LiveNext, Stores, Connects

\* What a step leaves alone but for the places of the rows.
LEMMA NextPlace == Shape /\ PlaceInv /\ [LiveNext]_liveVars => PlaceInv'
<1> SUFFICES ASSUME Shape, PlaceInv, [LiveNext]_liveVars PROVE PlaceInv'
  OBVIOUS
<1>0. /\ queue \in Seq(Rows) /\ batch \in Seq(Rows) /\ wpc \in [Rows -> {"none", "kept", "done"}]
      /\ db \subseteq Rows /\ refused \subseteq Rows /\ held \subseteq Rows
      /\ Holds(queue) \subseteq Rows /\ Holds(batch) \subseteq Rows
  BY DEF Shape, Holds
<1> DEFINE All == Holds(queue) \cup Holds(batch) \cup db \cup refused \cup held
<1>p. /\ Distinct(queue) /\ Distinct(batch) /\ Disjoint
      /\ \A r \in Rows : wpc[r] # "none" <=> r \in All
  BY DEF PlaceInv
<1>1. ASSUME NEW r \in Rows, Write(r) PROVE PlaceInv'
  <2>1. /\ r \notin All /\ wpc' = [wpc EXCEPT ![r] = "kept"]
        /\ UNCHANGED <<batch, held>>
    BY <1>1, <1>p DEF Write
  <2>2. \A s \in Rows : wpc'[s] # "none" <=> s \in All \cup {r}
    BY <1>0, <1>p, <2>1
  <2>3. CASE queue' = Append(queue, r) /\ UNCHANGED <<db, refused>>
    <3>1. Holds(queue') = Holds(queue) \cup {r} /\ Distinct(queue')
      BY <1>0, <1>p, <2>1, <2>3, HoldsAppend
    <3> QED BY <1>p, <2>1, <2>2, <2>3, <3>1 DEF PlaceInv, Disjoint
  <2>4. CASE db' = db \cup {r} /\ UNCHANGED <<queue, refused>>
    BY <1>p, <2>1, <2>2, <2>4 DEF PlaceInv, Disjoint
  <2>5. CASE refused' = refused \cup {r} /\ UNCHANGED <<queue, db>>
    BY <1>p, <2>1, <2>2, <2>5 DEF PlaceInv, Disjoint
  <2> QED BY <1>1, <2>3, <2>4, <2>5 DEF Write
<1>2. ASSUME NEW r \in Rows, Broadcast(r) PROVE PlaceInv'
  <2>1. /\ wpc[r] = "kept" /\ wpc' = [wpc EXCEPT ![r] = "done"]
        /\ UNCHANGED <<queue, batch, db, refused, held>>
    BY <1>2 DEF Broadcast
  <2>2. \A s \in Rows : wpc'[s] # "none" <=> wpc[s] # "none"
    BY <1>0, <2>1
  <2> QED BY <1>p, <2>1, <2>2 DEF PlaceInv, Disjoint
<1>3. CASE Take
  <2> DEFINE h == Head(queue)
  <2>1. /\ queue # <<>> /\ queue' = Tail(queue) /\ batch' = Append(batch, h)
        /\ UNCHANGED <<wpc, db, refused, held>>
    BY <1>3 DEF Take
  <2>2. /\ h \in Rows /\ Holds(queue) = Holds(queue') \cup {h} /\ h \notin Holds(queue')
        /\ Distinct(queue')
    BY <1>0, <1>p, <2>1, HoldsTail
  <2> HIDE DEF h
  <2>3. h \notin Holds(batch)
    BY <1>p, <2>2 DEF Disjoint
  <2>4. Holds(batch') = Holds(batch) \cup {h} /\ Distinct(batch')
    BY <1>0, <1>p, <2>1, <2>2, <2>3, HoldsAppend
  <2> QED BY <1>p, <2>1, <2>2, <2>4 DEF PlaceInv, Disjoint
<1>4. CASE Flush
  <2>1. batch' = <<>> /\ UNCHANGED <<wpc, queue, held>>
    BY <1>4 DEF Flush
  <2>2. PICK bad \in SUBSET Holds(batch) :
           db' = db \cup (Holds(batch) \ bad) /\ refused' = refused \cup bad
    <3>1. ASSUME db' = db \cup Holds(batch), UNCHANGED refused
          PROVE  db' = db \cup (Holds(batch) \ {}) /\ refused' = refused \cup {}
      BY <3>1
    <3> QED BY <1>4, <3>1 DEF Flush
  <2>3. Holds(batch') = {} /\ Distinct(batch')
    BY <2>1, HoldsNothing
  <2> QED BY <1>p, <2>1, <2>2, <2>3 DEF PlaceInv, Disjoint
<1>5. CASE Stop
  <2>1. /\ queue' = <<>> /\ batch' = <<>> /\ UNCHANGED refused
        /\ wpc' = [r \in Rows |-> IF wpc[r] = "kept" THEN "done" ELSE wpc[r]]
    BY <1>5 DEF Stop
  <2>2. PICK last \in SUBSET Holds(batch) :
           db' = db \cup last /\ held' = held \cup Holds(queue) \cup (Holds(batch) \ last)
    BY <1>5 DEF Stop
  <2>3. Holds(batch') = {} /\ Distinct(batch') /\ Holds(queue') = {} /\ Distinct(queue')
    BY <2>1, HoldsNothing
  <2>4. \A s \in Rows : wpc'[s] # "none" <=> wpc[s] # "none"
    BY <1>0, <2>1
  <2> QED BY <1>p, <2>1, <2>2, <2>3, <2>4 DEF PlaceInv, Disjoint
<1>6. ASSUME UNCHANGED <<wpc, queue, batch, db, refused, held>> PROVE PlaceInv'
  BY <1>6 DEF PlaceInv, Disjoint
<1>7. CASE Start \/ Connects \/ Push \/ Cut \/ Mount \/ Unmount \/ onmessage \/ Pause \/ Resume \/ reset
  BY <1>6, <1>7 DEF Start, Connects, Subscribe, Upgrade, onopen, onclose, connect, Unsubscribe,
     Push, Cut, Mount, Unmount, onmessage, Pause, Resume, reset, dbVars
<1>8. CASE UNCHANGED liveVars
  BY <1>6, <1>8 DEF liveVars, dbVars
<1> QED BY <1>1, <1>2, <1>3, <1>4, <1>5, <1>7, <1>8 DEF LiveNext, Stores

LEMMA NextGaps == Shape /\ GapsAreDrops /\ [LiveNext]_liveVars => GapsAreDrops'
<1> SUFFICES ASSUME Shape, GapsAreDrops, [LiveNext]_liveVars, link' = "open"
             PROVE  \A i \in since' + 1..Len(sent') :
                       sent'[i] \in seen' \cup dropped' \cup Holds(wire') \cup Holds(buf')
  BY DEF GapsAreDrops
<1>0. /\ sent \in Seq(Rows) /\ buf \in Seq(Rows) /\ wire \in Seq(Rows) /\ since \in Nat
      /\ Len(sent) \in Nat
  BY DEF Shape
<1> DEFINE Got == seen \cup dropped \cup Holds(wire) \cup Holds(buf)
<1>1. ASSUME link = "open", UNCHANGED <<sent, since>>, Got \subseteq Got'
      PROVE  \A i \in since' + 1..Len(sent') : sent'[i] \in Got'
  BY <1>1 DEF GapsAreDrops
<1>2. ASSUME NEW r \in Rows, Broadcast(r)
      PROVE  \A i \in since' + 1..Len(sent') : sent'[i] \in Got'
  <2>1. /\ link = "open" /\ UNCHANGED <<since, seen, wire>> /\ sent' = Append(sent, r)
        /\ \/ buf' = Append(buf, r) /\ dropped' = dropped
           \/ buf' = buf /\ dropped' = dropped \cup {r}
    BY <1>2 DEF Broadcast, Subscribed
  <2>2. Holds(Append(buf, r)) = Holds(buf) \cup {r}
    BY <1>0, HoldsAppend
  <2>3. Got \subseteq Got' /\ r \in Got'
    BY <2>1, <2>2
  <2>4. /\ Len(sent') = Len(sent) + 1 /\ sent'[Len(sent) + 1] = r
        /\ \A i \in 1..Len(sent) : sent'[i] = sent[i]
    BY <1>0, <2>1, AppendProperties
  <2> SUFFICES ASSUME NEW i \in since' + 1..Len(sent') PROVE sent'[i] \in Got'
    OBVIOUS
  <2> HIDE DEF Got
  <2>5. CASE i = Len(sent) + 1
    BY <2>3, <2>4, <2>5
  <2>6. CASE i # Len(sent) + 1
    <3>1. i \in since + 1..Len(sent) /\ i \in 1..Len(sent)
      BY <1>0, <2>1, <2>4, <2>6
    <3>2. sent[i] \in Got
      BY <2>1, <3>1 DEF GapsAreDrops, Got
    <3> QED BY <2>3, <2>4, <3>1, <3>2
  <2> QED BY <2>5, <2>6
<1>3. CASE Push
  <2>1. /\ link = "open" /\ buf # <<>> /\ buf' = Tail(buf) /\ wire' = Append(wire, Head(buf))
        /\ UNCHANGED <<sent, since, seen, dropped>>
    BY <1>3 DEF Push
  <2>2. Head(buf) \in Rows /\ Holds(buf) = Holds(buf') \cup {Head(buf)}
    BY <1>0, <2>1, HoldsTail
  <2>3. Holds(wire') = Holds(wire) \cup {Head(buf)}
    BY <1>0, <2>1, <2>2, HoldsAppend
  <2>4. Got \subseteq Got'
    BY <2>1, <2>2, <2>3
  <2> QED BY <1>1, <2>1, <2>4
<1>4. CASE onmessage
  <2>1. /\ link = "open" /\ wire # <<>> /\ wire' = Tail(wire) /\ seen' = seen \cup {Head(wire)}
        /\ UNCHANGED <<sent, since, buf, dropped>>
    BY <1>4 DEF onmessage
  <2>2. Holds(wire) = Holds(wire') \cup {Head(wire)}
    BY <1>0, <2>1, HoldsTail
  <2>3. Got \subseteq Got'
    BY <2>1, <2>2
  <2> QED BY <1>1, <2>1, <2>3
<1>5. CASE Upgrade
  BY <1>0, <1>5 DEF Upgrade
<1>6. ASSUME link = "open", UNCHANGED <<sent, since, seen, dropped, wire, buf>>
      PROVE  \A i \in since' + 1..Len(sent') : sent'[i] \in Got'
  <2>1. Got \subseteq Got'
    BY <1>6
  <2> QED BY <1>1, <1>6, <2>1
<1>7. CASE (\E r \in Rows : Write(r)) \/ Stores \/ Stop \/ Start
  BY <1>6, <1>7 DEF Write, Stores, Take, Flush, Stop, Start, linkVars
<1>8. CASE Subscribe \/ onopen \/ onclose \/ connect \/ Unsubscribe \/ Cut \/ Mount \/ Unmount
           \/ Pause \/ Resume \/ reset
  BY <1>6, <1>8 DEF Subscribe, onopen, onclose, connect, Unsubscribe, Cut, Mount, Unmount, Abandon,
     Pause, Resume, reset, linkVars
<1>9. CASE UNCHANGED liveVars
  BY <1>6, <1>9 DEF liveVars, linkVars
<1> QED BY <1>2, <1>3, <1>4, <1>5, <1>7, <1>8, <1>9 DEF LiveNext, Connects

-----------------------------------------------------------------------------
(* The order of the broadcasts.                                               *)

\* The history grows at its end: what was earlier stays so.
LEMMA EarlierGrows ==
    ASSUME NEW h \in Seq(Rows), NEW r \in Rows
    PROVE  /\ \A a, b : Earlier(h, a, b) => Earlier(Append(h, r), a, b)
           /\ \A a \in Holds(h) : Earlier(Append(h, r), a, r)
<1> DEFINE g == Append(h, r)
<1>1. /\ g \in Seq(Rows) /\ Len(g) = Len(h) + 1 /\ Len(h) \in Nat
      /\ \A i \in 1..Len(h) : g[i] = h[i]
      /\ g[Len(h) + 1] = r
  BY AppendProperties
<1> HIDE DEF g
<1>2. ASSUME NEW a, NEW b, Earlier(h, a, b) PROVE Earlier(g, a, b)
  <2>1. PICK i, j \in 1..Len(h) : i < j /\ h[i] = a /\ h[j] = b
    BY <1>2 DEF Earlier
  <2>2. i \in 1..Len(g) /\ j \in 1..Len(g) /\ g[i] = a /\ g[j] = b
    BY <1>1, <2>1
  <2> QED BY <2>1, <2>2 DEF Earlier
<1>3. ASSUME NEW a \in Holds(h) PROVE Earlier(g, a, r)
  <2>1. PICK i \in 1..Len(h) : h[i] = a
    BY DEF Holds
  <2>2. /\ i \in 1..Len(g) /\ Len(h) + 1 \in 1..Len(g) /\ i < Len(h) + 1
        /\ g[i] = a /\ g[Len(h) + 1] = r
    BY <1>1, <2>1
  <2> QED BY <2>2 DEF Earlier
<1> QED BY <1>2, <1>3 DEF g

LEMMA AppendInOrder ==
    ASSUME NEW h, NEW q \in Seq(Rows), NEW r \in Rows, InOrder(h, q),
           \A a \in Holds(q) : Earlier(h, a, r)
    PROVE  InOrder(h, Append(q, r))
<1> DEFINE g == Append(q, r)
<1>1. /\ g \in Seq(Rows) /\ Len(g) = Len(q) + 1 /\ Len(q) \in Nat
      /\ \A i \in 1..Len(q) : g[i] = q[i]
      /\ g[Len(q) + 1] = r
  BY AppendProperties
<1> HIDE DEF g
<1>2. ASSUME NEW i \in 1..Len(g), NEW j \in 1..Len(g), i < j PROVE Earlier(h, g[i], g[j])
  <2>1. i \in 1..Len(q) /\ g[i] = q[i] /\ q[i] \in Holds(q)
    BY <1>1, <1>2 DEF Holds
  <2>2. CASE j = Len(q) + 1
    BY <1>1, <2>1, <2>2
  <2>3. CASE j # Len(q) + 1
    <3>1. j \in 1..Len(q) /\ g[j] = q[j]
      BY <1>1, <2>3
    <3> QED BY <1>2, <2>1, <3>1 DEF InOrder
  <2> QED BY <2>2, <2>3
<1>3. InOrder(h, g)
  BY <1>2 DEF InOrder
<1> QED BY <1>3 DEF g

LEMMA TailInOrder ==
    ASSUME NEW h, NEW q \in Seq(Rows), q # <<>>, InOrder(h, q)
    PROVE  /\ InOrder(h, Tail(q))
           /\ \A a \in Holds(Tail(q)) : Earlier(h, Head(q), a)
<1>1. /\ Len(q) \in Nat /\ Len(q) > 0 /\ Head(q) = q[1] /\ Len(Tail(q)) = Len(q) - 1
      /\ \A i \in 1..Len(Tail(q)) : Tail(q)[i] = q[i + 1]
  BY HeadTailProperties, EmptySeq
<1>2. \A i \in 1..Len(Tail(q)) : i + 1 \in 1..Len(q) /\ 1 < i + 1 /\ Tail(q)[i] = q[i + 1]
  BY <1>1
<1>3. 1 \in 1..Len(q)
  BY <1>1
<1>4. ASSUME NEW i \in 1..Len(Tail(q)), NEW j \in 1..Len(Tail(q)), i < j
      PROVE  Earlier(h, Tail(q)[i], Tail(q)[j])
  <2>1. i + 1 < j + 1
    BY <1>1, <1>4
  <2> QED BY <1>2, <2>1 DEF InOrder
<1>5. ASSUME NEW a \in Holds(Tail(q)) PROVE Earlier(h, Head(q), a)
  <2>1. PICK i \in 1..Len(Tail(q)) : Tail(q)[i] = a
    BY DEF Holds
  <2> QED BY <1>1, <1>2, <1>3, <2>1 DEF InOrder
<1> QED BY <1>4, <1>5 DEF InOrder

LEMMA PrependNewest ==
    ASSUME NEW h, NEW s \in Seq(Rows), NEW r \in Rows, NewestFirst(h, s),
           \A a \in Holds(s) : Earlier(h, a, r),
           NEW t \in Seq(Rows), Len(t) <= Len(s) + 1,
           \A i \in 1..Len(t) : t[i] = IF i = 1 THEN r ELSE s[i - 1]
    PROVE  NewestFirst(h, t) /\ Holds(t) \subseteq Holds(s) \cup {r}
<1>0. Len(s) \in Nat /\ Len(t) \in Nat
  OBVIOUS
<1>1. ASSUME NEW i \in 1..Len(t), i # 1
      PROVE  i - 1 \in 1..Len(s) /\ t[i] = s[i - 1] /\ s[i - 1] \in Holds(s)
  <2>1. i - 1 \in 1..Len(s) /\ t[i] = s[i - 1]
    BY <1>0, <1>1
  <2> QED BY <2>1 DEF Holds
<1>2. 1 \in 1..Len(t) => t[1] = r
  OBVIOUS
<1>3. Holds(t) \subseteq Holds(s) \cup {r}
  BY <1>1, <1>2 DEF Holds
<1>4. ASSUME NEW i \in 1..Len(t), NEW j \in 1..Len(t), i < j PROVE Earlier(h, t[j], t[i])
  <2>1. j # 1 /\ j - 1 \in 1..Len(s) /\ t[j] = s[j - 1] /\ s[j - 1] \in Holds(s)
    BY <1>0, <1>1, <1>4
  <2>2. CASE i = 1
    BY <1>2, <2>1, <2>2
  <2>3. CASE i # 1
    <3>1. i - 1 \in 1..Len(s) /\ t[i] = s[i - 1]
      BY <1>1, <2>3
    <3>2. i - 1 < j - 1
      BY <1>4
    <3> QED BY <2>1, <3>1, <3>2 DEF NewestFirst
  <2> QED BY <2>2, <2>3
<1> QED BY <1>3, <1>4 DEF NewestFirst

\* What was broadcast stays so, and nothing new is carried.
LEMMA OrderShrinks ==
    ASSUME OrderInv, UNCHANGED sent,
           \A r \in Holds(sent) : wpc[r] = "done" => wpc'[r] = "done",
           buf' = buf \/ buf' = <<>>, wire' = wire \/ wire' = <<>>,
           events' = events \/ events' = <<>>
    PROVE  OrderInv'
<1>1. /\ Holds(buf') \subseteq Holds(buf) /\ Holds(wire') \subseteq Holds(wire)
      /\ Holds(events') \subseteq Holds(events)
  BY HoldsNothing
<1>2. \A h : InOrder(h, <<>>) /\ NewestFirst(h, <<>>)
  BY DEF InOrder, NewestFirst
<1>3. InOrder(sent, buf') /\ InOrder(sent, wire') /\ NewestFirst(sent, events')
  BY <1>2 DEF OrderInv
<1>4. /\ Ahead(sent, Holds(wire'), Holds(buf'))
      /\ Ahead(sent, Holds(events'), Holds(wire') \cup Holds(buf'))
  BY <1>1 DEF OrderInv, Ahead
<1> QED BY <1>1, <1>3, <1>4 DEF OrderInv

LEMMA NextOrder == Shape /\ FrozenInv /\ OrderInv /\ [LiveNext]_liveVars => OrderInv'
<1> SUFFICES ASSUME Shape, FrozenInv, OrderInv, [LiveNext]_liveVars PROVE OrderInv'
  OBVIOUS
<1>0. /\ sent \in Seq(Rows) /\ buf \in Seq(Rows) /\ wire \in Seq(Rows) /\ events \in Seq(Rows)
      /\ wpc \in [Rows -> {"none", "kept", "done"}] /\ total \in Nat /\ Len(events) = Kept(total)
      /\ Holds(sent) \subseteq Rows
  BY DEF Shape, FrozenInv, Holds
<1>o. /\ Distinct(sent) /\ \A r \in Holds(sent) : wpc[r] = "done"
      /\ Holds(buf) \cup Holds(wire) \cup Holds(events) \subseteq Holds(sent)
      /\ InOrder(sent, buf) /\ InOrder(sent, wire) /\ NewestFirst(sent, events)
      /\ Ahead(sent, Holds(wire), Holds(buf))
      /\ Ahead(sent, Holds(events), Holds(wire) \cup Holds(buf))
  BY DEF OrderInv
<1>1. ASSUME NEW r \in Rows, Broadcast(r) PROVE OrderInv'
  <2>1. /\ wpc[r] = "kept" /\ wpc' = [wpc EXCEPT ![r] = "done"] /\ sent' = Append(sent, r)
        /\ buf' = Append(buf, r) \/ buf' = buf
        /\ UNCHANGED <<wire, events>>
    BY <1>1 DEF Broadcast, cardVars
  <2>2. r \notin Holds(sent)
    BY <1>o, <2>1
  <2>3. Holds(sent') = Holds(sent) \cup {r} /\ Distinct(sent')
    BY <1>0, <1>o, <2>1, <2>2, HoldsAppend
  <2>4. \A s \in Holds(sent') : wpc'[s] = "done"
    BY <1>0, <1>o, <2>1, <2>3
  <2>5. /\ \A a, b : Earlier(sent, a, b) => Earlier(sent', a, b)
        /\ \A a \in Holds(sent) : Earlier(sent', a, r)
    BY <1>0, <2>1, EarlierGrows
  <2>6. Holds(Append(buf, r)) = Holds(buf) \cup {r}
    BY <1>0, HoldsAppend
  <2>7. InOrder(sent', buf) /\ InOrder(sent', wire) /\ NewestFirst(sent', events)
    BY <1>o, <2>5 DEF InOrder, NewestFirst
  <2>8. InOrder(sent', Append(buf, r))
    BY <1>0, <1>o, <2>5, <2>7, AppendInOrder
  <2>9. /\ Ahead(sent', Holds(wire), Holds(buf) \cup {r})
        /\ Ahead(sent', Holds(events), Holds(wire) \cup Holds(buf) \cup {r})
    BY <1>o, <2>5 DEF Ahead
  <2>10. /\ Ahead(sent', Holds(wire), Holds(buf'))
         /\ Ahead(sent', Holds(events), Holds(wire) \cup Holds(buf'))
    BY <2>1, <2>6, <2>9 DEF Ahead
  <2>11. Holds(buf') \cup Holds(wire) \cup Holds(events) \subseteq Holds(sent')
    BY <1>o, <2>1, <2>3, <2>6
  <2>12. InOrder(sent', buf')
    BY <2>1, <2>7, <2>8
  <2> QED BY <2>1, <2>3, <2>4, <2>7, <2>10, <2>11, <2>12 DEF OrderInv
<1>2. CASE Push
  <2> DEFINE b == Head(buf)
  <2>1. /\ buf # <<>> /\ wire' = Append(wire, b) /\ (buf' = Tail(buf) \/ buf' = <<>>)
        /\ UNCHANGED <<wpc, sent, events>>
    BY <1>2 DEF Push, dbVars, cardVars
  <2>2. b \in Rows /\ Holds(buf) = Holds(Tail(buf)) \cup {b}
    BY <1>0, <2>1, HoldsTail
  <2>3. InOrder(sent, Tail(buf)) /\ \A a \in Holds(Tail(buf)) : Earlier(sent, b, a)
    BY <1>0, <1>o, <2>1, TailInOrder
  <2> HIDE DEF b
  <2>4. InOrder(sent, buf') /\ Holds(buf') \subseteq Holds(Tail(buf))
    <3>1. InOrder(sent, <<>>) /\ Holds(<<>>) = {}
      BY HoldsNothing DEF InOrder
    <3> QED BY <2>1, <2>3, <3>1
  <2>5. Holds(wire') = Holds(wire) \cup {b}
    BY <1>0, <2>1, <2>2, HoldsAppend
  <2>6. \A a \in Holds(wire) : Earlier(sent, a, b)
    BY <1>o, <2>2 DEF Ahead
  <2>7. InOrder(sent, wire')
    BY <1>0, <1>o, <2>1, <2>2, <2>6, AppendInOrder
  <2>8. Ahead(sent, Holds(wire'), Holds(buf'))
    BY <1>o, <2>2, <2>3, <2>4, <2>5 DEF Ahead
  <2>9. Ahead(sent, Holds(events), Holds(wire') \cup Holds(buf'))
    BY <1>o, <2>2, <2>4, <2>5 DEF Ahead
  <2>10. Holds(buf') \cup Holds(wire') \cup Holds(events) \subseteq Holds(sent)
    BY <1>o, <2>2, <2>4, <2>5
  <2> QED BY <1>o, <2>1, <2>4, <2>7, <2>8, <2>9, <2>10 DEF OrderInv
<1>3. CASE onmessage
  <2> DEFINE w == Head(wire)
  <2>1. /\ wire # <<>> /\ wire' = Tail(wire) /\ UNCHANGED <<wpc, sent, buf>>
        /\ events' = SubSeq(<<w>> \o events, 1,
                            IF Len(events) < MaxEvents THEN Len(events) + 1 ELSE MaxEvents)
    BY <1>3 DEF onmessage, dbVars
  <2>2. w \in Rows /\ Holds(wire) = Holds(wire') \cup {w}
    BY <1>0, <2>1, HoldsTail
  <2>3. InOrder(sent, wire') /\ \A a \in Holds(wire') : Earlier(sent, w, a)
    BY <1>0, <1>o, <2>1, TailInOrder
  <2> HIDE DEF w
  <2>4. /\ events' \in Seq(Rows) /\ Len(events') = Kept(total + 1)
        /\ \A i \in 1..Len(events') : events'[i] = IF i = 1 THEN w ELSE events[i - 1]
    <3>1. /\ events \in Seq(Rows) /\ total \in Nat /\ Len(events) = Kept(total) /\ w \in Rows
          /\ events' = Prepend(w, events)
      BY <1>0, <2>1, <2>2 DEF Prepend
    <3>2. /\ events' \in Seq(Rows) /\ Len(events') = Kept(total + 1)
          /\ \A i \in 1..Len(events') : events'[i] = IF i = 1 THEN w ELSE events[i - 1]
      BY <3>1, Prepended
    <3> QED BY <2>1, <3>2
  <2>5. Len(events') <= Len(events) + 1
    BY <1>0, <2>4, ListSize DEF Kept
  <2>6. \A a \in Holds(events) : Earlier(sent, a, w)
    BY <1>o, <2>2 DEF Ahead
  <2>7. NewestFirst(sent, events') /\ Holds(events') \subseteq Holds(events) \cup {w}
    BY <1>0, <1>o, <2>2, <2>4, <2>5, <2>6, PrependNewest
  <2>8. Ahead(sent, Holds(wire'), Holds(buf))
    BY <1>o, <2>2 DEF Ahead
  <2>9. Ahead(sent, Holds(events'), Holds(wire') \cup Holds(buf))
    BY <1>o, <2>2, <2>3, <2>7 DEF Ahead
  <2>10. Holds(buf) \cup Holds(wire') \cup Holds(events') \subseteq Holds(sent)
    BY <1>o, <2>2, <2>7
  <2> QED BY <1>o, <2>1, <2>3, <2>7, <2>8, <2>9, <2>10 DEF OrderInv
<1>4. ASSUME NEW r \in Rows, Write(r) PROVE OrderInv'
  <2>1. /\ wpc[r] = "none" /\ wpc' = [wpc EXCEPT ![r] = "kept"]
        /\ UNCHANGED <<sent, buf, wire, events>>
    BY <1>4 DEF Write, linkVars, cardVars
  <2>2. \A s \in Holds(sent) : wpc[s] = "done" => wpc'[s] = "done"
    BY <1>0, <2>1
  <2> QED BY <2>1, <2>2, OrderShrinks
<1>5. CASE Stop
  <2>1. /\ wpc' = [r \in Rows |-> IF wpc[r] = "kept" THEN "done" ELSE wpc[r]]
        /\ buf' = <<>> /\ wire' = <<>> /\ UNCHANGED <<sent, events>>
    BY <1>5 DEF Stop, cardVars
  <2>2. \A s \in Holds(sent) : wpc[s] = "done" => wpc'[s] = "done"
    BY <1>0, <2>1
  <2> QED BY <2>1, <2>2, OrderShrinks
<1>6. CASE Stores \/ Start \/ Connects \/ Cut \/ Mount \/ Unmount \/ Pause \/ Resume \/ reset
  <2>1. UNCHANGED <<wpc, sent>> /\ (buf' = buf \/ buf' = <<>>) /\ (wire' = wire \/ wire' = <<>>)
    BY <1>6 DEF Stores, Take, Flush, Start, Connects, Subscribe, Upgrade, onopen, onclose, connect,
       Unsubscribe, Cut, Mount, Unmount, Abandon, Pause, Resume, reset, dbVars, linkVars
  <2>2. events' = events \/ events' = <<>>
    BY <1>6 DEF Stores, Take, Flush, Start, Connects, Subscribe, Upgrade, onopen, onclose, connect,
       Unsubscribe, Cut, Mount, Unmount, Pause, Resume, reset, cardVars
  <2> QED BY <2>1, <2>2, OrderShrinks
<1>7. CASE UNCHANGED liveVars
  BY <1>7, OrderShrinks DEF liveVars, dbVars, linkVars, cardVars
<1> QED BY <1>1, <1>2, <1>3, <1>4, <1>5, <1>6, <1>7 DEF LiveNext

LEMMA NextFrozen == Shape /\ FrozenInv /\ [LiveNext]_liveVars => FrozenInv'
<1> SUFFICES ASSUME Shape, FrozenInv, [LiveNext]_liveVars PROVE FrozenInv'
  OBVIOUS
<1>0. /\ events \in Seq(Rows) /\ total \in Nat /\ MaxEvents \in Nat /\ Len(events) = Kept(total)
      /\ frozen.at \in Nat /\ frozen.list \in Seq(Rows) /\ Len(frozen.list) \in Nat
  BY ListSize DEF Shape, FrozenInv
<1>f. ASSUME frozen.on
      PROVE  /\ frozen.at <= total /\ Len(frozen.list) = Kept(frozen.at)
             /\ \A i \in 1..Len(frozen.list) :
                   i + (total - frozen.at) <= MaxEvents
                      => events[i + (total - frozen.at)] = frozen.list[i]
  BY <1>f DEF FrozenInv
<1>k. Kept(0) = 0 /\ Len(<<>>) = 0 /\ ~NotPaused.on
  BY <1>0 DEF Kept, NotPaused
<1>1. CASE onmessage
  <2> DEFINE w == Head(wire)
  <2>1. /\ wire # <<>> /\ total' = total + 1 /\ frozen' = frozen
        /\ events' = SubSeq(<<w>> \o events, 1,
                            IF Len(events) < MaxEvents THEN Len(events) + 1 ELSE MaxEvents)
    BY <1>1 DEF onmessage
  <2>2. w \in Rows
    BY <2>1, HoldsTail DEF Shape
  <2> HIDE DEF w
  <2>3. /\ Len(events') = Kept(total')
        /\ \A i \in 1..Len(events') : events'[i] = IF i = 1 THEN w ELSE events[i - 1]
    <3>1. /\ events \in Seq(Rows) /\ total \in Nat /\ Len(events) = Kept(total) /\ w \in Rows
          /\ events' = Prepend(w, events)
      BY <1>0, <2>1, <2>2 DEF Prepend
    <3>2. /\ events' \in Seq(Rows) /\ Len(events') = Kept(total + 1)
          /\ \A i \in 1..Len(events') : events'[i] = IF i = 1 THEN w ELSE events[i - 1]
      BY <3>1, Prepended
    <3> QED BY <2>1, <3>2
  <2>4. ASSUME frozen.on, NEW i \in 1..Len(frozen.list), i + (total' - frozen.at) <= MaxEvents
        PROVE  events'[i + (total' - frozen.at)] = frozen.list[i]
    <3> DEFINE j == i + (total - frozen.at)
    <3>1. /\ frozen.at <= total /\ Len(frozen.list) = Kept(frozen.at)
          /\ j <= MaxEvents => events[j] = frozen.list[i]
      BY <1>f, <2>4
    <3>2. /\ total \in Nat /\ frozen.at \in Nat /\ frozen.at <= total /\ i \in 1..Kept(frozen.at)
          /\ i + ((total + 1) - frozen.at) <= MaxEvents
      BY <1>0, <2>1, <2>4, <3>1
    <3>3. /\ j \in Nat /\ i + ((total + 1) - frozen.at) = j + 1 /\ j <= MaxEvents
          /\ j + 1 \in 1..Kept(total + 1) /\ j + 1 # 1 /\ (j + 1) - 1 = j
      BY <3>2, MovedOn
    <3> HIDE DEF j
    <3>4. events'[j + 1] = events[j]
      BY <2>1, <2>3, <3>3
    <3>5. events[j] = frozen.list[i]
      BY <3>1, <3>3
    <3> QED BY <2>1, <3>3, <3>4, <3>5
  <2>5. frozen.on => frozen.at <= total' /\ Len(frozen.list) = Kept(frozen.at)
    BY <1>0, <1>f, <2>1
  <2> QED BY <2>1, <2>3, <2>4, <2>5 DEF FrozenInv
<1>2. CASE Pause
  <2>1. /\ UNCHANGED <<events, total>>
        /\ frozen'.list = events /\ frozen'.at = total
    BY <1>2 DEF Pause
  <2>2. total - total = 0 /\ \A i \in 1..Len(events) : i + 0 = i
    BY <1>0
  <2> QED BY <1>0, <2>1, <2>2 DEF FrozenInv
<1>3. ASSUME UNCHANGED <<events, total>>, frozen' = NotPaused PROVE FrozenInv'
  BY <1>0, <1>3, <1>k DEF FrozenInv
<1>4. ASSUME events' = <<>>, total' = 0, frozen' = NotPaused PROVE FrozenInv'
  BY <1>4, <1>k DEF FrozenInv
<1>5. ASSUME UNCHANGED cardVars PROVE FrozenInv'
  BY <1>5 DEF FrozenInv, cardVars
<1>6. CASE Resume \/ reset \/ Unmount
  BY <1>6, <1>3, <1>4 DEF Resume, reset, Unmount
<1>7. CASE (\E r \in Rows : Write(r) \/ Broadcast(r)) \/ Stores \/ Stop \/ Start \/ Connects
           \/ Push \/ Cut \/ Mount
  BY <1>5, <1>7 DEF Write, Broadcast, Stores, Take, Flush, Stop, Start, Connects, Subscribe, Upgrade,
     onopen, onclose, connect, Unsubscribe, Push, Cut, Mount
<1>8. CASE UNCHANGED liveVars
  BY <1>5, <1>8 DEF liveVars
<1> QED BY <1>1, <1>2, <1>6, <1>7, <1>8 DEF LiveNext

-----------------------------------------------------------------------------
(* The theorems.                                                              *)

\* The places, the order and the list are what the invariants say in every
\* interleaving of the handlers, the writer, the hub, restarts and the page.
THEOREM LiveInvThm == LiveSpec => []LiveInv
<1>1. LiveInv /\ [LiveNext]_liveVars => LiveInv'
  BY NextShape, NextPlace, NextGaps, NextOrder, NextFrozen DEF LiveInv
<1> QED BY <1>1, InitLive, PTL DEF LiveSpec

\* Write, writerLoop, flush and the end of the process neither lose nor double
\* a row: each one written is in exactly one place.
THEOREM OnePlaceThm == LiveSpec => []EachRowInOnePlace
<1>1. LiveInv => EachRowInOnePlace
  <2> SUFFICES ASSUME Shape, PlaceInv, NEW r \in Rows
               PROVE  Cardinality({i \in 1..Len(queue) : queue[i] = r})
                        + Cardinality({i \in 1..Len(batch) : batch[i] = r})
                        + Cardinality({S \in {<<"db", db>>, <<"refused", refused>>, <<"held", held>>} :
                                          r \in S[2]})
                      = IF wpc[r] = "none" THEN 0 ELSE 1
    BY DEF LiveInv, EachRowInOnePlace
  <2> DEFINE T == {S \in {<<"db", db>>, <<"refused", refused>>, <<"held", held>>} : r \in S[2]}
  <2>1. /\ Cardinality({i \in 1..Len(queue) : queue[i] = r}) = IF r \in Holds(queue) THEN 1 ELSE 0
        /\ Cardinality({i \in 1..Len(batch) : batch[i] = r}) = IF r \in Holds(batch) THEN 1 ELSE 0
    BY PlacesOf DEF Shape, PlaceInv
  <2>2. Cardinality(T) = IF r \in db \cup refused \cup held THEN 1 ELSE 0
    <3>1. CASE r \in db
      <4>1. T = {<<"db", db>>}
        BY <3>1 DEF PlaceInv, Disjoint
      <4> QED BY <3>1, <4>1, FS_Singleton
    <3>2. CASE r \in refused
      <4>1. T = {<<"refused", refused>>}
        BY <3>2 DEF PlaceInv, Disjoint
      <4> QED BY <3>2, <4>1, FS_Singleton
    <3>3. CASE r \in held
      <4>1. T = {<<"held", held>>}
        BY <3>3 DEF PlaceInv, Disjoint
      <4> QED BY <3>3, <4>1, FS_Singleton
    <3>4. CASE r \notin db \cup refused \cup held
      <4>1. T = {}
        BY <3>4
      <4> QED BY <3>4, <4>1, FS_EmptySet
    <3> QED BY <3>1, <3>2, <3>3, <3>4
  <2> HIDE DEF T
  <2>3. \/ /\ r \in Holds(queue) /\ r \notin Holds(batch) /\ r \notin db \cup refused \cup held
           /\ wpc[r] # "none"
        \/ /\ r \notin Holds(queue) /\ r \in Holds(batch) /\ r \notin db \cup refused \cup held
           /\ wpc[r] # "none"
        \/ /\ r \notin Holds(queue) /\ r \notin Holds(batch) /\ r \in db \cup refused \cup held
           /\ wpc[r] # "none"
        \/ /\ r \notin Holds(queue) /\ r \notin Holds(batch) /\ r \notin db \cup refused \cup held
           /\ wpc[r] = "none"
    BY DEF PlaceInv, Disjoint
  <2> QED BY <2>1, <2>2, <2>3 DEF T
<1> QED BY <1>1, LiveInvThm, PTL

\* A connection misses no row in silence: what was broadcast since its 101
\* answer is read, under way, in the buffer or dropped (auditWS and the hub).
THEOREM GapsThm == LiveSpec => []GapsAreDrops
<1>1. LiveInv => GapsAreDrops
  BY DEF LiveInv
<1> QED BY <1>1, LiveInvThm, PTL

\* In a history without repetition the earlier row has the smaller place.
LEMMA EarlierPublished ==
    ASSUME sent \in Seq(Rows), Distinct(sent), NEW r, NEW s, Earlier(sent, r, s)
    PROVE  Published(s) > Published(r)
<1>1. PICK i, j \in 1..Len(sent) : i < j /\ sent[i] = r /\ sent[j] = s
  BY DEF Earlier
<1>2. Published(r) = i /\ Published(s) = j
  BY <1>1 DEF Published, Distinct
<1> QED BY <1>1, <1>2

\* The card shows the rows newest first and none twice, over reconnections, and
\* a paused card shows the list of then (onmessage, its cut to max, and reset).
THEOREM CardThm == LiveSpec => []CardFollowsStream
<1>1. LiveInv => CardFollowsStream
  <2> SUFFICES ASSUME Shape, OrderInv, FrozenInv PROVE CardFollowsStream
    BY DEF LiveInv
  <2>0. /\ sent \in Seq(Rows) /\ total \in Nat /\ MaxEvents \in Nat /\ Len(events) = Kept(total)
        /\ frozen.at \in Nat /\ Distinct(sent) /\ NewestFirst(sent, events)
    BY ListSize DEF Shape, FrozenInv, OrderInv
  <2>1. ASSUME NEW i \in 1..Len(events), NEW j \in 1..Len(events), i < j
        PROVE  Published(events[i]) > Published(events[j])
    <3>1. Earlier(sent, events[j], events[i])
      BY <2>0, <2>1 DEF NewestFirst
    <3> QED BY <2>0, <3>1, EarlierPublished
  <2>2. ASSUME frozen.on
        PROVE  /\ total - frozen.at >= 0
               /\ \A i \in 1..MaxEvents :
                     (\/ i + (total - frozen.at) \in 1..Len(events)
                      \/ i \in 1..Len(frozen.list) /\ i + (total - frozen.at) <= MaxEvents)
                     => /\ i \in 1..Len(frozen.list)
                        /\ events[i + (total - frozen.at)] = frozen.list[i]
    <3>1. /\ frozen.at <= total /\ Len(frozen.list) = Kept(frozen.at)
          /\ \A i \in 1..Len(frozen.list) :
                i + (total - frozen.at) <= MaxEvents
                   => events[i + (total - frozen.at)] = frozen.list[i]
      BY <2>2 DEF FrozenInv
    <3>2. ASSUME NEW i \in 1..MaxEvents, i + (total - frozen.at) \in 1..Len(events)
          PROVE  i \in 1..Len(frozen.list) /\ i + (total - frozen.at) <= MaxEvents
      <4>1. /\ total \in Nat /\ frozen.at \in Nat /\ frozen.at <= total
            /\ i + (total - frozen.at) \in 1..Kept(total)
        BY <2>0, <3>1, <3>2
      <4>2. i \in 1..Kept(frozen.at) /\ i + (total - frozen.at) <= MaxEvents
        BY <4>1, MovedBack
      <4> QED BY <3>1, <4>2
    <3>3. total - frozen.at >= 0
      BY <2>0, <3>1
    <3> QED BY <3>1, <3>2, <3>3
  <2> QED BY <2>1, <2>2 DEF CardFollowsStream
<1> QED BY <1>1, LiveInvThm, PTL

-----------------------------------------------------------------------------
(* The account and the sessions: Accounts and Console.                        *)

USE AccountsAssumption, ConsoleAssumption DEF AccountsAssumption, ConsoleAssumption

CallFields == {"op", "pc", "tok", "arg", "snap", "ans", "res", "got", "lost"}
UserFields == {"pw", "must", "bound", "required", "codes", "step", "cutoff", "failed", "lock"}

\* The parts a proof reads are there to be read.
Shaped ==
    /\ DOMAIN calls = Callers
    /\ \A c \in Callers : DOMAIN calls[c] = CallFields
    /\ DOMAIN user = UserFields
    /\ DOMAIN made = {"tickets", "secrets", "binds"}

-----------------------------------------------------------------------------
(* What the tab does to the account: it begins and ends calls.                *)

\* A call that has counted a failure goes on with it.
Counting(x) == x.pc \in {"read", "lock"}
CallsKept ==
    /\ DOMAIN calls' = Callers
    /\ \A c \in Callers : /\ DOMAIN calls'[c] = CallFields
                          /\ Counting(calls[c]) => calls'[c].pc = calls[c].pc

AccountKept == UNCHANGED <<user, setup, made, used>>

LEMMA SendKept ==
    ASSUME Shaped, NEW c \in Callers, NEW op, NEW tok, NEW arg,
           calls[c].pc \in {"idle", "done"}, Send(c, op, tok, arg)
    PROVE  CallsKept
BY DEF Shaped, Send, Idle, CallFields, CallsKept, Counting

LEMMA TakenKept ==
    ASSUME Shaped, NEW op, Answered(op), Taken
    PROVE  CallsKept
BY DEF Shaped, Answered, At, Taken, Idle, CallFields, CallsKept, Counting

LEMMA DropKept ==
    ASSUME Shaped, Drop
    PROVE  CallsKept
BY DEF Shaped, Drop, Idle, CallFields, CallsKept, Counting

LEMMA SameKept ==
    ASSUME Shaped, calls' = calls
    PROVE  CallsKept
BY DEF Shaped, CallsKept

LEMMA ReactsKept ==
    ASSUME Shaped, Reacts \/ MeAges \/ DebounceEnds
    PROVE  CallsKept /\ AccountKept
<1>1. CASE GuardMount \/ Guard \/ MeServe \/ LoggedIn \/ SecurityMount \/ MeAges \/ DebounceEnds
  BY <1>1, SameKept DEF GuardMount, Guard, MeServe, LoggedIn, SecurityMount, MeAges, DebounceEnds,
     AcctSame, acctVars, AccountKept
<1>2. CASE MeDeliver
  BY <1>2, SameKept, DropKept DEF MeDeliver, AcctSame, ServerSame, acctVars, AccountKept
<1>3. CASE doLogin \/ PwChanged \/ LoggedOut \/ PageAnswer \/ SetupShown \/ Enabled \/ Unbound
  BY <1>3, TakenKept DEF doLogin, PwChanged, LoggedOut, PageAnswer, SetupShown, Enabled, Unbound,
     ServerSame, AccountKept
<1>4. ASSUME NEW op \in {"login", "password", "work", "setup", "enable", "disable"}, Refused(op)
      PROVE  CallsKept /\ AccountKept
  BY <1>4, TakenKept DEF Refused, ServerSame, AccountKept
<1> QED BY <1>1, <1>2, <1>3, <1>4 DEF Reacts

LEMMA PersonKept ==
    ASSUME Shaped, Person
    PROVE  CallsKept /\ AccountKept
<1>1. ASSUME NEW r \in Pages, Visit(r) PROVE CallsKept /\ AccountKept
  BY <1>1, DropKept DEF Visit, ServerSame, AccountKept
<1>2. ASSUME NEW r \in Pages, Go(r) PROVE CallsKept /\ AccountKept
  BY <1>2, SameKept DEF Go, AcctSame, acctVars, AccountKept
<1>3. ASSUME NEW op, NEW arg, Free, Request(op, arg) PROVE CallsKept
  BY <1>3, SendKept DEF Free, Request
<1>4. CASE onCredentialsFinish \/ onMfaFinish
  BY <1>3, <1>4 DEF onCredentialsFinish, onMfaFinish, LoginPage, ServerSame, AccountKept
<1>5. CASE PwSubmit \/ handleLogout \/ PageRequest \/ StartSetup \/ SubmitCode \/ SubmitUnbind
  BY <1>3, <1>5 DEF PwSubmit, handleLogout, PageRequest, StartSetup, SubmitCode, SubmitUnbind,
     ServerSame, AccountKept
<1> QED BY <1>1, <1>2, <1>4, <1>5 DEF Person

-----------------------------------------------------------------------------
(* What a call on the server does.                                            *)

\* The handlers answer, move on, or fail the login.
LEMMA AnswerKept ==
    ASSUME Shaped, NEW c \in Callers, NEW ans, NEW res, NEW got, Answer(c, ans, res, got)
    PROVE  /\ DOMAIN calls' = Callers
           /\ \A d \in Callers : DOMAIN calls'[d] = CallFields
           /\ \A d \in Callers \ {c} : calls'[d] = calls[d]
BY DEF Shaped, Answer, Idle, CallFields

LEMMA GotoKept ==
    ASSUME Shaped, NEW c \in Callers, NEW pc, Goto(c, pc)
    PROVE  /\ DOMAIN calls' = Callers
           /\ \A d \in Callers : DOMAIN calls'[d] = CallFields
           /\ \A d \in Callers \ {c} : calls'[d] = calls[d]
           /\ calls'[c].pc = pc
BY DEF Shaped, Goto, CallFields

LEMMA FailKept ==
    ASSUME Shaped, NEW c \in Callers, Fail(c)
    PROVE  /\ DOMAIN calls' = Callers
           /\ \A d \in Callers : DOMAIN calls'[d] = CallFields
           /\ \A d \in Callers \ {c} : calls'[d] = calls[d]
BY DEF Shaped, Fail, Idle, CallFields

\* The statements of a login that fails, one by one, and of one that goes on.
LoginStep(c) ==
    LoginLoad(c) \/ LoginFactor(c) \/ LoginFinish(c)
        \/ FailReset(c) \/ FailCount(c) \/ FailRead(c) \/ FailLock(c)
Handler(c) ==
    Rejected(c) \/ logout(c) \/ changePassword(c)
        \/ mfaSetup(c) \/ SaveSetupSecret(c) \/ mfaEnable(c) \/ mfaDisable(c) \/ Served(c)

LEMMA LoginShaped ==
    ASSUME Shaped, NEW c \in Callers, LoginStep(c)
    PROVE  Shaped'
<1> SUFFICES /\ DOMAIN calls' = Callers /\ \A d \in Callers : DOMAIN calls'[d] = CallFields
             /\ DOMAIN user' = UserFields
             /\ DOMAIN made' = {"tickets", "secrets", "binds"}
  BY DEF Shaped
<1>1. CASE LoginLoad(c)
  <2> DEFINE a == calls[c].arg
             row == [user EXCEPT !.pw = 0, !.cutoff = 0, !.failed = 0, !.lock = "no"]
  <2>1. ASSUME NEW pc, calls' = [calls EXCEPT ![c].snap = row, ![c].pc = pc]
        PROVE  DOMAIN calls' = Callers /\ \A d \in Callers : DOMAIN calls'[d] = CallFields
    BY <2>1 DEF Shaped, CallFields
  <2>2. DOMAIN user' = UserFields /\ DOMAIN made' = {"tickets", "secrets", "binds"}
    BY <1>1 DEF LoginLoad, finishLoginOK, Shaped
  <2>3. DOMAIN calls' = Callers /\ \A d \in Callers : DOMAIN calls'[d] = CallFields
    BY <1>1, <2>1, AnswerKept, FailKept DEF LoginLoad, Refuse
  <2> QED BY <2>2, <2>3
<1>2. CASE LoginFactor(c)
  BY <1>2, GotoKept, FailKept DEF LoginFactor, persistTOTPStep, Shaped
<1>3. CASE LoginFinish(c)
  BY <1>3, AnswerKept DEF LoginFinish, finishLoginOK, Shaped
<1>4. CASE FailReset(c) \/ FailCount(c) \/ FailRead(c) \/ FailLock(c)
  BY <1>4, GotoKept, AnswerKept DEF FailReset, FailCount, FailRead, FailLock, Refuse, Shaped
<1> QED BY <1>1, <1>2, <1>3, <1>4 DEF LoginStep

LEMMA HandlerShaped ==
    ASSUME Shaped, NEW c \in Callers, Handler(c)
    PROVE  Shaped'
<1> SUFFICES /\ DOMAIN calls' = Callers /\ \A d \in Callers : DOMAIN calls'[d] = CallFields
             /\ DOMAIN user' = UserFields
             /\ DOMAIN made' = {"tickets", "secrets", "binds"}
  BY DEF Shaped
<1>1. DOMAIN calls' = Callers /\ \A d \in Callers : DOMAIN calls'[d] = CallFields
  BY AnswerKept, GotoKept DEF Handler, Rejected, logout, changePassword, mfaSetup, SaveSetupSecret,
     mfaEnable, mfaDisable, Served, Refuse
<1>2. DOMAIN user' = UserFields /\ DOMAIN made' = {"tickets", "secrets", "binds"}
  BY DEF Handler, Rejected, logout, changePassword, mfaSetup, SaveSetupSecret, mfaEnable, mfaDisable,
     Served, invalidateSessions, persistTOTPStep, Shaped
<1> QED BY <1>1, <1>2

LEMMA AroundShaped ==
    ASSUME Shaped, Around
    PROVE  Shaped' /\ calls' = calls
<1>1. calls' = calls
  BY DEF Around, changeUserPassword, unbindUserMfa, setUserMFARequired, unlockUser, saveSecurity,
     Tick, NextSlot, LockEnds, Expire, Stamped
<1>2. DOMAIN user' = UserFields
  BY DEF Around, changeUserPassword, unbindUserMfa, setUserMFARequired, unlockUser, saveSecurity,
     Tick, NextSlot, LockEnds, Expire, Stamped, invalidateSessions, finishLoginOK, Shaped
<1>3. made' = made
  BY DEF Around, changeUserPassword, unbindUserMfa, setUserMFARequired, unlockUser, saveSecurity,
     Tick, NextSlot, LockEnds, Expire, Stamped
<1> QED BY <1>1, <1>2, <1>3 DEF Shaped

LEMMA DeviceKept ==
    ASSUME Shaped, NEW c \in Callers, Device(c)
    PROVE  CallsKept /\ AccountKept
<1>1. CASE calls[c].pc = "done" /\ calls' = [calls EXCEPT ![c] = Idle]
  BY <1>1 DEF Device, Shaped, Idle, CallFields, CallsKept, Counting, AccountKept
<1>2. CASE calls[c].pc = "idle" /\ \E a \in Logins : Send(c, "login", NoTok, a)
  BY <1>2, SendKept DEF Device, AccountKept
<1>3. CASE calls[c].pc = "done" /\ \E op, arg : Send(c, op, calls[c].res, arg)
  BY <1>3, SendKept DEF Device, AccountKept
<1> QED BY <1>1, <1>2, <1>3 DEF Device

\* Every step: the account and its calls are touched by the server alone.
LEMMA Steps ==
    ASSUME Shaped, [Next]_vars
    PROVE  \/ \E c \in Callers : LoginStep(c) \/ Handler(c)
           \/ Around
           \/ CallsKept /\ AccountKept
<1>1. CASE UNCHANGED vars
  BY <1>1, SameKept DEF vars, acctVars, AccountKept
<1>2. CASE TabNext
  BY <1>2, ReactsKept, PersonKept DEF TabNext, Serve, LoginStep, Handler
<1>3. CASE DevicesNext(Callers \ {browser})
  BY <1>3, DeviceKept DEF DevicesNext, Serve, LoginStep, Handler
<1> QED BY <1>1, <1>2, <1>3 DEF Next

LEMMA InitRow ==
    ASSUME ConInit
    PROVE  /\ \E m \in BOOLEAN, r \in BOOLEAN : user = FirstRow(m, r)
           /\ made.binds \in {0, MaxBinds} /\ DOMAIN made = {"tickets", "secrets", "binds"}
<1>1. made \in [tickets : {0}, secrets : {0}, binds : {0, MaxBinds}]
  BY DEF ConInit, AcctInit
<1>2. \E m \in BOOLEAN, r \in BOOLEAN : user = FirstRow(m, r)
  BY DEF ConInit, AcctInit
<1> QED BY <1>1, <1>2

LEMMA InitShaped == ConInit => Shaped
<1> SUFFICES ASSUME ConInit PROVE Shaped
  OBVIOUS
<1>1. DOMAIN calls = Callers /\ \A c \in Callers : calls[c] = Idle
  BY DEF ConInit, AcctInit
<1>2. DOMAIN Idle = CallFields
  BY DEF Idle, CallFields
<1>3. \E m \in BOOLEAN, r \in BOOLEAN : user = FirstRow(m, r)
  BY InitRow
<1>4. DOMAIN user = UserFields
  BY <1>3 DEF FirstRow, InitUser, UserFields
<1>5. DOMAIN made = {"tickets", "secrets", "binds"}
  BY InitRow
<1> QED BY <1>1, <1>2, <1>4, <1>5 DEF Shaped

LEMMA NextShaped == Shaped /\ [Next]_vars => Shaped'
<1> SUFFICES ASSUME Shaped, [Next]_vars PROVE Shaped'
  OBVIOUS
<1>1. ASSUME CallsKept, AccountKept PROVE Shaped'
  BY <1>1 DEF CallsKept, AccountKept, Shaped
<1> QED BY <1>1, Steps, LoginShaped, HandlerShaped, AroundShaped

-----------------------------------------------------------------------------
(* Recovery codes.  A code that has been accepted belongs to a binding there  *)
(* has been and is not in the list of the row: the list shrinks with every    *)
(* acceptance, and a new binding has codes of its own.                        *)

Spent ==
    /\ made.binds \in 0 .. MaxBinds
    /\ DOMAIN used = 1 .. NumCodes * MaxBinds
    /\ \A k \in DOMAIN used : used[k] \in {0, 1}
    /\ user.codes \subseteq 1 .. NumCodes * made.binds
    /\ \A k \in DOMAIN used : used[k] = 1 => k \in (1 .. NumCodes * made.binds) \ user.codes

\* Every binding has a block of codes of its own.
LEMMA Blocks ==
    ASSUME NEW b \in Nat
    PROVE  /\ NumCodes * b \in Nat
           /\ NumCodes * (b + 1) = NumCodes * b + NumCodes
           /\ CodesOf(b + 1) = NumCodes * b + 1 .. NumCodes * (b + 1)
BY DEF CodesOf

LEMMA BlocksRise ==
    ASSUME NEW b \in 0 .. MaxBinds
    PROVE  NumCodes * b <= NumCodes * MaxBinds
BY DEF CodesOf

LEMMA InitSpent == ConInit => Spent
<1> SUFFICES ASSUME ConInit PROVE Spent
  OBVIOUS
<1>1. made.binds \in {0, MaxBinds} /\ used = [k \in 1 .. NumCodes * MaxBinds |-> 0]
  BY InitRow DEF ConInit, AcctInit
<1>2. user.codes = IF made.binds > 0 THEN CodesOf(made.binds) ELSE {}
  BY InitRow DEF FirstRow, InitUser
<1>3. CodesOf(made.binds) \subseteq 1 .. NumCodes * made.binds \/ made.binds = 0
  <2>1. CASE made.binds # 0
    <3>1. made.binds - 1 \in Nat /\ (made.binds - 1) * NumCodes \in Nat /\ made.binds * NumCodes = NumCodes * made.binds
      BY <1>1, <2>1
    <3> QED BY <3>1 DEF CodesOf
  <2> QED BY <2>1
<1> QED BY <1>1, <1>2, <1>3 DEF Spent

\* What keeps the row's list, the codes used and the bindings as they are.
LEMMA KeepsSpent ==
    ASSUME Spent, user'.codes \in {user.codes, {}}, made'.binds = made.binds, used' = used
    PROVE  Spent'
BY DEF Spent

\* A code is taken from the list as it is accepted.
LEMMA TakesSpent ==
    ASSUME Spent, NEW k \in user.codes, used' = [used EXCEPT ![k] = @ + 1],
           user'.codes \in {user.codes \ {k}, {}}, made'.binds = made.binds
    PROVE  Spent'
<1>1. made.binds \in 0 .. MaxBinds /\ NumCodes * made.binds \in Nat /\ NumCodes * made.binds <= NumCodes * MaxBinds
  BY Blocks, BlocksRise DEF Spent
<1>2. k \in DOMAIN used /\ used[k] = 0
  BY <1>1 DEF Spent
<1>3. DOMAIN used' = DOMAIN used /\ used'[k] = 1 /\ \A j \in DOMAIN used : j # k => used'[j] = used[j]
  BY <1>2
<1> QED BY <1>2, <1>3 DEF Spent

LEMMA EnableSpent ==
    ASSUME Shaped, Spent, NEW c \in Callers, mfaEnable(c)
    PROVE  Spent'
<1>1. CASE UNCHANGED <<user, made>>
  BY <1>1, KeepsSpent DEF mfaEnable
<1>2. CASE /\ made.binds < MaxBinds
           /\ made' = [made EXCEPT !.binds = @ + 1]
           /\ user' = invalidateSessions([user EXCEPT !.bound = TRUE, !.step = 0,
                                                      !.codes = CodesOf(made.binds + 1)], now + 1)
  <2> DEFINE b == made.binds
             old == NumCodes * b
             new == NumCodes * (b + 1)
  <2>1. made'.binds = b + 1 /\ user'.codes = CodesOf(b + 1)
    BY <1>2 DEF invalidateSessions, Shaped, UserFields
  <2>2. b \in Nat /\ b < MaxBinds /\ used' = used
    <3>1. used' = used
      BY DEF mfaEnable
    <3>2. b \in Nat /\ b < MaxBinds
      BY <1>2 DEF Spent
    <3> QED BY <3>1, <3>2
  <2>3. old \in Nat /\ new = old + NumCodes /\ CodesOf(b + 1) = old + 1 .. new
    <3> HIDE DEF b
    <3> QED BY <2>2, Blocks
  <2>4. /\ user.codes \subseteq 1 .. old
        /\ DOMAIN used = 1 .. NumCodes * MaxBinds
        /\ \A k \in DOMAIN used : used[k] \in {0, 1} /\ (used[k] = 1 => k \in 1 .. old)
    BY DEF Spent
  <2>5. NumCodes * made'.binds = new /\ made'.binds \in 0 .. MaxBinds
    BY <2>1, <2>2
  <2> HIDE DEF old, new, b
  <2>6. user'.codes = old + 1 .. new
    BY <2>1, <2>3
  <2>7. user'.codes \subseteq 1 .. new /\ \A k \in 1 .. old : k \in (1 .. new) \ user'.codes
    BY <2>3, <2>6
  <2> QED BY <2>2, <2>4, <2>5, <2>7 DEF Spent
<1> QED BY <1>1, <1>2 DEF mfaEnable

LEMMA NextSpent == Shaped /\ Spent /\ [Next]_vars => Spent'
<1> SUFFICES ASSUME Shaped, Spent, [Next]_vars PROVE Spent'
  OBVIOUS
<1>1. ASSUME NEW c \in Callers, LoginStep(c) PROVE Spent'
  <2>1. CASE LoginLoad(c)
    <3>1. user' \in {user, finishLoginOK(user)} /\ made'.binds = made.binds /\ used' = used
      BY <2>1 DEF LoginLoad, Shaped
    <3>2. user'.codes = user.codes
      BY <3>1 DEF finishLoginOK, Shaped, UserFields
    <3> QED BY <3>1, <3>2, KeepsSpent
  <2>2. CASE LoginFactor(c)
    <3>1. CASE user' \in {user, persistTOTPStep(user, calls[c].arg.code)} /\ UNCHANGED used
      <4>1. user'.codes = user.codes
        BY <3>1 DEF persistTOTPStep, Shaped, UserFields
      <4> QED BY <2>2, <3>1, <4>1, KeepsSpent DEF LoginFactor
    <3>2. CASE consumeRecoveryCAS(calls[c].snap, calls[c].arg.code)
               /\ user' = [user EXCEPT !.codes = calls[c].snap.codes \ {calls[c].arg.code}]
               /\ used' = [used EXCEPT ![calls[c].arg.code] = @ + 1]
      <4>1. calls[c].arg.code \in user.codes /\ user'.codes = user.codes \ {calls[c].arg.code}
        BY <3>2 DEF consumeRecoveryCAS, Shaped, UserFields
      <4>2. made' = made
        BY <2>2 DEF LoginFactor
      <4> QED BY <3>2, <4>1, <4>2, TakesSpent
    <3> QED BY <2>2, <3>1, <3>2 DEF LoginFactor
  <2>3. CASE LoginFinish(c)
    BY <2>3, KeepsSpent DEF LoginFinish, finishLoginOK, Shaped, UserFields
  <2>4. CASE FailReset(c) \/ FailCount(c) \/ FailRead(c) \/ FailLock(c)
    BY <2>4, KeepsSpent DEF FailReset, FailCount, FailRead, FailLock, Shaped, UserFields
  <2> QED BY <1>1, <2>1, <2>2, <2>3, <2>4 DEF LoginStep
<1>2. ASSUME NEW c \in Callers, Handler(c) PROVE Spent'
  <2>1. CASE Rejected(c) \/ logout(c) \/ changePassword(c) \/ mfaSetup(c) \/ SaveSetupSecret(c) \/ Served(c)
    BY <2>1, KeepsSpent DEF Rejected, logout, changePassword, mfaSetup, SaveSetupSecret, Served, invalidateSessions,
       Shaped, UserFields
  <2>2. CASE mfaDisable(c)
    <3>1. CASE UNCHANGED used
      BY <2>2, <3>1, KeepsSpent DEF mfaDisable, invalidateSessions, persistTOTPStep, Shaped, UserFields
    <3>2. CASE /\ calls[c].arg.code \in user.codes
               /\ user' = invalidateSessions([user EXCEPT !.bound = FALSE, !.codes = {}], now + 1)
               /\ used' = [used EXCEPT ![calls[c].arg.code] = @ + 1]
      <4>1. user'.codes = {} /\ made' = made
        BY <2>2, <3>2 DEF mfaDisable, invalidateSessions, Shaped, UserFields
      <4> QED BY <3>2, <4>1, TakesSpent
    <3> QED BY <2>2, <3>1, <3>2 DEF mfaDisable
  <2> QED BY <1>2, <2>1, <2>2, EnableSpent DEF Handler
<1>3. CASE Around
  BY <1>3, KeepsSpent DEF Around, changeUserPassword, unbindUserMfa, setUserMFARequired, unlockUser,
     saveSecurity, Tick, NextSlot, LockEnds, Expire, Stamped, invalidateSessions, finishLoginOK,
     Shaped, UserFields
<1>4. CASE AccountKept
  BY <1>4, KeepsSpent DEF AccountKept
<1> QED BY <1>1, <1>2, <1>3, <1>4, Steps

\* A recovery code is accepted once (mfa.go:109), whichever logins and
\* unbindings race for it, for any number of devices, codes and bindings.
THEOREM RecoveryOnceThm == Spec => []RecoveryOnce
<1>1. Spent => RecoveryOnce
  BY DEF Spent, RecoveryOnce
<1> QED BY <1>1, InitShaped, NextShaped, InitSpent, NextSpent, PTL DEF Spec

-----------------------------------------------------------------------------
(* Authenticator steps.  A secret may be pending although one is bound, by a  *)
(* set-up checked before the binding; each binding is counted.                *)

Bound == user.step \in Int /\ made.binds \in Nat

\* The row's step as a login or an unbinding leaves it.
LEMMA Persisted ==
    ASSUME Shaped, Bound, NEW s \in Int
    PROVE  LET u == persistTOTPStep(user, s)
           IN  u.step \in Int /\ u.step >= user.step /\ u.bound = user.bound /\ DOMAIN u = UserFields
BY DEF persistTOTPStep, Bound, Shaped, UserFields

StepKept ==
    \/ user'.step \in Int /\ user'.step >= user.step
    \/ user'.step = 0 /\ (made'.binds > made.binds \/ (user.bound /\ ~user'.bound))
BoundKept == made'.binds \in Nat

LEMMA LoginSteps ==
    ASSUME Shaped, Bound, NEW c \in Callers, LoginStep(c)
    PROVE  StepKept /\ BoundKept
<1>1. made'.binds = made.binds
  BY DEF LoginStep, LoginLoad, LoginFactor, LoginFinish, FailReset, FailCount, FailRead, FailLock, Shaped
<1>2. CASE LoginFactor(c)
  <2>1. CASE verifyTOTP(calls[c].snap, calls[c].arg.code) /\ user' = persistTOTPStep(user, calls[c].arg.code)
    <3>1. calls[c].arg.code \in Int
      BY <2>1 DEF verifyTOTP
    <3> QED BY <1>1, <2>1, <3>1, Persisted DEF StepKept, BoundKept, Bound
  <2>2. CASE user' = user \/ user' = [user EXCEPT !.codes = calls[c].snap.codes \ {calls[c].arg.code}]
    <3>1. user'.step = user.step /\ user'.bound = user.bound
      BY <2>2 DEF Shaped, UserFields
    <3> QED BY <1>1, <3>1 DEF StepKept, BoundKept, Bound
  <2> QED BY <1>2, <2>1, <2>2 DEF LoginFactor
<1>3. CASE ~LoginFactor(c)
  <2>1. user'.step = user.step /\ user'.bound = user.bound
    BY <1>3 DEF LoginStep, LoginLoad, LoginFinish, FailReset, FailCount, FailRead, FailLock, finishLoginOK,
       Shaped, UserFields
  <2> QED BY <1>1, <2>1 DEF StepKept, BoundKept, Bound
<1> QED BY <1>2, <1>3

LEMMA HandlerSteps ==
    ASSUME Shaped, Bound, NEW c \in Callers, Handler(c)
    PROVE  StepKept /\ BoundKept
<1>1. CASE Rejected(c) \/ logout(c) \/ changePassword(c) \/ Served(c)
  <2>1. user'.step = user.step /\ user'.bound = user.bound /\ made' = made
    BY <1>1 DEF Rejected, logout, changePassword, Served, invalidateSessions, Shaped, UserFields
  <2> QED BY <2>1 DEF StepKept, BoundKept, Bound
<1>2. CASE mfaSetup(c) \/ SaveSetupSecret(c)
  <2>1. user' = user /\ made'.binds = made.binds
    BY <1>2 DEF mfaSetup, SaveSetupSecret, Shaped
  <2> QED BY <2>1 DEF StepKept, BoundKept, Bound
<1>3. CASE mfaEnable(c)
  <2>1. CASE UNCHANGED <<user, made>>
    BY <2>1 DEF StepKept, BoundKept, Bound
  <2>2. CASE made' = [made EXCEPT !.binds = @ + 1] /\ user'.step = 0
    <3>1. made'.binds = made.binds + 1
      BY <2>2 DEF Shaped
    <3> QED BY <2>2, <3>1 DEF StepKept, BoundKept, Bound
  <2>3. UNCHANGED <<user, made>> \/ (made' = [made EXCEPT !.binds = @ + 1] /\ user'.step = 0)
    BY <1>3 DEF mfaEnable, invalidateSessions, Shaped, UserFields
  <2> QED BY <2>1, <2>2, <2>3
<1>4. CASE mfaDisable(c)
  <2> DEFINE k == calls[c].arg.code
             unbound(u) == [u EXCEPT !.bound = FALSE, !.codes = {}]
  <2>1. made' = made
    BY <1>4 DEF mfaDisable
  <2>2. CASE user' = user
    BY <2>1, <2>2 DEF StepKept, BoundKept, Bound
  <2>3. CASE user' = invalidateSessions(unbound(user), now + 1)
    <3>1. user'.step = user.step /\ user'.bound = FALSE
      BY <2>3 DEF invalidateSessions, Shaped, UserFields
    <3> QED BY <2>1, <3>1 DEF StepKept, BoundKept, Bound
  <2>4. CASE verifyTOTP(user, k) /\ user' = invalidateSessions(unbound(persistTOTPStep(user, k)), now + 1)
    <3>1. k \in Int
      BY <2>4 DEF verifyTOTP
    <3>2. user'.step = persistTOTPStep(user, k).step /\ user'.bound = FALSE
      BY <2>4, <3>1, Persisted DEF invalidateSessions, UserFields
    <3> QED BY <2>1, <3>1, <3>2, Persisted DEF StepKept, BoundKept, Bound
  <2> QED BY <1>4, <2>2, <2>3, <2>4 DEF mfaDisable
<1> QED BY <1>1, <1>2, <1>3, <1>4 DEF Handler

LEMMA AroundSteps ==
    ASSUME Shaped, Bound, Around
    PROVE  StepKept /\ BoundKept
<1>1. CASE unbindUserMfa
  <2>1. user.bound /\ user'.step = 0 /\ user'.bound = FALSE
    BY <1>1 DEF unbindUserMfa, Stamped, invalidateSessions, Shaped, UserFields
  <2>2. made' = made
    BY <1>1 DEF unbindUserMfa, Stamped
  <2> QED BY <2>1, <2>2 DEF StepKept, BoundKept, Bound
<1>2. CASE ~unbindUserMfa
  <2>1. user'.step = user.step /\ user'.bound = user.bound
    BY <1>2 DEF Around, changeUserPassword, setUserMFARequired, unlockUser, saveSecurity, Tick, NextSlot,
       LockEnds, Expire, Stamped, invalidateSessions, finishLoginOK, Shaped, UserFields
  <2>2. made' = made
    BY <1>2 DEF Around, changeUserPassword, setUserMFARequired, unlockUser, saveSecurity, Tick, NextSlot,
       LockEnds, Expire, Stamped
  <2> QED BY <2>1, <2>2 DEF StepKept, BoundKept, Bound
<1> QED BY <1>1, <1>2

LEMMA NextSteps ==
    ASSUME Shaped, Bound, [Next]_vars
    PROVE  Bound' /\ StepKept
<1>1. ASSUME AccountKept PROVE StepKept /\ BoundKept
  BY <1>1 DEF AccountKept, StepKept, BoundKept, Bound
<1>2. StepKept /\ BoundKept
  BY <1>1, Steps, LoginSteps, HandlerSteps, AroundSteps
<1> QED BY <1>2 DEF StepKept, BoundKept, Bound

LEMMA InitBound == ConInit => Bound
<1> SUFFICES ASSUME ConInit PROVE Bound
  OBVIOUS
<1>1. user.step = 0
  BY InitRow DEF FirstRow, InitUser
<1>2. made.binds \in Nat
  BY InitRow
<1> QED BY <1>1, <1>2 DEF Bound

\* The last authenticator step used goes back only to 0, as a secret is bound or
\* the row unbound (mfa.go:104-108, the UPDATE has the condition), however
\* logins, set-ups and bindings of any number of devices interleave.
THEOREM StepsRiseThm == Spec => StepsRise
<1>1. Shaped /\ Bound /\ [Next]_vars =>
         [user'.step < user.step =>
             /\ user'.step = 0
             /\ made'.binds > made.binds \/ (user.bound /\ ~user'.bound)]_user
  BY NextSteps DEF StepKept, Bound
<1>2. Shaped /\ Bound /\ [Next]_vars => (Shaped /\ Bound)'
  BY NextShaped, NextSteps
<1> QED BY <1>1, <1>2, InitShaped, InitBound, PTL DEF Spec, StepsRise

-----------------------------------------------------------------------------
(* The threshold.                                                             *)

LEMMA NextLocks ==
    ASSUME Shaped, LockedAtThreshold, [Next]_vars
    PROVE  LockedAtThreshold'
<1> DEFINE Over == user.failed >= LockAfter
<1>1. ASSUME CallsKept, AccountKept PROVE LockedAtThreshold'
  BY <1>1 DEF CallsKept, AccountKept, Counting, LockedAtThreshold
<1>2. ASSUME NEW c \in Callers, ~Counting(calls[c]), \A d \in Callers \ {c} : calls'[d] = calls[d],
             user'.failed = user.failed, user'.lock = user.lock
      PROVE  LockedAtThreshold'
  BY <1>2 DEF Counting, LockedAtThreshold
<1>3. ASSUME user'.failed = 0 PROVE LockedAtThreshold'
  BY <1>3 DEF LockedAtThreshold
<1>4. ASSUME NEW c \in Callers, LoginStep(c) PROVE LockedAtThreshold'
  <2>1. CASE LoginLoad(c)
    <3>1. ~Counting(calls[c])
      BY <2>1 DEF LoginLoad, At, Counting
    <3>2. \A d \in Callers \ {c} : calls'[d] = calls[d]
      BY <2>1, AnswerKept, FailKept DEF LoginLoad, Refuse, Shaped
    <3>3. user' = user \/ user'.failed = 0
      BY <2>1 DEF LoginLoad, finishLoginOK, Shaped, UserFields
    <3> QED BY <1>2, <1>3, <3>1, <3>2, <3>3
  <2>2. CASE LoginFactor(c)
    <3>1. ~Counting(calls[c])
      BY <2>2 DEF LoginFactor, At, Counting
    <3>2. \A d \in Callers \ {c} : calls'[d] = calls[d]
      BY <2>2, GotoKept, FailKept DEF LoginFactor
    <3>3. user'.failed = user.failed /\ user'.lock = user.lock
      BY <2>2 DEF LoginFactor, persistTOTPStep, Shaped, UserFields
    <3> QED BY <1>2, <3>1, <3>2, <3>3
  <2>3. CASE LoginFinish(c)
    BY <1>3, <2>3 DEF LoginFinish, finishLoginOK, Shaped, UserFields
  <2>4. CASE FailReset(c)
    <3>1. user' = user \/ user'.failed = 0
      BY <2>4 DEF FailReset, Shaped, UserFields
    <3>2. ~Counting(calls[c]) /\ \A d \in Callers \ {c} : calls'[d] = calls[d]
      BY <2>4, GotoKept DEF FailReset, At, Counting
    <3> QED BY <1>2, <1>3, <3>1, <3>2
  <2>5. CASE FailCount(c)
    <3>1. calls'[c].pc = "read"
      BY <2>5, GotoKept DEF FailCount
    <3> QED BY <3>1 DEF LockedAtThreshold
  <2>6. CASE FailRead(c)
    <3>1. user' = user /\ \A d \in Callers \ {c} : calls'[d] = calls[d]
      BY <2>6, GotoKept, AnswerKept DEF FailRead, Refuse
    <3>2. Over => calls'[c].pc = "lock"
      BY <2>6, GotoKept DEF FailRead
    <3> QED BY <3>1, <3>2 DEF LockedAtThreshold
  <2>7. CASE FailLock(c)
    <3>1. user'.lock = "held"
      BY <2>7 DEF FailLock, Shaped, UserFields
    <3> QED BY <3>1 DEF LockedAtThreshold
  <2> QED BY <1>4, <2>1, <2>2, <2>3, <2>4, <2>5, <2>6, <2>7 DEF LoginStep
<1>5. ASSUME NEW c \in Callers, Handler(c) PROVE LockedAtThreshold'
  <2>1. ~Counting(calls[c])
    BY <1>5 DEF Handler, Rejected, logout, changePassword, mfaSetup, SaveSetupSecret, mfaEnable,
       mfaDisable, Served, Checked, At, Counting
  <2>2. \A d \in Callers \ {c} : calls'[d] = calls[d]
    BY <1>5, AnswerKept, GotoKept DEF Handler, Rejected, logout, changePassword, mfaSetup,
       SaveSetupSecret, mfaEnable, mfaDisable, Served, Refuse
  <2>3. user'.failed = user.failed /\ user'.lock = user.lock
    BY <1>5 DEF Handler, Rejected, logout, changePassword, mfaSetup, SaveSetupSecret, mfaEnable,
       mfaDisable, Served, invalidateSessions, persistTOTPStep, Shaped, UserFields
  <2> QED BY <1>2, <2>1, <2>2, <2>3
<1>6. CASE Around
  <2>1. calls' = calls
    BY <1>6, AroundShaped
  <2>2. user'.failed = 0 \/ (user'.failed = user.failed /\ (user'.lock = user.lock \/ user'.lock = "past"))
    BY <1>6 DEF Around, changeUserPassword, unbindUserMfa, setUserMFARequired, unlockUser, saveSecurity,
       Tick, NextSlot, LockEnds, Expire, Stamped, invalidateSessions, finishLoginOK, Shaped, UserFields
  <2> QED BY <1>3, <2>1, <2>2 DEF LockedAtThreshold
<1> QED BY <1>1, <1>4, <1>5, <1>6, Steps

\* At the threshold the account is locked as soon as the failing logins have
\* run to their end (auth.go:172-189), for any number of devices.
THEOREM LockedAtThresholdThm == Spec => []LockedAtThreshold
<1>1. ConInit => LockedAtThreshold
  <2>1. ConInit => user.failed = 0
    BY InitRow DEF FirstRow, InitUser
  <2> QED BY <2>1 DEF LockedAtThreshold
<1> QED BY <1>1, InitShaped, NextShaped, NextLocks, PTL DEF Spec

-----------------------------------------------------------------------------
(* Restricted sessions.  The tab holds a token in its store, one in the fetch *)
(* in flight, one in an answer, and the cached answer names one: all were     *)
(* issued at times that are past, and no two at the same.  So an answer about *)
(* a token of the same time is about the same token and has its scope.        *)

Tokens == [at : Nat \ {0}, scope : Scopes]
Noted == [at |-> me.of, scope |-> me.scope]
Held == {store.tok, meCall.tok, calls[browser].res, Noted}

\* Tokens of H have been issued by time n, each at a time of its own.
Sound(H, n) ==
    /\ \A t \in H : t = NoTok \/ (t \in Tokens /\ t.at <= n)
    /\ \A t, u \in H : t.at = u.at => t = u

TabShape ==
    /\ now \in Nat
    /\ DOMAIN store = {"tok", "scope"}
    /\ DOMAIN meCall = {"tok", "st"}
    /\ DOMAIN me = {"scope", "of", "age"}

Matched == ~foreign /\ store.tok # NoTok => store.scope = LoginScope(store.tok)
Inside == mounted => route \in Guarded
EnabledFully == calls[browser].op = "enable" => calls[browser].res.scope \in {"", "none"}

TabInv == TabShape /\ Sound(Held, now) /\ Matched /\ Inside /\ EnabledFully

LEMMA SoundShrinks ==
    ASSUME NEW H, NEW K, NEW n \in Nat, NEW m \in Nat, n <= m, Sound(H, n),
           K \subseteq H \cup {NoTok}
    PROVE  Sound(K, m)
BY DEF Sound, Tokens, NoTok

LEMMA SoundGrows ==
    ASSUME NEW H, NEW K, NEW n \in Nat, NEW m \in Nat, Sound(H, n),
           NEW f \in Tokens, n < f.at, f.at <= m, K \subseteq H \cup {NoTok, f}
    PROVE  Sound(K, m)
<1>1. f.at \in Nat /\ f.at # 0
  BY DEF Tokens
<1>2. ASSUME NEW t \in K PROVE t = NoTok \/ (t \in Tokens /\ t.at <= m)
  BY <1>1 DEF Sound, Tokens
<1>3. ASSUME NEW t \in H \cup {NoTok} PROVE t.at \in Nat /\ t.at < f.at
  BY <1>1 DEF Sound, Tokens, NoTok
<1>4. ASSUME NEW t \in H \cup {NoTok}, NEW u \in H \cup {NoTok}, t.at = u.at PROVE t = u
  BY <1>4 DEF Sound, Tokens, NoTok
<1>5. ASSUME NEW t \in K, NEW u \in K, t.at = u.at PROVE t = u
  BY <1>1, <1>3, <1>4, <1>5
<1> QED BY <1>2, <1>5 DEF Sound

LEMMA InitTab == ConInit => TabInv
<1> SUFFICES ASSUME ConInit PROVE TabInv
  OBVIOUS
<1>1. calls[browser] = Idle /\ now \in Nat
  BY DEF ConInit, AcctInit
<1>2. calls[browser].res = NoTok /\ calls[browser].op = "none"
  BY <1>1 DEF Idle
<1>3. store.tok = NoTok /\ meCall.tok = NoTok /\ Noted = NoTok
  BY DEF ConInit, NoStore, NoFetch, NoMe, NoTok, Noted
<1>4. Sound(Held, now)
  BY <1>2, <1>3 DEF Held, Sound
<1>5. TabShape
  BY <1>1 DEF ConInit, TabShape, NoStore, NoFetch, NoMe
<1> QED BY <1>2, <1>3, <1>4, <1>5 DEF ConInit, TabInv, Matched, Inside, EnabledFully

-----------------------------------------------------------------------------
(* What the server and the other devices do to it.                            *)

\* The answer of the tab is kept, dropped, or brings a token of a later time.
Fresh(t) == t \in Tokens /\ now < t.at /\ t.at <= now'
ServerKept ==
    /\ now' \in Nat /\ now <= now'
    /\ \/ calls'[browser].res \in {NoTok, calls[browser].res}
       \/ Fresh(calls'[browser].res)
    /\ EnabledFully'

LEMMA BrowserAnswer ==
    ASSUME Shaped, EnabledFully, NEW c \in Callers, NEW ans, NEW res, NEW got, Answer(c, ans, res, got)
    PROVE  /\ calls'[browser].res \in {NoTok, calls[browser].res}
              \/ (c = browser /\ calls'[browser].res = res)
           /\ (c = browser /\ calls[browser].op = "enable" => res.scope \in {"", "none"}) => EnabledFully'
<1>1. CASE c # browser
  BY <1>1 DEF Answer, EnabledFully, Shaped
<1>2. CASE c = browser /\ calls[browser].lost
  BY <1>2 DEF Answer, EnabledFully, Shaped, Idle
<1>3. CASE c = browser /\ ~calls[browser].lost
  BY <1>3 DEF Answer, EnabledFully, Shaped, CallFields
<1> QED BY <1>1, <1>2, <1>3

LEMMA BrowserRefuse ==
    ASSUME Shaped, EnabledFully, NEW c \in Callers, NEW ans, NEW got, Answer(c, ans, NoTok, got)
    PROVE  calls'[browser].res \in {NoTok, calls[browser].res} /\ EnabledFully'
<1>1. NoTok.scope = "none"
  BY DEF NoTok
<1> QED BY <1>1, BrowserAnswer

LEMMA BrowserMoves ==
    ASSUME Shaped, EnabledFully, NEW c \in Callers,
           \/ Fail(c)
           \/ \E pc : Goto(c, pc)
           \/ \E row, pc : calls' = [calls EXCEPT ![c].snap = row, ![c].pc = pc]
    PROVE  calls'[browser].res \in {NoTok, calls[browser].res} /\ EnabledFully'
<1>1. CASE Fail(c)
  BY <1>1 DEF Fail, EnabledFully, Shaped, Idle
<1>2. CASE \E pc : Goto(c, pc)
  <2>1. PICK pc : calls' = [calls EXCEPT ![c].pc = pc]
    BY <1>2 DEF Goto
  <2> QED BY <2>1 DEF EnabledFully, Shaped, CallFields
<1>3. CASE \E row, pc : calls' = [calls EXCEPT ![c].snap = row, ![c].pc = pc]
  <2>1. PICK row, pc : calls' = [calls EXCEPT ![c].snap = row, ![c].pc = pc]
    BY <1>3
  <2> QED BY <2>1 DEF EnabledFully, Shaped, CallFields
<1> QED BY <1>1, <1>2, <1>3

LEMMA LoginTokens ==
    ASSUME Shaped, TabShape, EnabledFully, NEW c \in Callers, LoginStep(c)
    PROVE  ServerKept
<1> USE DEF TabShape
<1>1. CASE LoginLoad(c)
  <2>1. now' = now
    BY <1>1 DEF LoginLoad
  <2>2. \/ Fail(c)
        \/ \E row, pc : calls' = [calls EXCEPT ![c].snap = row, ![c].pc = pc]
        \/ \E ans, got : Answer(c, ans, NoTok, got)
    BY <1>1 DEF LoginLoad, Refuse
  <2>3. CASE \E ans, got : Answer(c, ans, NoTok, got)
    BY <2>1, <2>3, BrowserRefuse DEF ServerKept
  <2>4. CASE \/ Fail(c)
             \/ \E row, pc : calls' = [calls EXCEPT ![c].snap = row, ![c].pc = pc]
    <3>1. calls'[browser].res \in {NoTok, calls[browser].res} /\ EnabledFully'
      BY <2>4, BrowserMoves
    <3> QED BY <2>1, <3>1 DEF ServerKept
  <2> QED BY <2>2, <2>3, <2>4
<1>2. CASE LoginFactor(c)
  BY <1>2, BrowserMoves DEF LoginFactor, ServerKept
<1>3. CASE LoginFinish(c)
  <2> DEFINE tok == issueLogin(calls[c].snap, now + 1)
  <2>1. now' = now + 1 /\ Answer(c, "token", tok, 0) /\ calls[c].op = "login"
    BY <1>3 DEF LoginFinish, At
  <2>2. Fresh(tok)
    <3>1. tok.at = now + 1 /\ now + 1 \in Nat \ {0}
      BY DEF issueLogin
    <3>2. tok.scope \in Scopes
      BY DEF issueLogin, Scopes
    <3>3. tok \in Tokens
      BY <3>1, <3>2 DEF issueLogin, Tokens
    <3> QED BY <2>1, <3>1, <3>3 DEF Fresh
  <2> HIDE DEF tok
  <2>3. /\ calls'[browser].res \in {NoTok, calls[browser].res, tok}
        /\ EnabledFully'
    BY <2>1, BrowserAnswer
  <2> QED BY <2>1, <2>2, <2>3 DEF ServerKept
<1>4. CASE FailReset(c) \/ FailCount(c)
  BY <1>4, BrowserMoves DEF FailReset, FailCount, ServerKept
<1>5. CASE FailRead(c) \/ FailLock(c)
  BY <1>5, BrowserMoves, BrowserRefuse DEF FailRead, FailLock, Refuse, ServerKept
<1> QED BY <1>1, <1>2, <1>3, <1>4, <1>5 DEF LoginStep

LEMMA HandlerTokens ==
    ASSUME Shaped, TabShape, EnabledFully, NEW c \in Callers, Handler(c)
    PROVE  ServerKept
<1> USE DEF TabShape
<1>1. ASSUME NEW ans, NEW got, Answer(c, ans, NoTok, got), now' \in {now, now + 1}
      PROVE  ServerKept
  BY <1>1, BrowserRefuse DEF ServerKept
<1>2. CASE Rejected(c) \/ logout(c) \/ changePassword(c) \/ SaveSetupSecret(c) \/ Served(c)
  BY <1>1, <1>2 DEF Rejected, logout, changePassword, SaveSetupSecret, Served, Refuse
<1>3. CASE mfaDisable(c)
  BY <1>1, <1>3 DEF mfaDisable, Refuse
<1>5. CASE mfaSetup(c)
  BY <1>1, <1>5, BrowserMoves DEF mfaSetup, Refuse, ServerKept
<1>4. CASE mfaEnable(c)
  <2> DEFINE tok == [at |-> now + 2, scope |-> ""]
  <2>1. CASE \E ans : Answer(c, ans, NoTok, 0) /\ now' = now
    BY <2>1, <1>1
  <2>2. CASE now' = now + 2 /\ Answer(c, "token", tok, made.binds + 1)
    <3>1. Fresh(tok) /\ tok.scope = ""
      <4>1. now + 2 \in Nat \ {0} /\ "" \in Scopes
        BY DEF Scopes
      <4>2. tok \in Tokens /\ tok.at = now + 2
        BY <4>1 DEF Tokens
      <4>3. now \in Nat /\ now' = now + 2
        BY <2>2
      <4>4. now < now + 2 /\ now + 2 <= now'
        BY <4>3
      <4> QED BY <4>2, <4>4 DEF Fresh
    <3> HIDE DEF tok
    <3>2. calls'[browser].res \in {NoTok, calls[browser].res, tok} /\ EnabledFully'
      BY <2>2, <3>1, BrowserAnswer
    <3>3. now' \in Nat /\ now <= now'
      BY <2>2
    <3> QED BY <3>1, <3>2, <3>3 DEF ServerKept
  <2> QED BY <1>4, <2>1, <2>2 DEF mfaEnable, Refuse
<1> QED BY <1>2, <1>3, <1>4, <1>5 DEF Handler

LEMMA AroundTokens ==
    ASSUME Shaped, TabShape, EnabledFully, Around
    PROVE  ServerKept
<1>1. calls' = calls
  BY AroundShaped
<1>2. now' \in {now, now + 1}
  BY DEF Around, changeUserPassword, unbindUserMfa, setUserMFARequired, unlockUser, saveSecurity,
     Tick, NextSlot, LockEnds, Expire, Stamped
<1>3. now' \in Nat /\ now <= now'
  BY <1>2 DEF TabShape
<1>4. calls'[browser].res \in {NoTok, calls[browser].res} /\ EnabledFully'
  BY <1>1 DEF EnabledFully
<1> QED BY <1>3, <1>4 DEF ServerKept

LEMMA DeviceTokens ==
    ASSUME Shaped, TabShape, EnabledFully, NEW c \in Callers \ {browser}, Device(c)
    PROVE  ServerKept
<1>1. calls'[browser] = calls[browser]
  BY DEF Device, Send, Shaped
<1>2. now' = now /\ now \in Nat
  BY DEF Device, TabShape
<1>3. now' \in Nat /\ now <= now'
  BY <1>2
<1>4. calls'[browser].res \in {NoTok, calls[browser].res} /\ EnabledFully'
  BY <1>1 DEF EnabledFully
<1> QED BY <1>3, <1>4 DEF ServerKept

\* A step of the server with the tab as it was.
LEMMA ServerTab ==
    ASSUME TabInv, ServerKept, UNCHANGED conVars
    PROVE  TabInv'
<1> DEFINE f == calls'[browser].res
<1>1. TabShape' /\ Matched' /\ Inside' /\ EnabledFully'
  BY DEF TabInv, TabShape, Matched, Inside, ServerKept, conVars
<1>2. Held' \subseteq Held \cup {NoTok, f}
  BY DEF Held, Noted, conVars
<1>3. /\ now \in Nat /\ now' \in Nat /\ now <= now' /\ Sound(Held, now)
      /\ f \in {NoTok, calls[browser].res} \/ Fresh(f)
  BY DEF ServerKept, TabInv, TabShape
<1>4. CASE f \in {NoTok, calls[browser].res}
  <2>1. Held' \subseteq Held \cup {NoTok}
    BY <1>2, <1>4 DEF Held
  <2> QED BY <1>1, <1>3, <2>1, SoundShrinks DEF TabInv
<1>5. CASE Fresh(f)
  BY <1>1, <1>2, <1>3, <1>5, SoundGrows DEF TabInv, Fresh
<1> QED BY <1>3, <1>4, <1>5

-----------------------------------------------------------------------------
(* What the tab does to it.                                                   *)

CallFine == calls'[browser].res \in {NoTok, calls[browser].res} /\ EnabledFully'
StoreFine ==
    /\ DOMAIN store' = {"tok", "scope"}
    /\ store'.tok \in {store.tok, NoTok, calls[browser].res}
    /\ Matched'
MeFine ==
    /\ DOMAIN meCall' = {"tok", "st"} /\ DOMAIN me' = {"scope", "of", "age"}
    /\ meCall'.tok \in {meCall.tok, NoTok, store.tok}
    /\ Noted' \in {Noted, NoTok, meCall.tok}
TabKept == now' = now /\ CallFine /\ StoreFine /\ MeFine /\ Inside'

LEMMA StoreSame ==
    ASSUME TabInv, UNCHANGED <<store, foreign>>
    PROVE  StoreFine
BY DEF TabInv, TabShape, StoreFine, Matched

LEMMA StoreCleared ==
    ASSUME clearAuth
    PROVE  StoreFine
BY DEF clearAuth, NoStore, StoreFine, Matched

LEMMA StoreSet ==
    ASSUME NEW scope, setAuth(calls[browser].res, scope),
           calls[browser].res # NoTok => scope = LoginScope(calls[browser].res)
    PROVE  StoreFine
<1>1. store' = [tok |-> calls[browser].res, scope |-> scope]
  BY DEF setAuth
<1> QED BY <1>1 DEF StoreFine, Matched

\* An answer about a token of the same time is about the same token.
LEMMA StoreScoped ==
    ASSUME TabInv, NEW t \in Held, NEW m, m.of = t.at, m.scope = t.scope, setScope(m)
    PROVE  StoreFine
<1>1. /\ store' = [store EXCEPT !.scope = m.scope]
      /\ foreign' = (m.of # store.tok.at)
      /\ DOMAIN store = {"tok", "scope"}
  BY DEF setScope, TabInv, TabShape
<1>2. store'.tok = store.tok /\ store'.scope = t.scope /\ DOMAIN store' = {"tok", "scope"}
  BY <1>1
<1>3. ASSUME ~foreign', store'.tok # NoTok
      PROVE  store'.scope = LoginScope(store'.tok)
  <2>1. t = store.tok
    BY <1>1, <1>3 DEF TabInv, Sound, Held
  <2>2. store.tok \in Tokens
    BY <1>2, <1>3 DEF TabInv, Sound, Held
  <2>3. LoginScope(store.tok) = store.tok.scope
    BY <2>2 DEF Tokens, Scopes, LoginScope
  <2> QED BY <1>2, <2>1, <2>3
<1> QED BY <1>2, <1>3 DEF StoreFine, Matched

LEMMA MeSame ==
    ASSUME TabInv, UNCHANGED <<me, meCall>>
    PROVE  MeFine
BY DEF TabInv, TabShape, MeFine, Noted

LEMMA MeFetched ==
    ASSUME TabInv, NEW stale, me' = me, Fetch(stale)
    PROVE  MeFine
BY DEF TabInv, TabShape, MeFine, Noted, Fetch

LEMMA Navigated ==
    ASSUME TabInv, NEW r, Navigate(r)
    PROVE  Inside'
BY DEF TabInv, Inside, Navigate

LEMMA InsideSame ==
    ASSUME TabInv, UNCHANGED <<route, mounted>>
    PROVE  Inside'
BY DEF TabInv, Inside

LEMMA Loaded ==
    ASSUME NEW r, Load(r)
    PROVE  MeFine /\ Inside'
<1>1. me' = NoMe /\ meCall' = NoFetch /\ ~mounted'
  BY DEF Load
<1>2. Noted' = NoTok
  BY <1>1 DEF Noted, NoMe, NoTok
<1>3. meCall'.tok = NoTok /\ DOMAIN meCall' = {"tok", "st"} /\ DOMAIN me' = {"scope", "of", "age"}
  BY <1>1 DEF NoFetch, NoMe
<1> QED BY <1>1, <1>2, <1>3 DEF MeFine, Inside

LEMMA Redirected ==
    ASSUME TabInv, redirectToLogin
    PROVE  StoreFine /\ MeFine /\ Inside'
BY StoreSame, StoreCleared, MeSame, InsideSame, Loaded DEF redirectToLogin, pageVars

LEMMA CallSame ==
    ASSUME TabInv, calls' = calls
    PROVE  CallFine
BY DEF TabInv, EnabledFully, CallFine

LEMMA CallTaken ==
    ASSUME Shaped, TabInv, Taken
    PROVE  CallFine
BY DEF TabInv, Shaped, EnabledFully, CallFine, Taken, Idle

LEMMA CallDropped ==
    ASSUME Shaped, TabInv, Drop
    PROVE  CallFine
<1>1. calls'[browser] = IF calls[browser].pc \in {"idle", "done"}
                          THEN Idle ELSE [calls[browser] EXCEPT !.lost = TRUE]
  BY DEF Drop, Shaped
<1>2. EnabledFully /\ DOMAIN calls[browser] = CallFields
  BY DEF TabInv, Shaped
<1>3. CASE calls'[browser] = Idle
  <2>1. calls'[browser].res = NoTok /\ calls'[browser].op = "none"
    BY <1>3 DEF Idle
  <2> QED BY <2>1 DEF EnabledFully, CallFine
<1>4. CASE calls'[browser] = [calls[browser] EXCEPT !.lost = TRUE]
  <2>1. calls'[browser].res = calls[browser].res /\ calls'[browser].op = calls[browser].op
    BY <1>2, <1>4 DEF CallFields
  <2> QED BY <1>2, <2>1 DEF EnabledFully, CallFine
<1> QED BY <1>1, <1>3, <1>4

LEMMA CallSent ==
    ASSUME Shaped, TabInv, NEW op, NEW arg, Request(op, arg)
    PROVE  CallFine
<1>1. calls'[browser].res = NoTok
  BY DEF Request, Send, Shaped, Idle
<1> QED BY <1>1 DEF EnabledFully, CallFine, NoTok

LEMMA ServerSameNow ==
    ASSUME ServerSame
    PROVE  now' = now
BY DEF ServerSame

-----------------------------------------------------------------------------
(* Its actions, one by one.                                                   *)

LEMMA GuardTab ==
    ASSUME Shaped, TabInv, GuardMount \/ Guard \/ SecurityMount \/ LoggedIn \/ MeServe \/ MeAges \/ DebounceEnds
    PROVE  TabKept
<1>0. now' = now /\ CallFine
  BY CallSame DEF GuardMount, Guard, SecurityMount, LoggedIn, MeServe, MeAges, DebounceEnds, AcctSame, acctVars
<1>1. CASE GuardMount
  <2>1. CASE store.tok = NoTok /\ UNCHANGED <<store, foreign, mounted, meCall>>
    <3>1. ~mounted' /\ me' = me
      BY <1>1, <2>1 DEF GuardMount
    <3> QED BY <1>0, <2>1, <3>1, StoreSame, MeSame DEF TabKept, Inside
  <2>2. CASE /\ mounted' = (route' \in Guarded)
             /\ IF me = NoMe THEN UNCHANGED <<store, foreign>> ELSE setScope(me)
             /\ Fetch(me = NoMe \/ me.age = 2)
    <3>1. Noted \in Held /\ me.of = Noted.at /\ me.scope = Noted.scope
      BY DEF Noted, Held
    <3>2. StoreFine
      BY <2>2, <3>1, StoreSame, StoreScoped
    <3>3. MeFine
      BY <1>1, <2>2, MeFetched DEF GuardMount
    <3> QED BY <1>0, <2>2, <3>2, <3>3 DEF TabKept, Inside
  <2> QED BY <1>1, <2>1, <2>2 DEF GuardMount
<1>2. CASE Guard \/ LoggedIn
  BY <1>0, <1>2, StoreSame, MeSame, Navigated DEF Guard, LoggedIn, TabKept
<1>3. CASE SecurityMount
  BY <1>0, <1>3, StoreSame, MeFetched, InsideSame DEF SecurityMount, TabKept
<1>4. CASE MeServe
  <2>1. meCall' = [meCall EXCEPT !.st = AuthMiddleware(meCall.tok, "me")] /\ me' = me
    BY <1>4 DEF MeServe
  <2>2. MeFine
    BY <2>1 DEF TabInv, TabShape, MeFine, Noted
  <2> QED BY <1>0, <1>4, <2>2, StoreSame, InsideSame DEF MeServe, TabKept
<1>5. CASE MeAges
  <2>1. me' = [me EXCEPT !.age = @ + 1] /\ meCall' = meCall
    BY <1>5 DEF MeAges
  <2>2. MeFine
    BY <2>1 DEF TabInv, TabShape, MeFine, Noted
  <2> QED BY <1>0, <1>5, <2>2, StoreSame, InsideSame DEF MeAges, TabKept
<1>6. CASE DebounceEnds
  BY <1>0, <1>6, StoreSame, MeSame, InsideSame DEF DebounceEnds, TabKept
<1> QED BY <1>1, <1>2, <1>3, <1>4, <1>5, <1>6

LEMMA DeliverTab ==
    ASSUME Shaped, TabInv, MeDeliver
    PROVE  TabKept
<1> DEFINE m == [scope |-> meCall.tok.scope, of |-> meCall.tok.at, age |-> 0]
<1>1. meCall.tok \in Held /\ (meCall.tok = NoTok \/ meCall.tok \in Tokens)
  BY DEF Held, TabInv, Sound
<1>2. m.of = meCall.tok.at /\ m.scope = meCall.tok.scope /\ DOMAIN m = {"scope", "of", "age"}
  OBVIOUS
<1>3. [at |-> m.of, scope |-> m.scope] = meCall.tok
  BY <1>1, <1>2 DEF Tokens, NoTok
<1>4. meCall' = NoFetch => meCall'.tok = NoTok /\ DOMAIN meCall' = {"tok", "st"}
  BY DEF NoFetch
<1> HIDE DEF m
<1>5. CASE /\ me' = m /\ meCall' = NoFetch
           /\ setScope(m) \/ UNCHANGED <<store, foreign>>
           /\ AcctSame /\ UNCHANGED <<route, mounted, form, sec, debounce>>
  <2>1. MeFine
    BY <1>2, <1>3, <1>4, <1>5 DEF MeFine, Noted
  <2>2. StoreFine
    BY <1>1, <1>2, <1>5, StoreSame, StoreScoped
  <2> QED BY <1>5, <2>1, <2>2, CallSame, InsideSame DEF TabKept, AcctSame, acctVars
<1>6. CASE meCall' = NoFetch /\ AcctSame /\ UNCHANGED <<store, foreign, me, route, mounted, form, sec, debounce>>
  <2>1. MeFine
    BY <1>4, <1>6 DEF MeFine, Noted, TabInv, TabShape
  <2> QED BY <1>6, <2>1, StoreSame, CallSame, InsideSame DEF TabKept, AcctSame, acctVars
<1>7. CASE redirectToLogin /\ Drop /\ ServerSame
  BY <1>7, Redirected, CallDropped, ServerSameNow DEF TabKept
<1>8. CASE /\ UNCHANGED <<store, foreign>> \/ clearAuth
           /\ meCall' = NoFetch
           /\ UNCHANGED <<calls, me, route, mounted, form, sec>>
           /\ ServerSame
  <2>1. MeFine
    BY <1>4, <1>8 DEF MeFine, Noted, TabInv, TabShape
  <2> QED BY <1>8, <2>1, StoreSame, StoreCleared, CallSame, InsideSame, ServerSameNow DEF TabKept
<1> QED BY <1>5, <1>6, <1>7, <1>8 DEF MeDeliver, m

LEMMA AnswersTab ==
    ASSUME Shaped, TabInv,
           \/ doLogin \/ PwChanged \/ LoggedOut \/ PageAnswer \/ SetupShown \/ Enabled \/ Unbound
           \/ \E op \in {"login", "password", "work", "setup", "enable", "disable"} : Refused(op)
    PROVE  TabKept
<1>0. now' = now /\ CallFine
  BY CallTaken, ServerSameNow DEF doLogin, PwChanged, LoggedOut, PageAnswer, SetupShown, Enabled, Unbound, Refused
<1>1. CASE doLogin
  BY <1>0, <1>1, StoreSame, StoreSet, MeSame, Navigated, InsideSame DEF doLogin, TabKept
<1>2. CASE PwChanged
  BY <1>0, <1>2, StoreSame, StoreCleared, MeSame, Navigated, InsideSame DEF PwChanged, TabKept
<1>3. CASE LoggedOut
  BY <1>0, <1>3, Redirected, StoreCleared, MeSame, Navigated DEF LoggedOut, TabKept
<1>4. CASE PageAnswer \/ SetupShown \/ Unbound
  BY <1>0, <1>4, StoreSame, MeSame, InsideSame DEF PageAnswer, SetupShown, Unbound, TabKept, conVars
<1>5. CASE Enabled
  <2>1. calls[browser].res.scope \in {"", "none"} /\ calls[browser].res \in Held
    BY <1>5 DEF Enabled, Answered, At, TabInv, EnabledFully, Held
  <2>2. calls[browser].res # NoTok => LoginScope(calls[browser].res) = ""
    BY <2>1 DEF LoginScope
  <2>3. StoreFine
    BY <1>5, <2>2, StoreSame, StoreSet DEF Enabled
  <2> QED BY <1>0, <1>5, <2>3, MeSame, InsideSame DEF Enabled, TabKept
<1>6. ASSUME NEW op, Refused(op) PROVE TabKept
  BY <1>0, <1>6, Redirected, StoreSame, MeSame, InsideSame DEF Refused, TabKept, conVars
<1> QED BY <1>1, <1>2, <1>3, <1>4, <1>5, <1>6

LEMMA PersonTab ==
    ASSUME Shaped, TabInv, Person
    PROVE  TabKept
<1>1. ASSUME NEW r \in Pages, Visit(r) PROVE TabKept
  BY <1>1, Loaded, CallDropped, StoreSame, ServerSameNow DEF Visit, TabKept
<1>2. ASSUME NEW r \in Pages, Go(r) PROVE TabKept
  BY <1>2, Navigated, CallSame, StoreSame, MeSame DEF Go, TabKept, AcctSame, acctVars
<1>3. ASSUME NEW op, NEW arg, Request(op, arg), ServerSame, UNCHANGED conVars PROVE TabKept
  BY <1>3, CallSent, StoreSame, MeSame, InsideSame, ServerSameNow DEF TabKept, conVars
<1>4. CASE onCredentialsFinish \/ onMfaFinish
  BY <1>3, <1>4 DEF onCredentialsFinish, onMfaFinish
<1>5. CASE PwSubmit \/ handleLogout \/ PageRequest \/ StartSetup \/ SubmitCode \/ SubmitUnbind
  BY <1>3, <1>5 DEF PwSubmit, handleLogout, PageRequest, StartSetup, SubmitCode, SubmitUnbind
<1> QED BY <1>1, <1>2, <1>4, <1>5 DEF Person

LEMMA TabSteps ==
    ASSUME TabInv, TabKept
    PROVE  TabInv'
<1>1. TabShape' /\ Matched' /\ Inside' /\ EnabledFully'
  BY DEF TabInv, TabShape, TabKept, CallFine, StoreFine, MeFine
<1>2. Held' \subseteq Held \cup {NoTok}
  BY DEF Held, TabKept, CallFine, StoreFine, MeFine
<1>3. now \in Nat /\ now' = now /\ now <= now' /\ Sound(Held, now)
  BY DEF TabInv, TabShape, TabKept
<1> QED BY <1>1, <1>2, <1>3, SoundShrinks DEF TabInv

LEMMA NextTab == Shaped /\ TabInv /\ [Next]_vars => TabInv'
<1> SUFFICES ASSUME Shaped, TabInv, [Next]_vars PROVE TabInv'
  OBVIOUS
<1>1. TabShape /\ EnabledFully
  BY DEF TabInv
<1>2. ASSUME NEW c \in Callers, Serve(c), UNCHANGED conVars PROVE TabInv'
  BY <1>1, <1>2, LoginTokens, HandlerTokens, ServerTab DEF Serve, LoginStep, Handler
<1>3. CASE Around /\ UNCHANGED conVars
  BY <1>1, <1>3, AroundTokens, ServerTab
<1>4. CASE DevicesNext(Callers \ {browser})
  BY <1>1, <1>2, <1>3, <1>4, DeviceTokens, ServerTab DEF DevicesNext
<1>5. CASE Reacts \/ Person \/ MeAges \/ DebounceEnds
  BY <1>5, GuardTab, DeliverTab, AnswersTab, PersonTab, TabSteps DEF Reacts
<1>6. CASE UNCHANGED vars
  <2>1. now' = now /\ CallFine /\ StoreFine /\ MeFine /\ Inside'
    BY <1>6, CallSame, StoreSame, MeSame, InsideSame DEF vars, acctVars, conVars
  <2> QED BY <2>1, TabSteps DEF TabKept
<1> QED BY <1>2, <1>3, <1>4, <1>5, <1>6 DEF Next, TabNext

\* A session with a duty is held on the page of that duty, or about to be sent
\* there, after a reload as well, as long as the scope in the store is its own
\* (App.tsx:RequireAuth).
THEOREM GuidedThm == Spec => []Guided
<1>1. TabInv => Guided
  <2> SUFFICES ASSUME TabInv, mounted, ~foreign, store.tok.scope \in {"mfa", "pw"}
               PROVE  \/ Redirect(store.scope, route) # route
                      \/ store.tok.scope = "mfa" /\ route = "security"
    BY DEF Guided
  <2>1. store.tok # NoTok
    BY DEF NoTok
  <2>2. store.scope = store.tok.scope
    BY <2>1 DEF TabInv, Matched, LoginScope
  <2>3. route \in {"home", "security"}
    BY DEF TabInv, Inside, Guarded
  <2> QED BY <2>2, <2>3 DEF Redirect
<1>2. Shaped /\ TabInv /\ [Next]_vars => (Shaped /\ TabInv)'
  BY NextShaped, NextTab
<1> QED BY <1>1, <1>2, InitShaped, InitTab, PTL DEF Spec

=============================================================================
