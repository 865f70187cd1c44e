--------------------------- MODULE GatewayProofs ---------------------------
(***************************************************************************)
(* Proofs about Gateway, for every set of requests, keys, limits and       *)
(* upstreams: the slot counters are exact and implement Admission.         *)
(***************************************************************************)
EXTENDS Gateway, FiniteSetTheorems, TLAPS

\* A step of Handle between the admission and releaseConn.
Inner(r) ==
    /\ pc[r] \in InHandle
    /\ \E l \in InHandle \cup {"unconn"} : pc' = [pc EXCEPT ![r] = l]
    /\ UNCHANGED <<conns, adm>>

\* Every step of a request is one of the seven kinds the counters can see.
LEMMA StepKinds ==
    ASSUME NEW r \in Requests, Step(r)
    PROVE  \/ Authenticate(r) \/ TryAdmit(r) \/ KeyAdmit(r) \/ UndoAdmit(r)
           \/ Inner(r) \/ ReleaseConn(r) \/ ReleaseKey(r)
<1> USE DEF Inner, InHandle, Goto
<1>1. ASSUME NEW st \in Early, RejectEarly(r, st) PROVE Inner(r)
  BY <1>1 DEF RejectEarly, Reply
<1>2. ASSUME CountTokens(r) \/ Admitted(r) PROVE Inner(r)
  BY <1>2 DEF CountTokens, Admitted
<1>3. ASSUME NEW p \in Providers, Pick(r, p) PROVE Inner(r)
  BY <1>3 DEF Pick
<1>4. ASSUME Exhausted(r) \/ AttemptFails(r) \/ BodyUnreadable(r) \/ UpstreamRefuses(r)
      PROVE  Inner(r)
  BY <1>4 DEF Exhausted, AttemptFails, BodyUnreadable, UpstreamRefuses, Reply
<1>5. ASSUME BufferedBlocked(r) \/ BufferedDone(r) PROVE Inner(r)
  BY <1>5 DEF BufferedBlocked, BufferedDone, Reply
<1>6. ASSUME StreamOpen(r) \/ StreamFails(r) \/ StreamBlocked(r) \/ StreamReplaced(r)
             \/ StreamDone(r)
      PROVE  Inner(r)
  BY <1>6 DEF StreamOpen, StreamFails, StreamBlocked, StreamReplaced, StreamDone, EndStream
<1>7. ASSUME Panic(r) \/ Close(r) PROVE Inner(r)
  BY <1>7 DEF Panic, Close
<1> QED BY <1>1, <1>2, <1>3, <1>4, <1>5, <1>6, <1>7 DEF Step, Progress

-----------------------------------------------------------------------------
LEMMA InitType == Init => TypeOK
<1>1. NewCall \in Call
  BY DEF NewCall, Call, Early, Verdicts
<1> QED BY <1>1 DEF Init, TypeOK, Labels

\* The locals of a request keep their type.
LEMMA CallType ==
    ASSUME TypeOK, NEW r \in Requests, Step(r)
    PROVE  call' \in [Requests -> Call]
<1>0. call \in [Requests -> Call] /\ call[r] \in Call
  BY DEF TypeOK
<1>a. ASSUME NEW c \in Call, call' = [call EXCEPT ![r] = c] PROVE call' \in [Requests -> Call]
  BY <1>0, <1>a
<1>b. ASSUME NEW c \in Call, NEW v \in Verdicts PROVE Note(c, v) \in Call
  <2>1. [p \in Providers |-> IF p \in c.up THEN v ELSE c.verdict[p]] \in [Providers -> Verdicts]
    BY DEF Call
  <2> QED BY <2>1 DEF Note, Call
<1>c. ASSUME NEW c \in Call PROVE Settled(c) \in Call
  BY DEF Settled, Call
<1>d. ASSUME NEW c \in Call, Reply(r, c) PROVE call' \in [Requests -> Call]
  <2>1. [c EXCEPT !.replies = @ + 1] \in Call
    BY DEF Call
  <2> QED BY <1>a, <1>d, <2>1 DEF Reply
<1>e. /\ Note(call[r], "failure") \in Call
      /\ Note(call[r], "success") \in Call
  BY <1>0, <1>b DEF Verdicts
<1>1. ASSUME NEW st \in Early, RejectEarly(r, st) PROVE call' \in [Requests -> Call]
  <2>1. [call[r] EXCEPT !.status = st, !.err = (st = "error")] \in Call
    BY <1>0 DEF Call
  <2> QED BY <1>1, <1>d, <2>1 DEF RejectEarly
<1>2. CASE CountTokens(r)
  <2>1. [call[r] EXCEPT !.replies = @ + 1] \in Call
    BY <1>0 DEF Call
  <2> QED BY <1>2, <1>a, <2>1 DEF CountTokens
<1>3. CASE Admitted(r)
  <2>1. [call[r] EXCEPT !.res = "open"] \in Call
    BY <1>0 DEF Call
  <2> QED BY <1>3, <1>a, <2>1 DEF Admitted
<1>4. ASSUME NEW p \in Providers, Pick(r, p) PROVE call' \in [Requests -> Call]
  <2>1. [call[r] EXCEPT !.tried = @ \cup {p}, !.up = {p}] \in Call
    BY <1>0 DEF Call
  <2>2. call' = [call EXCEPT ![r] = [call[r] EXCEPT !.tried = @ \cup {p}, !.up = {p}]]
    BY <1>4 DEF Pick
  <2> QED BY <1>a, <2>1, <2>2
<1>5. CASE Exhausted(r)
  <2>1. [call[r] EXCEPT !.status = "error", !.err = TRUE] \in Call
    BY <1>0 DEF Call, Early
  <2> QED BY <1>5, <1>d, <2>1 DEF Exhausted
<1>6. CASE AttemptFails(r)
  <2> DEFINE n == Note(call[r], "failure")
  <2>1. n \in Call
    BY <1>e
  <2> HIDE DEF n
  <2>2. n.attempt + 1 \in Nat
    BY <2>1 DEF Call
  <2>3. ASSUME NEW k \in Nat PROVE [n EXCEPT !.err = TRUE, !.attempt = k] \in Call
    BY <2>1 DEF Call
  <2> QED BY <1>6, <1>a, <2>2, <2>3 DEF AttemptFails, n
<1>20. CASE BodyUnreadable(r)
  <2> DEFINE n == Note(call[r], "failure")
  <2>1. n \in Call
    BY <1>e
  <2> HIDE DEF n
  <2>2. n.attempt + 1 \in Nat
    BY <2>1 DEF Call
  <2>3. ASSUME NEW k \in Nat PROVE [n EXCEPT !.err = TRUE, !.attempt = k, !.accepted = TRUE] \in Call
    BY <2>1 DEF Call
  <2> QED BY <1>20, <1>a, <2>2, <2>3 DEF BodyUnreadable, n
<1>7. CASE UpstreamRefuses(r)
  <2>1. [call[r] EXCEPT !.status = "error", !.err = TRUE, !.accepted = TRUE] \in Call
    BY <1>0 DEF Call, Early
  <2> QED BY <1>7, <1>c, <1>d, <2>1 DEF UpstreamRefuses
<1>8. CASE BufferedBlocked(r)
  <2>1. [call[r] EXCEPT !.status = "blocked", !.accepted = TRUE] \in Call
    BY <1>0 DEF Call, Early
  <2> QED BY <1>8, <1>c, <1>d, <2>1 DEF BufferedBlocked
<1>9. CASE BufferedDone(r)
  <2> DEFINE n == Note(call[r], "success")
  <2>1. n \in Call
    BY <1>e
  <2> HIDE DEF n
  <2>2. [n EXCEPT !.status = "ok", !.accepted = TRUE] \in Call
    BY <2>1 DEF Call
  <2> QED BY <1>9, <1>c, <1>d, <2>2 DEF BufferedDone, n
<1>10. CASE StreamOpen(r)
  <2>0. call[r].replies + 1 \in Nat
    BY <1>0 DEF Call
  <2>a. ASSUME NEW k \in Nat PROVE [call[r] EXCEPT !.replies = k, !.accepted = TRUE] \in Call
    BY <1>0 DEF Call
  <2>1. [call[r] EXCEPT !.replies = @ + 1, !.accepted = TRUE] \in Call
    BY <2>0, <2>a
  <2>2. call' = [call EXCEPT ![r] = [call[r] EXCEPT !.replies = @ + 1, !.accepted = TRUE]]
    BY <1>10 DEF StreamOpen
  <2> QED BY <1>a, <2>1, <2>2
<1>11. CASE StreamFails(r)
  <2>1. [call[r] EXCEPT !.status = "error", !.err = TRUE] \in Call
    BY <1>0 DEF Call, Early
  <2> QED BY <1>11, <1>a, <1>c, <2>1 DEF StreamFails, EndStream
<1>12. CASE StreamBlocked(r)
  <2>1. [call[r] EXCEPT !.status = "blocked"] \in Call
    BY <1>0 DEF Call, Early
  <2> QED BY <1>12, <1>a, <2>1 DEF StreamBlocked, EndStream
<1>13. CASE StreamReplaced(r)
  <2>1. [Note(call[r], "success") EXCEPT !.status = "blocked"] \in Call
    BY <1>e DEF Call, Early
  <2> QED BY <1>13, <1>a, <1>c, <2>1 DEF StreamReplaced, EndStream
<1>14. CASE StreamDone(r)
  <2> DEFINE n == Note(call[r], "success")
  <2>1. n \in Call
    BY <1>e
  <2> HIDE DEF n
  <2>2. [n EXCEPT !.status = IF @ = "error" /\ ~call[r].err THEN "ok" ELSE @] \in Call
    BY <2>1 DEF Call
  <2>3. Settled([n EXCEPT !.status = IF @ = "error" /\ ~call[r].err THEN "ok" ELSE @]) \in Call
    BY <1>c, <2>2
  <2> QED BY <1>14, <1>a, <2>3 DEF StreamDone, EndStream, n
<1>15. CASE Panic(r)
  <2>1. [call[r] EXCEPT !.panicked = TRUE, !.replies = 1] \in Call
    BY <1>0 DEF Call
  <2>2. call' = [call EXCEPT ![r] = [call[r] EXCEPT !.panicked = TRUE, !.replies = 1]]
    BY <1>15 DEF Panic
  <2> QED BY <1>a, <2>1, <2>2
<1>16. CASE Close(r)
  <2>1. [call[r] EXCEPT !.res = IF @ = "open" THEN "released" ELSE @] \in Call
    BY <1>0 DEF Call
  <2> QED BY <1>16, <1>a, <2>1 DEF Close
<1>17. CASE UNCHANGED call
  BY <1>0, <1>17
<1> QED
  BY <1>1, <1>2, <1>3, <1>4, <1>5, <1>6, <1>7, <1>8, <1>9, <1>10, <1>11, <1>12, <1>13,
     <1>14, <1>15, <1>16, <1>17, <1>20
     DEF Step, Progress, Authenticate, TryAdmit, KeyAdmit, UndoAdmit, ReleaseConn, ReleaseKey

LEMMA NextType == TypeOK /\ [Next]_vars => TypeOK'
<1> SUFFICES ASSUME TypeOK, [Next]_vars PROVE TypeOK'
  OBVIOUS
<1>1. ASSUME NEW r \in Requests, Step(r) PROVE TypeOK'
  <2>0. KeyOf[r] \in Keys
    BY DEF Keys
  <2>1. call' \in [Requests -> Call]
    BY <1>1, CallType
  <2>2. pc' \in [Requests -> Labels] /\ conns' \in Nat /\ adm' \in [Keys -> Nat]
    <3> USE DEF TypeOK, Goto, Labels, Finished
    <3>1. CASE Authenticate(r)
      BY <3>1 DEF Authenticate
    <3>2. CASE TryAdmit(r)
      BY <3>2 DEF TryAdmit
    <3>3. CASE KeyAdmit(r)
      BY <2>0, <3>3 DEF KeyAdmit
    <3>4. CASE UndoAdmit(r)
      BY <3>4 DEF UndoAdmit, ConnDec, Floor0
    <3>5. CASE Inner(r)
      BY <3>5 DEF Inner, InHandle
    <3>6. CASE ReleaseConn(r)
      BY <3>6 DEF ReleaseConn, ConnDec, Floor0
    <3>7. CASE ReleaseKey(r)
      BY <2>0, <3>7 DEF ReleaseKey, Floor0
    <3> QED BY <1>1, <3>1, <3>2, <3>3, <3>4, <3>5, <3>6, <3>7, StepKinds
  <2> QED BY <2>1, <2>2 DEF TypeOK
<1>2. CASE UNCHANGED vars
  BY <1>2 DEF vars, TypeOK
<1> QED BY <1>1, <1>2 DEF Next, Quiescent

\* Counters, labels and the state of every call keep their types.
THEOREM TypeCorrect == Spec => []TypeOK
BY InitType, NextType, PTL DEF Spec

-----------------------------------------------------------------------------
(* What moving one request does to the counted sets *)

LEMMA SlotsFinite ==
    /\ IsFiniteSet(Slots) /\ Cardinality(Slots) \in Nat
    /\ IsFiniteSet(Holders) /\ Cardinality(Holders) \in Nat
    /\ \A k \in Keys : IsFiniteSet(KeySlots(k)) /\ Cardinality(KeySlots(k)) \in Nat
<1>1. ASSUME NEW S \in SUBSET Requests PROVE IsFiniteSet(S) /\ Cardinality(S) \in Nat
  BY GatewayAssumption, FS_Subset, FS_CardinalityType
<1>2. Slots \in SUBSET Requests /\ Holders \in SUBSET Requests
  BY DEF Slots, Holders
<1>3. \A k \in Keys : KeySlots(k) \in SUBSET Requests
  BY DEF KeySlots
<1> QED BY <1>1, <1>2, <1>3

\* A request that gets, loses or keeps its connection slot.
LEMMA SlotsMove ==
    ASSUME pc \in [Requests -> Labels], NEW r \in Requests, NEW l, Goto(r, l)
    PROVE  /\ pc[r] \notin SlotLabels /\ l \in SlotLabels
              => Cardinality(Slots') = Cardinality(Slots) + 1
           /\ pc[r] \in SlotLabels /\ l \notin SlotLabels
              => Cardinality(Slots') = Cardinality(Slots) - 1
           /\ (pc[r] \in SlotLabels <=> l \in SlotLabels) => Slots' = Slots
<1> USE DEF Goto, Slots
<1>1. pc[r] \notin SlotLabels /\ l \in SlotLabels => r \notin Slots /\ Slots' = Slots \cup {r}
  OBVIOUS
<1>2. pc[r] \in SlotLabels /\ l \notin SlotLabels => r \in Slots /\ Slots' = Slots \ {r}
  OBVIOUS
<1>3. (pc[r] \in SlotLabels <=> l \in SlotLabels) => Slots' = Slots
  OBVIOUS
<1> HIDE DEF Slots
<1> QED BY <1>1, <1>2, <1>3, SlotsFinite, FS_AddElement, FS_RemoveElement

\* A request that gets, loses or keeps its slot of its key.
LEMMA KeySlotsMove ==
    ASSUME pc \in [Requests -> Labels], NEW r \in Requests, NEW l, Goto(r, l)
    PROVE  /\ pc[r] \notin KeyLabels /\ l \in KeyLabels
              => Cardinality(KeySlots(KeyOf[r])') = Cardinality(KeySlots(KeyOf[r])) + 1
           /\ pc[r] \in KeyLabels /\ l \notin KeyLabels
              => Cardinality(KeySlots(KeyOf[r])') = Cardinality(KeySlots(KeyOf[r])) - 1
           /\ (pc[r] \in KeyLabels <=> l \in KeyLabels)
              => KeySlots(KeyOf[r])' = KeySlots(KeyOf[r])
           /\ \A k \in Keys : k # KeyOf[r] => KeySlots(k)' = KeySlots(k)
<1> DEFINE K == KeySlots(KeyOf[r])
<1>0. KeyOf[r] \in Keys
  BY DEF Keys
<1>1. pc[r] \notin KeyLabels /\ l \in KeyLabels => r \notin K /\ K' = K \cup {r}
  BY DEF Goto, KeySlots
<1>2. pc[r] \in KeyLabels /\ l \notin KeyLabels => r \in K /\ K' = K \ {r}
  BY DEF Goto, KeySlots
<1>3. (pc[r] \in KeyLabels <=> l \in KeyLabels) => K' = K
  BY DEF Goto, KeySlots
<1>4. \A k \in Keys : k # KeyOf[r] => KeySlots(k)' = KeySlots(k)
  BY DEF Goto, KeySlots
<1>5. IsFiniteSet(K)
  BY <1>0, SlotsFinite
<1> QED BY <1>1, <1>2, <1>3, <1>4, <1>5, FS_AddElement, FS_RemoveElement

\* The counted sets are not empty while a request is in them.
LEMMA SlotUsed ==
    ASSUME NEW r \in Requests
    PROVE  /\ pc[r] \in SlotLabels => Cardinality(Slots) > 0
           /\ pc[r] \in KeyLabels => Cardinality(KeySlots(KeyOf[r])) > 0
<1>1. /\ pc[r] \in SlotLabels => Slots # {}
      /\ pc[r] \in KeyLabels => KeySlots(KeyOf[r]) # {}
      /\ KeyOf[r] \in Keys
  BY DEF Slots, KeySlots, Keys
<1> QED BY <1>1, SlotsFinite, FS_EmptySet

-----------------------------------------------------------------------------
(* The counters are exact and within the limits *)

LEMMA InitAdmission == Init => AdmissionInv
<1> SUFFICES ASSUME Init PROVE AdmissionInv
  OBVIOUS
<1>1. Slots = {} /\ \A k \in Keys : KeySlots(k) = {}
  BY DEF Init, Slots, KeySlots, SlotLabels, KeyLabels, InHandle
<1> QED BY <1>1, FS_EmptySet, GatewayAssumption DEF Init, AdmissionInv, SlotsCounted, ConnCap, KeyCap

LEMMA NextAdmission == TypeOK /\ AdmissionInv /\ [Next]_vars => AdmissionInv'
<1> SUFFICES ASSUME TypeOK, AdmissionInv, [Next]_vars PROVE AdmissionInv'
  OBVIOUS
<1>1. CASE UNCHANGED vars
  BY <1>1 DEF vars, AdmissionInv, SlotsCounted, ConnCap, KeyCap, Slots, KeySlots
<1>2. ASSUME NEW r \in Requests, Step(r) PROVE AdmissionInv'
  <2> DEFINE kr == KeyOf[r]
  <2>0. /\ pc \in [Requests -> Labels] /\ conns \in Nat /\ adm \in [Keys -> Nat]
        /\ kr \in Keys /\ MaxConns[r] \in Nat /\ PerKeyLimit \in Nat
        /\ \A s \in Requests : MaxConns[s] \in Nat
    BY GatewayAssumption DEF TypeOK, Keys
  <2>1. /\ conns = Cardinality(Slots)
        /\ \A k \in Keys : adm[k] = Cardinality(KeySlots(k))
        /\ ConnCap /\ KeyCap
    BY DEF AdmissionInv, SlotsCounted
  <2>2. ASSUME conns' = Cardinality(Slots'), ConnCap',
               adm' \in [Keys -> Nat],
               \A k \in Keys : k # kr => adm'[k] = adm[k] /\ KeySlots(k)' = KeySlots(k),
               adm'[kr] = Cardinality(KeySlots(kr)'), adm'[kr] <= PerKeyLimit
        PROVE  AdmissionInv'
    <3>1. \A k \in Keys : adm'[k] = Cardinality(KeySlots(k)')
      BY <2>1, <2>2
    <3>2. \A k \in Keys : adm'[k] <= PerKeyLimit
      BY <2>1, <2>2 DEF KeyCap
    <3> QED BY <2>2, <3>1, <3>2 DEF AdmissionInv, SlotsCounted, KeyCap
  <2>3. ASSUME conns' \in Nat, conns' <= conns PROVE ConnCap'
    BY <2>0, <2>1, <2>3 DEF ConnCap
  <2> USE DEF SlotLabels, KeyLabels, InHandle
  <2>4. CASE Authenticate(r)
    <3>1. PICK l \in {"refused", "auth"} : Goto(r, l)
      BY <2>4 DEF Authenticate
    <3>2. pc[r] = "new" /\ UNCHANGED <<conns, adm>>
      BY <2>4 DEF Authenticate
    <3>3. Slots' = Slots /\ \A k \in Keys : KeySlots(k)' = KeySlots(k)
      BY <2>0, <3>1, <3>2, SlotsMove, KeySlotsMove
    <3> QED BY <2>0, <2>1, <2>2, <2>3, <3>2, <3>3 DEF KeyCap
  <2>5. CASE TryAdmit(r)
    <3>1. pc[r] = "auth" /\ UNCHANGED adm
      BY <2>5 DEF TryAdmit
    <3>2. CASE MaxConns[r] > 0 /\ conns >= MaxConns[r]
      <4>1. Goto(r, "refused") /\ UNCHANGED conns
        BY <2>5, <3>2 DEF TryAdmit
      <4>2. Slots' = Slots /\ \A k \in Keys : KeySlots(k)' = KeySlots(k)
        BY <2>0, <3>1, <4>1, SlotsMove, KeySlotsMove
      <4> QED BY <2>0, <2>1, <2>2, <2>3, <3>1, <4>1, <4>2 DEF KeyCap
    <3>3. CASE ~(MaxConns[r] > 0 /\ conns >= MaxConns[r])
      <4>1. Goto(r, "key") /\ conns' = conns + 1
        BY <2>5, <3>3 DEF TryAdmit
      <4>2. /\ Cardinality(Slots') = Cardinality(Slots) + 1
            /\ \A k \in Keys : KeySlots(k)' = KeySlots(k)
        BY <2>0, <3>1, <4>1, SlotsMove, KeySlotsMove
      <4>3. ConnCap'
        BY <2>0, <3>3, <4>1 DEF ConnCap
      <4> QED BY <2>0, <2>1, <2>2, <3>1, <4>1, <4>2, <4>3 DEF KeyCap
    <3> QED BY <3>2, <3>3
  <2>6. CASE KeyAdmit(r)
    <3>1. pc[r] = "key" /\ UNCHANGED conns
      BY <2>6 DEF KeyAdmit
    <3>2. CASE adm[kr] >= PerKeyLimit
      <4>1. Goto(r, "undo") /\ UNCHANGED adm
        BY <2>6, <3>2 DEF KeyAdmit
      <4>2. Slots' = Slots /\ \A k \in Keys : KeySlots(k)' = KeySlots(k)
        BY <2>0, <3>1, <4>1, SlotsMove, KeySlotsMove
      <4> QED BY <2>0, <2>1, <2>2, <2>3, <3>1, <4>1, <4>2 DEF KeyCap
    <3>3. CASE ~(adm[kr] >= PerKeyLimit)
      <4>1. Goto(r, "checks") /\ adm' = [adm EXCEPT ![kr] = @ + 1]
        BY <2>6, <3>3 DEF KeyAdmit
      <4>2. /\ Slots' = Slots
            /\ Cardinality(KeySlots(kr)') = Cardinality(KeySlots(kr)) + 1
            /\ \A k \in Keys : k # kr => KeySlots(k)' = KeySlots(k)
        BY <2>0, <3>1, <4>1, SlotsMove, KeySlotsMove
      <4>3. /\ adm' \in [Keys -> Nat]
            /\ \A k \in Keys : k # kr => adm'[k] = adm[k]
            /\ adm'[kr] = adm[kr] + 1 /\ adm'[kr] <= PerKeyLimit
        BY <2>0, <3>3, <4>1
      <4> QED BY <2>0, <2>1, <2>2, <2>3, <3>1, <4>2, <4>3
    <3> QED BY <3>2, <3>3
  <2>7. CASE UndoAdmit(r)
    <3>1. pc[r] = "undo" /\ Goto(r, "refused") /\ UNCHANGED adm
      BY <2>7 DEF UndoAdmit
    <3>2. /\ Cardinality(Slots') = Cardinality(Slots) - 1
          /\ \A k \in Keys : KeySlots(k)' = KeySlots(k)
      BY <2>0, <3>1, SlotsMove, KeySlotsMove
    <3>3. conns' = conns - 1 /\ conns' \in Nat
      BY <2>0, <2>1, <2>7, <3>1, SlotUsed DEF UndoAdmit, ConnDec, Floor0
    <3> QED BY <2>0, <2>1, <2>2, <2>3, <3>1, <3>2, <3>3 DEF KeyCap
  <2>8. CASE Inner(r)
    <3>1. PICK l \in InHandle \cup {"unconn"} : Goto(r, l)
      BY <2>8 DEF Inner, Goto
    <3>2. pc[r] \in InHandle /\ UNCHANGED <<conns, adm>>
      BY <2>8 DEF Inner
    <3>3. Slots' = Slots /\ \A k \in Keys : KeySlots(k)' = KeySlots(k)
      BY <2>0, <3>1, <3>2, SlotsMove, KeySlotsMove
    <3> QED BY <2>0, <2>1, <2>2, <2>3, <3>2, <3>3 DEF KeyCap
  <2>9. CASE ReleaseConn(r)
    <3>1. pc[r] = "unconn" /\ Goto(r, "unkey") /\ UNCHANGED adm
      BY <2>9 DEF ReleaseConn
    <3>2. /\ Cardinality(Slots') = Cardinality(Slots) - 1
          /\ \A k \in Keys : KeySlots(k)' = KeySlots(k)
      BY <2>0, <3>1, SlotsMove, KeySlotsMove
    <3>3. conns' = conns - 1 /\ conns' \in Nat
      BY <2>0, <2>1, <2>9, <3>1, SlotUsed DEF ReleaseConn, ConnDec, Floor0
    <3> QED BY <2>0, <2>1, <2>2, <2>3, <3>1, <3>2, <3>3 DEF KeyCap
  <2>10. CASE ReleaseKey(r)
    <3>1. pc[r] = "unkey" /\ Goto(r, "done") /\ UNCHANGED conns
      BY <2>10 DEF ReleaseKey
    <3>2. /\ Slots' = Slots
          /\ Cardinality(KeySlots(kr)') = Cardinality(KeySlots(kr)) - 1
          /\ \A k \in Keys : k # kr => KeySlots(k)' = KeySlots(k)
      BY <2>0, <3>1, SlotsMove, KeySlotsMove
    <3>3. adm[kr] > 0
      BY <2>0, <2>1, <3>1, SlotUsed
    <3>4. /\ adm' \in [Keys -> Nat]
          /\ \A k \in Keys : k # kr => adm'[k] = adm[k]
          /\ adm'[kr] = adm[kr] - 1 /\ adm'[kr] <= PerKeyLimit
      BY <2>0, <2>1, <2>10, <3>3 DEF ReleaseKey, Floor0, KeyCap
    <3> QED BY <2>0, <2>1, <2>2, <2>3, <3>1, <3>2, <3>4
  <2> QED BY <1>2, <2>4, <2>5, <2>6, <2>7, <2>8, <2>9, <2>10, StepKinds
<1> QED BY <1>1, <1>2 DEF Next, Quiescent

\* Every interleaving of admissions, refusals, panics and releases keeps both
\* counters equal to the requests that hold a slot, and within the limits.
THEOREM AdmissionInvThm == Spec => [](TypeOK /\ AdmissionInv)
<1>1. TypeOK /\ AdmissionInv /\ [Next]_vars => (TypeOK /\ AdmissionInv)'
  BY NextType, NextAdmission
<1> QED BY <1>1, InitType, InitAdmission, PTL DEF Spec

\* acquireConn and releaseConn neither leak nor free twice a slot.
THEOREM SlotsCountedThm == Spec => []SlotsCounted
<1>1. TypeOK /\ AdmissionInv => SlotsCounted
  BY DEF AdmissionInv
<1> QED BY <1>1, AdmissionInvThm, PTL

-----------------------------------------------------------------------------
(* The admission implements Admission *)

\* Admission counts with the same operator.
LEMMA SameCardinality == \A S : Abstract!Cardinality(S) = Cardinality(S)
BY DEF Abstract!Cardinality, Cardinality

\* A request that becomes, ceases to be or stays a holder.
LEMMA HoldersMove ==
    ASSUME pc \in [Requests -> Labels], NEW r \in Requests, NEW l, Goto(r, l)
    PROVE  LET H == {"unconn"} \cup InHandle IN
           /\ l \in H => Holders' = Holders \cup {r}
           /\ l \notin H => Holders' = Holders \ {r}
           /\ (pc[r] \in H <=> r \in Holders)
BY DEF Goto, Holders

\* A request between the two gates is counted in conns and not a holder: there
\* is room for it.
LEMMA RoomAtKey ==
    ASSUME TypeOK, AdmissionInv, NEW r \in Requests, pc[r] = "key"
    PROVE  Abstract!Room
<1>1. r \in Slots /\ Holders \subseteq Slots \ {r}
  BY DEF Slots, Holders, SlotLabels, InHandle
<1>2. IsFiniteSet(Slots \ {r}) /\ Cardinality(Slots \ {r}) = conns - 1
  BY <1>1, SlotsFinite, FS_RemoveElement DEF AdmissionInv, SlotsCounted
<1>3. Cardinality(Holders) \in Nat /\ Cardinality(Holders) <= conns - 1
  BY <1>1, <1>2, SlotsFinite, FS_Subset
<1>4. conns \in Nat /\ \A s \in Requests : MaxConns[s] \in Nat
  BY GatewayAssumption DEF TypeOK
<1>5. PICK s \in Requests : MaxConns[s] = 0 \/ conns <= MaxConns[s]
  BY <1>3, <1>4 DEF AdmissionInv, ConnCap
<1>6. MaxConns[s] = 0 \/ Cardinality(Holders) < MaxConns[s]
  BY <1>3, <1>4, <1>5
<1> QED BY <1>6, SameCardinality DEF Abstract!Room

\* The holders of a key are counted in its counter.
LEMMA HoldersOfKey ==
    ASSUME TypeOK, AdmissionInv, NEW r \in Requests
    PROVE  /\ Cardinality(Abstract!SameKey(r)) \in Nat
           /\ Cardinality(Abstract!SameKey(r)) <= adm[KeyOf[r]]
<1>1. Abstract!SameKey(r) \subseteq KeySlots(KeyOf[r])
  BY DEF Abstract!SameKey, Holders, KeySlots, KeyLabels, InHandle
<1>2. KeyOf[r] \in Keys
  BY DEF Keys
<1> QED BY <1>1, <1>2, SlotsFinite, FS_Subset, FS_CardinalityType DEF AdmissionInv, SlotsCounted

\* Every step of the gateway is a step of Admission or leaves its holders alone.
LEMMA StepRefines ==
    ASSUME TypeOK, AdmissionInv, [Next]_vars
    PROVE  [Abstract!Next]_Holders
<1> USE DEF InHandle
<1>0. pc \in [Requests -> Labels] /\ adm \in [Keys -> Nat] /\ PerKeyLimit \in Nat
  BY GatewayAssumption DEF TypeOK
<1>1. CASE UNCHANGED vars
  BY <1>1 DEF vars, Holders
<1>2. ASSUME NEW r \in Requests, Step(r) PROVE [Abstract!Next]_Holders
  <2>1. CASE Authenticate(r)
    <3>1. PICK l \in {"refused", "auth"} : Goto(r, l)
      BY <2>1 DEF Authenticate
    <3> QED BY <1>0, <2>1, <3>1, HoldersMove DEF Authenticate
  <2>2. CASE TryAdmit(r)
    <3>1. PICK l \in {"refused", "key"} : Goto(r, l)
      BY <2>2 DEF TryAdmit
    <3> QED BY <1>0, <2>2, <3>1, HoldersMove DEF TryAdmit
  <2>3. CASE KeyAdmit(r)
    <3>1. CASE adm[KeyOf[r]] >= PerKeyLimit
      BY <1>0, <2>3, <3>1, HoldersMove DEF KeyAdmit
    <3>2. CASE ~(adm[KeyOf[r]] >= PerKeyLimit)
      <4>1. pc[r] = "key" /\ Goto(r, "checks")
        BY <2>3, <3>2 DEF KeyAdmit
      <4>2. r \notin Holders /\ Holders' = Holders \cup {r}
        BY <1>0, <4>1, HoldersMove
      <4>3. KeyOf[r] \in Keys
        BY DEF Keys
      <4>4. Cardinality(Abstract!SameKey(r)) < PerKeyLimit
        BY <1>0, <3>2, <4>3, HoldersOfKey
      <4>5. Abstract!Acquire(r)
        BY <4>1, <4>2, <4>4, RoomAtKey, SameCardinality DEF Abstract!Acquire
      <4> QED BY <4>5 DEF Abstract!Next
    <3> QED BY <3>1, <3>2
  <2>4. CASE UndoAdmit(r)
    BY <1>0, <2>4, HoldersMove DEF UndoAdmit
  <2>5. CASE Inner(r)
    <3>1. PICK l \in InHandle \cup {"unconn"} : Goto(r, l)
      BY <2>5 DEF Inner, Goto
    <3> QED BY <1>0, <2>5, <3>1, HoldersMove DEF Inner
  <2>6. CASE ReleaseConn(r)
    <3>1. r \in Holders /\ Holders' = Holders \ {r}
      BY <1>0, <2>6, HoldersMove DEF ReleaseConn
    <3> QED BY <3>1 DEF Abstract!Next, Abstract!Leave
  <2>7. CASE ReleaseKey(r)
    BY <1>0, <2>7, HoldersMove DEF ReleaseKey
  <2> QED BY <1>2, <2>1, <2>2, <2>3, <2>4, <2>5, <2>6, <2>7, StepKinds
<1> QED BY <1>1, <1>2 DEF Next, Quiescent

\* The two critical sections of acquireConn and the two of releaseConn
\* implement the atomic admission of Admission.
THEOREM Refinement == Spec => AdmissionRefined
<1>1. Init => Abstract!Init
  BY DEF Init, Abstract!Init, Holders, InHandle
<1>2. TypeOK /\ AdmissionInv /\ [Next]_vars => [Abstract!Next]_Holders
  BY StepRefines
<1> QED BY <1>1, <1>2, AdmissionInvThm, PTL DEF Spec, AdmissionRefined, Abstract!Spec

-----------------------------------------------------------------------------
(* One call: what holds of its locals at each label *)

Before == {"new", "auth", "key", "undo", "checks", "refused"}
Closed == {"unconn", "unkey", "done"}

\* The history of the attempts: only the upstreams tried have a verdict, the
\* current one is the last tried, and the others have failed.
History(c) ==
    /\ c.up \subseteq c.tried
    /\ \A p \in Providers : c.verdict[p] # "none" => p \in c.tried
    /\ \A p \in c.tried \ c.up : c.verdict[p] = "failure"
    /\ \A p \in Providers : c.verdict[p] = "success" => p \in c.up /\ c.accepted
    /\ Cardinality(c.tried) \in Nat
    /\ Cardinality(c.tried) <= MaxAttempts

\* No answer has been judged yet, and an error is that of a failed attempt.
Trying(c) ==
    /\ c.res = "open"
    /\ ~c.panicked
    /\ \A p \in Providers : c.verdict[p] # "success"
    /\ c.err => \E p \in Providers : c.verdict[p] = "failure"

\* An upstream is at work and has not been judged.
Serving(c) ==
    /\ c.up # {}
    /\ \A p \in c.up : c.verdict[p] = "none"

\* BlockedStream of a call's locals.
Blocked(r, c) ==
    /\ r \in Streaming
    /\ c.status = "blocked"
    /\ \A p \in c.up : c.verdict[p] # "success"

\* The receipt of a call that has left Handle: unpaid before Release, then refunded.
Receipt(r, c, unpaid) ==
    c.res # "nil" /\ ~c.panicked =>
        c.res = IF c.accepted /\ ~AllFailed(c) /\ ~Blocked(r, c) THEN "settled" ELSE unpaid

\* What was settled was used: its upstream has not been reported as failed.
Kept(c) == c.res = "settled" => \A p \in c.up : c.verdict[p] # "failure"

\* A call that ends as an error after an upstream delivered it met a failure.
ErrorCaused(c) ==
    /\ ~c.panicked /\ c.status = "error"
    /\ \E p \in Providers : c.verdict[p] = "success"
    => \E p \in Providers : c.verdict[p] = "failure"

CallAt(r, l, c) ==
    /\ History(c)
    /\ l \in Before => c = NewCall
    /\ l \in {"pick", "forward", "stream"} => Trying(c)
    /\ l = "pick" => /\ c.replies = 0
                     /\ Cardinality(c.tried) = c.attempt
                     /\ \A p \in c.tried : c.verdict[p] = "failure"
    /\ l = "forward" => /\ c.replies = 0
                        /\ Cardinality(c.tried) = c.attempt + 1
                        /\ Serving(c)
    /\ l = "stream" => /\ r \in Streaming
                       /\ c.replies = 1 /\ c.accepted
                       /\ Serving(c)
    /\ l \in {"closing"} \cup Closed => c.replies = 1 /\ ErrorCaused(c) /\ Kept(c)
    /\ l = "closing" => c.res # "released" /\ Receipt(r, c, "open")
    /\ l \in Closed => Receipt(r, c, "released")

CallInv == \A r \in Requests : CallAt(r, pc[r], call[r])

\* What a verdict for the current upstream and a settlement leave alone.
LEMMA NoteFields ==
    ASSUME NEW c \in Call, NEW v \in Verdicts
    PROVE  LET n == Note(c, v) IN
           /\ n \in Call
           /\ n.status = c.status /\ n.err = c.err /\ n.res = c.res /\ n.tried = c.tried
           /\ n.attempt = c.attempt /\ n.up = c.up /\ n.replies = c.replies
           /\ n.accepted = c.accepted /\ n.panicked = c.panicked
           /\ \A p \in c.up : n.verdict[p] = v
           /\ \A p \in Providers \ c.up : n.verdict[p] = c.verdict[p]
<1>1. [p \in Providers |-> IF p \in c.up THEN v ELSE c.verdict[p]] \in [Providers -> Verdicts]
  BY DEF Call
<1>2. c.up \subseteq Providers
  BY DEF Call
<1> QED BY <1>1, <1>2 DEF Note, Call

LEMMA SettledFields ==
    ASSUME NEW c \in Call
    PROVE  LET n == Settled(c) IN
           /\ n \in Call
           /\ n.res = IF c.res = "open" THEN "settled" ELSE c.res
           /\ n.status = c.status /\ n.err = c.err /\ n.tried = c.tried
           /\ n.attempt = c.attempt /\ n.up = c.up /\ n.replies = c.replies
           /\ n.accepted = c.accepted /\ n.panicked = c.panicked /\ n.verdict = c.verdict
BY DEF Settled, Call

\* A step that moves and writes one request leaves the others as they are.
LEMMA MoveCall ==
    ASSUME TypeOK, CallInv, NEW r \in Requests, NEW l, NEW d,
           Goto(r, l), call' = [call EXCEPT ![r] = d], CallAt(r, l, d)
    PROVE  CallInv'
<1>1. \A s \in Requests : pc'[s] = (IF s = r THEN l ELSE pc[s])
                          /\ call'[s] = (IF s = r THEN d ELSE call[s])
  BY DEF TypeOK, Goto
<1>2. \A s \in Requests : CallAt(s, pc'[s], call'[s])
  BY <1>1 DEF CallInv
<1> QED BY <1>2 DEF CallInv

\* A call that has not begun its attempts.
LEMMA NewHistory ==
    /\ NewCall \in Call
    /\ History(NewCall)
    /\ Cardinality(NewCall.tried) = 0 /\ NewCall.attempt = 0 /\ NewCall.replies = 0
    /\ MaxAttempts \in Nat
    /\ \A c : History(c) => \A p \in Providers : c.verdict[p] = "success" => c.accepted
<1>1. MaxAttempts \in Nat
  BY GatewayAssumption DEF MaxAttempts
<1>2. NewCall \in Call
  BY DEF NewCall, Call, Early, Verdicts
<1>3. Cardinality(NewCall.tried) = 0
  BY FS_EmptySet DEF NewCall
<1> QED BY <1>1, <1>2, <1>3 DEF NewCall, History

LEMMA InitCall == Init => CallInv
<1> SUFFICES ASSUME Init, NEW r \in Requests PROVE CallAt(r, pc[r], call[r])
  BY DEF CallInv
<1>1. pc[r] = "new" /\ call[r] = NewCall
  BY DEF Init
<1> QED BY <1>1, NewHistory DEF CallAt, Before, Closed

\* One step of a request keeps what its label says of its call.
LEMMA StepCall ==
    ASSUME TypeOK, CallInv, NEW r \in Requests, Step(r)
    PROVE  CallInv'
<1> DEFINE c == call[r]
<1>0. /\ c \in Call /\ CallAt(r, pc[r], c)
      /\ pc \in [Requests -> Labels] /\ call = [call EXCEPT ![r] = c]
  BY DEF TypeOK, CallInv
<1>a. ASSUME NEW l, NEW d, Goto(r, l), call' = [call EXCEPT ![r] = d], CallAt(r, l, d)
      PROVE  CallInv'
  BY <1>a, MoveCall
<1>b. MaxAttempts \in Nat
  BY NewHistory
<1>c. "failure" \in Verdicts /\ "success" \in Verdicts
  BY DEF Verdicts
<1> HIDE DEF c
\* Before the first attempt.
<1>1. ASSUME NEW l \in {"auth", "key", "checks", "undo", "refused"}, Goto(r, l),
             pc[r] \in {"new", "auth", "key", "undo"}, UNCHANGED call
      PROVE  CallInv'
  <2>1. CallAt(r, l, c)
    BY <1>0, <1>1 DEF CallAt, Before, Closed
  <2> QED BY <1>0, <1>1, <1>a, <2>1
<1>2. ASSUME pc[r] = "checks" PROVE c = NewCall
  BY <1>0, <1>2 DEF CallAt, Before
<1>3. ASSUME NEW st \in Early, RejectEarly(r, st) PROVE CallInv'
  <2> DEFINE d == [[NewCall EXCEPT !.status = st, !.err = (st = "error")]
                     EXCEPT !.replies = @ + 1]
  <2>1. call' = [call EXCEPT ![r] = d] /\ Goto(r, "closing")
    BY <1>2, <1>3 DEF RejectEarly, Reply, c
  <2>2. /\ d.res = "nil" /\ d.replies = 1 /\ ~d.accepted /\ d.up = {} /\ d.tried = {}
        /\ \A p \in Providers : d.verdict[p] = "none"
    BY DEF NewCall
  <2>3. CallAt(r, "closing", d)
    <3> HIDE DEF d
    <3> QED BY <2>2, <1>b, FS_EmptySet DEF CallAt, Before, Closed, History, Receipt, Kept, ErrorCaused
  <2> QED BY <1>a, <2>1, <2>3
<1>4. CASE CountTokens(r)
  <2> DEFINE d == [NewCall EXCEPT !.replies = @ + 1]
  <2>1. call' = [call EXCEPT ![r] = d] /\ Goto(r, "unconn")
    BY <1>2, <1>4 DEF CountTokens, c
  <2>2. /\ d.res = "nil" /\ d.replies = 1 /\ ~d.accepted /\ d.up = {} /\ d.tried = {}
        /\ \A p \in Providers : d.verdict[p] = "none"
    BY DEF NewCall
  <2>3. CallAt(r, "unconn", d)
    <3> HIDE DEF d
    <3> QED BY <2>2, <1>b, FS_EmptySet DEF CallAt, Before, Closed, History, Receipt, Kept, ErrorCaused
  <2> QED BY <1>a, <2>1, <2>3
<1>5. CASE Admitted(r)
  <2> DEFINE d == [NewCall EXCEPT !.res = "open"]
  <2>1. call' = [call EXCEPT ![r] = d] /\ Goto(r, "pick")
    BY <1>2, <1>5 DEF Admitted, c
  <2>2. /\ d.res = "open" /\ d.replies = 0 /\ ~d.accepted /\ ~d.panicked /\ ~d.err
        /\ d.up = {} /\ d.tried = {} /\ d.attempt = 0
        /\ \A p \in Providers : d.verdict[p] = "none"
    BY DEF NewCall
  <2>3. CallAt(r, "pick", d)
    <3> HIDE DEF d
    <3> QED BY <2>2, <1>b, FS_EmptySet DEF CallAt, Before, Closed, History, Trying
  <2> QED BY <1>a, <2>1, <2>3
\* The attempts.
<1>6. ASSUME NEW p \in Providers, Pick(r, p) PROVE CallInv'
  <2> DEFINE d == [c EXCEPT !.tried = @ \cup {p}, !.up = {p}]
  <2>1. call' = [call EXCEPT ![r] = d] /\ Goto(r, "forward")
    BY <1>6 DEF Pick, c
  <2>2. /\ d.tried = c.tried \cup {p} /\ d.up = {p}
        /\ d.res = c.res /\ d.panicked = c.panicked /\ d.verdict = c.verdict /\ d.err = c.err
        /\ d.replies = c.replies /\ d.accepted = c.accepted /\ d.attempt = c.attempt
    BY <1>0 DEF Call
  <2>3. /\ History(c) /\ Trying(c) /\ c.replies = 0
        /\ Cardinality(c.tried) = c.attempt /\ \A q \in c.tried : c.verdict[q] = "failure"
        /\ p \notin c.tried /\ c.attempt < MaxAttempts
    BY <1>0, <1>6 DEF Pick, CallAt, c
  <2>4. c.tried \subseteq Providers /\ IsFiniteSet(c.tried) /\ c.attempt \in Nat
    BY <1>0, GatewayAssumption, FS_Subset DEF Call
  <2>5. Cardinality(d.tried) = c.attempt + 1
    BY <2>2, <2>3, <2>4, FS_AddElement
  <2> HIDE DEF d
  <2>6. Serving(d)
    BY <2>2, <2>3 DEF Serving, History, Trying, Call
  <2>7. History(d) /\ Trying(d)
    BY <1>b, <2>2, <2>3, <2>4, <2>5 DEF History, Trying
  <2>8. CallAt(r, "forward", d)
    BY <2>2, <2>3, <2>5, <2>6, <2>7 DEF CallAt, Before, Closed
  <2> QED BY <1>a, <2>1, <2>8
<1>7. CASE Exhausted(r)
  <2> DEFINE d == [[c EXCEPT !.status = "error", !.err = TRUE] EXCEPT !.replies = @ + 1]
  <2>1. call' = [call EXCEPT ![r] = d] /\ Goto(r, "closing") /\ pc[r] = "pick"
    BY <1>7 DEF Exhausted, Reply, c
  <2>2. /\ d.tried = c.tried /\ d.up = c.up /\ d.res = c.res /\ d.panicked = c.panicked
        /\ d.verdict = c.verdict /\ d.replies = c.replies + 1 /\ d.accepted = c.accepted
    BY <1>0 DEF Call
  <2>3. /\ History(c) /\ Trying(c) /\ c.replies = 0
        /\ \A p \in c.tried : c.verdict[p] = "failure"
    BY <1>0, <2>1 DEF CallAt
  <2> HIDE DEF d
  <2>4. CallAt(r, "closing", d)
    BY <2>2, <2>3 DEF CallAt, Before, Closed, History, Trying, Receipt, AllFailed, Kept, ErrorCaused
  <2> QED BY <1>a, <2>1, <2>4
<1>d. ASSUME pc[r] = "forward"
      PROVE  /\ History(c) /\ Trying(c) /\ Serving(c) /\ c.replies = 0
             /\ Cardinality(c.tried) = c.attempt + 1
             /\ c.up \subseteq Providers /\ c.tried \subseteq Providers /\ c.attempt \in Nat
  BY <1>0, <1>d DEF CallAt, Call
\* Another upstream, whether or not this one took the call.
<1>g. ASSUME NEW b \in BOOLEAN, pc[r] = "forward", Goto(r, "pick"),
             call' = [call EXCEPT ![r] = [Note(c, "failure") EXCEPT !.err = TRUE, !.attempt = @ + 1,
                                                                    !.accepted = b]]
      PROVE  CallInv'
  <2> DEFINE n == Note(c, "failure")
             d == [n EXCEPT !.err = TRUE, !.attempt = @ + 1, !.accepted = b]
  <2>1. call' = [call EXCEPT ![r] = d]
    BY <1>g
  <2>2. /\ n \in Call /\ n.res = c.res /\ n.tried = c.tried /\ n.attempt = c.attempt
        /\ n.up = c.up /\ n.replies = c.replies
        /\ n.panicked = c.panicked /\ \A p \in c.up : n.verdict[p] = "failure"
        /\ \A p \in Providers \ c.up : n.verdict[p] = c.verdict[p]
    BY <1>0, <1>c, NoteFields
  <2> HIDE DEF n
  <2>3. /\ d.res = n.res /\ d.tried = n.tried /\ d.attempt = n.attempt + 1
        /\ d.up = n.up /\ d.replies = n.replies
        /\ d.panicked = n.panicked /\ d.verdict = n.verdict
    BY <2>2 DEF Call
  <2> HIDE DEF d
  <2>4. /\ History(c) /\ Trying(c) /\ Serving(c) /\ c.replies = 0
        /\ Cardinality(c.tried) = c.attempt + 1
        /\ c.up \subseteq Providers /\ c.tried \subseteq Providers /\ c.attempt \in Nat
    BY <1>d, <1>g
  <2>5. \A p \in Providers : d.verdict[p] = IF p \in c.up THEN "failure" ELSE c.verdict[p]
    BY <2>2, <2>3
  <2>9. \A p \in Providers : d.verdict[p] # "success"
    BY <2>4, <2>5 DEF Trying
  <2>6. History(d) /\ \A p \in d.tried : d.verdict[p] = "failure"
    BY <2>2, <2>3, <2>4, <2>5, <2>9 DEF History
  <2>7. Trying(d)
    BY <2>2, <2>3, <2>4, <2>5, <2>9 DEF Trying, Serving
  <2>8. CallAt(r, "pick", d)
    BY <2>2, <2>3, <2>4, <2>6, <2>7 DEF CallAt, Before, Closed
  <2> QED BY <1>a, <1>g, <2>1, <2>8
<1>8. CASE AttemptFails(r)
  <2>1. /\ pc[r] = "forward" /\ Goto(r, "pick")
        /\ call' = [call EXCEPT ![r] = [Note(c, "failure") EXCEPT !.err = TRUE, !.attempt = @ + 1]]
    BY <1>8 DEF AttemptFails, c
  <2>2. Note(c, "failure") \in Call
    BY <1>0, <1>c, NoteFields
  <2>3. ASSUME NEW n \in Call
        PROVE  /\ n.accepted \in BOOLEAN
               /\ [n EXCEPT !.err = TRUE, !.attempt = @ + 1]
                     = [n EXCEPT !.err = TRUE, !.attempt = @ + 1, !.accepted = n.accepted]
    BY DEF Call
  <2> QED BY <1>g, <2>1, <2>2, <2>3
<1>22. CASE BodyUnreadable(r)
  BY <1>g, <1>22 DEF BodyUnreadable, c
<1>9. CASE UpstreamRefuses(r)
  <2> DEFINE n == [c EXCEPT !.status = "error", !.err = TRUE, !.accepted = TRUE]
             m == Settled(n)
             d == [m EXCEPT !.replies = @ + 1]
  <2>1. call' = [call EXCEPT ![r] = d] /\ Goto(r, "closing") /\ pc[r] = "forward"
    BY <1>9 DEF UpstreamRefuses, Reply, c
  <2>2. /\ n \in Call /\ n.res = c.res /\ n.tried = c.tried /\ n.up = c.up
        /\ n.replies = c.replies /\ n.accepted /\ n.status = "error"
        /\ n.panicked = c.panicked /\ n.verdict = c.verdict
    BY <1>0 DEF Call, Early
  <2> HIDE DEF n
  <2>3. /\ m \in Call /\ m.res = (IF n.res = "open" THEN "settled" ELSE n.res)
        /\ m.tried = n.tried /\ m.up = n.up /\ m.replies = n.replies /\ m.accepted = n.accepted
        /\ m.panicked = n.panicked /\ m.verdict = n.verdict /\ m.status = n.status
    BY <2>2, SettledFields
  <2> HIDE DEF m
  <2>4. /\ d.res = m.res /\ d.tried = m.tried /\ d.up = m.up /\ d.replies = m.replies + 1
        /\ d.accepted = m.accepted /\ d.panicked = m.panicked /\ d.verdict = m.verdict
        /\ d.status = m.status
    BY <2>3 DEF Call
  <2> HIDE DEF d
  <2>5. CallAt(r, "closing", d)
    BY <1>d, <2>1, <2>2, <2>3, <2>4
       DEF CallAt, Before, Closed, History, Trying, Serving, Receipt, Blocked, AllFailed, Kept, ErrorCaused
  <2> QED BY <1>a, <2>1, <2>5
<1>10. CASE BufferedBlocked(r)
  <2> DEFINE n == [c EXCEPT !.status = "blocked", !.accepted = TRUE]
             m == Settled(n)
             d == [m EXCEPT !.replies = @ + 1]
  <2>1. /\ call' = [call EXCEPT ![r] = d] /\ Goto(r, "closing") /\ pc[r] = "forward"
        /\ r \notin Streaming
    BY <1>10 DEF BufferedBlocked, Reply, c
  <2>2. /\ n \in Call /\ n.res = c.res /\ n.tried = c.tried /\ n.up = c.up
        /\ n.replies = c.replies /\ n.accepted /\ n.status = "blocked"
        /\ n.panicked = c.panicked /\ n.verdict = c.verdict
    BY <1>0 DEF Call, Early
  <2> HIDE DEF n
  <2>3. /\ m \in Call /\ m.res = (IF n.res = "open" THEN "settled" ELSE n.res)
        /\ m.tried = n.tried /\ m.up = n.up /\ m.replies = n.replies /\ m.accepted = n.accepted
        /\ m.panicked = n.panicked /\ m.verdict = n.verdict /\ m.status = n.status
    BY <2>2, SettledFields
  <2> HIDE DEF m
  <2>4. /\ d.res = m.res /\ d.tried = m.tried /\ d.up = m.up /\ d.replies = m.replies + 1
        /\ d.accepted = m.accepted /\ d.panicked = m.panicked /\ d.verdict = m.verdict
        /\ d.status = m.status
    BY <2>3 DEF Call
  <2> HIDE DEF d
  <2>5. CallAt(r, "closing", d)
    BY <1>d, <2>1, <2>2, <2>3, <2>4
       DEF CallAt, Before, Closed, History, Trying, Serving, Receipt, Blocked, AllFailed, Kept, ErrorCaused
  <2> QED BY <1>a, <2>1, <2>5
<1>11. CASE BufferedDone(r)
  <2> DEFINE o == Note(c, "success")
             n == [o EXCEPT !.status = "ok", !.accepted = TRUE]
             m == Settled(n)
             d == [m EXCEPT !.replies = @ + 1]
  <2>1. call' = [call EXCEPT ![r] = d] /\ Goto(r, "closing") /\ pc[r] = "forward"
    BY <1>11 DEF BufferedDone, Reply, c
  <2>2. /\ o \in Call /\ o.res = c.res /\ o.tried = c.tried
        /\ o.up = c.up /\ o.replies = c.replies
        /\ o.panicked = c.panicked /\ \A p \in c.up : o.verdict[p] = "success"
        /\ \A p \in Providers \ c.up : o.verdict[p] = c.verdict[p]
    BY <1>0, <1>c, NoteFields
  <2> HIDE DEF o
  <2>3. /\ n \in Call /\ n.res = o.res /\ n.tried = o.tried /\ n.up = o.up
        /\ n.replies = o.replies /\ n.accepted /\ n.status = "ok"
        /\ n.panicked = o.panicked /\ n.verdict = o.verdict
    BY <2>2 DEF Call
  <2> HIDE DEF n
  <2>4. /\ m \in Call /\ m.res = (IF n.res = "open" THEN "settled" ELSE n.res)
        /\ m.tried = n.tried /\ m.up = n.up /\ m.replies = n.replies /\ m.accepted = n.accepted
        /\ m.panicked = n.panicked /\ m.verdict = n.verdict /\ m.status = n.status
    BY <2>3, SettledFields
  <2> HIDE DEF m
  <2>5. /\ d.res = m.res /\ d.tried = m.tried /\ d.up = m.up /\ d.replies = m.replies + 1
        /\ d.accepted = m.accepted /\ d.panicked = m.panicked /\ d.verdict = m.verdict
        /\ d.status = m.status
    BY <2>4 DEF Call
  <2> HIDE DEF d
  <2>6. \A p \in Providers : d.verdict[p] = IF p \in c.up THEN "success" ELSE c.verdict[p]
    BY <2>2, <2>3, <2>4, <2>5
  <2>7. History(d)
    BY <1>d, <2>1, <2>2, <2>3, <2>4, <2>5, <2>6 DEF History, Trying
  <2>8. ~AllFailed(d) /\ Kept(d)
    BY <1>d, <2>1, <2>2, <2>3, <2>4, <2>5, <2>6 DEF History, Serving, AllFailed, Kept
  <2>9. CallAt(r, "closing", d)
    BY <1>d, <2>1, <2>2, <2>3, <2>4, <2>5, <2>6, <2>7, <2>8
       DEF CallAt, Before, Closed, Trying, Receipt, Blocked, ErrorCaused
  <2> QED BY <1>a, <2>1, <2>9
<1>12. CASE StreamOpen(r)
  <2> DEFINE d == [c EXCEPT !.replies = @ + 1, !.accepted = TRUE]
  <2>1. /\ call' = [call EXCEPT ![r] = d] /\ Goto(r, "stream") /\ pc[r] = "forward"
        /\ r \in Streaming
    BY <1>12 DEF StreamOpen, c
  <2>2. /\ d.res = c.res /\ d.tried = c.tried /\ d.up = c.up /\ d.replies = c.replies + 1
        /\ d.accepted /\ d.panicked = c.panicked /\ d.verdict = c.verdict /\ d.err = c.err
    BY <1>0 DEF Call
  <2> HIDE DEF d
  <2>3. CallAt(r, "stream", d)
    BY <1>d, <2>1, <2>2 DEF CallAt, Before, Closed, History, Trying, Serving
  <2> QED BY <1>a, <2>1, <2>3
<1>e. ASSUME pc[r] = "stream"
      PROVE  /\ History(c) /\ Trying(c) /\ Serving(c) /\ c.replies = 1 /\ c.accepted
             /\ r \in Streaming
             /\ c.up \subseteq Providers /\ c.tried \subseteq Providers
  BY <1>0, <1>e DEF CallAt, Call
<1>13. CASE StreamFails(r)
  <2> DEFINE n == [c EXCEPT !.status = "error", !.err = TRUE]
             d == Settled(n)
  <2>1. call' = [call EXCEPT ![r] = d] /\ Goto(r, "closing") /\ pc[r] = "stream"
    BY <1>13 DEF StreamFails, EndStream, c
  <2>2. /\ n \in Call /\ n.res = c.res /\ n.tried = c.tried /\ n.up = c.up
        /\ n.replies = c.replies /\ n.accepted = c.accepted /\ n.status = "error"
        /\ n.panicked = c.panicked /\ n.verdict = c.verdict
    BY <1>0 DEF Call, Early
  <2> HIDE DEF n
  <2>3. /\ d.res = (IF n.res = "open" THEN "settled" ELSE n.res)
        /\ d.tried = n.tried /\ d.up = n.up /\ d.replies = n.replies /\ d.accepted = n.accepted
        /\ d.panicked = n.panicked /\ d.verdict = n.verdict /\ d.status = n.status
    BY <2>2, SettledFields
  <2> HIDE DEF d
  <2>4. CallAt(r, "closing", d)
    BY <1>e, <2>1, <2>2, <2>3
       DEF CallAt, Before, Closed, History, Trying, Serving, Receipt, Blocked, AllFailed, Kept, ErrorCaused
  <2> QED BY <1>a, <2>1, <2>4
<1>14. CASE StreamBlocked(r)
  <2> DEFINE d == [c EXCEPT !.status = "blocked"]
  <2>1. call' = [call EXCEPT ![r] = d] /\ Goto(r, "closing") /\ pc[r] = "stream"
    BY <1>14 DEF StreamBlocked, EndStream, c
  <2>2. /\ d.res = c.res /\ d.tried = c.tried /\ d.up = c.up
        /\ d.replies = c.replies /\ d.accepted = c.accepted /\ d.status = "blocked"
        /\ d.panicked = c.panicked /\ d.verdict = c.verdict
    BY <1>0 DEF Call, Early
  <2> HIDE DEF d
  <2>3. CallAt(r, "closing", d)
    BY <1>e, <2>1, <2>2
       DEF CallAt, Before, Closed, History, Trying, Serving, Receipt, Blocked, AllFailed, Kept, ErrorCaused
  <2> QED BY <1>a, <2>1, <2>3
\* The end of forwardStream: RecordSuccess, then the settlement.
<1>f. ASSUME NEW st, pc[r] = "stream", Goto(r, "closing"),
             st \in Early \cup {"ok"}, st = "error" => c.err,
             call' = [call EXCEPT ![r] = Settled([Note(c, "success") EXCEPT !.status = st])]
      PROVE  CallInv'
  <2> DEFINE o == Note(c, "success")
             n == [o EXCEPT !.status = st]
             d == Settled(n)
  <2>1. call' = [call EXCEPT ![r] = d]
    BY <1>f
  <2>2. /\ o \in Call /\ o.res = c.res /\ o.tried = c.tried
        /\ o.up = c.up /\ o.replies = c.replies /\ o.accepted = c.accepted
        /\ o.panicked = c.panicked /\ \A p \in c.up : o.verdict[p] = "success"
        /\ \A p \in Providers \ c.up : o.verdict[p] = c.verdict[p]
    BY <1>0, <1>c, NoteFields
  <2> HIDE DEF o
  <2>3. /\ n \in Call /\ n.res = o.res /\ n.tried = o.tried /\ n.up = o.up
        /\ n.replies = o.replies /\ n.accepted = o.accepted /\ n.status = st
        /\ n.panicked = o.panicked /\ n.verdict = o.verdict
    BY <1>f, <2>2 DEF Call
  <2> HIDE DEF n
  <2>4. /\ d.res = (IF n.res = "open" THEN "settled" ELSE n.res)
        /\ d.tried = n.tried /\ d.up = n.up /\ d.replies = n.replies /\ d.accepted = n.accepted
        /\ d.panicked = n.panicked /\ d.verdict = n.verdict /\ d.status = n.status
    BY <2>3, SettledFields
  <2> HIDE DEF d
  <2>5. \A p \in Providers : d.verdict[p] = IF p \in c.up THEN "success" ELSE c.verdict[p]
    BY <2>2, <2>3, <2>4
  <2>6. History(d)
    BY <1>e, <1>f, <2>2, <2>3, <2>4, <2>5 DEF History, Trying
  <2>7. Receipt(r, d, "open")
    BY <1>e, <1>f, <2>2, <2>3, <2>4, <2>5 DEF History, Trying, Serving, Receipt, AllFailed, Blocked
  <2>8. ErrorCaused(d)
    <3>1. c.err => \E p \in Providers \ c.up : c.verdict[p] = "failure"
      BY <1>e, <1>f DEF Trying, Serving
    <3> QED BY <1>f, <2>3, <2>4, <2>5, <3>1 DEF ErrorCaused
  <2>9. CallAt(r, "closing", d)
    <3>1. Kept(d)
      BY <1>e, <2>2, <2>3, <2>4, <2>5 DEF Kept
    <3> QED BY <1>e, <1>f, <2>2, <2>3, <2>4, <2>6, <2>7, <2>8, <3>1 DEF CallAt, Before, Closed, Trying
  <2> QED BY <1>a, <1>f, <2>1, <2>9
<1>15. CASE StreamReplaced(r)
  <2>1. /\ pc[r] = "stream" /\ Goto(r, "closing")
        /\ call' = [call EXCEPT ![r] = Settled([Note(c, "success") EXCEPT !.status = "blocked"])]
    BY <1>15 DEF StreamReplaced, EndStream, c
  <2>2. "blocked" \in Early \cup {"ok"}
    BY DEF Early
  <2> QED BY <1>f, <2>1, <2>2
<1>16. CASE StreamDone(r)
  <2> DEFINE o == Note(c, "success")
             st == IF o.status = "error" /\ ~c.err THEN "ok" ELSE o.status
  <2>1. o \in Call /\ c.err \in BOOLEAN
    BY <1>0, <1>c, NoteFields DEF Call
  <2>2. st \in Early \cup {"ok"} /\ (st = "error" => c.err)
    <3> HIDE DEF o
    <3> QED BY <2>1 DEF Call
  <2>3. /\ pc[r] = "stream" /\ Goto(r, "closing")
        /\ call' = [call EXCEPT ![r] = Settled([Note(c, "success") EXCEPT !.status = st])]
    BY <1>16 DEF StreamDone, EndStream, c
  <2> HIDE DEF st
  <2> QED BY <1>f, <2>2, <2>3
\* The deferred calls.
<1>17. CASE Panic(r)
  <2> DEFINE d == [c EXCEPT !.panicked = TRUE, !.replies = 1]
  <2>1. /\ call' = [call EXCEPT ![r] = d] /\ Goto(r, "closing")
        /\ pc[r] \in {"checks", "pick", "forward", "stream"}
    BY <1>17 DEF Panic, c
  <2>2. /\ d.res = c.res /\ d.tried = c.tried /\ d.up = c.up /\ d.replies = 1
        /\ d.accepted = c.accepted /\ d.panicked /\ d.verdict = c.verdict
    BY <1>0 DEF Call
  <2>3. History(c) /\ c.res \notin {"released", "settled"}
    BY <1>0, <1>2, <2>1 DEF CallAt, Trying, NewCall
  <2> HIDE DEF d
  <2>4. CallAt(r, "closing", d)
    BY <2>2, <2>3 DEF CallAt, Before, Closed, History, Receipt, Kept, ErrorCaused
  <2> QED BY <1>a, <2>1, <2>4
<1>18. CASE Close(r)
  <2> DEFINE d == [c EXCEPT !.res = IF @ = "open" THEN "released" ELSE @]
  <2>1. call' = [call EXCEPT ![r] = d] /\ Goto(r, "unconn") /\ pc[r] = "closing"
    BY <1>18 DEF Close, c
  <2>2. /\ d.res = (IF c.res = "open" THEN "released" ELSE c.res)
        /\ d.tried = c.tried /\ d.up = c.up /\ d.replies = c.replies /\ d.status = c.status
        /\ d.accepted = c.accepted /\ d.panicked = c.panicked /\ d.verdict = c.verdict
    BY <1>0 DEF Call
  <2>3. /\ History(c) /\ c.replies = 1 /\ ErrorCaused(c) /\ Kept(c) /\ c.res # "released"
        /\ Receipt(r, c, "open")
    BY <1>0, <2>1 DEF CallAt
  <2> HIDE DEF d
  <2>4. CallAt(r, "unconn", d)
    BY <2>2, <2>3 DEF CallAt, Before, Closed, History, Receipt, Blocked, AllFailed, Kept, ErrorCaused
  <2> QED BY <1>a, <2>1, <2>4
<1>19. ASSUME NEW l \in {"unkey", "done"}, Goto(r, l), pc[r] \in {"unconn", "unkey"},
              UNCHANGED call
       PROVE  CallInv'
  <2>1. CallAt(r, l, c)
    BY <1>0, <1>19 DEF CallAt, Before, Closed
  <2> QED BY <1>0, <1>19, <1>a, <2>1
<1>20. CASE Authenticate(r) \/ TryAdmit(r) \/ KeyAdmit(r) \/ UndoAdmit(r)
  BY <1>20, <1>1 DEF Authenticate, TryAdmit, KeyAdmit, UndoAdmit
<1>21. CASE ReleaseConn(r) \/ ReleaseKey(r)
  BY <1>21, <1>19 DEF ReleaseConn, ReleaseKey
<1> QED
  BY <1>3, <1>4, <1>5, <1>6, <1>7, <1>8, <1>9, <1>10, <1>11, <1>12, <1>13, <1>14, <1>15,
     <1>16, <1>17, <1>18, <1>20, <1>21, <1>22 DEF Step, Progress

LEMMA NextCall == TypeOK /\ CallInv /\ [Next]_vars => CallInv'
<1>1. ASSUME CallInv, UNCHANGED vars PROVE CallInv'
  BY <1>1 DEF vars, CallInv
<1> QED BY <1>1, StepCall DEF Next, Quiescent

\* What each label says of a call holds in every interleaving.
THEOREM CallInvThm == Spec => [](TypeOK /\ CallInv)
<1>1. TypeOK /\ CallInv /\ [Next]_vars => (TypeOK /\ CallInv)'
  BY NextType, NextCall
<1> QED BY <1>1, InitType, InitCall, PTL DEF Spec

\* Handle begins one response to a client, and none before the attempt that is
\* not given up: failover never starts a second one.
THEOREM OneReplyThm == Spec => []OneReply
<1>1. TypeOK /\ CallInv => OneReply
  <2> SUFFICES ASSUME TypeOK, CallInv, NEW r \in Requests
               PROVE  /\ call[r].replies <= 1
                      /\ pc[r] \in {"pick", "forward"} => call[r].replies = 0
                      /\ pc[r] \in {"closing", "done"} => call[r].replies = 1
    BY DEF OneReply
  <2>1. pc[r] \in Labels /\ CallAt(r, pc[r], call[r])
    BY DEF TypeOK, CallInv
  <2>2. pc[r] \in Before => call[r].replies = 0
    BY <2>1, NewHistory DEF CallAt
  <2> QED BY <2>1, <2>2 DEF CallAt, Labels, Finished, Before, Closed
<1> QED BY <1>1, CallInvThm, PTL

\* The deferred Release refunds exactly the calls for which no upstream's answer was
\* used, the streams the guard blocked and the panics.
THEOREM ReceiptThm == Spec => []ReceiptFollowsUpstream
<1>1. CallInv => ReceiptFollowsUpstream
  BY DEF CallInv, CallAt, Closed, Receipt, Blocked, ReceiptFollowsUpstream, BlockedStream
<1> QED BY <1>1, CallInvThm, PTL

\* The failover loop tries an upstream once, stays within MaxAttempts and tells
\* the balancer of each upstream it gives up.
THEOREM AttemptsThm == Spec => []AttemptsReported
<1>1. TypeOK /\ CallInv => AttemptsReported
  <2> SUFFICES ASSUME TypeOK, CallInv, NEW r \in Requests
               PROVE  LET c == call[r] IN
                      /\ Cardinality(c.tried) <= MaxAttempts
                      /\ \A p \in c.tried \ c.up : c.verdict[p] = "failure"
                      /\ \A p \in Providers : c.verdict[p] = "success" => p \in c.up /\ c.accepted
                      /\ pc[r] = "stream" \/ c.res = "settled" => \A p \in c.up : c.verdict[p] # "failure"
    BY DEF AttemptsReported
  <2>1. pc[r] \in Labels /\ CallAt(r, pc[r], call[r])
    BY DEF TypeOK, CallInv
  <2>2. pc[r] \in Before => call[r].res = "nil"
    BY <2>1 DEF CallAt, NewCall
  <2>3. pc[r] = "stream" \/ call[r].res = "settled" => \A p \in call[r].up : call[r].verdict[p] # "failure"
    BY <2>1, <2>2 DEF CallAt, Trying, Serving, Kept, Labels, Finished, Before, Closed
  <2> QED BY <2>1, <2>3 DEF CallAt, History
<1> QED BY <1>1, CallInvThm, PTL

\* A delivered answer is audited as an error only after a failed attempt.
THEOREM ErrorCauseThm == Spec => []DeliveredErrorHasCause
<1>1. CallInv => DeliveredErrorHasCause
  BY DEF CallInv, CallAt, Closed, ErrorCaused, DeliveredErrorHasCause
<1> QED BY <1>1, CallInvThm, PTL

=============================================================================
