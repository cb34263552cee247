------------------------ MODULE SequencedQueueProofs ------------------------
(***************************************************************************)
(* Proofs about SequencedQueue, for any number of producers, any segment   *)
(* length and any sequence limit.                                          *)
(***************************************************************************)
EXTENDS SequencedQueue, FiniteSetTheorems, TLAPS

(* The two counters count what their names say.                            *)
LivePc == ProducerPc \ {"unborn", "dropping", "gone"}
Live == {p \in Producers : pc[p] \in LivePc}

Counters ==
  /\ inflight = Cardinality(InSection)
  /\ senders = Cardinality(Live)

(* What the receiver's locals say of the queue at each point of its code.  *)
ReceiverView ==
  /\ cursor <= nextSeq
  /\ seen <= nextSeq
  /\ cpc \in {"poll", "head", "drainhead"} => cursor < seen
  /\ cpc \in {"drainstep", "drainhead"} => seen = nextSeq

(* Behind a closed door no producer can still take a number: the drain     *)
(* found the section empty after it had closed the door, and whoever comes *)
(* in later is turned away before it reaches allocate_sequence.            *)
DoorClosed ==
  /\ cpc = "drainload" => ~accepting
  /\ (cpc \in {"drainbound", "drainstep", "drainhead"} \/ drained) =>
       /\ ~accepting
       /\ \A p \in Producers : pc[p] \notin {"alloc", "cas"}

DrainInv == TypeOK /\ Counters /\ ReceiverView /\ DoorClosed /\ DrainIsFinal

-----------------------------------------------------------------------------
(* Base(s) is a natural number not above s.                                *)
LEMMA BaseType == ASSUME NEW s \in Nat PROVE Base(s) \in Nat
  <1>1. s \div SegmentLen \in Nat
    BY QueueAssumption, SMT
  <1>2. SegmentLen \in Nat
    BY QueueAssumption
  <1>3. \A a, b \in Nat : a * b \in Nat
    BY SMT
  <1> QED BY <1>1, <1>2, <1>3 DEF Base

(* Moving one producer's counter moves it in or out of a set of program    *)
(* points, and changes the number of producers there accordingly.          *)
LEMMA CountMoves ==
  ASSUME NEW S, NEW f, NEW p \in Producers, NEW to,
         f \in [Producers -> ProducerPc],
         NEW g, g = [f EXCEPT ![p] = to],
         NEW A, A = {q \in Producers : f[q] \in S},
         NEW B, B = {q \in Producers : g[q] \in S}
  PROVE  /\ Cardinality(A) \in Nat
         /\ (f[p] \in S /\ to \in S) => Cardinality(B) = Cardinality(A)
         /\ (f[p] \notin S /\ to \notin S) => Cardinality(B) = Cardinality(A)
         /\ (f[p] \notin S /\ to \in S) => Cardinality(B) = Cardinality(A) + 1
         /\ (f[p] \in S /\ to \notin S) =>
              /\ Cardinality(B) = Cardinality(A) - 1
              /\ Cardinality(A) > 0
  <1>1. IsFiniteSet(A)
    <2>1. A \subseteq Producers
      OBVIOUS
    <2> QED BY <2>1, QueueAssumption, FS_Subset
  <1>2. Cardinality(A) \in Nat
    BY <1>1, FS_CardinalityType
  <1>3. CASE f[p] \in S /\ to \in S
    <2>1. A = B BY <1>3
    <2> QED BY <1>2, <1>3, <2>1
  <1>4. CASE f[p] \notin S /\ to \notin S
    <2>1. A = B BY <1>4
    <2> QED BY <1>2, <1>4, <2>1
  <1>5. CASE f[p] \notin S /\ to \in S
    <2>1. B = A \cup {p} /\ p \notin A BY <1>5
    <2>2. Cardinality(B) = Cardinality(A) + 1 BY <1>1, <2>1, FS_AddElement
    <2> QED BY <1>2, <1>5, <2>2
  <1>6. CASE f[p] \in S /\ to \notin S
    <2>1. B = A \ {p} /\ p \in A BY <1>6
    <2>2. Cardinality(B) = Cardinality(A) - 1 BY <1>1, <2>1, FS_RemoveElement
    <2>3. Cardinality(A) # 0 BY <1>1, <2>1, FS_EmptySet
    <2> QED BY <1>2, <1>6, <2>2, <2>3
  <1> QED BY <1>3, <1>4, <1>5, <1>6

(* A jump of producer p changes the two counts as its two program points   *)
(* say.                                                                    *)
LEMMA GotoCounts ==
  ASSUME NEW p \in Producers, pc \in [Producers -> ProducerPc],
         pc' = [pc EXCEPT ![p] = pc'[p]]
  PROVE  /\ Cardinality(InSection) \in Nat /\ Cardinality(InSection') \in Nat
         /\ (pc[p] \in SectionPc /\ pc'[p] \in SectionPc) =>
              Cardinality(InSection') = Cardinality(InSection)
         /\ (pc[p] \notin SectionPc /\ pc'[p] \notin SectionPc) =>
              Cardinality(InSection') = Cardinality(InSection)
         /\ (pc[p] \notin SectionPc /\ pc'[p] \in SectionPc) =>
              Cardinality(InSection') = Cardinality(InSection) + 1
         /\ (pc[p] \in SectionPc /\ pc'[p] \notin SectionPc) =>
              /\ Cardinality(InSection') = Cardinality(InSection) - 1
              /\ Cardinality(InSection) > 0
         /\ Cardinality(Live) \in Nat /\ Cardinality(Live') \in Nat
         /\ (pc[p] \in LivePc /\ pc'[p] \in LivePc) =>
              Cardinality(Live') = Cardinality(Live)
         /\ (pc[p] \notin LivePc /\ pc'[p] \notin LivePc) =>
              Cardinality(Live') = Cardinality(Live)
         /\ (pc[p] \notin LivePc /\ pc'[p] \in LivePc) =>
              Cardinality(Live') = Cardinality(Live) + 1
         /\ (pc[p] \in LivePc /\ pc'[p] \notin LivePc) =>
              /\ Cardinality(Live') = Cardinality(Live) - 1
              /\ Cardinality(Live) > 0
  <1>1. /\ InSection = {q \in Producers : pc[q] \in SectionPc}
        /\ InSection' = {q \in Producers : pc'[q] \in SectionPc}
    BY DEF InSection
  <1>2. /\ Live = {q \in Producers : pc[q] \in LivePc}
        /\ Live' = {q \in Producers : pc'[q] \in LivePc}
    BY DEF Live
  <1>3. /\ Cardinality(InSection) \in Nat
        /\ (pc[p] \in SectionPc /\ pc'[p] \in SectionPc) =>
             Cardinality(InSection') = Cardinality(InSection)
        /\ (pc[p] \notin SectionPc /\ pc'[p] \notin SectionPc) =>
             Cardinality(InSection') = Cardinality(InSection)
        /\ (pc[p] \notin SectionPc /\ pc'[p] \in SectionPc) =>
             Cardinality(InSection') = Cardinality(InSection) + 1
        /\ (pc[p] \in SectionPc /\ pc'[p] \notin SectionPc) =>
             /\ Cardinality(InSection') = Cardinality(InSection) - 1
             /\ Cardinality(InSection) > 0
    BY <1>1, CountMoves
  <1>4. /\ Cardinality(Live) \in Nat
        /\ (pc[p] \in LivePc /\ pc'[p] \in LivePc) =>
             Cardinality(Live') = Cardinality(Live)
        /\ (pc[p] \notin LivePc /\ pc'[p] \notin LivePc) =>
             Cardinality(Live') = Cardinality(Live)
        /\ (pc[p] \notin LivePc /\ pc'[p] \in LivePc) =>
             Cardinality(Live') = Cardinality(Live) + 1
        /\ (pc[p] \in LivePc /\ pc'[p] \notin LivePc) =>
             /\ Cardinality(Live') = Cardinality(Live) - 1
             /\ Cardinality(Live) > 0
    BY <1>2, CountMoves
  <1>5. Cardinality(InSection') \in Nat /\ Cardinality(Live') \in Nat
    BY QueueAssumption, FS_Subset, FS_CardinalityType, <1>1, <1>2
  <1> QED BY <1>3, <1>4, <1>5

-----------------------------------------------------------------------------
(* Every step keeps the drain invariant, one action after the other.       *)
LEMMA DrainInvStep == DrainInv /\ [Next]_vars => DrainInv'
  <1> SUFFICES ASSUME DrainInv, [Next]_vars PROVE DrainInv'
    OBVIOUS
  <1> USE DEF DrainInv
  <1>1. ASSUME NEW p \in Producers, Enter(p) PROVE DrainInv'
    <2>1. Counters'
      BY <1>1, GotoCounts DEF TypeOK, Counters, Enter, Goto, coreVars,
          receiverVars, historyVars, SectionPc, LivePc, ProducerPc,
          ReservationPc
    <2>2. pc' \in [Producers -> ProducerPc] /\ offers' \in [Producers -> Nat]
      BY <1>1 DEF TypeOK, Enter, Goto, ProducerPc
    <2>3. TypeOK'
      BY <1>1, <2>2 DEF TypeOK, Enter, coreVars, receiverVars, historyVars
    <2>4. ReceiverView' /\ DoorClosed' /\ DrainIsFinal'
      BY <1>1 DEF TypeOK, ReceiverView, DoorClosed, DrainIsFinal, Enter, Goto,
          coreVars, receiverVars, historyVars, Sequence
    <2> QED BY <2>1, <2>3, <2>4 DEF DrainInv
  <1>2. ASSUME NEW p \in Producers, EnterCount(p) PROVE DrainInv'
    <2>1. Counters'
      BY <1>2, GotoCounts DEF TypeOK, Counters, EnterCount, Goto,
          receiverVars, historyVars, SectionPc, LivePc, ProducerPc,
          ReservationPc
    <2>2. TypeOK'
      BY <1>2, QueueAssumption DEF TypeOK, EnterCount, Goto, receiverVars,
          historyVars, ProducerPc, SectionPc, ReservationPc, Sequence
    <2>3. ReceiverView' /\ DoorClosed' /\ DrainIsFinal'
      BY <1>2 DEF TypeOK, ReceiverView, DoorClosed, DrainIsFinal, EnterCount,
          Goto, receiverVars, historyVars, Sequence
    <2> QED BY <2>1, <2>2, <2>3 DEF DrainInv
  <1>3. ASSUME NEW p \in Producers, EnterRecheck(p) PROVE DrainInv'
    <2>1. Counters'
      BY <1>3, GotoCounts DEF TypeOK, Counters, EnterRecheck, Goto, coreVars,
          receiverVars, historyVars, SectionPc, LivePc, ProducerPc,
          ReservationPc
    <2>2. TypeOK'
      BY <1>3, QueueAssumption DEF TypeOK, EnterRecheck, Goto, coreVars,
          receiverVars, historyVars, ProducerPc, SectionPc, ReservationPc,
          Sequence
    <2>3. ReceiverView' /\ DoorClosed' /\ DrainIsFinal'
      BY <1>3 DEF TypeOK, ReceiverView, DoorClosed, DrainIsFinal,
          EnterRecheck, Goto, coreVars, receiverVars, historyVars, Sequence
    <2> QED BY <2>1, <2>2, <2>3 DEF DrainInv
  <1>4. ASSUME NEW p \in Producers, AllocCheck(p) PROVE DrainInv'
    <2>1. Counters'
      BY <1>4, GotoCounts DEF TypeOK, Counters, AllocCheck, Goto, coreVars,
          receiverVars, historyVars, SectionPc, LivePc, ProducerPc,
          ReservationPc
    <2>2. TypeOK'
      BY <1>4, QueueAssumption DEF TypeOK, AllocCheck, Goto, coreVars,
          receiverVars, historyVars, ProducerPc, SectionPc, ReservationPc,
          Sequence
    <2>3. ReceiverView' /\ DoorClosed' /\ DrainIsFinal'
      BY <1>4 DEF TypeOK, ReceiverView, DoorClosed, DrainIsFinal, AllocCheck,
          Goto, coreVars, receiverVars, historyVars, Sequence
    <2> QED BY <2>1, <2>2, <2>3 DEF DrainInv
  <1>5. ASSUME NEW p \in Producers, AllocRetry(p) PROVE DrainInv'
    <2>1. Counters'
      BY <1>5, GotoCounts DEF TypeOK, Counters, AllocRetry, Goto, coreVars,
          receiverVars, historyVars, SectionPc, LivePc, ProducerPc,
          ReservationPc
    <2>2. TypeOK'
      BY <1>5, QueueAssumption DEF TypeOK, AllocRetry, Goto, coreVars,
          receiverVars, historyVars, ProducerPc, SectionPc, ReservationPc,
          Sequence
    <2>3. ReceiverView' /\ DoorClosed' /\ DrainIsFinal'
      BY <1>5 DEF TypeOK, ReceiverView, DoorClosed, DrainIsFinal, AllocRetry,
          Goto, coreVars, receiverVars, historyVars, Sequence
    <2> QED BY <2>1, <2>2, <2>3 DEF DrainInv
  <1>6. ASSUME NEW p \in Producers, AllocExhausted(p) PROVE DrainInv'
    <2>1. Counters'
      BY <1>6, GotoCounts DEF TypeOK, Counters, AllocExhausted, Goto,
          receiverVars, historyVars, SectionPc, LivePc, ProducerPc,
          ReservationPc
    <2>2. TypeOK'
      BY <1>6, QueueAssumption DEF TypeOK, AllocExhausted, Goto, receiverVars,
          historyVars, ProducerPc, SectionPc, ReservationPc, Sequence
    <2>3. ReceiverView' /\ DoorClosed' /\ DrainIsFinal'
      BY <1>6 DEF TypeOK, ReceiverView, DoorClosed, DrainIsFinal,
          AllocExhausted, Goto, receiverVars, historyVars, Sequence
    <2> QED BY <2>1, <2>2, <2>3 DEF DrainInv
  <1>7. ASSUME NEW p \in Producers, AllocExhaustedClose(p) PROVE DrainInv'
    <2>1. Counters'
      BY <1>7, GotoCounts DEF TypeOK, Counters, AllocExhaustedClose, Goto,
          receiverVars, historyVars, SectionPc, LivePc, ProducerPc,
          ReservationPc
    <2>2. TypeOK'
      BY <1>7, QueueAssumption DEF TypeOK, AllocExhaustedClose, Goto,
          receiverVars, historyVars, ProducerPc, SectionPc, ReservationPc,
          Sequence
    <2>3. ReceiverView' /\ DoorClosed' /\ DrainIsFinal'
      BY <1>7 DEF TypeOK, ReceiverView, DoorClosed, DrainIsFinal,
          AllocExhaustedClose, Goto, receiverVars, historyVars, Sequence
    <2> QED BY <2>1, <2>2, <2>3 DEF DrainInv
  <1>8. ASSUME NEW p \in Producers, AllocCas(p) PROVE DrainInv'
    <2>1. Counters'
      BY <1>8, GotoCounts DEF TypeOK, Counters, AllocCas, Goto, receiverVars,
          historyVars, SectionPc, LivePc, ProducerPc, ReservationPc
    <2>2. TypeOK'
      BY <1>8, QueueAssumption DEF TypeOK, AllocCas, Goto, receiverVars,
          historyVars, ProducerPc, SectionPc, ReservationPc, Sequence
    <2>3. ReceiverView' /\ DoorClosed' /\ DrainIsFinal'
      BY <1>8 DEF TypeOK, ReceiverView, DoorClosed, DrainIsFinal, AllocCas,
          Goto, receiverVars, historyVars, Sequence
    <2> QED BY <2>1, <2>2, <2>3 DEF DrainInv
  <1>9. ASSUME NEW p \in Producers, SegmentTail(p) PROVE DrainInv'
    <2>1. Counters'
      BY <1>9, GotoCounts DEF TypeOK, Counters, SegmentTail, Goto, coreVars,
          receiverVars, historyVars, SectionPc, LivePc, ProducerPc,
          ReservationPc
    <2>2. TypeOK'
      BY <1>9, QueueAssumption DEF TypeOK, SegmentTail, Goto, coreVars,
          receiverVars, historyVars, ProducerPc, SectionPc, ReservationPc,
          Sequence
    <2>3. ReceiverView' /\ DoorClosed' /\ DrainIsFinal'
      BY <1>9 DEF TypeOK, ReceiverView, DoorClosed, DrainIsFinal, SegmentTail,
          Goto, coreVars, receiverVars, historyVars, Sequence
    <2> QED BY <2>1, <2>2, <2>3 DEF DrainInv
  <1>10. ASSUME NEW p \in Producers, SegmentMap(p) PROVE DrainInv'
    <2>1. Counters'
      BY <1>10, GotoCounts DEF TypeOK, Counters, SegmentMap, Goto,
          receiverVars, SectionPc, LivePc, ProducerPc, ReservationPc
    <2>2. Base(seq[p]) \in Nat
      BY BaseType DEF TypeOK, Sequence
    <2>3. /\ created' \in [Sequence -> Nat]
          /\ tail' \in Nat /\ segments' \subseteq Nat
      <3>1. CASE Base(seq[p]) \in segments
        BY <3>1, <1>10 DEF TypeOK, SegmentMap
      <3>2. CASE Base(seq[p]) \notin segments
        <4>1. created' \in [Sequence -> Nat]
          <5>1. created' = [created EXCEPT ![Base(seq[p])] = @ + 1]
            BY <3>2, <1>10 DEF SegmentMap
          <5>2. CASE Base(seq[p]) \in Sequence
            BY <5>1, <5>2 DEF TypeOK
          <5>3. CASE Base(seq[p]) \notin Sequence
            BY <5>1, <5>3 DEF TypeOK
          <5> QED BY <5>2, <5>3
        <4>2. tail' \in Nat /\ segments' \subseteq Nat
          BY <3>2, <1>10, <2>2 DEF TypeOK, SegmentMap
        <4> QED BY <4>1, <4>2
      <3> QED BY <3>1, <3>2
    <2>4. TypeOK'
      BY <1>10, <2>3 DEF TypeOK, SegmentMap, Goto, receiverVars, ProducerPc,
          SectionPc, ReservationPc
    <2>5. ReceiverView' /\ DoorClosed' /\ DrainIsFinal'
      BY <1>10 DEF TypeOK, ReceiverView, DoorClosed, DrainIsFinal, SegmentMap,
          Goto, receiverVars, Sequence
    <2> QED BY <2>1, <2>4, <2>5 DEF DrainInv
  <1>11. ASSUME NEW p \in Producers, MarkReserved(p) PROVE DrainInv'
    <2>1. Counters'
      BY <1>11, GotoCounts DEF TypeOK, Counters, MarkReserved, Goto,
          FailUnless, receiverVars, historyVars, SectionPc, LivePc,
          ProducerPc, ReservationPc
    <2>2. TypeOK'
      BY <1>11, QueueAssumption DEF TypeOK, MarkReserved, Goto, FailUnless,
          receiverVars, historyVars, ProducerPc, SectionPc, ReservationPc,
          SlotState, Sequence
    <2>3. ReceiverView' /\ DoorClosed' /\ DrainIsFinal'
      BY <1>11 DEF TypeOK, ReceiverView, DoorClosed, DrainIsFinal,
          MarkReserved, Goto, FailUnless, receiverVars, historyVars, Sequence
    <2> QED BY <2>1, <2>2, <2>3 DEF DrainInv
  <1>12. ASSUME NEW p \in Producers, RegisterReservation(p) PROVE DrainInv'
    <2>1. Counters'
      BY <1>12, GotoCounts DEF TypeOK, Counters, RegisterReservation, Goto,
          receiverVars, historyVars, SectionPc, LivePc, ProducerPc,
          ReservationPc
    <2>2. TypeOK'
      BY <1>12, QueueAssumption DEF TypeOK, RegisterReservation, Goto,
          receiverVars, historyVars, ProducerPc, SectionPc, ReservationPc,
          Sequence
    <2>3. ReceiverView' /\ DoorClosed' /\ DrainIsFinal'
      BY <1>12 DEF TypeOK, ReceiverView, DoorClosed, DrainIsFinal,
          RegisterReservation, Goto, receiverVars, historyVars, Sequence
    <2> QED BY <2>1, <2>2, <2>3 DEF DrainInv
  <1>13. ASSUME NEW p \in Producers, LeaveSection(p) PROVE DrainInv'
    <2>1. Counters'
      BY <1>13, GotoCounts DEF TypeOK, Counters, LeaveSection, Goto,
          receiverVars, historyVars, SectionPc, LivePc, ProducerPc,
          ReservationPc
    <2>2. inflight' \in Nat /\ senders' \in Nat
      BY <1>13, <2>1, GotoCounts DEF TypeOK, Counters, LeaveSection, Goto
    <2>3. TypeOK'
      BY <1>13, <2>2, QueueAssumption DEF TypeOK, LeaveSection, Goto,
          receiverVars, historyVars, ProducerPc, SectionPc, ReservationPc,
          Sequence
    <2>4. ReceiverView' /\ DoorClosed' /\ DrainIsFinal'
      BY <1>13 DEF TypeOK, ReceiverView, DoorClosed, DrainIsFinal,
          LeaveSection, Goto, receiverVars, historyVars, Sequence
    <2> QED BY <2>1, <2>3, <2>4 DEF DrainInv
  <1>14. ASSUME NEW p \in Producers, PublishBegin(p) PROVE DrainInv'
    <2>1. Counters'
      BY <1>14, GotoCounts DEF TypeOK, Counters, PublishBegin, Goto,
          FailUnless, receiverVars, historyVars, SectionPc, LivePc,
          ProducerPc, ReservationPc
    <2>2. TypeOK'
      BY <1>14, QueueAssumption DEF TypeOK, PublishBegin, Goto, FailUnless,
          receiverVars, historyVars, ProducerPc, SectionPc, ReservationPc,
          SlotState, Sequence
    <2>3. ReceiverView' /\ DoorClosed' /\ DrainIsFinal'
      BY <1>14 DEF TypeOK, ReceiverView, DoorClosed, DrainIsFinal,
          PublishBegin, Goto, FailUnless, receiverVars, historyVars, Sequence
    <2> QED BY <2>1, <2>2, <2>3 DEF DrainInv
  <1>15. ASSUME NEW p \in Producers, PublishEnd(p) PROVE DrainInv'
    <2>1. Counters'
      BY <1>15, GotoCounts DEF TypeOK, Counters, PublishEnd, Goto,
          receiverVars, historyVars, SectionPc, LivePc, ProducerPc,
          ReservationPc
    <2>2. TypeOK'
      BY <1>15, QueueAssumption DEF TypeOK, PublishEnd, Goto, receiverVars,
          historyVars, ProducerPc, SectionPc, ReservationPc, SlotState,
          Sequence
    <2>3. ReceiverView' /\ DoorClosed' /\ DrainIsFinal'
      BY <1>15 DEF TypeOK, ReceiverView, DoorClosed, DrainIsFinal, PublishEnd,
          Goto, receiverVars, historyVars, Sequence
    <2> QED BY <2>1, <2>2, <2>3 DEF DrainInv
  <1>16. ASSUME NEW p \in Producers, DropReservation(p) PROVE DrainInv'
    <2>1. Counters'
      BY <1>16, GotoCounts DEF TypeOK, Counters, DropReservation, Goto,
          FailUnless, receiverVars, historyVars, SectionPc, LivePc,
          ProducerPc, ReservationPc
    <2>2. TypeOK'
      BY <1>16, QueueAssumption DEF TypeOK, DropReservation, Goto, FailUnless,
          receiverVars, historyVars, ProducerPc, SectionPc, ReservationPc,
          SlotState, Sequence
    <2>3. ReceiverView' /\ DoorClosed' /\ DrainIsFinal'
      BY <1>16 DEF TypeOK, ReceiverView, DoorClosed, DrainIsFinal,
          DropReservation, Goto, FailUnless, receiverVars, historyVars,
          Sequence
    <2> QED BY <2>1, <2>2, <2>3 DEF DrainInv
  <1>17. ASSUME NEW p \in Producers, FinishReservation(p) PROVE DrainInv'
    <2>1. Counters'
      BY <1>17, GotoCounts DEF TypeOK, Counters, FinishReservation, Goto,
          FailUnless, receiverVars, historyVars, SectionPc, LivePc,
          ProducerPc, ReservationPc
    <2>2. TypeOK'
      BY <1>17, QueueAssumption DEF TypeOK, FinishReservation, Goto,
          FailUnless, receiverVars, historyVars, ProducerPc, SectionPc,
          ReservationPc, Sequence
    <2>3. ReceiverView' /\ DoorClosed' /\ DrainIsFinal'
      BY <1>17 DEF TypeOK, ReceiverView, DoorClosed, DrainIsFinal,
          FinishReservation, Goto, FailUnless, receiverVars, historyVars,
          Sequence
    <2> QED BY <2>1, <2>2, <2>3 DEF DrainInv
  <1>18. ASSUME NEW p \in Producers, DropSender(p) PROVE DrainInv'
    <2>1. Counters'
      BY <1>18, GotoCounts DEF TypeOK, Counters, DropSender, Goto,
          receiverVars, historyVars, SectionPc, LivePc, ProducerPc,
          ReservationPc
    <2>2. inflight' \in Nat /\ senders' \in Nat
      BY <1>18, <2>1, GotoCounts DEF TypeOK, Counters, DropSender, Goto
    <2>3. TypeOK'
      BY <1>18, <2>2, QueueAssumption DEF TypeOK, DropSender, Goto,
          receiverVars, historyVars, ProducerPc, SectionPc, ReservationPc,
          Sequence
    <2>4. ReceiverView' /\ DoorClosed' /\ DrainIsFinal'
      BY <1>18 DEF TypeOK, ReceiverView, DoorClosed, DrainIsFinal, DropSender,
          Goto, receiverVars, historyVars, Sequence
    <2> QED BY <2>1, <2>3, <2>4 DEF DrainInv
  <1>19. ASSUME NEW p \in Producers, DropLastSender(p) PROVE DrainInv'
    <2>1. Counters'
      BY <1>19, GotoCounts DEF TypeOK, Counters, DropLastSender, Goto,
          receiverVars, historyVars, SectionPc, LivePc, ProducerPc,
          ReservationPc
    <2>2. TypeOK'
      BY <1>19, QueueAssumption DEF TypeOK, DropLastSender, Goto,
          receiverVars, historyVars, ProducerPc, SectionPc, ReservationPc,
          Sequence
    <2>3. ReceiverView' /\ DoorClosed' /\ DrainIsFinal'
      BY <1>19 DEF TypeOK, ReceiverView, DoorClosed, DrainIsFinal,
          DropLastSender, Goto, receiverVars, historyVars, Sequence
    <2> QED BY <2>1, <2>2, <2>3 DEF DrainInv
  <1>20. ASSUME NEW p \in Producers, NEW q \in Producers, CloneSender(p, q)
       PROVE  DrainInv'
    <2>1. Counters'
      BY <1>20, GotoCounts DEF TypeOK, Counters, CloneSender, Goto,
          receiverVars, historyVars, SectionPc, LivePc, ProducerPc,
          ReservationPc
    <2>2. TypeOK'
      BY <1>20, QueueAssumption DEF TypeOK, CloneSender, Goto, receiverVars,
          historyVars, ProducerPc, SectionPc, ReservationPc, Sequence
    <2>3. ReceiverView' /\ DoorClosed' /\ DrainIsFinal'
      BY <1>20 DEF TypeOK, ReceiverView, DoorClosed, DrainIsFinal,
          CloneSender, Goto, receiverVars, historyVars, Sequence
    <2> QED BY <2>1, <2>2, <2>3 DEF DrainInv
  <1>21. CASE Close
    <2>1. Counters'
      BY <1>21 DEF Counters, InSection, Live, Close, producerVars,
          receiverVars, historyVars
    <2>2. TypeOK'
      BY <1>21, QueueAssumption DEF TypeOK, Close, producerVars, receiverVars,
          historyVars, Sequence
    <2>3. ReceiverView' /\ DoorClosed' /\ DrainIsFinal'
      BY <1>21 DEF TypeOK, ReceiverView, DoorClosed, DrainIsFinal, Close,
          producerVars, receiverVars, historyVars, Sequence
    <2> QED BY <2>1, <2>2, <2>3 DEF DrainInv
  <1>22. CASE PollBegin
    <2>1. Counters'
      BY <1>22 DEF Counters, InSection, Live, PollBegin, coreVars,
          producerVars, historyVars
    <2>2. TypeOK'
      BY <1>22, QueueAssumption DEF TypeOK, PollBegin, ReceiverGoto, coreVars,
          producerVars, historyVars, ReceiverPc, Outcome, Sequence
    <2>3. ReceiverView' /\ DoorClosed' /\ DrainIsFinal'
      BY <1>22 DEF TypeOK, ReceiverView, DoorClosed, DrainIsFinal, PollBegin,
          ReceiverGoto, coreVars, producerVars, historyVars, Sequence
    <2> QED BY <2>1, <2>2, <2>3 DEF DrainInv
  <1>23. CASE PollLoad
    <2>1. Counters'
      BY <1>23 DEF Counters, InSection, Live, PollLoad, coreVars,
          producerVars, historyVars
    <2>2. TypeOK'
      BY <1>23, QueueAssumption DEF TypeOK, PollLoad, ReceiverGoto, coreVars,
          producerVars, historyVars, ReceiverPc, Outcome, Sequence
    <2>3. ReceiverView' /\ DoorClosed' /\ DrainIsFinal'
      BY <1>23 DEF TypeOK, ReceiverView, DoorClosed, DrainIsFinal, PollLoad,
          ReceiverGoto, coreVars, producerVars, historyVars, Sequence
    <2> QED BY <2>1, <2>2, <2>3 DEF DrainInv
  <1>24. CASE PollEmpty
    <2>1. Counters'
      BY <1>24 DEF Counters, InSection, Live, PollEmpty, coreVars,
          producerVars, historyVars
    <2>2. TypeOK'
      BY <1>24, QueueAssumption DEF TypeOK, PollEmpty, ReceiverGoto, coreVars,
          producerVars, historyVars, ReceiverPc, Outcome, Sequence
    <2>3. ReceiverView' /\ DoorClosed' /\ DrainIsFinal'
      BY <1>24 DEF TypeOK, ReceiverView, DoorClosed, DrainIsFinal, PollEmpty,
          ReceiverGoto, coreVars, producerVars, historyVars, Sequence
    <2> QED BY <2>1, <2>2, <2>3 DEF DrainInv
  <1>25. CASE PollClosing
    <2>1. Counters'
      BY <1>25 DEF Counters, InSection, Live, PollClosing, coreVars,
          producerVars, historyVars
    <2>2. TypeOK'
      BY <1>25, QueueAssumption DEF TypeOK, PollClosing, ReceiverGoto,
          coreVars, producerVars, historyVars, ReceiverPc, Outcome, Sequence
    <2>3. ReceiverView' /\ DoorClosed' /\ DrainIsFinal'
      BY <1>25 DEF TypeOK, ReceiverView, DoorClosed, DrainIsFinal,
          PollClosing, ReceiverGoto, coreVars, producerVars, historyVars,
          Sequence
    <2> QED BY <2>1, <2>2, <2>3 DEF DrainInv
  <1>26. CASE PollHead
    <2>1. Counters'
      BY <1>26 DEF Counters, InSection, Live, PollHead, FailUnless, MatchHead,
          producerVars
    <2>2. cursor < SequenceLimit /\ cursor \in Sequence /\ cursor \in Nat
      BY <1>26, QueueAssumption DEF TypeOK, ReceiverView, PollHead, ReceiverGoto, Sequence
    <2>3. delivered' \in Seq(Sequence \X (Producers \X Nat))
      BY <1>26, <2>2 DEF TypeOK, PollHead, MatchHead
    <2>4. /\ slot' \in [Sequence -> SlotState]
          /\ value' \in [Sequence -> {NoValue} \cup (Producers \X Nat)]
          /\ cursor' \in 0 .. SequenceLimit
          /\ segments' \subseteq Nat
      <3>1. slot' \in [Sequence -> SlotState]
        BY <1>26 DEF TypeOK, PollHead, MatchHead, SlotState
      <3>2. value' \in [Sequence -> {NoValue} \cup (Producers \X Nat)]
        BY <1>26 DEF TypeOK, PollHead, MatchHead
      <3>3. cursor' \in 0 .. SequenceLimit
        <4>1. cursor' = cursor \/ cursor' = cursor + 1
          BY <1>26 DEF PollHead, MatchHead
        <4> QED BY <4>1, <2>2, QueueAssumption DEF TypeOK
      <3>4. segments' \subseteq Nat
        BY <1>26 DEF TypeOK, PollHead, MatchHead, Reclaimed
      <3> QED BY <3>1, <3>2, <3>3, <3>4
    <2>5. result' \in Outcome /\ failed' \in BOOLEAN /\ accepting' \in BOOLEAN
      BY <1>26 DEF TypeOK, PollHead, MatchHead, Outcome, FailUnless
    <2>6. TypeOK'
      BY <1>26, <2>3, <2>4, <2>5 DEF TypeOK, PollHead, ReceiverGoto,
          ReceiverPc, producerVars
    <2>7. ReceiverView' /\ DoorClosed' /\ DrainIsFinal'
      BY <1>26 DEF TypeOK, ReceiverView, DoorClosed, DrainIsFinal, PollHead,
          ReceiverGoto, FailUnless, MatchHead, Reclaimed, SegmentVisible,
          producerVars, Sequence
    <2> QED BY <2>1, <2>6, <2>7 DEF DrainInv
  <1>27. CASE ReclaimLoad
    <2>1. Counters'
      BY <1>27 DEF Counters, InSection, Live, ReclaimLoad, coreVars,
          producerVars, historyVars
    <2>2. TypeOK'
      BY <1>27, QueueAssumption DEF TypeOK, ReclaimLoad, ReceiverGoto,
          coreVars, producerVars, historyVars, ReceiverPc, Outcome, Sequence
    <2>3. ReceiverView' /\ DoorClosed' /\ DrainIsFinal'
      BY <1>27 DEF TypeOK, ReceiverView, DoorClosed, DrainIsFinal,
          ReclaimLoad, ReceiverGoto, coreVars, producerVars, historyVars,
          Sequence
    <2> QED BY <2>1, <2>2, <2>3 DEF DrainInv
  <1>28. CASE DrainBegin
    <2>1. Counters'
      BY <1>28 DEF Counters, InSection, Live, DrainBegin, producerVars,
          historyVars
    <2>2. TypeOK'
      BY <1>28, QueueAssumption DEF TypeOK, DrainBegin, ReceiverGoto,
          producerVars, historyVars, ReceiverPc, Outcome, Sequence
    <2>3. ReceiverView' /\ DoorClosed' /\ DrainIsFinal'
      BY <1>28 DEF TypeOK, ReceiverView, DoorClosed, DrainIsFinal, DrainBegin,
          ReceiverGoto, producerVars, historyVars, Sequence
    <2> QED BY <2>1, <2>2, <2>3 DEF DrainInv
  <1>29. CASE DrainLoad
    <2>1. Counters'
      BY <1>29 DEF Counters, InSection, Live, DrainLoad, coreVars,
          producerVars, historyVars
    <2>2. TypeOK'
      BY <1>29, QueueAssumption DEF TypeOK, DrainLoad, ReceiverGoto, coreVars,
          producerVars, historyVars, ReceiverPc, Outcome, Sequence
    <2>3. inflight = 0 => \A p \in Producers : pc[p] \notin {"alloc", "cas"}
      <3>1. IsFiniteSet(InSection)
        BY QueueAssumption, FS_Subset DEF InSection
      <3>2. inflight = 0 => InSection = {}
        BY <3>1, FS_EmptySet DEF Counters
      <3> QED BY <3>2 DEF InSection, SectionPc
    <2>4. ReceiverView' /\ DoorClosed' /\ DrainIsFinal'
      BY <1>29, <2>3 DEF TypeOK, ReceiverView, DoorClosed, DrainIsFinal,
          DrainLoad, ReceiverGoto, coreVars, producerVars, historyVars,
          Sequence
    <2> QED BY <2>1, <2>2, <2>4 DEF DrainInv
  <1>30. CASE DrainBoundary
    <2>1. Counters'
      BY <1>30 DEF Counters, InSection, Live, DrainBoundary, coreVars,
          producerVars, historyVars
    <2>2. TypeOK'
      BY <1>30, QueueAssumption DEF TypeOK, DrainBoundary, ReceiverGoto,
          coreVars, producerVars, historyVars, ReceiverPc, Outcome, Sequence
    <2>3. ReceiverView' /\ DoorClosed' /\ DrainIsFinal'
      BY <1>30 DEF TypeOK, ReceiverView, DoorClosed, DrainIsFinal,
          DrainBoundary, ReceiverGoto, coreVars, producerVars, historyVars,
          Sequence
    <2> QED BY <2>1, <2>2, <2>3 DEF DrainInv
  <1>31. CASE DrainHead
    <2>1. Counters'
      BY <1>31 DEF Counters, InSection, Live, DrainHead, FailUnless,
          MatchHead, producerVars
    <2>2. cursor < SequenceLimit /\ cursor \in Sequence /\ cursor \in Nat
      BY <1>31, QueueAssumption DEF TypeOK, ReceiverView, DrainHead, ReceiverGoto, Sequence
    <2>3. delivered' \in Seq(Sequence \X (Producers \X Nat))
      BY <1>31, <2>2 DEF TypeOK, DrainHead, MatchHead
    <2>4. /\ slot' \in [Sequence -> SlotState]
          /\ value' \in [Sequence -> {NoValue} \cup (Producers \X Nat)]
          /\ cursor' \in 0 .. SequenceLimit
          /\ segments' \subseteq Nat
      <3>1. slot' \in [Sequence -> SlotState]
        BY <1>31 DEF TypeOK, DrainHead, MatchHead, SlotState
      <3>2. value' \in [Sequence -> {NoValue} \cup (Producers \X Nat)]
        BY <1>31 DEF TypeOK, DrainHead, MatchHead
      <3>3. cursor' \in 0 .. SequenceLimit
        <4>1. cursor' = cursor \/ cursor' = cursor + 1
          BY <1>31 DEF DrainHead, MatchHead
        <4> QED BY <4>1, <2>2, QueueAssumption DEF TypeOK
      <3>4. segments' \subseteq Nat
        BY <1>31 DEF TypeOK, DrainHead, MatchHead, Reclaimed
      <3> QED BY <3>1, <3>2, <3>3, <3>4
    <2>5. result' \in Outcome /\ failed' \in BOOLEAN /\ accepting' \in BOOLEAN
      BY <1>31 DEF TypeOK, DrainHead, MatchHead, Outcome, FailUnless
    <2>6. TypeOK'
      BY <1>31, <2>3, <2>4, <2>5 DEF TypeOK, DrainHead, ReceiverGoto,
          ReceiverPc, producerVars
    <2>7. ReceiverView' /\ DoorClosed' /\ DrainIsFinal'
      BY <1>31 DEF TypeOK, ReceiverView, DoorClosed, DrainIsFinal, DrainHead,
          ReceiverGoto, FailUnless, MatchHead, Reclaimed, SegmentVisible,
          producerVars, Sequence
    <2> QED BY <2>1, <2>6, <2>7 DEF DrainInv
  <1>32. CASE DrainDone
    <2>1. Counters'
      BY <1>32 DEF Counters, InSection, Live, DrainDone, producerVars
    <2>2. TypeOK'
      BY <1>32, QueueAssumption DEF TypeOK, DrainDone, ReceiverGoto,
          Reclaimed, producerVars, ReceiverPc, Outcome, Sequence
    <2>3. ReceiverView' /\ DoorClosed' /\ DrainIsFinal'
      BY <1>32 DEF TypeOK, ReceiverView, DoorClosed, DrainIsFinal, DrainDone,
          ReceiverGoto, Reclaimed, producerVars, Sequence
    <2> QED BY <2>1, <2>2, <2>3 DEF DrainInv
  <1>33. CASE DropReceiver
    <2>1. Counters'
      BY <1>33 DEF Counters, InSection, Live, DropReceiver, producerVars,
          historyVars
    <2>2. TypeOK'
      BY <1>33, QueueAssumption DEF TypeOK, DropReceiver, ReceiverGoto,
          producerVars, historyVars, ReceiverPc, Outcome, Sequence
    <2>3. ReceiverView' /\ DoorClosed' /\ DrainIsFinal'
      BY <1>33 DEF TypeOK, ReceiverView, DoorClosed, DrainIsFinal,
          DropReceiver, ReceiverGoto, producerVars, historyVars, Sequence
    <2> QED BY <2>1, <2>2, <2>3 DEF DrainInv
  <1>34. CASE UNCHANGED vars
    BY <1>34 DEF vars, coreVars, producerVars, receiverVars, historyVars, TypeOK,
          Counters, InSection, Live, ReceiverView, DoorClosed, DrainIsFinal
  <1> QED
    BY <1>1, <1>2, <1>3, <1>4, <1>5, <1>6, <1>7, <1>8, <1>9, <1>10, <1>11,
       <1>12, <1>13, <1>14, <1>15, <1>16, <1>17, <1>18, <1>19, <1>20, <1>21,
       <1>22, <1>23, <1>24, <1>25, <1>26, <1>27, <1>28, <1>29, <1>30, <1>31,
       <1>32, <1>33, <1>34
       DEF Next, ProducerStep, ReserveStep, PublishStep, ReceiverStep,
           PollStep, DrainStep

-----------------------------------------------------------------------------
(* The invariant holds from channel() on.                                  *)
LEMMA DrainInvInit == Init => DrainInv
  <1> SUFFICES ASSUME Init PROVE DrainInv
    OBVIOUS
  <1>1. TypeOK
    <2>1. pc \in [Producers -> ProducerPc]
      BY DEF Init, ProducerPc
    <2>2. 0 \in Sequence /\ 0 \in 0 .. SequenceLimit
      BY QueueAssumption DEF Sequence
    <2>3. /\ slot \in [Sequence -> SlotState]
          /\ value \in [Sequence -> {NoValue} \cup (Producers \X Nat)]
          /\ created \in [Sequence -> Nat]
      BY DEF Init, SlotState
    <2>4. /\ seq \in [Producers -> Sequence] /\ offers \in [Producers -> Nat]
      BY <2>2 DEF Init
    <2> QED BY <2>1, <2>2, <2>3, <2>4 DEF Init, TypeOK, ReceiverPc, Outcome
  <1>2. Counters
    <2>1. PICK p \in Producers :
            pc = [q \in Producers |-> IF q = p THEN "idle" ELSE "unborn"]
      BY DEF Init
    <2>2. InSection = {} /\ Live = {p}
      BY <2>1 DEF InSection, Live, LivePc, SectionPc, ProducerPc
    <2>3. Cardinality(InSection) = 0 /\ Cardinality(Live) = 1
      BY <2>2, FS_EmptySet, FS_Singleton
    <2> QED BY <2>3 DEF Init, Counters
  <1>3. ReceiverView /\ DoorClosed /\ DrainIsFinal
    BY DEF Init, ReceiverView, DoorClosed, DrainIsFinal
  <1> QED BY <1>1, <1>2, <1>3 DEF DrainInv

(* Every state of the queue has its type: in particular producer_inflight  *)
(* and the sender count never wrap below zero, and the consumer's cursor   *)
(* never passes the last sequence number.                                  *)
THEOREM TypeCorrect == Spec => []TypeOK
  <1>1. DrainInv => TypeOK
    BY DEF DrainInv
  <1> QED BY <1>1, DrainInvInit, DrainInvStep, PTL DEF Spec

(* A drain that returned Ok is final: the queue is empty then and stays so *)
(* (enter_producer's two checks around producer_inflight, and the order in *)
(* which drain_after_producers_stop closes, counts and reads the boundary).*)
THEOREM DrainFinal == Spec => []DrainIsFinal
  <1>1. DrainInv => DrainIsFinal
    BY DEF DrainInv
  <1> QED BY <1>1, DrainInvInit, DrainInvStep, PTL DEF Spec

-----------------------------------------------------------------------------
(* What a producer that owns a number has done to its slot.                *)
Holding(at) ==
  IF at \in {"segment", "segmap", "mark"} THEN "EMPTY"
  ELSE IF at \in {"register", "leave", "reserved"} THEN "RESERVED"
  ELSE IF at = "writing" THEN "WRITING"
  ELSE "NONE"

Owns(p) == Holding(pc[p]) # "NONE"

(* A number has one owner, who alone touches its slot until it is settled. *)
OwnerInv ==
  /\ \A p \in Producers : Owns(p) => seq[p] < nextSeq /\ slot[seq[p]] = Holding(pc[p])
  /\ \A p, q \in Producers : Owns(p) /\ Owns(q) /\ seq[p] = seq[q] => p = q

SlotInv ==
  \A s \in Sequence :
    /\ s < cursor <=> slot[s] = "TAKEN"
    /\ s >= nextSeq => slot[s] = "EMPTY"
    /\ slot[s] = "PUBLISHED" <=> value[s] # NoValue
    /\ s < nextSeq /\ slot[s] \in {"EMPTY", "RESERVED", "WRITING"} =>
         \E p \in Producers : Owns(p) /\ seq[p] = s

(* reservations counts the producers between register and finish.          *)
ReservingPc == {"leave", "reserved", "writing", "finish"}
Reserving == {p \in Producers : pc[p] \in ReservingPc}

ReservationInv == reservations = Cardinality(Reserving)

(* The n-th offer of p went, or goes, out with number s.                   *)
Item(s, p, n) ==
  \/ value[s] = <<p, n>>
  \/ \E i \in DOMAIN delivered : delivered[i] = <<s, <<p, n>>>>

(* From the first check of enter_producer to the publication of the value. *)
OfferingPc == {"entering", "recheck", "alloc", "cas", "exhausted", "abort"}

(* A producer's numbers rise with its offers.                              *)
OfferInv ==
  \A s \in Sequence, p \in Producers, n \in Nat :
    Item(s, p, n) =>
      /\ n <= offers[p]
      /\ pc[p] \in OfferingPc \/ Owns(p) => n < offers[p]
      /\ Owns(p) => s < seq[p]
      /\ \A t \in Sequence, m \in Nat : Item(t, p, m) /\ s < t => n < m

DeliveredInv ==
  \A i \in DOMAIN delivered :
    /\ delivered[i][1] < cursor
    /\ \A j \in DOMAIN delivered : i < j => delivered[i][1] < delivered[j][1]

(* A segment exists, once, from the first producer that needs it until the *)
(* consumer is past its last number.                                       *)
SegmentInv ==
  /\ created[tail] > 0 /\ tail \in Sequence
  /\ \A s \in Sequence :
       /\ created[s] <= 1
       /\ s >= cursor /\ created[Base(s)] > 0 => Base(s) \in segments
       /\ slot[s] # "EMPTY" => created[Base(s)] > 0
       /\ s \in segments => created[s] > 0
  /\ \A p \in Producers : pc[p] = "mark" => created[Base(seq[p])] > 0

(* Most steps leave the slots and who owns them alone.                     *)
Offering(p) == pc[p] \in OfferingPc \/ Owns(p)

Plain ==
  /\ UNCHANGED <<nextSeq, slot, value, cursor, seq, delivered>>
  /\ \A q \in Producers :
       /\ Holding(pc'[q]) = Holding(pc[q])
       /\ \/ offers'[q] = offers[q] /\ (Offering(q)' => Offering(q))
          \/ offers'[q] = offers[q] + 1

LEMMA GotoPlain ==
  ASSUME TypeOK, NEW p \in Producers, NEW from, NEW to, Goto(p, from, to),
         Holding(from) = Holding(to),
         to \in OfferingPc => from \in OfferingPc,
         UNCHANGED <<nextSeq, slot, value, cursor, seq, delivered, offers>>
  PROVE  Plain
  <1>1. \A q \in Producers : pc'[q] = IF q = p THEN to ELSE pc[q]
    BY DEF TypeOK, Goto
  <1>2. pc[p] = from
    BY DEF Goto
  <1> QED BY <1>1, <1>2 DEF Plain, Offering, Owns

LEMMA StillPlain ==
  ASSUME UNCHANGED <<nextSeq, slot, value, cursor, seq, delivered, offers, pc>>
  PROVE  Plain
  BY DEF Plain, Offering, Owns

(* The steps that are not plain.                                           *)
LEMMA WhatMoves ==
  ASSUME TypeOK, [Next]_vars
  PROVE  \/ Plain
         \/ \E p \in Producers : \/ AllocCas(p) \/ MarkReserved(p) \/ PublishBegin(p)
                                 \/ PublishEnd(p) \/ DropReservation(p)
         \/ PollHead \/ DrainHead
  <1> USE DEF coreVars, producerVars, receiverVars, historyVars
  <1>1. ASSUME NEW p \in Producers, Enter(p) PROVE Plain
    <2>1. pc[p] = "idle" /\ pc' = [pc EXCEPT ![p] = "entering"]
      BY <1>1 DEF Enter, Goto
    <2>2. \A q \in Producers : /\ pc'[q] = IF q = p THEN "entering" ELSE pc[q]
                               /\ offers'[q] = IF q = p THEN offers[q] + 1 ELSE offers[q]
      BY <1>1, <2>1 DEF Enter, TypeOK
    <2>3. Holding("idle") = Holding("entering")
      BY DEF Holding
    <2>4. UNCHANGED <<nextSeq, slot, value, cursor, seq, delivered>>
      BY <1>1 DEF Enter
    <2> QED BY <2>1, <2>2, <2>3, <2>4 DEF Plain, Offering, Owns
  <1> DEFINE K == UNCHANGED <<nextSeq, slot, value, cursor, seq, delivered, offers>>
  <1>2. ASSUME NEW p \in Producers, EnterCount(p) \/ EnterRecheck(p) PROVE Plain
    <2>1. K
      BY <1>2 DEF EnterCount, EnterRecheck
    <2>2. \/ Goto(p, "entering", "recheck") \/ Goto(p, "recheck", "alloc") \/ Goto(p, "recheck", "abort")
      BY <1>2 DEF EnterCount, EnterRecheck
    <2> QED BY <2>1, <2>2, GotoPlain DEF Holding, OfferingPc
  <1>3. ASSUME NEW p \in Producers,
               AllocCheck(p) \/ AllocRetry(p) \/ AllocExhausted(p) \/ AllocExhaustedClose(p)
        PROVE  Plain
    <2>1. K
      BY <1>3 DEF AllocCheck, AllocRetry, AllocExhausted, AllocExhaustedClose
    <2>2. \/ Goto(p, "alloc", "abort") \/ Goto(p, "alloc", "cas") \/ Goto(p, "cas", "alloc")
          \/ Goto(p, "cas", "exhausted") \/ Goto(p, "exhausted", "abort")
      BY <1>3 DEF AllocCheck, AllocRetry, AllocExhausted, AllocExhaustedClose
    <2> QED BY <2>1, <2>2, GotoPlain DEF Holding, OfferingPc
  <1>4. ASSUME NEW p \in Producers, SegmentTail(p) \/ SegmentMap(p) \/ RegisterReservation(p)
        PROVE  Plain
    <2>1. K
      BY <1>4 DEF SegmentTail, SegmentMap, RegisterReservation
    <2>2. \/ Goto(p, "segment", "mark") \/ Goto(p, "segment", "segmap")
          \/ Goto(p, "segmap", "mark") \/ Goto(p, "register", "leave")
      BY <1>4 DEF SegmentTail, SegmentMap, RegisterReservation
    <2> QED BY <2>1, <2>2, GotoPlain DEF Holding, OfferingPc
  <1>5. ASSUME NEW p \in Producers, LeaveSection(p) \/ FinishReservation(p) PROVE Plain
    <2>1. K
      BY <1>5 DEF LeaveSection, FinishReservation
    <2>2. Goto(p, "leave", "reserved") \/ Goto(p, "abort", "idle") \/ Goto(p, "finish", "idle")
      BY <1>5 DEF LeaveSection, FinishReservation
    <2> QED BY <2>1, <2>2, GotoPlain DEF Holding, OfferingPc
  <1>6. ASSUME NEW p \in Producers, DropSender(p) \/ DropLastSender(p) PROVE Plain
    <2>1. K
      BY <1>6 DEF DropSender, DropLastSender
    <2>2. Goto(p, "idle", "dropping") \/ Goto(p, "idle", "gone") \/ Goto(p, "dropping", "gone")
      BY <1>6 DEF DropSender, DropLastSender
    <2> QED BY <2>1, <2>2, GotoPlain DEF Holding, OfferingPc
  <1>7. ASSUME NEW p \in Producers, NEW q \in Producers, CloneSender(p, q) PROVE Plain
    <2>1. K /\ Goto(q, "unborn", "idle")
      BY <1>7 DEF CloneSender
    <2> QED BY <2>1, GotoPlain DEF Holding, OfferingPc
  <1>8. ASSUME Close \/ PollBegin \/ PollLoad \/ PollEmpty \/ PollClosing \/ ReclaimLoad
        PROVE  Plain
    BY <1>8, StillPlain DEF Close, PollBegin, PollLoad, PollEmpty, PollClosing, ReclaimLoad
  <1>9. ASSUME DrainBegin \/ DrainLoad \/ DrainBoundary \/ DrainDone \/ DropReceiver PROVE Plain
    BY <1>9, StillPlain DEF DrainBegin, DrainLoad, DrainBoundary, DrainDone, DropReceiver
  <1>10. ASSUME UNCHANGED vars PROVE Plain
    BY <1>10, StillPlain DEF vars
  <1> QED BY <1>1, <1>2, <1>3, <1>4, <1>5, <1>6, <1>7, <1>8, <1>9, <1>10 DEF Next, ProducerStep,
        ReserveStep, PublishStep, ReceiverStep, PollStep, DrainStep

(* The consumer at the head: it takes what is published or poisoned there, *)
(* and its internal check never fails.                                     *)
HeadTaken ==
  /\ cursor \in Sequence /\ cursor < nextSeq
  /\ slot' = [slot EXCEPT ![cursor] = "TAKEN"] /\ cursor' = cursor + 1
  /\ \/ /\ slot[cursor] = "PUBLISHED"
        /\ value' = [value EXCEPT ![cursor] = NoValue]
        /\ delivered' = Append(delivered, <<cursor, value[cursor]>>)
     \/ /\ slot[cursor] = "POISONED"
        /\ UNCHANGED <<value, delivered>>

LEMMA HeadMoves ==
  ASSUME DrainInv, SlotInv, PollHead \/ DrainHead
  PROVE  /\ UNCHANGED <<nextSeq, seq, pc, offers>>
         /\ HeadTaken \/ UNCHANGED <<slot, value, cursor, delivered>>
  <1>1. MatchHead /\ UNCHANGED <<nextSeq, seq, pc, offers>>
    BY DEF PollHead, DrainHead, producerVars
  <1>2. cursor < nextSeq /\ cursor \in Sequence
    <2>1. cpc \in {"head", "drainhead"}
      BY DEF PollHead, DrainHead, ReceiverGoto
    <2>2. cursor < seen /\ seen <= nextSeq
      BY <2>1 DEF DrainInv, ReceiverView
    <2>3. cursor \in Nat /\ seen \in Nat /\ nextSeq \in Nat /\ nextSeq <= SequenceLimit /\ SequenceLimit \in Nat
      BY QueueAssumption DEF DrainInv, TypeOK
    <2> QED BY <2>2, <2>3 DEF Sequence
  <1> DEFINE state == IF SegmentVisible THEN slot[cursor] ELSE "EMPTY"
             item == state = "PUBLISHED" /\ value[cursor] # NoValue
             taken == item \/ state = "POISONED"
  <1>3. /\ delivered' = IF item THEN Append(delivered, <<cursor, value[cursor]>>) ELSE delivered
        /\ value' = IF item THEN [value EXCEPT ![cursor] = NoValue] ELSE value
        /\ slot' = IF taken THEN [slot EXCEPT ![cursor] = "TAKEN"] ELSE slot
        /\ cursor' = IF taken THEN cursor + 1 ELSE cursor
    BY <1>1 DEF MatchHead
  <1>4. CASE item
    BY <1>1, <1>2, <1>3, <1>4 DEF HeadTaken
  <1>5. CASE ~item /\ state = "POISONED"
    BY <1>1, <1>2, <1>3, <1>5 DEF HeadTaken
  <1>6. CASE ~item /\ state # "POISONED"
    BY <1>1, <1>3, <1>6
  <1> QED BY <1>4, <1>5, <1>6

-----------------------------------------------------------------------------
(* Ownership of numbers and the state of their slots.                      *)
LEMMA OwnerStep == DrainInv /\ OwnerInv /\ SlotInv /\ [Next]_vars => OwnerInv' /\ SlotInv'
  <1> SUFFICES ASSUME DrainInv, OwnerInv, SlotInv, [Next]_vars PROVE OwnerInv' /\ SlotInv'
    OBVIOUS
  <1>0. /\ TypeOK /\ pc \in [Producers -> ProducerPc] /\ seq \in [Producers -> Sequence]
        /\ slot \in [Sequence -> SlotState] /\ nextSeq \in Nat /\ nextSeq <= SequenceLimit
        /\ value \in [Sequence -> {NoValue} \cup (Producers \X Nat)]
        /\ cursor \in Nat /\ cursor <= nextSeq /\ Sequence \subseteq Nat /\ SequenceLimit \in Nat
    BY QueueAssumption DEF DrainInv, TypeOK, ReceiverView, Sequence
  <1>1. CASE Plain
    <2>1. \A q \in Producers : Holding(pc'[q]) = Holding(pc[q])
      BY <1>1 DEF Plain
    <2>2. UNCHANGED <<nextSeq, slot, value, cursor, seq>>
      BY <1>1 DEF Plain
    <2>3. OwnerInv'
      BY <2>1, <2>2 DEF OwnerInv, Owns
    <2>4. SlotInv'
      BY <2>1, <2>2 DEF SlotInv, Owns
    <2> QED BY <2>3, <2>4
  <1>2. ASSUME NEW p \in Producers, AllocCas(p) PROVE OwnerInv' /\ SlotInv'
    <2>1. /\ pc[p] = "cas" /\ pc' = [pc EXCEPT ![p] = "segment"]
          /\ seq' = [seq EXCEPT ![p] = nextSeq] /\ nextSeq' = nextSeq + 1
          /\ nextSeq < SequenceLimit /\ UNCHANGED <<slot, value, cursor>>
      BY <1>2 DEF AllocCas, Goto, receiverVars
    <2>2. nextSeq \in Sequence
      BY <1>0, <2>1 DEF Sequence
    <2>3. \A q \in Producers : /\ pc'[q] = IF q = p THEN "segment" ELSE pc[q]
                               /\ seq'[q] = IF q = p THEN nextSeq ELSE seq[q]
      BY <1>0, <2>1
    <2>4. Holding("segment") = "EMPTY" /\ Holding("cas") = "NONE"
      BY DEF Holding
    <2>5. slot[nextSeq] = "EMPTY"
      BY <1>0, <2>2 DEF SlotInv
    <2>6. \A q \in Producers : Owns(q)' <=> Owns(q) \/ q = p
      BY <2>1, <2>3, <2>4 DEF Owns
    <2>7. OwnerInv'
      <3>1. ASSUME NEW q \in Producers, Owns(q)'
            PROVE  seq'[q] < nextSeq' /\ slot'[seq'[q]] = Holding(pc'[q])
        <4>1. CASE q = p
          BY <1>0, <2>1, <2>3, <2>4, <2>5, <4>1
        <4>2. CASE q # p
          <5>1. seq[q] < nextSeq /\ slot[seq[q]] = Holding(pc[q]) /\ seq[q] \in Nat
            BY <1>0, <2>6, <3>1, <4>2 DEF OwnerInv
          <5> QED BY <1>0, <2>1, <2>3, <4>2, <5>1
        <4> QED BY <4>1, <4>2
      <3>2. ASSUME NEW q \in Producers, NEW r \in Producers, Owns(q)', Owns(r)', seq'[q] = seq'[r]
            PROVE  q = r
        <4>1. \A x \in Producers : Owns(x) => seq[x] < nextSeq /\ seq[x] \in Nat
          BY <1>0 DEF OwnerInv
        <4> QED BY <1>0, <2>3, <2>6, <3>2, <4>1 DEF OwnerInv
      <3> QED BY <3>1, <3>2 DEF OwnerInv
    <2>8. SlotInv'
      <3> SUFFICES ASSUME NEW s \in Sequence
                   PROVE  /\ s < cursor <=> slot[s] = "TAKEN"
                          /\ s >= nextSeq + 1 => slot[s] = "EMPTY"
                          /\ slot[s] = "PUBLISHED" <=> value[s] # NoValue
                          /\ s < nextSeq + 1 /\ slot[s] \in {"EMPTY", "RESERVED", "WRITING"} =>
                               \E q \in Producers : Owns(q)' /\ seq'[q] = s
        BY <2>1 DEF SlotInv
      <3>1. CASE s = nextSeq
        <4>1. Owns(p)' /\ seq'[p] = s
          BY <2>3, <2>6, <3>1
        <4> QED BY <1>0, <3>1, <4>1 DEF SlotInv
      <3>2. CASE s # nextSeq
        <4>1. ASSUME s < nextSeq, slot[s] \in {"EMPTY", "RESERVED", "WRITING"}
              PROVE  \E q \in Producers : Owns(q)' /\ seq'[q] = s
          <5>1. PICK q \in Producers : Owns(q) /\ seq[q] = s
            BY <4>1 DEF SlotInv
          <5>2. q # p
            BY <2>1, <2>4, <5>1 DEF Owns
          <5> QED BY <2>3, <2>6, <5>1, <5>2
        <4>2. s >= nextSeq + 1 => s >= nextSeq
          BY <1>0
        <4>3. s < nextSeq + 1 => s < nextSeq
          BY <1>0, <3>2
        <4> QED BY <4>1, <4>2, <4>3 DEF SlotInv
      <3> QED BY <3>1, <3>2
    <2> QED BY <2>7, <2>8
  (* The owner moves its slot on; when it is settled, it owns it no more. *)
  <1>3. ASSUME NEW p \in Producers, NEW to \in ProducerPc, NEW st \in SlotState,
               Owns(p), pc' = [pc EXCEPT ![p] = to], slot' = [slot EXCEPT ![seq[p]] = st],
               UNCHANGED <<nextSeq, cursor, seq>>, st # "TAKEN",
               IF Holding(to) = "NONE" THEN st \in {"PUBLISHED", "POISONED"} ELSE st = Holding(to),
               \A s \in Sequence : s # seq[p] => value'[s] = value[s],
               st = "PUBLISHED" <=> value'[seq[p]] # NoValue
        PROVE  OwnerInv' /\ SlotInv'
    <2> DEFINE n == seq[p]
    <2>1. n \in Sequence /\ n < nextSeq /\ slot[n] = Holding(pc[p])
      BY <1>0, <1>3 DEF OwnerInv
    <2>2. slot[n] # "TAKEN"
      BY <2>1 DEF Holding
    <2>3. \A q \in Producers : pc'[q] = IF q = p THEN to ELSE pc[q]
      BY <1>0, <1>3
    <2>4. \A s \in Sequence : slot'[s] = IF s = n THEN st ELSE slot[s]
      BY <1>0, <1>3
    <2>5. \A q \in Producers : q # p => (Owns(q)' <=> Owns(q))
      BY <2>3 DEF Owns
    <2>6. Owns(p)' <=> Holding(to) # "NONE"
      BY <2>3 DEF Owns
    <2>7. OwnerInv'
      <3>1. ASSUME NEW q \in Producers, Owns(q)'
            PROVE  seq[q] < nextSeq /\ slot'[seq[q]] = Holding(pc'[q])
        <4>1. CASE q = p
          BY <1>3, <2>1, <2>3, <2>4, <2>6, <3>1, <4>1
        <4>2. CASE q # p
          <5>1. Owns(q) /\ seq[q] # n /\ seq[q] \in Sequence
            BY <1>0, <1>3, <2>5, <3>1, <4>2 DEF OwnerInv
          <5> QED BY <2>3, <2>4, <4>2, <5>1 DEF OwnerInv
        <4> QED BY <4>1, <4>2
      <3>2. \A q \in Producers : Owns(q)' => Owns(q)
        BY <1>3, <2>5
      <3> QED BY <1>3, <3>1, <3>2 DEF OwnerInv
    <2>8. SlotInv'
      <3> SUFFICES ASSUME NEW s \in Sequence
                   PROVE  /\ s < cursor <=> slot'[s] = "TAKEN"
                          /\ s >= nextSeq => slot'[s] = "EMPTY"
                          /\ slot'[s] = "PUBLISHED" <=> value'[s] # NoValue
                          /\ s < nextSeq /\ slot'[s] \in {"EMPTY", "RESERVED", "WRITING"} =>
                               \E q \in Producers : Owns(q)' /\ seq[q] = s
        BY <1>3 DEF SlotInv
      <3>1. CASE s = n
        <4>1. s < cursor <=> slot'[s] = "TAKEN"
          BY <1>3, <2>1, <2>2, <2>4, <3>1 DEF SlotInv
        <4>2. ~(s >= nextSeq)
          BY <1>0, <2>1, <3>1
        <4>3. slot'[s] = "PUBLISHED" <=> value'[s] # NoValue
          BY <1>3, <2>1, <2>4, <3>1
        <4>4. slot'[s] \in {"EMPTY", "RESERVED", "WRITING"} => Owns(p)' /\ seq[p] = s
          BY <1>3, <2>1, <2>4, <2>6, <3>1
        <4> QED BY <4>1, <4>2, <4>3, <4>4
      <3>2. CASE s # n
        <4>1. slot'[s] = slot[s] /\ value'[s] = value[s]
          BY <1>3, <2>4, <3>2
        <4>2. ASSUME NEW q \in Producers, Owns(q), seq[q] = s PROVE Owns(q)'
          BY <2>5, <3>2, <4>2
        <4> QED BY <4>1, <4>2 DEF SlotInv
      <3> QED BY <3>1, <3>2
    <2> QED BY <2>7, <2>8
  <1>a. \A p \in Producers : Owns(p) => value[seq[p]] = NoValue
    BY <1>0 DEF OwnerInv, SlotInv, Holding
  <1>4. ASSUME NEW p \in Producers, MarkReserved(p) PROVE OwnerInv' /\ SlotInv'
    <2>1. pc[p] = "mark" /\ Owns(p)
      BY <1>4 DEF MarkReserved, Goto, Owns, Holding
    <2>2. slot[seq[p]] = "EMPTY"
      BY <2>1 DEF OwnerInv, Holding
    <2>3. /\ pc' = [pc EXCEPT ![p] = "register"] /\ slot' = [slot EXCEPT ![seq[p]] = "RESERVED"]
          /\ UNCHANGED <<nextSeq, cursor, seq, value>>
      BY <1>4, <2>2 DEF MarkReserved, Goto, receiverVars
    <2>4. Holding("register") = "RESERVED" /\ "register" \in ProducerPc /\ "RESERVED" \in SlotState
      BY DEF Holding, ProducerPc, SectionPc, SlotState
    <2> QED BY <1>3, <1>a, <2>1, <2>3, <2>4
  <1>5. ASSUME NEW p \in Producers, PublishBegin(p) PROVE OwnerInv' /\ SlotInv'
    <2>1. pc[p] = "reserved" /\ Owns(p)
      BY <1>5 DEF PublishBegin, Goto, Owns, Holding
    <2>2. slot[seq[p]] = "RESERVED"
      BY <2>1 DEF OwnerInv, Holding
    <2>3. /\ pc' = [pc EXCEPT ![p] = "writing"] /\ slot' = [slot EXCEPT ![seq[p]] = "WRITING"]
          /\ UNCHANGED <<nextSeq, cursor, seq, value>>
      BY <1>5, <2>2 DEF PublishBegin, Goto, receiverVars
    <2>4. Holding("writing") = "WRITING" /\ "writing" \in ProducerPc /\ "WRITING" \in SlotState
      BY DEF Holding, ProducerPc, ReservationPc, SlotState
    <2> QED BY <1>3, <1>a, <2>1, <2>3, <2>4
  <1>6. ASSUME NEW p \in Producers, PublishEnd(p) PROVE OwnerInv' /\ SlotInv'
    <2>1. pc[p] = "writing" /\ Owns(p) /\ seq[p] \in Sequence
      BY <1>0, <1>6 DEF PublishEnd, Goto, Owns, Holding
    <2>2. /\ pc' = [pc EXCEPT ![p] = "finish"] /\ slot' = [slot EXCEPT ![seq[p]] = "PUBLISHED"]
          /\ UNCHANGED <<nextSeq, cursor, seq>> /\ value' = [value EXCEPT ![seq[p]] = <<p, offers[p]>>]
      BY <1>6 DEF PublishEnd, Goto, receiverVars
    <2>3. /\ \A s \in Sequence : s # seq[p] => value'[s] = value[s]
          /\ value'[seq[p]] = <<p, offers[p]>>
      BY <1>0, <2>1, <2>2
    <2>4. <<p, offers[p]>> # NoValue
      BY DEF NoValue
    <2>5. Holding("finish") = "NONE" /\ "finish" \in ProducerPc /\ "PUBLISHED" \in SlotState
      BY DEF Holding, ProducerPc, ReservationPc, SlotState
    <2> QED BY <1>3, <2>1, <2>2, <2>3, <2>4, <2>5
  <1>7. ASSUME NEW p \in Producers, DropReservation(p) PROVE OwnerInv' /\ SlotInv'
    <2>1. pc[p] = "reserved" /\ Owns(p)
      BY <1>7 DEF DropReservation, Goto, Owns, Holding
    <2>2. slot[seq[p]] = "RESERVED"
      BY <2>1 DEF OwnerInv, Holding
    <2>3. /\ pc' = [pc EXCEPT ![p] = "finish"] /\ slot' = [slot EXCEPT ![seq[p]] = "POISONED"]
          /\ UNCHANGED <<nextSeq, cursor, seq, value>>
      BY <1>7, <2>2 DEF DropReservation, Goto, receiverVars
    <2>4. Holding("finish") = "NONE" /\ "finish" \in ProducerPc /\ "POISONED" \in SlotState
      BY DEF Holding, ProducerPc, ReservationPc, SlotState
    <2> QED BY <1>3, <1>a, <2>1, <2>3, <2>4
  <1>8. CASE PollHead \/ DrainHead
    <2>1. UNCHANGED <<nextSeq, seq, pc>> /\ (HeadTaken \/ UNCHANGED <<slot, value, cursor>>)
      BY <1>8, HeadMoves
    <2>2. CASE UNCHANGED <<slot, value, cursor>>
      BY <2>1, <2>2 DEF OwnerInv, SlotInv, Owns
    <2>3. CASE HeadTaken
      <3>1. /\ cursor \in Sequence /\ cursor < nextSeq /\ cursor' = cursor + 1
            /\ slot[cursor] \in {"PUBLISHED", "POISONED"}
            /\ \A s \in Sequence : slot'[s] = IF s = cursor THEN "TAKEN" ELSE slot[s]
        BY <1>0, <2>3 DEF HeadTaken
      <3>2. \A q \in Producers : Owns(q) => seq[q] # cursor
        BY <3>1 DEF OwnerInv, Holding
      <3>3. /\ \A s \in Sequence : s # cursor => value'[s] = value[s]
            /\ value'[cursor] = NoValue
        <4>1. slot[cursor] = "POISONED" => value[cursor] = NoValue
          BY <3>1 DEF SlotInv
        <4> QED BY <1>0, <2>3, <3>1, <4>1 DEF HeadTaken
      <3>4. OwnerInv'
        BY <1>0, <2>1, <3>1, <3>2 DEF OwnerInv, Owns
      <3>5. SlotInv'
        <4> SUFFICES ASSUME NEW s \in Sequence
                     PROVE  /\ s < cursor + 1 <=> slot'[s] = "TAKEN"
                            /\ s >= nextSeq => slot'[s] = "EMPTY"
                            /\ slot'[s] = "PUBLISHED" <=> value'[s] # NoValue
                            /\ s < nextSeq /\ slot'[s] \in {"EMPTY", "RESERVED", "WRITING"} =>
                                 \E q \in Producers : Owns(q) /\ seq[q] = s
          BY <2>1, <3>1 DEF SlotInv, Owns
        <4>1. CASE s = cursor
          BY <1>0, <3>1, <3>3, <4>1
        <4>2. CASE s # cursor
          <5>1. s < cursor + 1 <=> s < cursor
            BY <1>0, <4>2
          <5> QED BY <3>1, <3>3, <4>2, <5>1 DEF SlotInv
        <4> QED BY <4>1, <4>2
      <3> QED BY <3>4, <3>5
    <2> QED BY <2>1, <2>2, <2>3
  <1> QED BY <1>0, <1>1, <1>2, <1>4, <1>5, <1>6, <1>7, <1>8, WhatMoves

-----------------------------------------------------------------------------
(* The count of reservations.                                              *)
LEMMA GotoReserving ==
  ASSUME TypeOK, ReservationInv, NEW p \in Producers, NEW from, NEW to, Goto(p, from, to)
  PROVE  /\ (from \in ReservingPc <=> to \in ReservingPc) /\ UNCHANGED reservations => ReservationInv'
         /\ from \notin ReservingPc /\ to \in ReservingPc /\ reservations' = reservations + 1 => ReservationInv'
         /\ from \in ReservingPc /\ to \notin ReservingPc =>
              reservations > 0 /\ (reservations' = reservations - 1 => ReservationInv')
  <1>1. pc \in [Producers -> ProducerPc] /\ pc[p] = from /\ pc' = [pc EXCEPT ![p] = to]
    BY DEF TypeOK, Goto
  <1>2. /\ Reserving = {q \in Producers : pc[q] \in ReservingPc}
        /\ Reserving' = {q \in Producers : pc'[q] \in ReservingPc}
    BY DEF Reserving
  <1>3. /\ Cardinality(Reserving) \in Nat
        /\ (pc[p] \in ReservingPc /\ to \in ReservingPc) => Cardinality(Reserving') = Cardinality(Reserving)
        /\ (pc[p] \notin ReservingPc /\ to \notin ReservingPc) => Cardinality(Reserving') = Cardinality(Reserving)
        /\ (pc[p] \notin ReservingPc /\ to \in ReservingPc) => Cardinality(Reserving') = Cardinality(Reserving) + 1
        /\ (pc[p] \in ReservingPc /\ to \notin ReservingPc) =>
             /\ Cardinality(Reserving') = Cardinality(Reserving) - 1
             /\ Cardinality(Reserving) > 0
    BY <1>1, <1>2, CountMoves
  <1> QED BY <1>1, <1>3 DEF ReservationInv

LEMMA ReservationStep == TypeOK /\ ReservationInv /\ [Next]_vars => ReservationInv'
  <1> SUFFICES ASSUME TypeOK, ReservationInv, [Next]_vars PROVE ReservationInv'
    OBVIOUS
  <1> USE DEF coreVars, producerVars, receiverVars, historyVars, ReservingPc
  <1>1. ASSUME NEW p \in Producers, Enter(p) \/ EnterCount(p) \/ EnterRecheck(p) PROVE ReservationInv'
    <2>1. UNCHANGED reservations
      BY <1>1 DEF Enter, EnterCount, EnterRecheck
    <2>2. \/ Goto(p, "idle", "entering") \/ Goto(p, "entering", "recheck")
          \/ Goto(p, "recheck", "alloc") \/ Goto(p, "recheck", "abort")
      BY <1>1 DEF Enter, EnterCount, EnterRecheck
    <2> QED BY <2>1, <2>2, GotoReserving
  <1>2. ASSUME NEW p \in Producers,
               \/ AllocCheck(p) \/ AllocRetry(p) \/ AllocExhausted(p)
               \/ AllocExhaustedClose(p) \/ AllocCas(p)
        PROVE  ReservationInv'
    <2>1. UNCHANGED reservations
      BY <1>2 DEF AllocCheck, AllocRetry, AllocExhausted, AllocExhaustedClose, AllocCas
    <2>2. \/ Goto(p, "alloc", "abort") \/ Goto(p, "alloc", "cas") \/ Goto(p, "cas", "alloc")
          \/ Goto(p, "cas", "exhausted") \/ Goto(p, "exhausted", "abort") \/ Goto(p, "cas", "segment")
      BY <1>2 DEF AllocCheck, AllocRetry, AllocExhausted, AllocExhaustedClose, AllocCas
    <2> QED BY <2>1, <2>2, GotoReserving
  <1>3. ASSUME NEW p \in Producers, SegmentTail(p) \/ SegmentMap(p) \/ MarkReserved(p) PROVE ReservationInv'
    <2>1. UNCHANGED reservations
      BY <1>3 DEF SegmentTail, SegmentMap, MarkReserved
    <2>2. \/ Goto(p, "segment", "mark") \/ Goto(p, "segment", "segmap")
          \/ Goto(p, "segmap", "mark") \/ Goto(p, "mark", "register") \/ Goto(p, "mark", "abort")
      BY <1>3 DEF SegmentTail, SegmentMap, MarkReserved
    <2> QED BY <2>1, <2>2, GotoReserving
  <1>4. ASSUME NEW p \in Producers, RegisterReservation(p) PROVE ReservationInv'
    BY <1>4, GotoReserving DEF RegisterReservation
  <1>5. ASSUME NEW p \in Producers, LeaveSection(p) \/ PublishBegin(p) \/ PublishEnd(p) \/ DropReservation(p)
        PROVE  ReservationInv'
    <2>1. UNCHANGED reservations
      BY <1>5 DEF LeaveSection, PublishBegin, PublishEnd, DropReservation
    <2>2. \/ Goto(p, "leave", "reserved") \/ Goto(p, "abort", "idle") \/ Goto(p, "reserved", "writing")
          \/ Goto(p, "reserved", "finish") \/ Goto(p, "writing", "finish")
      BY <1>5 DEF LeaveSection, PublishBegin, PublishEnd, DropReservation
    <2> QED BY <2>1, <2>2, GotoReserving
  <1>6. ASSUME NEW p \in Producers, FinishReservation(p) PROVE ReservationInv'
    BY <1>6, GotoReserving DEF FinishReservation
  <1>7. ASSUME NEW p \in Producers, DropSender(p) \/ DropLastSender(p) PROVE ReservationInv'
    <2>1. UNCHANGED reservations
      BY <1>7 DEF DropSender, DropLastSender
    <2>2. Goto(p, "idle", "dropping") \/ Goto(p, "idle", "gone") \/ Goto(p, "dropping", "gone")
      BY <1>7 DEF DropSender, DropLastSender
    <2> QED BY <2>1, <2>2, GotoReserving
  <1>8. ASSUME NEW p \in Producers, NEW q \in Producers, CloneSender(p, q) PROVE ReservationInv'
    BY <1>8, GotoReserving DEF CloneSender
  <1>9. ASSUME \/ Close \/ PollBegin \/ PollLoad \/ PollEmpty \/ PollClosing \/ ReclaimLoad \/ PollHead
               \/ DrainBegin \/ DrainLoad \/ DrainBoundary \/ DrainHead \/ DrainDone \/ DropReceiver
               \/ UNCHANGED vars
        PROVE  UNCHANGED <<reservations, pc>>
    BY <1>9 DEF Close, PollBegin, PollLoad, PollEmpty, PollClosing, ReclaimLoad, PollHead,
        DrainBegin, DrainLoad, DrainBoundary, DrainHead, DrainDone, DropReceiver, vars
  <1>10. CASE UNCHANGED <<reservations, pc>>
    BY <1>10 DEF ReservationInv, Reserving
  <1> QED BY <1>1, <1>2, <1>3, <1>4, <1>5, <1>6, <1>7, <1>8, <1>9, <1>10 DEF Next, ProducerStep,
        ReserveStep, PublishStep, ReceiverStep, PollStep, DrainStep

-----------------------------------------------------------------------------
(* Deliveries.                                                             *)
LEMMA DeliveredStep ==
  DrainInv /\ SlotInv /\ DeliveredInv /\ [Next]_vars => DeliveredInv'
  <1> SUFFICES ASSUME DrainInv, SlotInv, DeliveredInv, [Next]_vars PROVE DeliveredInv'
    OBVIOUS
  <1>0. /\ TypeOK /\ delivered \in Seq(Sequence \X (Producers \X Nat)) /\ cursor \in Nat
        /\ value \in [Sequence -> {NoValue} \cup (Producers \X Nat)] /\ Sequence \subseteq Nat
        /\ DOMAIN delivered = 1 .. Len(delivered) /\ Len(delivered) \in Nat
        /\ \A i \in DOMAIN delivered : delivered[i][1] \in Nat
    <2>1. /\ TypeOK /\ delivered \in Seq(Sequence \X (Producers \X Nat)) /\ cursor \in Nat
          /\ value \in [Sequence -> {NoValue} \cup (Producers \X Nat)] /\ Sequence \subseteq Nat
      BY QueueAssumption DEF DrainInv, TypeOK, Sequence
    <2>2. \A i \in DOMAIN delivered : delivered[i] \in Sequence \X (Producers \X Nat)
      BY <2>1
    <2>3. \A i \in DOMAIN delivered : delivered[i][1] \in Sequence
      BY <2>2
    <2>4. DOMAIN delivered = 1 .. Len(delivered) /\ Len(delivered) \in Nat
      BY <2>1
    <2> QED BY <2>1, <2>3, <2>4
  <1>1. CASE UNCHANGED <<delivered, cursor>>
    BY <1>1 DEF DeliveredInv
  <1>2. CASE HeadTaken
    <2>1. CASE UNCHANGED delivered
      <3>1. cursor' = cursor + 1
        BY <1>2 DEF HeadTaken
      <3>2. \A i \in DOMAIN delivered : delivered[i][1] < cursor + 1
        BY <1>0 DEF DeliveredInv
      <3> QED BY <2>1, <3>1, <3>2 DEF DeliveredInv
    <2>2. CASE delivered' = Append(delivered, <<cursor, value[cursor]>>) /\ value[cursor] # NoValue
      <3>1. cursor' = cursor + 1 /\ cursor \in Sequence
        BY <1>2 DEF HeadTaken
      <3> DEFINE e == <<cursor, value[cursor]>>
      <3>2. e \in Sequence \X (Producers \X Nat) /\ e[1] = cursor
        BY <1>0, <2>2, <3>1
      <3> HIDE DEF e
      <3>3. /\ DOMAIN delivered' = 1 .. Len(delivered) + 1
            /\ delivered'[Len(delivered) + 1] = e
            /\ \A i \in DOMAIN delivered : delivered'[i] = delivered[i]
        BY <1>0, <2>2, <3>2 DEF e
      <3>4. ASSUME NEW i \in DOMAIN delivered'
            PROVE  /\ delivered'[i][1] < cursor'
                   /\ \A j \in DOMAIN delivered' : i < j => delivered'[i][1] < delivered'[j][1]
        <4>1. CASE i = Len(delivered) + 1
          BY <1>0, <3>1, <3>2, <3>3, <4>1
        <4>2. CASE i # Len(delivered) + 1
          <5>1. i \in DOMAIN delivered /\ delivered'[i] = delivered[i]
            BY <1>0, <3>3, <4>2
          <5>2. delivered[i][1] < cursor /\ delivered[i][1] \in Nat
            BY <1>0, <5>1 DEF DeliveredInv
          <5>3. ASSUME NEW j \in DOMAIN delivered', i < j PROVE delivered'[i][1] < delivered'[j][1]
            <6>1. CASE j = Len(delivered) + 1
              BY <3>2, <3>3, <5>1, <5>2, <6>1
            <6>2. CASE j # Len(delivered) + 1
              <7>1. j \in DOMAIN delivered
                BY <1>0, <3>3, <6>2
              <7> QED BY <3>3, <5>1, <5>3, <7>1 DEF DeliveredInv
            <6> QED BY <6>1, <6>2
          <5> QED BY <1>0, <3>1, <5>1, <5>2, <5>3
        <4> QED BY <4>1, <4>2
      <3> QED BY <3>4 DEF DeliveredInv
    <2> QED BY <1>2, <2>1, <2>2 DEF HeadTaken, SlotInv
  <1>3. ASSUME NEW p \in Producers,
               AllocCas(p) \/ MarkReserved(p) \/ PublishBegin(p) \/ PublishEnd(p) \/ DropReservation(p)
        PROVE  UNCHANGED <<delivered, cursor>>
    BY <1>3 DEF AllocCas, MarkReserved, PublishBegin, PublishEnd, DropReservation, receiverVars, historyVars
  <1> QED BY <1>0, <1>1, <1>2, <1>3, WhatMoves, HeadMoves DEF Plain

-----------------------------------------------------------------------------
(* The offers of one producer.                                             *)
LEMMA OfferStep ==
  DrainInv /\ OwnerInv /\ SlotInv /\ DeliveredInv /\ OfferInv /\ [Next]_vars => OfferInv'
  <1> SUFFICES ASSUME DrainInv, OwnerInv, SlotInv, DeliveredInv, OfferInv, [Next]_vars
               PROVE  OfferInv'
    OBVIOUS
  <1>0. /\ TypeOK /\ pc \in [Producers -> ProducerPc] /\ seq \in [Producers -> Sequence]
        /\ offers \in [Producers -> Nat] /\ nextSeq \in Nat /\ cursor \in Nat /\ cursor <= nextSeq
        /\ value \in [Sequence -> {NoValue} \cup (Producers \X Nat)] /\ Sequence \subseteq Nat
        /\ delivered \in Seq(Sequence \X (Producers \X Nat))
    BY QueueAssumption DEF DrainInv, TypeOK, ReceiverView, Sequence
  <1>a. \A s \in Sequence, p \in Producers, n \in Nat : Item(s, p, n) => s < nextSeq
    <2> SUFFICES ASSUME NEW s \in Sequence, NEW p \in Producers, NEW n \in Nat, Item(s, p, n)
                 PROVE  s < nextSeq
      OBVIOUS
    <2>1. CASE value[s] = <<p, n>>
      <3>1. value[s] # NoValue
        BY <2>1 DEF NoValue
      <3> QED BY <1>0, <3>1 DEF SlotInv
    <2>2. CASE \E i \in DOMAIN delivered : delivered[i] = <<s, <<p, n>>>>
      BY <1>0, <2>2 DEF DeliveredInv
    <2> QED BY <2>1, <2>2 DEF Item
  <1>b. \A s \in Sequence, p \in Producers, n \in Nat : Item(s, p, n) =>
          /\ n <= offers[p]
          /\ Offering(p) => n < offers[p]
          /\ Owns(p) => s < seq[p]
          /\ \A t \in Sequence, m \in Nat : Item(t, p, m) /\ s < t => n < m
    BY DEF OfferInv, Offering
  (* No item is added, and a producer only moves on with its offer. *)
  <1>c. ASSUME \A s \in Sequence, p \in Producers, n \in Nat : Item(s, p, n)' => Item(s, p, n),
               \A p \in Producers :
                 \/ offers'[p] = offers[p] /\ (Offering(p)' => Offering(p))
                 \/ offers'[p] = offers[p] + 1,
               \A p \in Producers, s \in Sequence :
                 Owns(p)' => (Owns(p) /\ seq'[p] = seq[p]) \/ seq'[p] = nextSeq
        PROVE  OfferInv'
    <2> SUFFICES ASSUME NEW s \in Sequence, NEW p \in Producers, NEW n \in Nat, Item(s, p, n)'
                 PROVE  /\ n <= offers'[p]
                        /\ Offering(p)' => n < offers'[p]
                        /\ Owns(p)' => s < seq'[p]
                        /\ \A t \in Sequence, m \in Nat : Item(t, p, m)' /\ s < t => n < m
      BY DEF OfferInv, Offering
    <2>1. Item(s, p, n) /\ offers[p] \in Nat
      BY <1>0, <1>c
    <2>2. n <= offers'[p] /\ (Offering(p)' => n < offers'[p])
      BY <1>b, <1>c, <2>1
    <2>3. Owns(p)' => s < seq'[p]
      BY <1>a, <1>b, <1>c, <2>1
    <2> QED BY <1>b, <1>c, <2>1, <2>2, <2>3
  <1>d. ASSUME UNCHANGED <<value, delivered>>
        PROVE  \A s \in Sequence, p \in Producers, n \in Nat : Item(s, p, n)' => Item(s, p, n)
    BY <1>d DEF Item
  <1>1. CASE Plain
    <2>1. \A p \in Producers : Owns(p)' <=> Owns(p)
      BY <1>1 DEF Plain, Owns
    <2> QED BY <1>1, <1>c, <1>d, <2>1 DEF Plain
  <1>2. ASSUME NEW p \in Producers, AllocCas(p) PROVE OfferInv'
    <2>1. /\ pc[p] = "cas" /\ pc' = [pc EXCEPT ![p] = "segment"]
          /\ seq' = [seq EXCEPT ![p] = nextSeq] /\ UNCHANGED <<value, delivered, offers>>
      BY <1>2 DEF AllocCas, Goto, historyVars
    <2>2. Offering(p)
      BY <2>1 DEF Offering, OfferingPc
    <2>3. \A q \in Producers : q # p => (Offering(q)' <=> Offering(q)) /\ (Owns(q)' <=> Owns(q))
      BY <1>0, <2>1 DEF Offering, Owns
    <2>4. \A q \in Producers : seq'[q] = IF q = p THEN nextSeq ELSE seq[q]
      BY <1>0, <2>1
    <2> QED BY <1>c, <1>d, <2>1, <2>2, <2>3, <2>4
  <1>3. ASSUME NEW p \in Producers, MarkReserved(p) \/ PublishBegin(p) \/ DropReservation(p) PROVE OfferInv'
    <2>1. pc[p] \in {"mark", "reserved"} /\ UNCHANGED <<value, delivered, offers, seq>>
      BY <1>3 DEF MarkReserved, PublishBegin, DropReservation, Goto, historyVars
    <2>2. Owns(p) /\ Offering(p)
      BY <2>1 DEF Owns, Offering, Holding
    <2>3. pc' = [pc EXCEPT ![p] = pc'[p]]
      BY <1>0, <1>3 DEF MarkReserved, PublishBegin, DropReservation, Goto
    <2>4. \A q \in Producers : q # p => (Offering(q)' <=> Offering(q)) /\ (Owns(q)' <=> Owns(q))
      BY <1>0, <2>3 DEF Offering, Owns
    <2> QED BY <1>c, <1>d, <2>1, <2>2, <2>4
  <1>4. ASSUME NEW p \in Producers, PublishEnd(p) PROVE OfferInv'
    <2>1. /\ pc[p] = "writing" /\ pc' = [pc EXCEPT ![p] = "finish"]
          /\ value' = [value EXCEPT ![seq[p]] = <<p, offers[p]>>]
          /\ UNCHANGED <<delivered, offers, seq>>
      BY <1>4 DEF PublishEnd, Goto, historyVars
    <2>2. Owns(p) /\ seq[p] \in Sequence /\ offers[p] \in Nat
      BY <1>0, <2>1 DEF Owns, Holding
    <2>3. ~Owns(p)' /\ ~Offering(p)'
      BY <1>0, <2>1 DEF Owns, Offering, OfferingPc, Holding
    <2>4. \A q \in Producers : q # p => (Offering(q)' <=> Offering(q)) /\ (Owns(q)' <=> Owns(q))
      BY <1>0, <2>1 DEF Offering, Owns
    <2>5. \A s \in Sequence, q \in Producers, n \in Nat :
            Item(s, q, n)' => Item(s, q, n) \/ (s = seq[p] /\ q = p /\ n = offers[p])
      <3> SUFFICES ASSUME NEW s \in Sequence, NEW q \in Producers, NEW n \in Nat, Item(s, q, n)'
                   PROVE  Item(s, q, n) \/ (s = seq[p] /\ q = p /\ n = offers[p])
        OBVIOUS
      <3>1. CASE s = seq[p] /\ value'[s] = <<q, n>>
        <4>1. value'[s] = <<p, offers[p]>>
          BY <1>0, <2>1, <2>2, <3>1
        <4> QED BY <3>1, <4>1
      <3>2. CASE s # seq[p] /\ value'[s] = <<q, n>>
        BY <1>0, <2>1, <2>2, <3>2 DEF Item
      <3>3. CASE \E i \in DOMAIN delivered : delivered[i] = <<s, <<q, n>>>>
        BY <3>3 DEF Item
      <3> QED BY <2>1, <3>1, <3>2, <3>3 DEF Item
    <2> SUFFICES ASSUME NEW s \in Sequence, NEW q \in Producers, NEW n \in Nat, Item(s, q, n)'
                 PROVE  /\ n <= offers[q]
                        /\ Offering(q)' => n < offers[q]
                        /\ Owns(q)' => s < seq[q]
                        /\ \A t \in Sequence, m \in Nat : Item(t, q, m)' /\ s < t => n < m
      BY <2>1 DEF OfferInv, Offering
    <2>6. CASE Item(s, q, n)
      <3>1. /\ n <= offers[q] /\ (Offering(q)' => n < offers[q]) /\ (Owns(q)' => s < seq[q])
        BY <1>b, <2>3, <2>4, <2>6
      <3>2. ASSUME NEW t \in Sequence, NEW m \in Nat, Item(t, q, m)', s < t PROVE n < m
        <4>1. CASE Item(t, q, m)
          BY <1>b, <2>6, <3>2, <4>1
        <4>2. CASE t = seq[p] /\ q = p /\ m = offers[p]
          BY <1>b, <2>2, <2>6, <4>2 DEF Offering
        <4> QED BY <2>5, <3>2, <4>1, <4>2
      <3> QED BY <3>1, <3>2
    <2>7. CASE s = seq[p] /\ q = p /\ n = offers[p]
      <3>1. ASSUME NEW t \in Sequence, NEW m \in Nat, Item(t, q, m)', s < t PROVE FALSE
        <4>1. Item(t, p, m) \/ t = seq[p]
          BY <2>5, <2>7, <3>1
        <4>2. Item(t, p, m) => t < seq[p]
          BY <1>b, <2>2
        <4> QED BY <1>0, <2>2, <2>7, <3>1, <4>1, <4>2
      <3> QED BY <2>2, <2>3, <2>7, <3>1
    <2> QED BY <2>5, <2>6, <2>7
  <1>5. CASE PollHead \/ DrainHead
    <2>1. UNCHANGED <<seq, pc, offers>> /\ (HeadTaken \/ UNCHANGED <<value, delivered>>)
      BY <1>5, HeadMoves
    <2>2. \A s \in Sequence, p \in Producers, n \in Nat : Item(s, p, n)' => Item(s, p, n)
      <3>1. CASE UNCHANGED <<value, delivered>>
        BY <1>d, <3>1
      <3>2. CASE HeadTaken /\ ~UNCHANGED <<value, delivered>>
        <4> SUFFICES ASSUME NEW s \in Sequence, NEW p \in Producers, NEW n \in Nat, Item(s, p, n)'
                     PROVE  Item(s, p, n)
          OBVIOUS
        <4>1. /\ cursor \in Sequence /\ slot[cursor] = "PUBLISHED"
              /\ value' = [value EXCEPT ![cursor] = NoValue]
              /\ delivered' = Append(delivered, <<cursor, value[cursor]>>)
          BY <3>2 DEF HeadTaken
        <4>2. CASE value'[s] = <<p, n>>
          <5>1. s # cursor
            BY <1>0, <4>1, <4>2 DEF NoValue
          <5> QED BY <1>0, <4>1, <4>2, <5>1 DEF Item
        <4>3. CASE \E i \in DOMAIN delivered' : delivered'[i] = <<s, <<p, n>>>>
          <5> DEFINE e == <<cursor, value[cursor]>>
          <5>1. e \in Sequence \X (Producers \X Nat)
            BY <1>0, <4>1 DEF SlotInv
          <5>2. /\ DOMAIN delivered' = 1 .. Len(delivered) + 1 /\ DOMAIN delivered = 1 .. Len(delivered)
                /\ delivered'[Len(delivered) + 1] = e /\ Len(delivered) \in Nat
                /\ \A i \in DOMAIN delivered : delivered'[i] = delivered[i]
            BY <1>0, <4>1, <5>1
          <5>3. PICK i \in DOMAIN delivered' : delivered'[i] = <<s, <<p, n>>>>
            BY <4>3
          <5>4. CASE i = Len(delivered) + 1
            <6>1. <<cursor, value[cursor]>> = <<s, <<p, n>>>>
              BY <5>2, <5>3, <5>4
            <6>2. value[s] = <<p, n>>
              BY <6>1
            <6> QED BY <6>2 DEF Item
          <5>5. CASE i # Len(delivered) + 1
            <6>1. i \in DOMAIN delivered
              BY <5>2, <5>5
            <6> QED BY <5>2, <5>3, <6>1 DEF Item
          <5> QED BY <5>4, <5>5
        <4> QED BY <4>2, <4>3 DEF Item
      <3> QED BY <2>1, <3>1, <3>2
    <2>3. \A p \in Producers : (Offering(p)' <=> Offering(p)) /\ (Owns(p)' <=> Owns(p))
      BY <2>1 DEF Offering, Owns
    <2> QED BY <1>c, <2>1, <2>2, <2>3
  <1> QED BY <1>0, <1>1, <1>2, <1>3, <1>4, <1>5, WhatMoves

-----------------------------------------------------------------------------
(* Segments.                                                               *)
LEMMA BaseBelow == ASSUME NEW s \in Nat PROVE Base(s) <= s /\ Base(s) \in Nat
  <1>1. s = SegmentLen * (s \div SegmentLen) + (s % SegmentLen) /\ s % SegmentLen \in 0 .. SegmentLen - 1
    BY QueueAssumption, SMT
  <1>2. s \div SegmentLen \in Nat
    BY QueueAssumption, SMT
  <1>3. \A q, r \in Nat : s = SegmentLen * q + r => q * SegmentLen <= s
    BY QueueAssumption, SMT
  <1> QED BY <1>1, <1>2, <1>3, QueueAssumption, BaseType DEF Base

(* A reclaim up to a segment boundary keeps the segments behind it.        *)
LEMMA BaseAbove ==
  ASSUME NEW s \in Nat, NEW c \in Nat, c % SegmentLen = 0, s >= c
  PROVE  Base(s) >= c
  <1>1. c = SegmentLen * (c \div SegmentLen) + (c % SegmentLen) /\ c \div SegmentLen \in Nat
    BY QueueAssumption, SMT
  <1>2. s \div SegmentLen >= c \div SegmentLen
    BY QueueAssumption, SMT
  <1>3. s \div SegmentLen \in Nat
    BY QueueAssumption, SMT
  <1>4. \A q, r \in Nat : q >= r => q * SegmentLen >= SegmentLen * r
    BY QueueAssumption, SMT
  <1> QED BY <1>1, <1>2, <1>3, <1>4, QueueAssumption DEF Base

LEMMA ReclaimKeeps ==
  ASSUME NEW s \in Nat, cursor \in Nat, s >= cursor, NEW t, Base(s) \in segments
  PROVE  Base(s) \in Reclaimed(t)
  <1>1. CASE cursor = 0 \/ cursor % SegmentLen # 0
    BY <1>1 DEF Reclaimed
  <1>2. CASE ~(cursor = 0 \/ cursor % SegmentLen # 0)
    <2>1. Base(s) >= cursor
      BY <1>2, BaseAbove
    <2> QED BY <1>2, <2>1 DEF Reclaimed
  <1> QED BY <1>1, <1>2

(* Who touches the map of segments, and who comes to mark a slot.          *)
LEMMA SegmentsMove ==
  ASSUME TypeOK, [Next]_vars
  PROVE  /\ \/ UNCHANGED <<segments, tail, created>>
            \/ \E p \in Producers : SegmentMap(p)
            \/ UNCHANGED <<tail, created>> /\ \E t : segments' = Reclaimed(t)
         /\ \A p \in Producers : pc'[p] = "mark" =>
              \/ pc[p] = "mark" /\ seq'[p] = seq[p]
              \/ SegmentTail(p) \/ SegmentMap(p)
  <1> USE DEF coreVars, producerVars, receiverVars, historyVars
  <1> DEFINE Marks == \A p \in Producers : pc'[p] = "mark" =>
                        \/ pc[p] = "mark" /\ seq'[p] = seq[p]
                        \/ SegmentTail(p) \/ SegmentMap(p)
  <1>0. pc \in [Producers -> ProducerPc] /\ seq \in [Producers -> Sequence]
    BY DEF TypeOK
  <1>a. ASSUME NEW p \in Producers, NEW from, NEW to, Goto(p, from, to), to # "mark", UNCHANGED seq
        PROVE  Marks
    BY <1>0, <1>a DEF Goto
  <1> HIDE DEF Marks
  <1>1. ASSUME NEW p \in Producers, Enter(p) \/ EnterCount(p) \/ EnterRecheck(p)
        PROVE  UNCHANGED <<segments, tail, created>> /\ Marks
    <2>1. UNCHANGED <<segments, tail, created, seq>>
      BY <1>1 DEF Enter, EnterCount, EnterRecheck
    <2>2. PICK from, to : Goto(p, from, to) /\ to # "mark"
      BY <1>1 DEF Enter, EnterCount, EnterRecheck
    <2> QED BY <1>a, <2>1, <2>2
  <1>2. ASSUME NEW p \in Producers, AllocCheck(p) \/ AllocRetry(p) \/ AllocExhausted(p) \/ AllocExhaustedClose(p)
        PROVE  UNCHANGED <<segments, tail, created>> /\ Marks
    <2>1. UNCHANGED <<segments, tail, created, seq>>
      BY <1>2 DEF AllocCheck, AllocRetry, AllocExhausted, AllocExhaustedClose
    <2>2. PICK from, to : Goto(p, from, to) /\ to # "mark"
      BY <1>2 DEF AllocCheck, AllocRetry, AllocExhausted, AllocExhaustedClose
    <2> QED BY <1>a, <2>1, <2>2
  <1>3. ASSUME NEW p \in Producers, AllocCas(p) PROVE UNCHANGED <<segments, tail, created>> /\ Marks
    <2>1. UNCHANGED <<segments, tail, created>>
      BY <1>3 DEF AllocCas
    <2>2. \A q \in Producers : /\ pc'[q] = IF q = p THEN "segment" ELSE pc[q]
                               /\ q # p => seq'[q] = seq[q]
      BY <1>0, <1>3 DEF AllocCas, Goto
    <2> QED BY <2>1, <2>2 DEF Marks
  <1>4. ASSUME NEW p \in Producers, SegmentTail(p) PROVE UNCHANGED <<segments, tail, created>> /\ Marks
    <2>1. UNCHANGED <<segments, tail, created, seq>>
      BY <1>4 DEF SegmentTail
    <2>2. \A q \in Producers : q # p => pc'[q] = pc[q]
      BY <1>0, <1>4 DEF SegmentTail, Goto
    <2> QED BY <1>4, <2>1, <2>2 DEF Marks
  <1>5. ASSUME NEW p \in Producers, SegmentMap(p) PROVE Marks
    <2>1. UNCHANGED seq
      BY <1>5 DEF SegmentMap
    <2>2. \A q \in Producers : q # p => pc'[q] = pc[q]
      BY <1>0, <1>5 DEF SegmentMap, Goto
    <2> QED BY <1>5, <2>1, <2>2 DEF Marks
  <1>6. ASSUME NEW p \in Producers,
               \/ MarkReserved(p) \/ RegisterReservation(p) \/ LeaveSection(p)
        PROVE  UNCHANGED <<segments, tail, created>> /\ Marks
    <2>1. UNCHANGED <<segments, tail, created, seq>>
      BY <1>6 DEF MarkReserved, RegisterReservation, LeaveSection
    <2>2. PICK from, to : Goto(p, from, to) /\ to # "mark"
      BY <1>6 DEF MarkReserved, RegisterReservation, LeaveSection
    <2> QED BY <1>a, <2>1, <2>2
  <1>7. ASSUME NEW p \in Producers, PublishBegin(p) \/ PublishEnd(p) \/ DropReservation(p) \/ FinishReservation(p)
        PROVE  UNCHANGED <<segments, tail, created>> /\ Marks
    <2>1. UNCHANGED <<segments, tail, created, seq>>
      BY <1>7 DEF PublishBegin, PublishEnd, DropReservation, FinishReservation
    <2>2. PICK from, to : Goto(p, from, to) /\ to # "mark"
      BY <1>7 DEF PublishBegin, PublishEnd, DropReservation, FinishReservation
    <2> QED BY <1>a, <2>1, <2>2
  <1>8. ASSUME NEW p \in Producers, DropSender(p) \/ DropLastSender(p)
        PROVE  UNCHANGED <<segments, tail, created>> /\ Marks
    <2>1. UNCHANGED <<segments, tail, created, seq>>
      BY <1>8 DEF DropSender, DropLastSender
    <2>2. PICK from, to : Goto(p, from, to) /\ to # "mark"
      BY <1>8 DEF DropSender, DropLastSender
    <2> QED BY <1>a, <2>1, <2>2
  <1>9. ASSUME NEW p \in Producers, NEW q \in Producers, CloneSender(p, q)
        PROVE  UNCHANGED <<segments, tail, created>> /\ Marks
    <2>1. UNCHANGED <<segments, tail, created, seq>> /\ Goto(q, "unborn", "idle")
      BY <1>9 DEF CloneSender
    <2> QED BY <1>a, <2>1
  <1>10. ASSUME UNCHANGED <<pc, seq>> PROVE Marks
    BY <1>10 DEF Marks
  <1>11. ASSUME \/ Close \/ PollBegin \/ PollLoad \/ PollEmpty \/ PollClosing \/ ReclaimLoad
                \/ DrainBegin \/ DrainLoad \/ DrainBoundary \/ DropReceiver \/ UNCHANGED vars
         PROVE  UNCHANGED <<segments, tail, created, pc, seq>>
    BY <1>11 DEF Close, PollBegin, PollLoad, PollEmpty, PollClosing, ReclaimLoad,
        DrainBegin, DrainLoad, DrainBoundary, DropReceiver, vars
  <1>12. ASSUME PollHead \/ DrainHead \/ DrainDone
         PROVE  UNCHANGED <<tail, created, pc, seq>> /\ \E t : segments' = Reclaimed(t)
    BY <1>12 DEF PollHead, DrainHead, DrainDone, MatchHead
  <1>13. Marks /\ \/ UNCHANGED <<segments, tail, created>>
                  \/ \E p \in Producers : SegmentMap(p)
                  \/ UNCHANGED <<tail, created>> /\ \E t : segments' = Reclaimed(t)
    BY <1>1, <1>2, <1>3, <1>4, <1>5, <1>6, <1>7, <1>8, <1>9, <1>10, <1>11, <1>12
      DEF Next, ProducerStep, ReserveStep, PublishStep, ReceiverStep, PollStep, DrainStep
  <1> QED BY <1>13 DEF Marks

(* A slot that is touched has been marked by its owner.                    *)
LEMMA SlotsTouched ==
  ASSUME DrainInv, OwnerInv, SlotInv, [Next]_vars, NEW s \in Sequence, slot'[s] # "EMPTY"
  PROVE  slot[s] # "EMPTY" \/ \E p \in Producers : pc[p] = "mark" /\ seq[p] = s
  <1>0. TypeOK /\ slot \in [Sequence -> SlotState]
    BY DEF DrainInv, TypeOK
  <1>1. CASE UNCHANGED slot
    BY <1>1
  <1>2. ASSUME NEW p \in Producers, MarkReserved(p)
        PROVE  slot[s] # "EMPTY" \/ (pc[p] = "mark" /\ seq[p] = s)
    <2>1. pc[p] = "mark" /\ (slot' = slot \/ slot' = [slot EXCEPT ![seq[p]] = "RESERVED"])
      BY <1>2 DEF MarkReserved, Goto
    <2>2. s # seq[p] => slot'[s] = slot[s]
      BY <1>0, <2>1
    <2> QED BY <2>1, <2>2
  <1>3. ASSUME NEW p \in Producers, PublishBegin(p) \/ PublishEnd(p) \/ DropReservation(p)
        PROVE  slot[s] # "EMPTY"
    <2>1. pc[p] \in {"reserved", "writing"}
      BY <1>3 DEF PublishBegin, PublishEnd, DropReservation, Goto
    <2>2. slot[seq[p]] # "EMPTY"
      BY <2>1 DEF OwnerInv, Owns, Holding
    <2>3. s # seq[p] => slot'[s] = slot[s]
      BY <1>0, <1>3 DEF PublishBegin, PublishEnd, DropReservation
    <2> QED BY <2>2, <2>3
  <1>4. CASE HeadTaken
    BY <1>0, <1>4 DEF HeadTaken
  <1>5. ASSUME NEW p \in Producers, AllocCas(p) PROVE UNCHANGED slot
    BY <1>5 DEF AllocCas
  <1> QED BY <1>0, <1>1, <1>2, <1>3, <1>4, <1>5, WhatMoves, HeadMoves DEF Plain

LEMMA CursorStep ==
  ASSUME DrainInv, SlotInv, [Next]_vars
  PROVE  cursor \in Nat /\ cursor' \in Nat /\ cursor <= cursor'
  <1>0. TypeOK /\ cursor \in Nat
    BY DEF DrainInv, TypeOK
  <1>1. ASSUME NEW p \in Producers,
               AllocCas(p) \/ MarkReserved(p) \/ PublishBegin(p) \/ PublishEnd(p) \/ DropReservation(p)
        PROVE  UNCHANGED cursor
    BY <1>1 DEF AllocCas, MarkReserved, PublishBegin, PublishEnd, DropReservation, receiverVars
  <1>2. UNCHANGED cursor \/ HeadTaken
    BY <1>0, <1>1, WhatMoves, HeadMoves DEF Plain
  <1> QED BY <1>0, <1>2 DEF HeadTaken

LEMMA SegmentStep ==
  DrainInv /\ OwnerInv /\ SlotInv /\ SegmentInv /\ [Next]_vars => SegmentInv'
  <1> SUFFICES ASSUME DrainInv, OwnerInv, SlotInv, SegmentInv, [Next]_vars PROVE SegmentInv'
    OBVIOUS
  <1>0. /\ TypeOK /\ created \in [Sequence -> Nat] /\ seq \in [Producers -> Sequence]
        /\ Sequence \subseteq Nat /\ \A s \in Sequence : Base(s) \in Sequence
    <2>1. TypeOK /\ created \in [Sequence -> Nat] /\ seq \in [Producers -> Sequence]
      BY DEF DrainInv, TypeOK
    <2>2. Sequence \subseteq Nat
      BY QueueAssumption DEF Sequence
    <2>3. \A s \in Sequence : Base(s) \in Sequence
      <3> SUFFICES ASSUME NEW s \in Sequence PROVE Base(s) \in Sequence
        OBVIOUS
      <3>1. s \in Nat /\ s <= SequenceLimit - 1 /\ SequenceLimit \in Nat
        BY QueueAssumption DEF Sequence
      <3>2. Base(s) \in Nat /\ Base(s) <= s
        BY <3>1, BaseBelow
      <3> QED BY <3>1, <3>2 DEF Sequence
    <2> QED BY <2>1, <2>2, <2>3
  <1>1. cursor \in Nat /\ cursor' \in Nat /\ cursor <= cursor'
    BY CursorStep
  <1>2. \A s \in Sequence : s >= cursor' => s >= cursor
    BY <1>0, <1>1
  (* What holds of the map after the step, whatever the slots do. *)
  <1>3. /\ created'[tail'] > 0 /\ tail' \in Sequence
        /\ \A s \in Sequence : /\ created'[s] <= 1 /\ created'[s] \in Nat
                               /\ created[s] > 0 => created'[s] > 0
                               /\ s >= cursor /\ created'[Base(s)] > 0 => Base(s) \in segments'
                               /\ s \in segments' => created'[s] > 0
    <2>1. CASE UNCHANGED <<segments, tail, created>>
      BY <1>0, <2>1 DEF SegmentInv
    <2>2. CASE UNCHANGED <<tail, created>> /\ \E t : segments' = Reclaimed(t)
      <3>1. PICK t : segments' = Reclaimed(t)
        BY <2>2
      <3>2. \A s \in Sequence : s >= cursor /\ created[Base(s)] > 0 => Base(s) \in segments'
        BY <1>0, <1>1, <3>1, ReclaimKeeps DEF SegmentInv
      <3>3. segments' \subseteq segments
        BY <3>1 DEF Reclaimed
      <3> QED BY <1>0, <2>2, <3>2, <3>3 DEF SegmentInv
    <2>3. ASSUME NEW p \in Producers, SegmentMap(p), ~UNCHANGED <<segments, tail, created>>
          PROVE  /\ created'[tail'] > 0 /\ tail' \in Sequence
                 /\ \A s \in Sequence : /\ created'[s] <= 1 /\ created'[s] \in Nat
                                        /\ created[s] > 0 => created'[s] > 0
                                        /\ s >= cursor /\ created'[Base(s)] > 0 => Base(s) \in segments'
                                        /\ s \in segments' => created'[s] > 0
      <3> DEFINE b == Base(seq[p])
      <3>1. /\ b \notin segments /\ segments' = segments \cup {b}
            /\ tail' = IF b > tail THEN b ELSE tail
            /\ created' = [created EXCEPT ![b] = @ + 1]
        BY <2>3 DEF SegmentMap
      <3>2. b \in Sequence /\ seq[p] \in Sequence
        BY <1>0
      <3>3. ~(seq[p] < cursor)
        <4>1. slot[seq[p]] = "EMPTY"
          BY <2>3 DEF SegmentMap, Goto, OwnerInv, Owns, Holding
        <4> QED BY <3>2, <4>1 DEF SlotInv
      <3>4. created[b] = 0
        <4>0. seq[p] \in Nat
          BY <1>0, <3>2
        <4>1. seq[p] >= cursor
          BY <1>1, <3>3, <4>0
        <4>2. \A s \in Sequence : s >= cursor /\ created[Base(s)] > 0 => Base(s) \in segments
          BY DEF SegmentInv
        <4>3. ~(created[b] > 0)
          BY <3>1, <3>2, <4>1, <4>2
        <4>4. created[b] \in Nat
          BY <1>0, <3>2
        <4> HIDE DEF b
        <4> QED BY <4>3, <4>4
      <3> HIDE DEF b
      <3>5. \A s \in Sequence : created'[s] = IF s = b THEN 1 ELSE created[s]
        BY <1>0, <3>1, <3>2, <3>4
      <3>6. tail' \in Sequence /\ created'[tail'] > 0
        BY <1>0, <3>1, <3>2, <3>5 DEF SegmentInv
      <3>7. ASSUME NEW s \in Sequence
            PROVE  /\ created'[s] <= 1 /\ created'[s] \in Nat /\ (created[s] > 0 => created'[s] > 0)
                   /\ s >= cursor /\ created'[Base(s)] > 0 => Base(s) \in segments'
                   /\ s \in segments' => created'[s] > 0
        <4>1. Base(s) \in Sequence
          BY <1>0
        <4> QED BY <1>0, <3>1, <3>5, <4>1 DEF SegmentInv
      <3> QED BY <3>6, <3>7
    <2> QED BY <2>1, <2>2, <2>3, <1>0, SegmentsMove
  <1>4. ASSUME NEW s \in Sequence, slot'[s] # "EMPTY" PROVE created'[Base(s)] > 0
    <2>1. created[Base(s)] > 0
      BY <1>4, SlotsTouched DEF SegmentInv
    <2> QED BY <1>0, <1>3, <2>1
  <1>5. ASSUME NEW p \in Producers, pc'[p] = "mark" PROVE created'[Base(seq'[p])] > 0
    <2>0. seq[p] \in Sequence /\ Base(seq[p]) \in Sequence
      BY <1>0
    <2>1. CASE pc[p] = "mark" /\ seq'[p] = seq[p]
      BY <1>3, <2>0, <2>1 DEF SegmentInv
    <2>2. CASE SegmentTail(p)
      <3>1. seq' = seq /\ tail = Base(seq[p])
        BY <1>5, <2>2, <1>0 DEF SegmentTail, Goto, TypeOK
      <3> QED BY <1>3, <2>0, <3>1 DEF SegmentInv
    <2>3. CASE SegmentMap(p)
      <3>1. seq' = seq
        BY <2>3 DEF SegmentMap
      <3>2. CASE Base(seq[p]) \in segments
        <4>1. UNCHANGED created
          BY <2>3, <3>2 DEF SegmentMap
        <4>2. created[Base(seq[p])] > 0
          BY <2>0, <3>2 DEF SegmentInv
        <4> QED BY <1>3, <2>0, <3>1, <3>2, <4>1, <4>2
      <3>3. CASE Base(seq[p]) \notin segments
        <4> DEFINE b == Base(seq[p])
        <4>1. created' = [created EXCEPT ![b] = @ + 1]
          BY <2>3, <3>3 DEF SegmentMap
        <4>2. b \in Sequence /\ created[b] \in Nat
          BY <1>0, <2>0
        <4> HIDE DEF b
        <4>3. created'[b] = created[b] + 1
          BY <1>0, <4>1, <4>2
        <4>4. created'[b] > 0
          BY <4>2, <4>3
        <4> QED BY <3>1, <4>4 DEF b
      <3> QED BY <3>2, <3>3
    <2> QED BY <1>0, <1>5, <2>1, <2>2, <2>3, SegmentsMove
  <1> QED BY <1>2, <1>3, <1>4, <1>5 DEF SegmentInv

-----------------------------------------------------------------------------
QueueInv ==
  /\ DrainInv /\ OwnerInv /\ SlotInv /\ ReservationInv
  /\ DeliveredInv /\ OfferInv /\ SegmentInv

LEMMA QueueInvInit == Init => QueueInv
  <1> SUFFICES ASSUME Init PROVE QueueInv
    OBVIOUS
  <1>1. DrainInv
    BY DrainInvInit
  <1>2. \A p \in Producers : pc[p] \in {"idle", "unborn"}
    BY DEF Init
  <1>3. OwnerInv
    BY <1>2 DEF OwnerInv, Owns, Holding
  <1>4. SlotInv
    BY QueueAssumption DEF Init, SlotInv, Sequence
  <1>5. ReservationInv
    <2>1. Reserving = {}
      BY <1>2 DEF Reserving, ReservingPc
    <2> QED BY <2>1, FS_EmptySet DEF Init, ReservationInv
  <1>6. DeliveredInv
    BY DEF Init, DeliveredInv
  <1>7. OfferInv
    <2>1. \A s \in Sequence, p \in Producers, n \in Nat : ~Item(s, p, n)
      BY DEF Init, Item, NoValue
    <2> QED BY <2>1 DEF OfferInv
  <1>8. SegmentInv
    <2>1. 0 \in Sequence /\ Sequence \subseteq Nat
      BY QueueAssumption DEF Sequence
    <2>2. created[0] = 1 /\ tail = 0 /\ \A s \in Sequence : created[s] = (IF s = 0 THEN 1 ELSE 0) /\ slot[s] = "EMPTY"
      BY <2>1 DEF Init
    <2>3. \A s \in Sequence : Base(s) \in Sequence
      <3> SUFFICES ASSUME NEW s \in Sequence PROVE Base(s) \in Sequence
        OBVIOUS
      <3>1. s \in Nat /\ s <= SequenceLimit - 1 /\ SequenceLimit \in Nat
        BY QueueAssumption DEF Sequence
      <3>2. Base(s) \in Nat /\ Base(s) <= s
        BY <3>1, BaseBelow
      <3> QED BY <3>1, <3>2 DEF Sequence
    <2> QED BY <1>2, <2>1, <2>2, <2>3 DEF SegmentInv, Init
  <1> QED BY <1>1, <1>3, <1>4, <1>5, <1>6, <1>7, <1>8 DEF QueueInv

LEMMA QueueInvStep == QueueInv /\ [Next]_vars => QueueInv'
  <1> SUFFICES ASSUME QueueInv, [Next]_vars PROVE QueueInv'
    OBVIOUS
  <1>1. DrainInv' /\ TypeOK
    BY DrainInvStep DEF QueueInv, DrainInv
  <1> QED BY <1>1, OwnerStep, ReservationStep, DeliveredStep, OfferStep, SegmentStep DEF QueueInv

LEMMA QueueInvHolds == Spec => []QueueInv
  BY QueueInvInit, QueueInvStep, PTL DEF Spec

(* Items come out in sequence order, each once, two items of one producer  *)
(* in the order it offered them, and the consumer passes no slot that its  *)
(* producer has not settled (try_recv, reserve, publish).                  *)
THEOREM FifoHolds == Spec => []FifoExactlyOnce
  <1>1. QueueInv => FifoExactlyOnce
    <2> SUFFICES ASSUME QueueInv PROVE FifoExactlyOnce
      OBVIOUS
    <2>1. \A s \in Sequence : (s < cursor) <=> (slot[s] = "TAKEN")
      BY DEF QueueInv, SlotInv
    <2>2. ASSUME NEW i \in DOMAIN delivered, NEW j \in DOMAIN delivered, i < j
          PROVE  /\ delivered[i][1] < delivered[j][1]
                 /\ delivered[i][2][1] = delivered[j][2][1] => delivered[i][2][2] < delivered[j][2][2]
      <3>1. delivered[i][1] < delivered[j][1]
        BY <2>2 DEF QueueInv, DeliveredInv
      <3>2. delivered \in Seq(Sequence \X (Producers \X Nat))
        BY DEF QueueInv, DrainInv, TypeOK
      <3>3. delivered[i] \in Sequence \X (Producers \X Nat) /\ delivered[j] \in Sequence \X (Producers \X Nat)
        BY <3>2
      <3>4. PICK s \in Sequence, p \in Producers, n \in Nat : delivered[i] = <<s, <<p, n>>>>
        BY <3>3
      <3>5. PICK t \in Sequence, q \in Producers, m \in Nat : delivered[j] = <<t, <<q, m>>>>
        BY <3>3
      <3>6. Item(s, p, n) /\ Item(t, q, m) /\ s < t
        BY <3>1, <3>4, <3>5 DEF Item
      <3>7. p = q => n < m
        BY <3>6 DEF QueueInv, OfferInv
      <3> QED BY <3>1, <3>4, <3>5, <3>7
    <2> QED BY <2>1, <2>2 DEF FifoExactlyOnce
  <1> QED BY <1>1, QueueInvHolds, PTL

(* With no producer in the section and no reservation outstanding every    *)
(* issued number is published, poisoned or consumed (what the tunnels rely *)
(* on when they freeze a boundary).                                        *)
THEOREM StoppedIsSettled == Spec => []StoppedMeansSettled
  <1>1. QueueInv => StoppedMeansSettled
    <2> SUFFICES ASSUME QueueInv, inflight = 0, reservations = 0, NEW s \in Sequence, s < nextSeq
                 PROVE  slot[s] \in {"PUBLISHED", "POISONED", "TAKEN"}
      BY DEF StoppedMeansSettled
    <2>1. slot[s] \in SlotState /\ pc \in [Producers -> ProducerPc]
      BY DEF QueueInv, DrainInv, TypeOK
    <2>2. InSection = {} /\ Reserving = {}
      <3>1. IsFiniteSet(InSection) /\ IsFiniteSet(Reserving)
        BY QueueAssumption, FS_Subset DEF InSection, Reserving
      <3> QED BY <3>1, FS_EmptySet DEF QueueInv, DrainInv, Counters, ReservationInv
    <2>3. \A p \in Producers : ~Owns(p)
      BY <2>2 DEF InSection, Reserving, ReservingPc, SectionPc, Owns, Holding
    <2>4. slot[s] \notin {"EMPTY", "RESERVED", "WRITING"}
      BY <2>3 DEF QueueInv, SlotInv
    <2> QED BY <2>1, <2>4 DEF SlotState
  <1> QED BY <1>1, QueueInvHolds, PTL

(* reclaim_before never drops a segment that is still needed: no base is   *)
(* created twice, and the segment of a slot in use can be found.           *)
THEOREM SegmentsHold == Spec => []SegmentsIntact
  <1>1. QueueInv => SegmentsIntact
    <2> SUFFICES ASSUME QueueInv, NEW s \in Sequence
                 PROVE  /\ created[s] <= 1
                        /\ slot[s] \notin {"EMPTY", "TAKEN"} => Base(s) = tail \/ Base(s) \in segments
      BY DEF SegmentsIntact
    <2>1. created[s] <= 1
      BY DEF QueueInv, SegmentInv
    <2>2. cursor \in Nat /\ s \in Nat
      BY QueueAssumption DEF QueueInv, DrainInv, TypeOK, Sequence
    <2>3. slot[s] # "TAKEN" => s >= cursor
      BY <2>2 DEF QueueInv, SlotInv
    <2> QED BY <2>1, <2>3 DEF QueueInv, SegmentInv
  <1> QED BY <1>1, QueueInvHolds, PTL
=============================================================================
