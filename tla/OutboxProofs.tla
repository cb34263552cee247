---------------------------- MODULE OutboxProofs ----------------------------
(***************************************************************************)
(* Proofs about Outbox, for any number of rows, aggregates and processes,  *)
(* any quota, batch size and number of faults and revivals.                *)
(***************************************************************************)
EXTENDS Outbox, FiniteSetTheorems, SequenceTheorems, TLAPS

Published == {log[p] : p \in DOMAIN log}

Committed(i) == row[i].st \notin {"Open", "RolledBack"}

(* A round publishes committed rows only, and what it has passed is with   *)
(* the broker.                                                             *)
BatchInv ==
  \A d \in Dispatchers :
    /\ \A j \in DOMAIN disp[d].batch : Committed(disp[d].batch[j])
    /\ \A j \in 1 .. disp[d].k : disp[d].batch[j] \in Published

(* How a row left the delivery stream.                                     *)
RowInv ==
  \A i \in DOMAIN row :
    /\ row[i].st = "Dispatched" => i \in Published
    /\ row[i].st = "Dead" => row[i].tries >= MaxAttempts
    /\ row[i].st = "Deleted" => \/ i \in Published
                                \/ i \in archive \cap disposal /\ row[i].tries >= MaxAttempts

LogInv == \A i \in Published : Committed(i)

(* A delete follows the receipts of its candidates.                        *)
CleanInv ==
  clean.pc = "delete" => \A c \in clean.cand : NeedsReceipt(c) => c.id \in archive

LossInv == BatchInv /\ RowInv /\ LogInv /\ CleanInv

(* Rows that need not come before a later row of their aggregate.          *)
Excused(i) == row[i].st = "RolledBack" \/ row[i].tries >= MaxAttempts

Before(i, e) == i < e /\ row[i].agg = row[e].agg

(* The transactions of one aggregate follow each other.                    *)
SerialInv == \A i, e \in DOMAIN row : Before(i, e) => row[i].st # "Open"

(* Whoever comes before a published row is published before it; whoever    *)
(* comes before a row of a batch is published or in the batch before it.   *)
LogOrder ==
  \A p \in DOMAIN log : \A i \in DOMAIN row :
    Before(i, log[p]) => Excused(i) \/ \E o \in 1 .. p - 1 : log[o] = i

BatchOrder ==
  \A d \in Dispatchers : \A j \in DOMAIN disp[d].batch : \A i \in DOMAIN row :
    Before(i, disp[d].batch[j]) =>
      Excused(i) \/ i \in Published \/ \E n \in 1 .. j - 1 : disp[d].batch[n] = i

OrderInv == SerialInv /\ LogOrder /\ BatchOrder

(* An effect is covered by its marker as long as its message may come back.*)
MarkerInv ==
  \A i \in Ids :
    effects[i] > 0 =>
      /\ effects[i] = 1
      /\ i \in Published
      /\ i \in inbox \/ ~Redeliverable(i)

(* The quota is overdrawn by revivals only.                                *)
QuotaInv ==
  Cap > 0 =>
    /\ LedgerExact
    /\ Cardinality(InFlight) <= ledger + revivals

(* PostgreSQL: whoever has published without authority has lost it for the *)
(* rest of the round.                                                      *)
StaleInv ==
  \A d \in Dispatchers :
    disp[d].stale > 0 => /\ disp[d].stale = 1
                         /\ ~Authority(d)
                         /\ disp[d].pc # "publish"

(* A row that is still the candidate it was has only grown older.          *)
AgeInv ==
  \A c \in clean.cand :
    /\ row[c.id].life >= c.life
    /\ row[c.id].life = c.life /\ row[c.id].st = c.st => row[c.id].aged

-----------------------------------------------------------------------------
(* Replacing elements of a sequence within their type.                     *)
LEMMA SeqUpdate ==
  ASSUME NEW S, NEW s \in Seq(S), NEW t,
         t = [i \in DOMAIN s |-> t[i]], \A i \in DOMAIN s : t[i] \in S
  PROVE  t \in Seq(S) /\ Len(t) = Len(s) /\ DOMAIN t = DOMAIN s
  <1>1. DOMAIN s = 1 .. Len(s) /\ Len(s) \in Nat
    BY LenProperties
  <1>2. t \in [1 .. Len(s) -> S]
    BY <1>1
  <1>3. t \in Seq(S)
    BY <1>1, <1>2, SeqDef
  <1>4. DOMAIN t = 1 .. Len(t) /\ Len(t) \in Nat
    BY <1>3, LenProperties
  <1>5. Len(t) = Len(s)
    BY <1>1, <1>2, <1>4
  <1> QED BY <1>3, <1>5, <1>1, <1>2

(* Appending to a sequence leaves what is there.                           *)
LEMMA SeqAppend ==
  ASSUME NEW S, NEW s \in Seq(S), NEW e \in S, NEW t, t = Append(s, e)
  PROVE  /\ t \in Seq(S) /\ Len(t) = Len(s) + 1
         /\ DOMAIN s = 1 .. Len(s) /\ DOMAIN t = 1 .. Len(s) + 1 /\ Len(s) \in Nat
         /\ \A p \in DOMAIN s : t[p] = s[p]
         /\ t[Len(s) + 1] = e
  BY LenProperties

-----------------------------------------------------------------------------
(* The life of a row.                                                      *)
RowStep(r, s) ==
  /\ s \in Row
  /\ s.agg = r.agg
  /\ \/ s = r
     \/ /\ r.st = "Open" /\ s.st \in {"Pending", "RolledBack"}
        /\ s.tries = r.tries /\ s.life = r.life
     \/ /\ r.st = "Pending" /\ s.st = "Pending"
        /\ s.tries = r.tries + 1 /\ s.life = r.life
     \/ /\ r.st = "Pending" /\ s.st = "Dispatched"
        /\ s.tries = r.tries /\ s.life = r.life + 1
     \/ /\ r.st = "Pending" /\ s.st = "Dead"
        /\ s.tries = r.tries + 1 /\ s.tries >= MaxAttempts /\ s.life = r.life + 1
     \/ /\ r.st \in {"Dispatched", "Dead"} /\ s.st = r.st
        /\ s.tries = r.tries /\ s.life = r.life /\ s.aged
     \/ /\ r.st = "Dead" /\ s.st = "Pending"
        /\ s.tries = r.tries /\ s.life = r.life
     \/ /\ r.st \in {"Dispatched", "Dead"} /\ s.st = "Deleted"
        /\ s.tries = r.tries /\ s.life = r.life

(* Rows are changed in place, or one is added at the end by a transaction  *)
(* that no other of its aggregate runs beside.                             *)
RowsMove ==
  /\ DOMAIN row \subseteq DOMAIN row'
  /\ \A i \in DOMAIN row : RowStep(row[i], row'[i])
  /\ \A e \in DOMAIN row' \ DOMAIN row :
        /\ row'[e].st = "Open"
        /\ \A i \in DOMAIN row' : i <= e
        /\ \A i \in DOMAIN row : row[i].st = "Open" => row[i].agg # row'[e].agg

LEMMA RowEnds ==
  ASSUME NEW r \in Row, NEW st \in States, NEW l \in Nat, NEW g \in BOOLEAN
  PROVE  [r EXCEPT !.st = st, !.life = l, !.aged = g] \in Row
  BY DEF Row

LEMMA RowDies ==
  ASSUME NEW r \in Row, NEW t \in Nat, NEW st \in States, NEW l \in Nat, NEW g \in BOOLEAN
  PROVE  [r EXCEPT !.tries = t, !.st = st, !.life = l, !.aged = g] \in Row
  BY DEF Row

(* Who writes to the table.                                                *)
LEMMA RowWriters ==
  ASSUME [Next]_vars
  PROVE  \/ UNCHANGED row
         \/ \E a \in Aggregates, poison \in BOOLEAN : AppendEvent(a, poison)
         \/ \E i \in DOMAIN row : EndTransaction(i) \/ Age(i) \/ Revive(i)
         \/ \E d \in Dispatchers : MarkDispatched(d) \/ RecordFailed(d)
         \/ DeleteCandidates
  <1>1. ASSUME NEW d \in Dispatchers,
               PollPending(d) \/ Renew(d) \/ Publish(d) \/ BatchSent(d) \/ Release(d)
        PROVE  UNCHANGED row
    BY <1>1 DEF PollPending, Renew, Publish, BatchSent, Release, table
  <1>2. ASSUME \/ Reconcile \/ \E role \in Roles : AuthorityLost(role)
               \/ \E d \in Dispatchers : Claim(d) \/ Crash(d)
               \/ CleanClaim \/ FetchCandidates \/ ArchiveOne \/ CleanStops
               \/ Consume \/ \E i \in inbox : InboxRetention(i)
        PROVE  UNCHANGED row
    BY <1>2 DEF Reconcile, AuthorityLost, Claim, Crash, CleanClaim, FetchCandidates,
        ArchiveOne, CleanStops, Consume, InboxRetention, table
  <1>3. CASE UNCHANGED vars
    BY <1>3 DEF vars, table
  <1> QED BY <1>1, <1>2, <1>3 DEF Next, Round

(* The table is as long as before, or one open row longer.                 *)
LEMMA RowsMoveStep == TypeOK /\ [Next]_vars => TableType' /\ RowsMove
  <1> SUFFICES ASSUME TypeOK, [Next]_vars PROVE TableType' /\ RowsMove
    OBVIOUS
  <1> USE OutboxAssumption
  <1>0. row \in Seq(Row) /\ Len(row) <= Rows /\ DOMAIN row = 1 .. Len(row) /\ Len(row) \in Nat
    BY LenProperties DEF TypeOK, TableType
  <1>a. \A i \in DOMAIN row : row[i] \in Row
    BY <1>0, ElementOfSeq
  <1>b. ASSUME row' = [i \in DOMAIN row |-> row'[i]],
               \A i \in DOMAIN row : RowStep(row[i], row'[i])
        PROVE  TableType' /\ RowsMove
    <2>1. row' \in Seq(Row) /\ Len(row') = Len(row) /\ DOMAIN row' = DOMAIN row
      BY <1>0, <1>b, SeqUpdate DEF RowStep
    <2> QED BY <1>0, <1>b, <2>1 DEF TableType, RowsMove
  <1>c. ASSUME UNCHANGED row PROVE TableType' /\ RowsMove
    BY <1>0, <1>a, <1>c DEF TableType, RowsMove, RowStep
  <1>1. ASSUME NEW a \in Aggregates, NEW poison \in BOOLEAN, AppendEvent(a, poison)
        PROVE  TableType' /\ RowsMove
    <2> DEFINE e == [agg |-> a, poison |-> poison, st |-> "Open",
                     tries |-> 0, life |-> 0, aged |-> FALSE]
    <2>1. e \in Row
      BY DEF Row, States
    <2>2. row' = Append(row, e) /\ Len(row) < Rows
      BY <1>1 DEF AppendEvent
    <2> HIDE DEF e
    <2>3. /\ row' \in Seq(Row) /\ Len(row') = Len(row) + 1
          /\ DOMAIN row' = 1 .. Len(row) + 1
          /\ \A i \in DOMAIN row : row'[i] = row[i]
      BY <1>0, <2>1, <2>2, SeqAppend
    <2>4. row'[Len(row) + 1] = e
      BY <1>0, <2>1, <2>2, SeqAppend
    <2>5. e.st = "Open" /\ e.agg = a
      BY DEF e
    <2>6. \A i \in DOMAIN row : row[i].st = "Open" => row[i].agg # a
      BY <1>1 DEF AppendEvent, InClass
    <2>7. \A i \in DOMAIN row : RowStep(row[i], row'[i])
      BY <1>a, <2>3 DEF RowStep
    <2>8. \A i \in DOMAIN row' \ DOMAIN row : i = Len(row) + 1
      BY <1>0, <2>3
    <2>9. \A i \in DOMAIN row' : i <= Len(row) + 1
      BY <1>0, <2>3
    <2>10. TableType'
      BY <1>0, <2>2, <2>3 DEF TableType
    <2>11. DOMAIN row \subseteq DOMAIN row'
      BY <1>0, <2>3
    <2> QED BY <2>4, <2>5, <2>6, <2>7, <2>8, <2>9, <2>10, <2>11 DEF RowsMove
  <1>2. ASSUME NEW i \in DOMAIN row, EndTransaction(i) PROVE TableType' /\ RowsMove
    <2> SUFFICES /\ row' = [j \in DOMAIN row |-> row'[j]]
                 /\ \A j \in DOMAIN row : RowStep(row[j], row'[j])
      BY <1>b
    <2>1. PICK to \in {"Pending", "RolledBack"} : row' = [row EXCEPT ![i].st = to]
      BY <1>2 DEF EndTransaction
    <2>2. row[i].st = "Open"
      BY <1>2 DEF EndTransaction, InClass
    <2>3. RowStep(row[i], [row[i] EXCEPT !.st = to])
      BY <2>2, <1>a DEF RowStep, Row, States
    <2>4. \A j \in DOMAIN row : RowStep(row[j], row[j])
      BY <1>a DEF RowStep
    <2> QED BY <2>1, <2>3, <2>4
  <1>3. ASSUME NEW d \in Dispatchers, MarkDispatched(d) PROVE TableType' /\ RowsMove
    <2>1. CASE UNCHANGED row
      BY <1>c, <2>1
    <2>2. CASE ~UNCHANGED row
      <3> DEFINE now == MarkedNow(disp[d]) \cap InClass("Pending")
      <3>1. Final(now, "Dispatched")
        BY <1>3, <2>2 DEF MarkDispatched
      <3>2. \A i \in now : row[i].st = "Pending"
        BY DEF InClass
      <3> HIDE DEF now
      <3>3. \A j \in DOMAIN row : RowStep(row[j], row'[j])
        <4> SUFFICES ASSUME NEW j \in DOMAIN row PROVE RowStep(row[j], row'[j])
          OBVIOUS
        <4>1. CASE j \in now
          <5>1. row'[j] = [row[j] EXCEPT !.st = "Dispatched", !.life = @ + 1, !.aged = FALSE]
            BY <3>1, <4>1 DEF Final
          <5>2. row[j] \in Row /\ row[j].st = "Pending"
            BY <1>a, <3>2, <4>1
          <5>3. row'[j].agg = row[j].agg /\ row'[j].tries = row[j].tries /\ row'[j].st = "Dispatched"
            BY <5>1, <5>2 DEF Row
          <5>4. row'[j].life = row[j].life + 1
            BY <5>1, <5>2 DEF Row
          <5>5. row'[j] \in Row
            <6>1. row[j].life + 1 \in Nat /\ "Dispatched" \in States /\ FALSE \in BOOLEAN
              BY <5>2 DEF Row, States
            <6>2. [row[j] EXCEPT !.st = "Dispatched", !.life = @ + 1, !.aged = FALSE] \in Row
              BY ONLY <5>2, <6>1, RowEnds
            <6> QED BY ONLY <5>1, <6>2
          <5> QED BY <5>2, <5>3, <5>4, <5>5 DEF RowStep
        <4>2. CASE j \notin now
          BY <3>1, <4>2, <1>a DEF Final, RowStep
        <4> QED BY <4>1, <4>2
      <3> QED BY <1>b, <3>1, <3>3 DEF Final
    <2> QED BY <2>1, <2>2
  <1>4. ASSUME NEW d \in Dispatchers, RecordFailed(d) PROVE TableType' /\ RowsMove
    <2>1. CASE UNCHANGED row
      BY <1>c, <2>1
    <2>2. CASE ~UNCHANGED row
      <3> DEFINE i == disp[d].batch[disp[d].k + 1]
      <3>1. i \in InClass("Pending") /\ Refused(i)
        BY <1>4, <2>2 DEF RecordFailed
      <3> HIDE DEF i
      <3> SUFFICES /\ row' = [j \in DOMAIN row |-> row'[j]]
                   /\ \A j \in DOMAIN row : RowStep(row[j], row'[j])
        BY <1>b
      <3>2. row[i] \in Row /\ row[i].st = "Pending" /\ i \in DOMAIN row
        BY <3>1, <1>a DEF InClass
      <3>3. \A j \in DOMAIN row : RowStep(row[j], row[j])
        BY <1>a DEF RowStep
      <3>4. CASE row[i].tries + 1 >= MaxAttempts
        <4> DEFINE r == [row[i] EXCEPT !.tries = @ + 1, !.st = "Dead", !.life = @ + 1, !.aged = FALSE]
        <4>1. row' = [row EXCEPT ![i] = r]
          BY <3>1, <3>4 DEF Refused
        <4>2. RowStep(row[i], r)
          <5>1. r.agg = row[i].agg /\ r.st = "Dead"
            BY <3>2 DEF Row
          <5>2. r.tries = row[i].tries + 1 /\ r.life = row[i].life + 1
            BY <3>2 DEF Row
          <5>3. r \in Row
            <6>1. /\ row[i].tries + 1 \in Nat /\ row[i].life + 1 \in Nat
                  /\ "Dead" \in States /\ FALSE \in BOOLEAN
              BY <3>2 DEF Row, States
            <6> QED BY ONLY <3>2, <6>1, RowDies
          <5> HIDE DEF r
          <5> QED BY <3>2, <3>4, <5>1, <5>2, <5>3 DEF RowStep
        <4> QED BY <4>1, <4>2, <3>2, <3>3
      <3>5. CASE ~(row[i].tries + 1 >= MaxAttempts)
        <4> DEFINE r == [row[i] EXCEPT !.tries = @ + 1]
        <4>1. row' = [row EXCEPT ![i] = r]
          BY <3>1, <3>5 DEF Refused
        <4>2. RowStep(row[i], r)
          BY <3>2 DEF RowStep, Row, States
        <4> QED BY <4>1, <4>2, <3>2, <3>3
      <3> QED BY <3>4, <3>5
    <2> QED BY <2>1, <2>2
  <1>5. ASSUME DeleteCandidates PROVE TableType' /\ RowsMove
    <2>1. CASE UNCHANGED row
      BY <1>c, <2>1
    <2>2. CASE ~UNCHANGED row
      <3>1. row' = [i \in DOMAIN row |->
                      IF \E c \in clean.cand : c.id = i /\ StillCandidate(c)
                      THEN [row[i] EXCEPT !.st = "Deleted"] ELSE row[i]]
        BY <1>5, <2>2 DEF DeleteCandidates
      <3>2. \A c \in clean.cand : StillCandidate(c) => row[c.id].st \in {"Dispatched", "Dead"}
        BY DEF TypeOK, CleanType, Candidate, StillCandidate
      <3>3. \A j \in DOMAIN row : RowStep(row[j], row'[j])
        BY <3>1, <3>2, <1>a DEF RowStep, Row, States
      <3> QED BY <1>b, <3>1, <3>3
    <2> QED BY <2>1, <2>2
  <1>6. ASSUME NEW i \in DOMAIN row, Age(i) PROVE TableType' /\ RowsMove
    <2> SUFFICES /\ row' = [j \in DOMAIN row |-> row'[j]]
                 /\ \A j \in DOMAIN row : RowStep(row[j], row'[j])
      BY <1>b
    <2> QED BY <1>6, <1>0, <1>a DEF Age, RowStep, Row, States, InClass
  <1>7. ASSUME NEW i \in DOMAIN row, Revive(i) PROVE TableType' /\ RowsMove
    <2> SUFFICES /\ row' = [j \in DOMAIN row |-> row'[j]]
                 /\ \A j \in DOMAIN row : RowStep(row[j], row'[j])
      BY <1>b
    <2> QED BY ZenonT(60), <1>7, <1>0, <1>a DEF Revive, RowStep, Row, States, InClass
  <1> QED BY <1>1, <1>2, <1>3, <1>4, <1>5, <1>6, <1>7, <1>c, RowWriters

-----------------------------------------------------------------------------
(* The rounds.                                                             *)
RoundOK(r) ==
  /\ r \in RoundState
  /\ r.m <= r.k /\ r.k <= Len(r.batch)
  /\ r.pc = "poll" => r = [Idle EXCEPT !.pc = "poll"]
  /\ r.err # "none" => r.pc = "mark"
  /\ r.pc = "publish" \/ r.err = "terminal" => r.k < Len(r.batch)
  /\ \A j \in DOMAIN r.batch : r.batch[j] \in DOMAIN row

LEMMA IdleOK == RoundOK(Idle) /\ Idle.pc = "idle" /\ Idle.stale = 0 /\ Idle.batch = <<>> /\ Idle.k = 0
  BY DEF RoundOK, Idle, RoundState

LEMMA RoundsOK == RoundsType <=> /\ disp = [d \in Dispatchers |-> disp[d]]
                                 /\ \A d \in Dispatchers : RoundOK(disp[d])
  BY DEF RoundsType, RoundOK

(* What a batch is made of.                                                *)
LEMMA BatchOK ==
  ASSUME TypeOK, NEW b \in InIdOrder(Oldest)
  PROVE  /\ b \in Seq(Ids)
         /\ DOMAIN b = 1 .. Len(b)
         /\ \A j \in DOMAIN b : b[j] \in InClass("Pending")
         /\ \A i \in Oldest : \E j \in DOMAIN b : b[j] = i
         /\ \A i, j \in DOMAIN b : i < j => b[i] < b[j]
  <1>1. DOMAIN row = 1 .. Len(row) /\ Len(row) \in Nat /\ Len(row) <= Rows /\ Rows \in Nat
    BY LenProperties, OutboxAssumption DEF TypeOK, TableType
  <1>2. IsFiniteSet(DOMAIN row)
    BY <1>1, FS_Interval
  <1>3. Oldest \subseteq InClass("Pending") /\ InClass("Pending") \subseteq DOMAIN row
    BY DEF Oldest, InClass
  <1>4. Cardinality(Oldest) \in Nat
    BY <1>2, <1>3, FS_Subset, FS_CardinalityType
  <1>5. b \in [1 .. Cardinality(Oldest) -> Oldest] /\ Oldest = {b[j] : j \in DOMAIN b}
    BY DEF InIdOrder, Enumerations
  <1>6. Oldest \subseteq Ids
    BY <1>1, <1>3 DEF Ids
  <1>7. b \in [1 .. Cardinality(Oldest) -> Ids]
    BY <1>5, <1>6
  <1>8. b \in Seq(Ids)
    BY <1>4, <1>7, SeqDef
  <1>9. DOMAIN b = 1 .. Len(b)
    BY <1>8, LenProperties
  <1> QED BY <1>3, <1>5, <1>8, <1>9 DEF InIdOrder

(* Changes of a round that stay within its type.                           *)
Pcs == {"idle", "poll", "send", "publish", "mark"}
Errs == {"none", "terminal", "transient"}

LEMMA RoundChange ==
  ASSUME NEW r \in RoundState, NEW pc \in Pcs, NEW k \in Nat, NEW m \in Nat, NEW err \in Errs,
         NEW stale \in Nat, NEW s,
         s = [pc |-> pc, batch |-> r.batch, k |-> k, m |-> m, err |-> err, stale |-> stale]
  PROVE  /\ s \in RoundState /\ s.batch = r.batch
         /\ s.pc = pc /\ s.k = k /\ s.m = m /\ s.err = err /\ s.stale = stale
  BY DEF RoundState, Pcs, Errs

LEMMA RoundFields ==
  ASSUME NEW r \in RoundState
  PROVE  /\ r.pc \in Pcs /\ r.k \in Nat /\ r.m \in Nat /\ r.err \in Errs /\ r.stale \in Nat
         /\ r.batch \in Seq(Ids) /\ Len(r.batch) \in Nat
         /\ DOMAIN r.batch = 1 .. Len(r.batch) /\ \A j \in DOMAIN r.batch : r.batch[j] \in Ids
         /\ r = [pc |-> r.pc, batch |-> r.batch, k |-> r.k, m |-> r.m, err |-> r.err, stale |-> r.stale]
  <1>1. r.batch \in Seq(Ids)
    BY DEF RoundState
  <1>2. /\ Len(r.batch) \in Nat /\ DOMAIN r.batch = 1 .. Len(r.batch)
        /\ \A j \in DOMAIN r.batch : r.batch[j] \in Ids
    BY <1>1, LenProperties
  <1> QED BY <1>1, <1>2 DEF RoundState, Pcs, Errs

(* A dispatcher's step changes its own round, within the type.             *)
RoundMoves(d) ==
  /\ disp' = [disp EXCEPT ![d] = disp'[d]]
  /\ RoundOK(disp'[d])

LEMMA RoundStepOK ==
  ASSUME TypeOK, NEW d \in Dispatchers, Claim(d) \/ Round(d) \/ Crash(d)
  PROVE  RoundMoves(d)
  <1>0. disp \in [Dispatchers -> RoundState] /\ RoundOK(disp[d])
    BY RoundsOK DEF TypeOK, RoundsType
  <1>1. CASE Claim(d)
    BY <1>0, <1>1, IdleOK DEF Claim, Goes, RoundMoves, Idle, RoundOK, RoundState
  <1>2. ASSUME Goes(d, Idle) PROVE RoundMoves(d)
    BY <1>0, <1>2, IdleOK DEF Goes, RoundMoves
  <1>3. CASE PollPending(d)
    <2>1. CASE RoundError(d)
      BY <1>2, <2>1 DEF RoundError
    <2>2. CASE ~RoundError(d)
      <3>1. PICK b \in InIdOrder(Oldest) : Goes(d, [disp[d] EXCEPT !.pc = "send", !.batch = b])
        BY <1>3, <2>2 DEF PollPending
      <3>2. b \in Seq(Ids) /\ \A j \in DOMAIN b : b[j] \in DOMAIN row
        BY BatchOK DEF InClass
      <3>3. disp[d].k = 0 /\ disp[d].m = 0 /\ disp[d].err = "none" /\ Len(b) \in Nat
        BY <1>0, <1>3, <3>2, LenProperties DEF PollPending, RoundOK, Idle
      <3> DEFINE s == [disp[d] EXCEPT !.pc = "send", !.batch = b]
      <3>4. s \in RoundState /\ s.pc = "send" /\ s.batch = b
        BY <1>0, <3>2 DEF RoundState
      <3>5. s.k = 0 /\ s.m = 0 /\ s.err = "none"
        BY <1>0, <3>3 DEF RoundState
      <3> HIDE DEF s
      <3>6. RoundOK(s)
        BY <3>2, <3>3, <3>4, <3>5 DEF RoundOK
      <3> QED BY <1>0, <3>1, <3>6 DEF Goes, RoundMoves, s
    <2> QED BY <2>1, <2>2
  <1>4. CASE Renew(d)
    <2> DEFINE s == [disp[d] EXCEPT !.pc = "publish"]
    <2>1. RoundError(d) \/ Goes(d, s)
      BY <1>4 DEF Renew
    <2>2. /\ s \in RoundState /\ s.pc = "publish" /\ s.batch = disp[d].batch
          /\ s.k = disp[d].k /\ s.m = disp[d].m /\ s.err = disp[d].err
      BY <1>0 DEF RoundState
    <2> HIDE DEF s
    <2>3. RoundOK(s)
      BY <1>0, <1>4, <2>2 DEF RoundOK, Renew
    <2> QED BY <1>0, <1>2, <2>1, <2>3 DEF RoundError, Goes, RoundMoves
  <1>5. CASE Publish(d)
    <2> DEFINE x == IF Authority(d) THEN disp[d].stale ELSE disp[d].stale + 1
               r == [disp[d] EXCEPT !.stale = x]
    <2>a. x \in Nat
      BY <1>0 DEF RoundState
    <2> HIDE DEF x
    <2>0. /\ r \in RoundState /\ r.pc = "publish" /\ r.batch = disp[d].batch
          /\ r.k = disp[d].k /\ r.m = disp[d].m /\ r.err = disp[d].err
      BY <1>0, <1>5, <2>a DEF Publish, RoundOK, RoundState
    <2>1. RoundOK(r) /\ r.k < Len(r.batch)
      BY <1>0, <1>5, <2>0 DEF Publish, RoundOK
    <2>2. \/ Goes(d, [r EXCEPT !.pc = "send", !.k = @ + 1])
          \/ Goes(d, StopAt(r, "terminal"))
          \/ Goes(d, StopAt(r, "transient"))
      BY <1>5 DEF Publish, x
    <2> HIDE DEF r
    <2> DEFINE s == [r EXCEPT !.pc = "send", !.k = @ + 1]
    <2>3. RoundOK(s)
      <3>1. s.pc = "send" /\ s.batch = r.batch /\ s.k = r.k + 1 /\ s.m = r.m /\ s.err = r.err
        BY <2>0 DEF RoundState
      <3>2. r.k + 1 \in Nat
        BY <2>0 DEF RoundState
      <3>3. s \in RoundState
        BY <2>0, <3>2 DEF RoundState
      <3> HIDE DEF s
      <3> QED BY <2>0, <2>1, <3>1, <3>3, RoundFields DEF RoundOK
    <2>4. RoundOK(StopAt(r, "terminal")) /\ RoundOK(StopAt(r, "transient"))
      BY <2>1 DEF StopAt, RoundOK, RoundState
    <2> QED BY <1>0, <2>2, <2>3, <2>4 DEF Goes, RoundMoves
  <1>6. CASE BatchSent(d)
    BY <1>0, <1>6 DEF BatchSent, Goes, RoundMoves, RoundOK, RoundState
  <1>7. CASE MarkDispatched(d)
    <2> DEFINE n == IF Backend = "pgsql" THEN disp[d].k ELSE disp[d].m + 1
    <2>0. n \in Nat /\ n <= disp[d].k
      BY <1>0, <1>7, RoundFields DEF MarkDispatched
    <2>1. RoundError(d) \/ Goes(d, [disp[d] EXCEPT !.m = n])
      BY <1>7 DEF MarkDispatched
    <2> HIDE DEF n
    <2>2. \A m \in Nat : m <= disp[d].k => RoundOK([disp[d] EXCEPT !.m = m])
      <3> SUFFICES ASSUME NEW m \in Nat, m <= disp[d].k PROVE RoundOK([disp[d] EXCEPT !.m = m])
        OBVIOUS
      <3> DEFINE s == [disp[d] EXCEPT !.m = m]
      <3>1. /\ s \in RoundState /\ s.pc = disp[d].pc /\ s.batch = disp[d].batch
            /\ s.k = disp[d].k /\ s.m = m /\ s.err = disp[d].err
        BY <1>0 DEF RoundState
      <3> HIDE DEF s
      <3>2. RoundOK(s)
        BY <1>0, <1>7, <3>1 DEF RoundOK, MarkDispatched
      <3> QED BY <3>2 DEF s
    <2> QED BY <1>0, <1>2, <2>0, <2>1, <2>2 DEF RoundError, Goes, RoundMoves
  <1>8. CASE RecordFailed(d)
    <2>1. RoundError(d) \/ Goes(d, [disp[d] EXCEPT !.err = "none"])
      BY <1>8 DEF RecordFailed
    <2>2. RoundOK([disp[d] EXCEPT !.err = "none"])
      BY <1>0, <1>8 DEF RecordFailed, RoundOK, RoundState
    <2> QED BY <1>0, <1>2, <2>1, <2>2 DEF RoundError, Goes, RoundMoves
  <1>9. CASE Release(d)
    BY <1>2, <1>9 DEF Release
  <1>10. CASE Crash(d)
    BY <1>2, <1>10 DEF Crash, RoundError
  <1> QED BY <1>1, <1>3, <1>4, <1>5, <1>6, <1>7, <1>8, <1>9, <1>10 DEF Round

-----------------------------------------------------------------------------
(* Who changes what.                                                       *)
LEMMA WhoActs ==
  ASSUME [Next]_vars
  PROVE  /\ UNCHANGED disp \/ \E d \in Dispatchers : Claim(d) \/ Round(d) \/ Crash(d)
         /\ UNCHANGED log \/ \E d \in Dispatchers : Publish(d)
         /\ \/ UNCHANGED <<clean, archive, disposal>>
            \/ CleanClaim \/ FetchCandidates \/ ArchiveOne \/ DeleteCandidates \/ CleanStops
         /\ UNCHANGED consumer \/ Consume \/ \E i \in inbox : InboxRetention(i)
  <1> USE DEF table, retention, consumer
  <1>1. CASE \E a \in Aggregates, poison \in BOOLEAN : AppendEvent(a, poison)
    BY <1>1 DEF AppendEvent
  <1>2. CASE \E i \in DOMAIN row : EndTransaction(i) \/ Age(i) \/ Revive(i)
    BY <1>2 DEF EndTransaction, Age, Revive
  <1>3. CASE Reconcile \/ \E role \in Roles : AuthorityLost(role)
    BY <1>3 DEF Reconcile, AuthorityLost
  <1>4. CASE \E d \in Dispatchers : Claim(d) \/ Crash(d)
    BY <1>4 DEF Claim, Crash
  <1>5. CASE \E d \in Dispatchers : Round(d)
    <2>1. UNCHANGED <<clean, archive, disposal, consumer>>
      <3>1. CASE \E d \in Dispatchers : PollPending(d) \/ Renew(d) \/ BatchSent(d) \/ Release(d)
        BY <3>1 DEF PollPending, Renew, BatchSent, Release
      <3>2. CASE \E d \in Dispatchers : Publish(d)
        BY <3>2 DEF Publish
      <3>3. CASE \E d \in Dispatchers : MarkDispatched(d) \/ RecordFailed(d)
        BY <3>3 DEF MarkDispatched, RecordFailed
      <3> QED BY <1>5, <3>1, <3>2, <3>3 DEF Round
    <2>2. UNCHANGED log \/ \E d \in Dispatchers : Publish(d)
      BY <1>5 DEF Round, PollPending, Renew, BatchSent, MarkDispatched, RecordFailed, Release
    <2> QED BY <1>5, <2>1, <2>2
  <1>6. CASE CleanClaim \/ FetchCandidates \/ ArchiveOne \/ DeleteCandidates \/ CleanStops
    BY <1>6 DEF CleanClaim, FetchCandidates, ArchiveOne, DeleteCandidates, CleanStops
  <1>7. CASE Consume
    BY <1>7 DEF Consume
  <1>8. CASE \E i \in inbox : InboxRetention(i)
    BY <1>8 DEF InboxRetention
  <1>9. CASE UNCHANGED vars
    BY <1>9 DEF vars
  <1> QED BY <1>1, <1>2, <1>3, <1>4, <1>5, <1>6, <1>7, <1>8, <1>9 DEF Next

(* The log grows by the row a round has come to.                           *)
LogGrows(d) ==
  LET e == disp[d].batch[disp[d].k + 1]
  IN /\ disp[d].pc = "publish"
     /\ disp[d].k + 1 \in DOMAIN disp[d].batch
     /\ log' = Append(log, e)
     /\ e \in DOMAIN row /\ e \in Ids

LEMMA LogMoves ==
  ASSUME TypeOK, [Next]_vars
  PROVE  /\ UNCHANGED log \/ \E d \in Dispatchers : LogGrows(d)
         /\ log' \in Seq(Ids)
         /\ DOMAIN log \subseteq DOMAIN log'
         /\ \A p \in DOMAIN log : log'[p] = log[p]
         /\ Published \subseteq Published'
         /\ DOMAIN log = 1 .. Len(log) /\ DOMAIN log' = 1 .. Len(log') /\ Len(log) \in Nat /\ Len(log') \in Nat
         /\ Len(log) <= Len(log')
  <1>0. log \in Seq(Ids) /\ DOMAIN log = 1 .. Len(log) /\ Len(log) \in Nat
    BY LenProperties DEF TypeOK, LogType
  <1>1. CASE UNCHANGED log
    BY <1>0, <1>1 DEF Published
  <1>2. ASSUME NEW d \in Dispatchers, Publish(d), ~UNCHANGED log PROVE LogGrows(d)
    <2>1. /\ disp[d] \in RoundState /\ RoundOK(disp[d])
      BY RoundsOK DEF TypeOK, RoundsType
    <2>2. disp[d].pc = "publish"
      BY <1>2 DEF Publish
    <2>3. disp[d].k + 1 \in DOMAIN disp[d].batch
      BY <2>1, <2>2, RoundFields DEF RoundOK
    <2>4. disp[d].batch[disp[d].k + 1] \in DOMAIN row /\ disp[d].batch[disp[d].k + 1] \in Ids
      BY <2>1, <2>3, RoundFields DEF RoundOK
    <2> DEFINE r == [disp[d] EXCEPT !.stale = IF Authority(d) THEN @ ELSE @ + 1]
    <2>5. r.batch = disp[d].batch /\ r.k = disp[d].k
      BY <2>1 DEF RoundState
    <2>6. log' = Append(log, r.batch[r.k + 1])
      BY <1>2 DEF Publish
    <2> QED BY <2>2, <2>3, <2>4, <2>5, <2>6 DEF LogGrows
  <1>3. CASE ~UNCHANGED log
    <2>1. PICK d \in Dispatchers : LogGrows(d)
      BY <1>2, <1>3, WhoActs
    <2> DEFINE e == disp[d].batch[disp[d].k + 1]
    <2>2. e \in Ids /\ log' = Append(log, e)
      BY <2>1 DEF LogGrows
    <2> HIDE DEF e
    <2>3. /\ log' \in Seq(Ids) /\ Len(log') = Len(log) + 1
          /\ DOMAIN log' = 1 .. Len(log) + 1
          /\ \A p \in DOMAIN log : log'[p] = log[p]
      BY <1>0, <2>2, SeqAppend
    <2>4. Published \subseteq Published'
      BY <1>0, <2>3 DEF Published
    <2> QED BY <1>0, <2>1, <2>3, <2>4
  <1> QED BY <1>1, <1>3

-----------------------------------------------------------------------------
(* Type correctness.                                                       *)
LEMMA TypeInit == Init => TypeOK
  <1> SUFFICES ASSUME Init PROVE TypeOK
    OBVIOUS
  <1>1. TableType /\ LogType /\ CleanType
    BY OutboxAssumption DEF Init, TableType, LogType, CleanType, CleanIdle, Candidate
  <1>2. RoundsType
    BY IdleOK, RoundsOK DEF Init
  <1>3. owner \in [Roles -> Dispatchers \cup {Cleaner, Nobody}]
    BY DEF Init
  <1>4. archive \cup disposal \cup inbox \subseteq Ids /\ drifted \in BOOLEAN
    BY DEF Init
  <1>5. {ledger, faults, revivals} \subseteq Nat
    BY DEF Init
  <1> QED BY <1>1, <1>2, <1>3, <1>4, <1>5 DEF TypeOK

LEMMA OwnersStay ==
  ASSUME TypeOK, [Next]_vars
  PROVE  owner' \in [Roles -> Dispatchers \cup {Cleaner, Nobody}]
  <1> USE DEF TypeOK, Roles, TryClaim, Dropped, Abandoned, RoundError, CleanEnds
  <1>1. CASE UNCHANGED owner
    BY <1>1
  <1>2. CASE \E role \in Roles : AuthorityLost(role)
    BY <1>2 DEF AuthorityLost
  <1>3. CASE \E d \in Dispatchers : Claim(d) \/ Crash(d) \/ Release(d)
    BY <1>3 DEF Claim, Crash, Release
  <1>4. CASE \E d \in Dispatchers : PollPending(d) \/ Renew(d) \/ MarkDispatched(d) \/ RecordFailed(d)
    BY <1>4 DEF PollPending, Renew, MarkDispatched, RecordFailed
  <1>5. CASE CleanClaim \/ FetchCandidates \/ DeleteCandidates \/ CleanStops
    BY <1>5 DEF CleanClaim, FetchCandidates, DeleteCandidates, CleanStops
  <1>6. ASSUME \/ \E a \in Aggregates, poison \in BOOLEAN : AppendEvent(a, poison)
               \/ \E i \in DOMAIN row : EndTransaction(i) \/ Age(i) \/ Revive(i)
               \/ Reconcile \/ ArchiveOne \/ Consume \/ \E i \in inbox : InboxRetention(i)
               \/ \E d \in Dispatchers : Publish(d) \/ BatchSent(d)
        PROVE  UNCHANGED owner
    BY <1>6 DEF AppendEvent, EndTransaction, Age, Revive, Reconcile, ArchiveOne, Consume,
        InboxRetention, Publish, BatchSent
  <1>7. CASE UNCHANGED vars
    BY <1>1, <1>7 DEF vars
  <1> QED BY <1>1, <1>2, <1>3, <1>4, <1>5, <1>6, <1>7 DEF Next, Round

LEMMA CountersStay ==
  ASSUME TypeOK, [Next]_vars
  PROVE  {ledger', faults', revivals'} \subseteq Nat /\ drifted' \in BOOLEAN
  <1>0. /\ ledger \in Nat /\ faults \in Nat /\ revivals \in Nat /\ drifted \in BOOLEAN
        /\ IsFiniteSet(DOMAIN row)
    <2>1. DOMAIN row = 1 .. Len(row) /\ Len(row) \in Nat
      BY LenProperties DEF TypeOK, TableType
    <2> QED BY <2>1, FS_Interval DEF TypeOK
  <1>a. \A n \in Nat : Released(n) \in Nat
    BY <1>0 DEF Released
  <1>b. \A S \in SUBSET DOMAIN row : Cardinality(S) \in Nat
    BY <1>0, FS_Subset, FS_CardinalityType
  <1>1. CASE \E a \in Aggregates, poison \in BOOLEAN : AppendEvent(a, poison)
    BY <1>0, <1>1 DEF AppendEvent, Reserved
  <1>2. CASE \E i \in DOMAIN row : EndTransaction(i) \/ Age(i) \/ Revive(i)
    <2>1. CASE \E i \in DOMAIN row : EndTransaction(i)
      <3>1. Released(1) \in Nat
        BY <1>a
      <3> QED BY <1>0, <3>1, <2>1 DEF EndTransaction
    <2>2. CASE \E i \in DOMAIN row : Age(i)
      BY <1>0, <2>2 DEF Age
    <2>3. CASE \E i \in DOMAIN row : Revive(i)
      <3>1. revivals' = revivals + 1 /\ UNCHANGED <<ledger, faults>>
        BY <2>3 DEF Revive
      <3>2. drifted' = (Cap > 0)
        BY <2>3 DEF Revive
      <3>3. drifted' \in BOOLEAN
        BY <3>2
      <3> QED BY <1>0, <3>1, <3>3
    <2> QED BY <1>2, <2>1, <2>2, <2>3
  <1>3. CASE Reconcile
    BY <1>0, <1>b, <1>3 DEF Reconcile, InClass
  <1>4. ASSUME NEW d \in Dispatchers, MarkDispatched(d)
        PROVE  {ledger', faults', revivals'} \subseteq Nat /\ drifted' \in BOOLEAN
    <2> DEFINE now == MarkedNow(disp[d]) \cap InClass("Pending")
    <2>1. Cardinality(now) \in Nat
      BY <1>b DEF InClass
    <2>2. UNCHANGED ledger \/ ledger' = Released(Cardinality(now))
      BY <1>4 DEF MarkDispatched
    <2> HIDE DEF now
    <2> QED BY <1>0, <1>a, <1>4, <2>1, <2>2 DEF MarkDispatched
  <1>5. ASSUME NEW d \in Dispatchers, RecordFailed(d)
        PROVE  {ledger', faults', revivals'} \subseteq Nat /\ drifted' \in BOOLEAN
    BY <1>0, <1>a, <1>5 DEF RecordFailed, Refused
  <1>6. ASSUME \E d \in Dispatchers : PollPending(d) \/ Renew(d) \/ BatchSent(d) \/ Release(d) \/ Claim(d)
        PROVE  UNCHANGED <<ledger, faults, revivals, drifted>>
    BY <1>6 DEF PollPending, Renew, BatchSent, Release, Claim, table
  <1>7. CASE \E d \in Dispatchers : Publish(d) \/ Crash(d)
    BY <1>0, <1>7 DEF Publish, Crash, Fault, table
  <1>8. CASE (\E role \in Roles : AuthorityLost(role)) \/ Consume
    BY <1>0, <1>8 DEF AuthorityLost, Consume, Fault, table
  <1>9. ASSUME \/ CleanClaim \/ FetchCandidates \/ ArchiveOne \/ DeleteCandidates \/ CleanStops
               \/ \E i \in inbox : InboxRetention(i)
        PROVE  UNCHANGED <<ledger, faults, revivals, drifted>>
    BY <1>9 DEF CleanClaim, FetchCandidates, ArchiveOne, DeleteCandidates, CleanStops,
        InboxRetention, table
  <1>10. CASE UNCHANGED vars
    BY <1>0, <1>10 DEF vars, table
  <1> QED BY <1>0, <1>1, <1>2, <1>3, <1>4, <1>5, <1>6, <1>7, <1>8, <1>9, <1>10 DEF Next, Round

LEMMA TypeStep == TypeOK /\ [Next]_vars => TypeOK'
  <1> SUFFICES ASSUME TypeOK, [Next]_vars PROVE TypeOK'
    OBVIOUS
  <1>1. TableType' /\ RowsMove
    BY RowsMoveStep
  <1>2. DOMAIN row \subseteq DOMAIN row'
    BY <1>1 DEF RowsMove
  <1>3. RoundsType'
    <2>1. /\ disp = [d \in Dispatchers |-> disp[d]]
          /\ \A d \in Dispatchers : RoundOK(disp[d])
      BY RoundsOK DEF TypeOK
    <2>2. UNCHANGED disp \/ \E d \in Dispatchers : RoundMoves(d)
      BY WhoActs, RoundStepOK
    <2>3. \A d \in Dispatchers : RoundOK(disp'[d])
      BY <2>1, <2>2 DEF RoundMoves
    <2>4. disp' = [d \in Dispatchers |-> disp'[d]]
      BY <2>1, <2>2 DEF RoundMoves
    <2>5. \A d \in Dispatchers : RoundOK(disp[d])'
      BY <1>2, <2>3 DEF RoundOK
    <2>6. disp' \in [Dispatchers -> RoundState]
      BY <2>3, <2>4 DEF RoundOK
    <2> QED BY <2>5, <2>6 DEF RoundsType, RoundOK
  <1>4. LogType'
    <2>1. \A p \in DOMAIN log' : log'[p] \in DOMAIN row'
      <3>1. \A p \in DOMAIN log : log'[p] \in DOMAIN row'
        BY <1>2, LogMoves DEF TypeOK, LogType
      <3>2. CASE UNCHANGED log
        BY <3>1, <3>2
      <3>3. CASE ~UNCHANGED log
        <4>1. PICK d \in Dispatchers : LogGrows(d)
          BY <3>3, LogMoves
        <4> DEFINE e == disp[d].batch[disp[d].k + 1]
        <4>2. e \in Ids /\ e \in DOMAIN row /\ log' = Append(log, e) /\ log \in Seq(Ids)
          BY <4>1 DEF LogGrows, TypeOK, LogType
        <4> HIDE DEF e
        <4>3. /\ DOMAIN log' = 1 .. Len(log) + 1 /\ DOMAIN log = 1 .. Len(log)
              /\ log'[Len(log) + 1] = e /\ Len(log) \in Nat
          BY <4>2, SeqAppend
        <4> QED BY <1>2, <3>1, <4>2, <4>3
      <3> QED BY <3>2, <3>3
    <2>2. offset' \in 0 .. Len(log')
      BY LogMoves, WhoActs DEF Consume, InboxRetention, consumer, TypeOK, LogType
    <2>3. effects' \in [Ids -> Nat]
      BY LogMoves, WhoActs DEF Consume, InboxRetention, consumer, TypeOK, LogType
    <2> QED BY <2>1, <2>2, <2>3, LogMoves DEF LogType
  <1>5. CleanType' /\ (archive \cup disposal \cup inbox \subseteq Ids)'
    <2>0. /\ clean \in [pc : {"idle", "fetch", "archive", "delete"}, cand : SUBSET Candidate]
          /\ \A c \in clean.cand : c.id \in DOMAIN row
          /\ \A c \in clean.cand : c.id \in Ids
          /\ archive \cup disposal \cup inbox \subseteq Ids
          /\ \A p \in DOMAIN log : log[p] \in Ids
      BY LenProperties DEF TypeOK, CleanType, Candidate, LogType
    <2>1. ASSUME UNCHANGED <<clean, archive, disposal>>
          PROVE  CleanType' /\ (archive \cup disposal \cup inbox \subseteq Ids)'
      BY <1>2, <2>0, <2>1, WhoActs, LogMoves DEF CleanType, Consume, InboxRetention, consumer, TypeOK, LogType
    <2>2. CASE CleanClaim \/ CleanStops
      BY <2>0, <2>2, <1>2 DEF CleanClaim, CleanStops, CleanEnds, CleanIdle, CleanType, consumer
    <2>3. CASE FetchCandidates
      <3>1. Candidates \subseteq Candidate /\ \A c \in Candidates : c.id \in DOMAIN row
        <4>1. \A i \in DOMAIN row : row[i] \in Row /\ i \in Ids
          BY LenProperties, OutboxAssumption DEF TypeOK, TableType, Ids
        <4> QED BY <4>1 DEF Candidates, Due, InClass, Candidate, Row
      <3> QED BY <2>0, <2>3, <3>1, <1>2 DEF FetchCandidates, CleanEnds, CleanIdle, CleanType, consumer
    <2>4. CASE ArchiveOne
      BY <2>0, <2>4, <1>2 DEF ArchiveOne, ReceiptsMissing, CleanType, consumer
    <2>5. CASE DeleteCandidates
      BY <2>0, <2>5, <1>2 DEF DeleteCandidates, Disposed, CleanEnds, CleanIdle, CleanType, consumer
    <2> QED BY <2>1, <2>2, <2>3, <2>4, <2>5, WhoActs
  <1>6. (owner \in [Roles -> Dispatchers \cup {Cleaner, Nobody}])'
    BY OwnersStay
  <1>7. ({ledger, faults, revivals} \subseteq Nat /\ drifted \in BOOLEAN)'
    BY CountersStay
  <1> QED BY <1>1, <1>3, <1>4, <1>5, <1>6, <1>7 DEF TypeOK

(* Every table, round and position keeps its type, and nothing refers to a *)
(* row that is not there.                                                  *)
THEOREM TypeCorrect == Spec => []TypeOK
  BY TypeInit, TypeStep, PTL DEF Spec

-----------------------------------------------------------------------------
(* What a step does to a round's batch: the round is over, has polled, is  *)
(* where it was, or has had one more row accepted.                         *)
RoundKind(d) ==
  \/ disp'[d].batch = <<>> /\ disp'[d].k = 0
  \/ /\ disp'[d].batch \in InIdOrder(Oldest) /\ disp'[d].k = 0
     /\ UNCHANGED <<row, log>>
  \/ disp'[d].batch = disp[d].batch /\ disp'[d].k = disp[d].k
  \/ /\ disp'[d].batch = disp[d].batch /\ disp'[d].k = disp[d].k + 1
     /\ LogGrows(d)

LEMMA RoundKinds ==
  ASSUME TypeOK, NEW d \in Dispatchers, Claim(d) \/ Round(d) \/ Crash(d)
  PROVE  RoundKind(d)
  <1>0. disp \in [Dispatchers -> RoundState] /\ RoundOK(disp[d])
    BY RoundsOK DEF TypeOK, RoundsType
  <1>1. ASSUME NEW r, Goes(d, r) PROVE disp'[d] = r
    BY <1>0, <1>1 DEF Goes
  <1>2. ASSUME Goes(d, Idle) PROVE RoundKind(d)
    BY <1>1, <1>2, IdleOK DEF RoundKind
  <1>3. CASE Claim(d)
    <2>1. disp'[d] = [Idle EXCEPT !.pc = "poll"]
      BY <1>1, <1>3 DEF Claim
    <2> QED BY <2>1 DEF RoundKind, Idle
  <1>4. CASE PollPending(d)
    <2>1. CASE RoundError(d)
      BY <1>2, <2>1 DEF RoundError
    <2>2. CASE ~RoundError(d)
      <3>1. PICK b \in InIdOrder(Oldest) : Goes(d, [disp[d] EXCEPT !.pc = "send", !.batch = b])
        BY <1>4, <2>2 DEF PollPending
      <3>2. disp'[d] = [disp[d] EXCEPT !.pc = "send", !.batch = b]
        BY <1>1, <3>1
      <3>3. disp[d].k = 0
        BY <1>0, <1>4 DEF PollPending, RoundOK, Idle
      <3>4. disp'[d].batch = b /\ disp'[d].k = 0
        BY <1>0, <3>2, <3>3 DEF RoundState
      <3>5. UNCHANGED <<row, log>>
        BY <1>4 DEF PollPending, table
      <3> QED BY <3>1, <3>4, <3>5 DEF RoundKind
    <2> QED BY <2>1, <2>2
  <1>5. CASE Renew(d)
    <2>1. RoundError(d) \/ Goes(d, [disp[d] EXCEPT !.pc = "publish"])
      BY <1>5 DEF Renew
    <2> QED BY <1>0, <1>1, <1>2, <2>1 DEF RoundError, RoundKind, RoundState
  <1>6. CASE Publish(d)
    <2> DEFINE r == [disp[d] EXCEPT !.stale = IF Authority(d) THEN @ ELSE @ + 1]
    <2>1. r.batch = disp[d].batch /\ r.k = disp[d].k
      BY <1>0 DEF RoundState
    <2>2. r = [pc |-> r.pc, batch |-> r.batch, k |-> r.k, m |-> r.m, err |-> r.err, stale |-> r.stale]
      BY <1>0 DEF RoundState
    <2>3. \/ Goes(d, StopAt(r, "terminal"))
          \/ Goes(d, StopAt(r, "transient"))
          \/ Goes(d, [r EXCEPT !.pc = "send", !.k = @ + 1]) /\ log' = Append(log, r.batch[r.k + 1])
      BY <1>6 DEF Publish
    <2>4. disp[d].pc = "publish"
      BY <1>6 DEF Publish
    <2>5. disp[d].k + 1 \in DOMAIN disp[d].batch
      BY <1>0, <2>4, RoundFields DEF RoundOK
    <2>6. disp[d].batch[disp[d].k + 1] \in DOMAIN row /\ disp[d].batch[disp[d].k + 1] \in Ids
      BY <1>0, <2>5, RoundFields DEF RoundOK
    <2> HIDE DEF r
    <2>7. CASE Goes(d, StopAt(r, "terminal")) \/ Goes(d, StopAt(r, "transient"))
      <3>1. disp'[d].batch = r.batch /\ disp'[d].k = r.k
        BY <1>1, <2>2, <2>7 DEF StopAt
      <3> QED BY <2>1, <3>1 DEF RoundKind
    <2>8. CASE Goes(d, [r EXCEPT !.pc = "send", !.k = @ + 1]) /\ log' = Append(log, r.batch[r.k + 1])
      <3>1. disp'[d].batch = r.batch /\ disp'[d].k = r.k + 1
        BY <1>1, <2>2, <2>8
      <3>2. LogGrows(d)
        BY <2>1, <2>4, <2>5, <2>6, <2>8 DEF LogGrows
      <3> QED BY <2>1, <3>1, <3>2 DEF RoundKind
    <2> QED BY <2>3, <2>7, <2>8
  <1>7. CASE BatchSent(d)
    BY <1>0, <1>1, <1>7 DEF BatchSent, RoundKind, RoundState
  <1>8. CASE MarkDispatched(d)
    <2>1. RoundError(d) \/ Goes(d, [disp[d] EXCEPT !.m = IF Backend = "pgsql" THEN disp[d].k ELSE @ + 1])
      BY <1>8 DEF MarkDispatched
    <2> QED BY <1>0, <1>1, <1>2, <2>1 DEF RoundError, RoundKind, RoundState
  <1>9. CASE RecordFailed(d)
    <2>1. RoundError(d) \/ Goes(d, [disp[d] EXCEPT !.err = "none"])
      BY <1>9 DEF RecordFailed
    <2> QED BY <1>0, <1>1, <1>2, <2>1 DEF RoundError, RoundKind, RoundState
  <1>10. CASE Release(d)
    BY <1>2, <1>10 DEF Release
  <1>11. CASE Crash(d)
    BY <1>2, <1>11 DEF Crash, RoundError
  <1> QED BY <1>3, <1>4, <1>5, <1>6, <1>7, <1>8, <1>9, <1>10, <1>11 DEF Round

(* The same for all rounds.                                                *)
LEMMA RoundsMove ==
  ASSUME TypeOK, [Next]_vars, NEW d \in Dispatchers
  PROVE  RoundKind(d) /\ RoundOK(disp[d]) /\ RoundOK(disp[d])'
  <1>1. TypeOK'
    BY TypeStep
  <1>2. RoundOK(disp[d])
    BY RoundsOK DEF TypeOK
  <1>3. RoundOK(disp[d])'
    BY <1>1 DEF TypeOK, RoundsType, RoundOK
  <1>4. CASE UNCHANGED disp[d]
    BY <1>2, <1>3, <1>4 DEF RoundKind
  <1>5. CASE ~UNCHANGED disp[d]
    <2>1. PICK x \in Dispatchers : Claim(x) \/ Round(x) \/ Crash(x)
      BY <1>5, WhoActs
    <2>2. RoundMoves(x)
      BY <2>1, RoundStepOK
    <2>3. x = d
      BY <1>5, <2>2 DEF RoundMoves, TypeOK, RoundsType
    <2> QED BY <1>2, <1>3, <2>1, <2>3, RoundKinds
  <1> QED BY <1>4, <1>5

(* A row is marked by a round that has passed it.                          *)
LEMMA NewlyDispatched ==
  ASSUME TypeOK, [Next]_vars, NEW i \in DOMAIN row,
         row[i].st # "Dispatched", row'[i].st = "Dispatched"
  PROVE  \E d \in Dispatchers : \E j \in 1 .. disp[d].k : disp[d].batch[j] = i
  <1>0. row \in Seq(Row)
    BY DEF TypeOK, TableType
  <1>1. \E d \in Dispatchers : MarkDispatched(d)
    <2>1. row # row'
      OBVIOUS
    <2>a. DOMAIN row = 1 .. Len(row) /\ Len(row) \in Nat /\ \A j \in DOMAIN row : row[j] \in Row
      BY <1>0, LenProperties
    <2>2. ASSUME NEW a \in Aggregates, NEW p \in BOOLEAN, AppendEvent(a, p) PROVE FALSE
      BY <1>0, <2>2, <2>a DEF AppendEvent
    <2>3. ASSUME NEW j \in DOMAIN row, EndTransaction(j) PROVE FALSE
      BY <2>3, <2>a DEF EndTransaction, Row
    <2>4. ASSUME NEW j \in DOMAIN row, Age(j) \/ Revive(j) PROVE FALSE
      BY <2>4, <2>a DEF Age, Revive, Row, InClass
    <2>5. ASSUME DeleteCandidates PROVE FALSE
      BY <2>5, <2>a DEF DeleteCandidates, Row
    <2>6. ASSUME NEW d \in Dispatchers, RecordFailed(d) PROVE FALSE
      <3>1. PICK x : x \in InClass("Pending") /\ Refused(x)
        BY <2>1, <2>6 DEF RecordFailed
      <3> QED BY <2>a, <3>1 DEF Refused, Row, InClass
    <2> QED BY <2>1, <2>2, <2>3, <2>4, <2>5, <2>6, RowWriters
  <1>2. PICK d \in Dispatchers : MarkDispatched(d)
    BY <1>1
  <1>3. Final(MarkedNow(disp[d]) \cap InClass("Pending"), "Dispatched")
    BY <1>2 DEF MarkDispatched
  <1>4. i \in MarkedNow(disp[d])
    BY <1>3 DEF Final
  <1>5. disp[d].m < disp[d].k /\ disp[d].m \in Nat /\ disp[d].k \in Nat
    BY <1>2, RoundsOK, RoundFields DEF MarkDispatched, TypeOK, RoundOK
  <1> QED BY <1>4, <1>5 DEF MarkedNow

(* A row is deleted as the candidate it was fetched as.                    *)
LEMMA NewlyDeleted ==
  ASSUME TypeOK, [Next]_vars, NEW i \in DOMAIN row,
         row[i].st # "Deleted", row'[i].st = "Deleted"
  PROVE  /\ clean.pc = "delete" /\ disposal' = disposal \cup Disposed
         /\ \E c \in clean.cand : c.id = i /\ StillCandidate(c)
  <1>0. row \in Seq(Row)
    BY DEF TypeOK, TableType
  <1>1. DeleteCandidates
    <2>1. row # row'
      OBVIOUS
    <2>a. DOMAIN row = 1 .. Len(row) /\ Len(row) \in Nat /\ \A j \in DOMAIN row : row[j] \in Row
      BY <1>0, LenProperties
    <2>2. ASSUME NEW a \in Aggregates, NEW p \in BOOLEAN, AppendEvent(a, p) PROVE FALSE
      BY <1>0, <2>2, <2>a DEF AppendEvent
    <2>3. ASSUME NEW j \in DOMAIN row, EndTransaction(j) PROVE FALSE
      BY <2>3, <2>a DEF EndTransaction, Row
    <2>4. ASSUME NEW j \in DOMAIN row, Age(j) \/ Revive(j) PROVE FALSE
      BY SMTT(60), <2>4, <2>a DEF Age, Revive, Row, InClass
    <2>5. ASSUME NEW d \in Dispatchers, MarkDispatched(d) PROVE FALSE
      <3>1. PICK S : Final(S, "Dispatched")
        BY <2>1, <2>5 DEF MarkDispatched
      <3> QED BY <2>a, <3>1 DEF Final, Row
    <2>6. ASSUME NEW d \in Dispatchers, RecordFailed(d) PROVE FALSE
      <3>1. PICK x : x \in InClass("Pending") /\ Refused(x)
        BY <2>1, <2>6 DEF RecordFailed
      <3> QED BY <2>a, <3>1 DEF Refused, Row, InClass
    <2> QED BY <2>1, <2>2, <2>3, <2>4, <2>5, <2>6, RowWriters
  <1>2. CASE UNCHANGED row
    BY <1>2
  <1>3. CASE ~UNCHANGED row
    BY <1>1, <1>3 DEF DeleteCandidates
  <1> QED BY <1>2, <1>3

-----------------------------------------------------------------------------
(* Nothing is lost.                                                        *)
LEMMA RowsKept ==
  ASSUME TypeOK, [Next]_vars, NEW i \in DOMAIN row
  PROVE  /\ i \in DOMAIN row' /\ row[i] \in Row /\ row'[i] \in Row /\ i \in Ids
         /\ row'[i].agg = row[i].agg
         /\ RowStep(row[i], row'[i])
         /\ Committed(i) => Committed(i)'
         /\ row[i].tries >= MaxAttempts => row'[i].tries >= MaxAttempts
         /\ row[i].st # "Open" => row'[i].st # "Open"
         /\ row[i].st = "RolledBack" => row'[i].st = "RolledBack"
  <1>1. RowsMove
    BY RowsMoveStep
  <1>2. DOMAIN row = 1 .. Len(row) /\ Len(row) \in Nat /\ Len(row) <= Rows /\ row[i] \in Row
    BY LenProperties DEF TypeOK, TableType
  <1>3. RowStep(row[i], row'[i]) /\ i \in DOMAIN row'
    BY <1>1 DEF RowsMove
  <1>4. row[i].tries \in Nat /\ row'[i].tries \in Nat /\ row'[i] \in Row
    BY <1>2, <1>3 DEF RowStep, Row
  <1>5. i \in Ids
    BY <1>2, OutboxAssumption DEF Ids
  <1> QED BY <1>2, <1>3, <1>4, <1>5, OutboxAssumption DEF RowStep, Committed

LEMMA PublishedGrows ==
  ASSUME TypeOK, [Next]_vars
  PROVE  /\ Published \subseteq Published'
         /\ \A i \in Published' \ Published :
              \E d \in Dispatchers : LogGrows(d) /\ i = disp[d].batch[disp[d].k + 1]
         /\ \A d \in Dispatchers : LogGrows(d) =>
              /\ disp[d].batch[disp[d].k + 1] \in Published'
              /\ Len(log') = Len(log) + 1
              /\ log'[Len(log) + 1] = disp[d].batch[disp[d].k + 1]
         /\ Published \subseteq DOMAIN row
  <1>0. log \in Seq(Ids)
    BY DEF TypeOK, LogType
  <1>1. ASSUME NEW d \in Dispatchers, LogGrows(d)
        PROVE  /\ disp[d].batch[disp[d].k + 1] \in Published'
               /\ Len(log') = Len(log) + 1
               /\ log'[Len(log) + 1] = disp[d].batch[disp[d].k + 1]
               /\ \A i \in Published' : i \in Published \/ i = disp[d].batch[disp[d].k + 1]
    <2> DEFINE e == disp[d].batch[disp[d].k + 1]
    <2>1. e \in Ids /\ log' = Append(log, e)
      BY <1>1 DEF LogGrows
    <2> HIDE DEF e
    <2>2. /\ Len(log') = Len(log) + 1 /\ Len(log) \in Nat
          /\ DOMAIN log' = 1 .. Len(log) + 1 /\ DOMAIN log = 1 .. Len(log)
          /\ \A p \in DOMAIN log : log'[p] = log[p]
          /\ log'[Len(log) + 1] = e
      BY <1>0, <2>1, SeqAppend
    <2>3. e \in Published' /\ \A i \in Published' : i \in Published \/ i = e
      BY <2>2 DEF Published
    <2> QED BY <2>2, <2>3 DEF e
  <1>2. ASSUME UNCHANGED log PROVE Published' = Published
    BY <1>2 DEF Published
  <1>3. Published \subseteq DOMAIN row
    BY DEF Published, TypeOK, LogType
  <1> QED BY <1>1, <1>2, <1>3, LogMoves

LEMMA LossInit == Init => LossInv
  <1> SUFFICES ASSUME Init PROVE LossInv
    OBVIOUS
  <1>1. BatchInv
    BY DEF Init, BatchInv, Idle
  <1>2. RowInv
    BY DEF Init, RowInv
  <1>3. LogInv /\ CleanInv
    BY DEF Init, LogInv, Published, CleanInv, CleanIdle
  <1> QED BY <1>1, <1>2, <1>3 DEF LossInv

LEMMA LossStep == TypeOK /\ LossInv /\ [Next]_vars => LossInv'
  <1> SUFFICES ASSUME TypeOK, LossInv, [Next]_vars PROVE LossInv'
    OBVIOUS
  <1>0. TypeOK'
    BY TypeStep
  <1>1. BatchInv'
    <2> SUFFICES ASSUME NEW d \in Dispatchers
                 PROVE  /\ \A j \in DOMAIN disp'[d].batch : Committed(disp[d].batch[j])'
                        /\ \A j \in 1 .. disp'[d].k : disp'[d].batch[j] \in Published'
      BY DEF BatchInv
    <2>1. RoundKind(d) /\ RoundOK(disp[d])
      BY RoundsMove
    <2>2. /\ \A j \in DOMAIN disp[d].batch : disp[d].batch[j] \in DOMAIN row
          /\ \A j \in DOMAIN disp[d].batch : Committed(disp[d].batch[j])
          /\ \A j \in 1 .. disp[d].k : disp[d].batch[j] \in Published
          /\ disp[d].k \in Nat
      BY <2>1, RoundFields DEF RoundOK, LossInv, BatchInv
    <2>3. \A j \in DOMAIN disp[d].batch : row'[disp[d].batch[j]].st \notin {"Open", "RolledBack"}
      BY <2>2, RowsKept DEF Committed
    <2>4. CASE disp'[d].batch = <<>> /\ disp'[d].k = 0
      BY <2>4
    <2>5. CASE /\ disp'[d].batch \in InIdOrder(Oldest) /\ disp'[d].k = 0
               /\ UNCHANGED <<row, log>>
      BY <2>5, BatchOK DEF InClass, Committed
    <2>6. CASE disp'[d].batch = disp[d].batch /\ disp'[d].k = disp[d].k
      BY <2>2, <2>3, <2>6, PublishedGrows DEF Committed
    <2>7. CASE /\ disp'[d].batch = disp[d].batch /\ disp'[d].k = disp[d].k + 1
               /\ LogGrows(d)
      BY <2>2, <2>3, <2>7, PublishedGrows DEF Committed
    <2> QED BY <2>1, <2>4, <2>5, <2>6, <2>7 DEF RoundKind
  <1>2. LogInv'
    <2> SUFFICES ASSUME NEW i \in Published' PROVE Committed(i)'
      BY DEF LogInv
    <2>1. CASE i \in Published
      BY <2>1, RowsKept, PublishedGrows DEF LossInv, LogInv
    <2>2. CASE i \notin Published
      <3>1. PICK d \in Dispatchers : LogGrows(d) /\ i = disp[d].batch[disp[d].k + 1]
        BY <2>2, PublishedGrows
      <3>2. i \in DOMAIN row /\ Committed(i)
        BY <3>1 DEF LogGrows, LossInv, BatchInv
      <3> QED BY <3>2, RowsKept
    <2> QED BY <2>1, <2>2
  <1>3. archive \subseteq archive' /\ disposal \subseteq disposal'
    BY WhoActs DEF CleanClaim, FetchCandidates, ArchiveOne, DeleteCandidates, CleanStops
  <1>4. RowInv'
    <2> SUFFICES ASSUME NEW i \in DOMAIN row'
                 PROVE  /\ row'[i].st = "Dispatched" => i \in Published'
                        /\ row'[i].st = "Dead" => row'[i].tries >= MaxAttempts
                        /\ row'[i].st = "Deleted" =>
                             \/ i \in Published'
                             \/ i \in archive' \cap disposal' /\ row'[i].tries >= MaxAttempts
      BY DEF RowInv
    <2>1. CASE i \notin DOMAIN row
      <3>1. row'[i].st = "Open"
        BY <2>1, RowsMoveStep DEF RowsMove
      <3> QED BY <3>1
    <2>2. CASE i \in DOMAIN row
      <3>1. /\ row[i].st = "Dispatched" => i \in Published
            /\ row[i].st = "Dead" => row[i].tries >= MaxAttempts
            /\ row[i].st = "Deleted" => \/ i \in Published
                                        \/ i \in archive \cap disposal /\ row[i].tries >= MaxAttempts
        BY <2>2 DEF LossInv, RowInv
      <3>2. /\ RowStep(row[i], row'[i])
            /\ row[i].tries >= MaxAttempts => row'[i].tries >= MaxAttempts
        BY <2>2, RowsKept
      <3>3. CASE row'[i].st = "Dispatched"
        <4>1. CASE row[i].st = "Dispatched"
          BY <3>1, <3>3, <4>1, PublishedGrows
        <4>2. CASE row[i].st # "Dispatched"
          <5>1. PICK d \in Dispatchers : \E j \in 1 .. disp[d].k : disp[d].batch[j] = i
            BY <2>2, <3>3, <4>2, NewlyDispatched
          <5>2. i \in Published
            BY <5>1 DEF LossInv, BatchInv
          <5> QED BY <3>3, <5>2, PublishedGrows
        <4> QED BY <4>1, <4>2
      <3>4. CASE row'[i].st = "Dead"
        BY <3>1, <3>2, <3>4 DEF RowStep
      <3>5. CASE row'[i].st = "Deleted"
        <4>1. CASE row[i].st = "Deleted"
          BY <1>3, <3>1, <3>2, <3>5, <4>1, PublishedGrows
        <4>2. CASE row[i].st # "Deleted"
          <5>1. /\ clean.pc = "delete" /\ disposal' = disposal \cup Disposed
                /\ \E c \in clean.cand : c.id = i /\ StillCandidate(c)
            BY <2>2, <3>5, <4>2, NewlyDeleted
          <5>2. PICK c \in clean.cand : c.id = i /\ StillCandidate(c)
            BY <5>1
          <5>3. row[i].st \in {"Dispatched", "Dead"} /\ row[i].st = c.st
            BY <3>2, <3>5, <4>2, <5>2 DEF RowStep, StillCandidate
          <5>4. CASE row[i].st = "Dispatched"
            BY <3>1, <3>5, <5>4, PublishedGrows
          <5>5. CASE row[i].st = "Dead"
            <6>1. i \in archive
              BY <5>1, <5>2, <5>3, <5>5 DEF LossInv, CleanInv, NeedsReceipt
            <6>2. i \in disposal'
              BY <5>1, <5>2, <5>3, <5>5 DEF Disposed
            <6> QED BY <1>3, <3>1, <3>2, <3>5, <5>5, <6>1, <6>2
          <5> QED BY <5>3, <5>4, <5>5
        <4> QED BY <4>1, <4>2
      <3> QED BY <3>3, <3>4, <3>5
    <2> QED BY <2>1, <2>2
  <1>5. CleanInv'
    <2>1. CASE UNCHANGED <<clean, archive, disposal>>
      BY <2>1 DEF LossInv, CleanInv, NeedsReceipt
    <2>2. CASE CleanClaim \/ FetchCandidates \/ CleanStops
      BY <2>2 DEF CleanClaim, FetchCandidates, CleanStops, CleanEnds, CleanIdle, CleanInv
    <2>3. CASE ArchiveOne
      <3>1. clean \in [pc : {"idle", "fetch", "archive", "delete"}, cand : SUBSET Candidate]
        BY DEF TypeOK, CleanType
      <3>2. CASE UNCHANGED clean
        BY <2>3, <3>2 DEF ArchiveOne, CleanInv, NeedsReceipt
      <3>3. CASE ReceiptsMissing = {} /\ clean' = [clean EXCEPT !.pc = "delete"] /\ UNCHANGED archive
        BY <3>1, <3>3 DEF ReceiptsMissing, CleanInv, NeedsReceipt
      <3> QED BY <2>3, <3>2, <3>3 DEF ArchiveOne
    <2>4. CASE DeleteCandidates
      BY <2>4 DEF DeleteCandidates, CleanEnds, CleanIdle, CleanInv
    <2> QED BY <2>1, <2>2, <2>3, <2>4, WhoActs
  <1> QED BY <1>1, <1>2, <1>4, <1>5 DEF LossInv

(* What the broker holds was committed; a committed event leaves the       *)
(* stream only when the broker has it, or archived and recorded as         *)
(* disposed of: for both backends, whatever is lost, crashes or is revived *)
(* (mark_dispatched_exact, the fenced delete).                             *)
THEOREM NothingIsLost == Spec => []NothingLost
  <1>1. TypeOK /\ LossInv => NothingLost
    <2> SUFFICES ASSUME TypeOK, LossInv PROVE NothingLost
      OBVIOUS
    <2>1. \A p \in DOMAIN log : row[log[p]].st \notin {"Open", "RolledBack"}
      BY DEF LossInv, LogInv, Committed, Published
    <2>2. \A i \in Published : \E p \in DOMAIN log : log[p] = i
      BY DEF Published
    <2> QED BY <2>1, <2>2 DEF LossInv, RowInv, NothingLost
  <1> QED BY <1>1, TypeInit, TypeStep, LossInit, LossStep, PTL DEF Spec

-----------------------------------------------------------------------------
(* The order of first publications.                                        *)

(* A pending row before a row that is polled is polled too.                *)
LEMMA OldestIsDownClosed ==
  ASSUME TypeOK, NEW e \in Oldest, NEW i \in InClass("Pending"), i < e
  PROVE  i \in Oldest
  <1> DEFINE A == {j \in InClass("Pending") : j < i}
             B == {j \in InClass("Pending") : j < e}
  <1>1. DOMAIN row = 1 .. Len(row) /\ Len(row) \in Nat
    BY LenProperties DEF TypeOK, TableType
  <1>2. InClass("Pending") \subseteq DOMAIN row /\ e \in InClass("Pending")
    BY DEF InClass, Oldest
  <1>3. A \subseteq B
    BY <1>1, <1>2
  <1>4. IsFiniteSet(B)
    <2>1. IsFiniteSet(1 .. Len(row))
      BY <1>1, FS_Interval
    <2>2. B \subseteq 1 .. Len(row)
      BY <1>1, <1>2
    <2> HIDE DEF B
    <2> QED BY <2>1, <2>2, FS_Subset
  <1>5. Cardinality(A) <= Cardinality(B) /\ Cardinality(A) \in Nat /\ Cardinality(B) \in Nat
    BY <1>3, <1>4, FS_Subset, FS_CardinalityType
  <1>6. Cardinality(B) < Limit /\ Limit \in Nat
    BY OutboxAssumption DEF Oldest
  <1>7. Cardinality(A) < Limit
    BY <1>5, <1>6
  <1> QED BY <1>7 DEF Oldest

LEMMA OrderInit == Init => OrderInv
  <1> SUFFICES ASSUME Init PROVE OrderInv
    OBVIOUS
  <1> QED BY DEF Init, OrderInv, SerialInv, LogOrder, BatchOrder, Idle

LEMMA OrderStep == TypeOK /\ LossInv /\ OrderInv /\ [Next]_vars => OrderInv'
  <1> SUFFICES ASSUME TypeOK, LossInv, OrderInv, [Next]_vars PROVE OrderInv'
    OBVIOUS
  <1>0. TypeOK' /\ RowsMove
    BY TypeStep, RowsMoveStep
  <1>a. /\ DOMAIN row = 1 .. Len(row) /\ Len(row) \in Nat
        /\ DOMAIN row' = 1 .. Len(row') /\ Len(row') \in Nat
    BY <1>0, LenProperties DEF TypeOK, TableType
  (* Only rows that were there come before rows that were there. *)
  <1>b. ASSUME NEW e \in DOMAIN row, NEW i \in DOMAIN row', i < e, row'[i].agg = row'[e].agg
        PROVE  i \in DOMAIN row /\ Before(i, e)
    <2>1. i \in DOMAIN row
      BY <1>0, <1>a, <1>b DEF RowsMove
    <2> QED BY <1>b, <2>1, RowsKept DEF Before
  <1>c. \A i \in DOMAIN row : Excused(i) => Excused(i)'
    BY RowsKept DEF Excused
  <1>1. SerialInv'
    <2> SUFFICES ASSUME NEW i \in DOMAIN row', NEW e \in DOMAIN row', Before(i, e)'
                 PROVE  row'[i].st # "Open"
      BY DEF SerialInv
    <2>1. CASE e \in DOMAIN row
      <3>1. i \in DOMAIN row /\ Before(i, e)
        BY <1>b, <2>1 DEF Before
      <3>2. row[i].st # "Open"
        BY <2>1, <3>1 DEF OrderInv, SerialInv
      <3> QED BY <3>1, <3>2, RowsKept
    <2>2. CASE e \notin DOMAIN row
      <3>1. i < e /\ row'[i].agg = row'[e].agg
        BY DEF Before
      <3>2. i \in DOMAIN row
        BY <1>0, <1>a, <2>2, <3>1 DEF RowsMove
      <3>3. row[i].st = "Open" => row[i].agg # row'[e].agg
        BY <1>0, <2>2, <3>2 DEF RowsMove
      <3>4. row'[i].agg = row[i].agg /\ (row[i].st # "Open" => row'[i].st # "Open")
        BY <3>2, RowsKept
      <3> QED BY <3>1, <3>3, <3>4
    <2> QED BY <2>1, <2>2
  <1>2. LogOrder'
    <2> SUFFICES ASSUME NEW p \in DOMAIN log', NEW i \in DOMAIN row',
                        i < log'[p], row'[i].agg = row'[log'[p]].agg
                 PROVE  Excused(i)' \/ \E o \in 1 .. p - 1 : log'[o] = i
      BY DEF LogOrder, Before
    <2>0. /\ DOMAIN log = 1 .. Len(log) /\ DOMAIN log' = 1 .. Len(log')
          /\ Len(log) \in Nat /\ Len(log') \in Nat
          /\ \A q \in DOMAIN log : log'[q] = log[q]
      BY LogMoves
    <2>1. CASE p \in DOMAIN log
      <3>1. log'[p] = log[p] /\ log[p] \in DOMAIN row
        BY <2>0, <2>1 DEF TypeOK, LogType
      <3>2. i \in DOMAIN row /\ Before(i, log[p])
        BY <1>b, <3>1
      <3>3. Excused(i) \/ \E o \in 1 .. p - 1 : log[o] = i
        BY <2>1, <3>2 DEF OrderInv, LogOrder
      <3>4. \A o \in 1 .. p - 1 : o \in DOMAIN log
        BY <2>0, <2>1
      <3> QED BY <1>c, <2>0, <3>2, <3>3, <3>4
    <2>2. CASE p \notin DOMAIN log
      <3>1. ~UNCHANGED log
        BY <2>2
      <3>2. PICK d \in Dispatchers : LogGrows(d)
        BY <3>1, LogMoves
      <3> DEFINE e == disp[d].batch[disp[d].k + 1]
      <3>3. Len(log') = Len(log) + 1 /\ log'[Len(log) + 1] = e /\ e \in DOMAIN row
        BY <3>2, PublishedGrows DEF LogGrows
      <3>4. p = Len(log) + 1
        BY <2>0, <2>2, <3>3
      <3>5. i \in DOMAIN row /\ Before(i, e)
        BY <1>b, <3>3, <3>4
      <3>6. PICK j \in DOMAIN disp[d].batch : j = disp[d].k + 1
        BY <3>2 DEF LogGrows
      <3>7. Before(i, disp[d].batch[j]) /\ disp[d].k \in Nat
        BY <3>5, <3>6, RoundsOK, RoundFields DEF TypeOK, RoundOK
      <3>8. Excused(i) \/ i \in Published
        <4>1. Excused(i) \/ i \in Published \/ \E n \in 1 .. j - 1 : disp[d].batch[n] = i
          BY <3>5, <3>7 DEF OrderInv, BatchOrder
        <4> QED BY <3>6, <3>7, <4>1 DEF LossInv, BatchInv
      <3>9. CASE Excused(i)
        BY <1>c, <3>5, <3>9
      <3>10. CASE i \in Published
        <4>1. PICK o \in DOMAIN log : log[o] = i
          BY <3>10 DEF Published
        <4> QED BY <2>0, <3>4, <4>1
      <3> QED BY <3>8, <3>9, <3>10
    <2> QED BY <2>1, <2>2
  <1>3. BatchOrder'
    <2> SUFFICES ASSUME NEW d \in Dispatchers, NEW j \in DOMAIN disp'[d].batch, NEW i \in DOMAIN row',
                        i < disp'[d].batch[j], row'[i].agg = row'[disp'[d].batch[j]].agg
                 PROVE  \/ Excused(i)' \/ i \in Published'
                        \/ \E n \in 1 .. j - 1 : disp'[d].batch[n] = i
      BY DEF BatchOrder, Before
    <2>0. RoundKind(d) /\ RoundOK(disp[d])
      BY RoundsMove
    <2>1. CASE disp'[d].batch = <<>>
      BY <2>1
    <2>2. CASE disp'[d].batch = disp[d].batch
      <3>1. disp[d].batch[j] \in DOMAIN row
        BY <2>0, <2>2 DEF RoundOK
      <3>2. i \in DOMAIN row /\ Before(i, disp[d].batch[j])
        BY <1>b, <2>2, <3>1
      <3>3. Excused(i) \/ i \in Published \/ \E n \in 1 .. j - 1 : disp[d].batch[n] = i
        BY <2>2, <3>2 DEF OrderInv, BatchOrder
      <3> QED BY <1>c, <2>2, <3>2, <3>3, PublishedGrows
    <2>3. CASE /\ disp'[d].batch \in InIdOrder(Oldest) /\ UNCHANGED <<row, log>>
      <3> DEFINE b == disp'[d].batch
      <3>1. /\ b[j] \in InClass("Pending") /\ DOMAIN b = 1 .. Len(b) /\ Len(b) \in Nat
            /\ \A x \in Oldest : \E n \in DOMAIN b : b[n] = x
            /\ \A x, y \in DOMAIN b : x < y => b[x] < b[y]
        BY <2>3, BatchOK, LenProperties
      <3>2. b[j] \in Oldest
        BY <2>3 DEF InIdOrder, Enumerations
      <3> HIDE DEF b
      <3>3. b[j] \in DOMAIN row
        BY <3>1 DEF InClass
      <3>4. i \in DOMAIN row /\ Before(i, b[j])
        BY <1>b, <3>3 DEF b
      <3>5. i < b[j] /\ row[i].st # "Open" /\ row[i].st \in States
        <4>1. row[i] \in Row
          BY <3>4, RowsKept
        <4> QED BY <3>3, <3>4, <4>1 DEF Before, OrderInv, SerialInv, Row
      <3>6. CASE row[i].st = "Pending"
        <4>1. i \in Oldest
          BY <3>2, <3>4, <3>5, <3>6, OldestIsDownClosed DEF InClass
        <4>2. PICK n \in DOMAIN b : b[n] = i
          BY <3>1, <4>1
        <4>3. \A x \in DOMAIN b : b[x] \in Nat
          BY <2>3, BatchOK, <1>a DEF InClass, b
        <4>4. ~(j < n) /\ j # n
          BY <3>1, <3>5, <4>2, <4>3 DEF b
        <4>5. n \in 1 .. j - 1
          BY <3>1, <4>4 DEF b
        <4> QED BY <4>2, <4>5 DEF b
      <3>7. CASE row[i].st # "Pending"
        <4>1. Excused(i) \/ i \in Published
          BY <3>4, <3>5, <3>7 DEF LossInv, RowInv, Excused, States
        <4> QED BY <1>c, <3>4, <4>1, PublishedGrows
      <3> QED BY <3>6, <3>7
    <2> QED BY <2>0, <2>1, <2>2, <2>3 DEF RoundKind
  <1> QED BY <1>1, <1>2, <1>3 DEF OrderInv

(* Events of an aggregate are first published in id order, whoever         *)
(* publishes them, however often authority moves and however many rounds   *)
(* run without it (poll_pending, ORDER BY id); only a dead row is          *)
(* overtaken.                                                              *)
THEOREM OrderHolds == Spec => []PublishedInOrder
  <1>1. TypeOK /\ LossInv /\ OrderInv => PublishedInOrder
    <2> SUFFICES ASSUME TypeOK, LossInv, OrderInv, NEW p \in DOMAIN log, NEW q \in DOMAIN log,
                        p < q, log[q] < log[p], row[log[p]].agg = row[log[q]].agg,
                        row[log[q]].tries < MaxAttempts
                 PROVE  \E o \in 1 .. p - 1 : log[o] = log[q]
      BY DEF PublishedInOrder
    <2>1. log[q] \in DOMAIN row /\ log[p] \in DOMAIN row
      BY DEF TypeOK, LogType
    <2>2. row[log[q]].tries \in Nat
      <3>1. \A i \in DOMAIN row : row[i] \in Row
        BY LenProperties DEF TypeOK, TableType
      <3> QED BY <2>1, <3>1 DEF Row
    <2>3. row[log[q]].st # "RolledBack"
      BY DEF LossInv, LogInv, Committed, Published
    <2>4. ~Excused(log[q])
      BY <2>2, <2>3, OutboxAssumption DEF Excused
    <2>5. Before(log[q], log[p])
      BY DEF Before
    <2> QED BY <2>1, <2>4, <2>5 DEF OrderInv, LogOrder
  <1> QED BY <1>1, TypeInit, TypeStep, LossInit, LossStep, OrderInit, OrderStep, PTL DEF Spec

-----------------------------------------------------------------------------
(* Effects.                                                                *)

(* The last message of a published event stays the last: nothing revives   *)
(* it, polls it or publishes it again.                                     *)
LEMMA QuietStays ==
  ASSUME TypeOK, LossInv, [Next]_vars, NEW i \in Published, ~Redeliverable(i)
  PROVE  ~Redeliverable(i)'
  <1>0. i \in DOMAIN row /\ Committed(i)
    BY PublishedGrows DEF LossInv, LogInv
  <1>1. row[i].st \in {"Dispatched", "Deleted"} /\ row'[i].st \in {"Dispatched", "Deleted"}
    <2>1. row[i].st \notin {"Pending", "Dead", "Open", "RolledBack"}
      BY <1>0 DEF Redeliverable, InClass, Committed
    <2>2. row[i] \in Row /\ RowStep(row[i], row'[i])
      BY <1>0, RowsKept
    <2>3. row[i].st \in {"Dispatched", "Deleted"}
      BY <2>1, <2>2 DEF Row, States
    <2> QED BY <2>2, <2>3 DEF RowStep
  <1>2. ~(i \in InClass("Pending") \cup InClass("Dead"))'
    BY <1>1 DEF InClass
  <1>3. \A d \in Dispatchers : \A j \in disp[d].k + 1 .. Len(disp[d].batch) : disp[d].batch[j] # i
    BY DEF Redeliverable
  <1>4. ASSUME NEW d \in Dispatchers, NEW j \in disp'[d].k + 1 .. Len(disp'[d].batch)
        PROVE  disp'[d].batch[j] # i
    <2>0. /\ RoundKind(d)
          /\ disp[d].k \in Nat /\ disp'[d].k \in Nat
          /\ Len(disp[d].batch) \in Nat /\ Len(disp'[d].batch) \in Nat
          /\ DOMAIN disp'[d].batch = 1 .. Len(disp'[d].batch)
      <3>1. disp[d] \in RoundState /\ disp'[d] \in RoundState /\ RoundKind(d)
        BY RoundsMove DEF RoundOK
      <3> QED BY <3>1, RoundFields
    <2>1. CASE disp'[d].batch = <<>>
      BY <2>0, <2>1, <1>4
    <2>2. CASE disp'[d].batch \in InIdOrder(Oldest) /\ UNCHANGED <<row, log>>
      <3>1. j \in DOMAIN disp'[d].batch
        BY <2>0, <1>4
      <3>2. disp'[d].batch[j] \in InClass("Pending")
        BY <2>2, <3>1, BatchOK
      <3> QED BY <1>1, <3>2 DEF InClass
    <2>3. CASE disp'[d].batch = disp[d].batch /\ disp'[d].k \in {disp[d].k, disp[d].k + 1}
      BY <1>3, <1>4, <2>0, <2>3
    <2> QED BY <2>0, <2>1, <2>2, <2>3 DEF RoundKind
  <1>5. offset \in Nat /\ offset' \in Nat /\ offset <= offset'
    <2>1. offset \in Nat
      BY LogMoves DEF TypeOK, LogType
    <2> QED BY <2>1, WhoActs DEF consumer, Consume, InboxRetention
  <1>6. ASSUME NEW p \in offset' + 1 .. Len(log') PROVE log'[p] # i
    <2>0. /\ DOMAIN log = 1 .. Len(log) /\ Len(log) \in Nat /\ Len(log') \in Nat
          /\ \A q \in DOMAIN log : log'[q] = log[q]
          /\ \A q \in offset + 1 .. Len(log) : log[q] # i
      BY LogMoves DEF Redeliverable
    <2>a. p \in Nat /\ offset < p /\ p <= Len(log')
      <3>1. Len(log') \in Nat
        BY <2>0
      <3>2. \A a, b \in Nat : \A x \in a + 1 .. b : x \in Nat /\ a < x /\ x <= b
        OBVIOUS
      <3>3. p \in Nat /\ offset' < p /\ p <= Len(log')
        BY <1>5, <1>6, <3>1, <3>2
      <3> QED BY <1>5, <3>3
    <2>1. CASE p \in DOMAIN log
      BY <1>5, <2>a, <2>0, <2>1
    <2>2. CASE p \notin DOMAIN log
      <3>1. ~UNCHANGED log
        <4>1. UNCHANGED log => Len(log') = Len(log)
          OBVIOUS
        <4> QED BY <1>5, <2>a, <2>0, <2>2, <4>1
      <3>2. PICK d \in Dispatchers : LogGrows(d)
        BY <3>1, LogMoves
      <3>3. p = Len(log) + 1 /\ log'[p] = disp[d].batch[disp[d].k + 1]
        <4>1. Len(log') = Len(log) + 1 /\ log'[Len(log) + 1] = disp[d].batch[disp[d].k + 1]
          BY <3>2, PublishedGrows
        <4>2. p = Len(log) + 1
          BY <1>5, <2>a, <2>0, <2>2, <4>1
        <4> QED BY <4>1, <4>2
      <3>4. disp[d].k \in Nat /\ Len(disp[d].batch) \in Nat
            /\ DOMAIN disp[d].batch = 1 .. Len(disp[d].batch)
        BY RoundsOK, RoundFields DEF TypeOK, RoundOK
      <3>5. disp[d].k + 1 \in disp[d].k + 1 .. Len(disp[d].batch)
        BY <3>2, <3>4 DEF LogGrows
      <3> QED BY <1>3, <3>3, <3>5
    <2> QED BY <2>1, <2>2
  <1> QED BY <1>2, <1>4, <1>6 DEF Redeliverable

LEMMA MarkerStep == TypeOK /\ LossInv /\ MarkerInv /\ [Next]_vars => MarkerInv'
  <1> SUFFICES ASSUME TypeOK, LossInv, MarkerInv, [Next]_vars, NEW i \in Ids, effects'[i] > 0
               PROVE  /\ effects'[i] = 1 /\ i \in Published'
                      /\ i \in inbox' \/ ~Redeliverable(i)'
    BY DEF MarkerInv
  <1>0. effects \in [Ids -> Nat] /\ log \in Seq(Ids) /\ offset \in 0 .. Len(log) /\ Len(log) \in Nat
        /\ DOMAIN log = 1 .. Len(log)
    BY LogMoves DEF TypeOK, LogType
  <1>1. ASSUME effects'[i] = effects[i], i \in inbox => i \in inbox' \/ ~Redeliverable(i)
        PROVE  /\ effects'[i] = 1 /\ i \in Published'
               /\ i \in inbox' \/ ~Redeliverable(i)'
    <2>1. /\ effects[i] = 1 /\ i \in Published
          /\ i \in inbox \/ ~Redeliverable(i)
      BY <1>1 DEF MarkerInv
    <2> QED BY <1>1, <2>1, QuietStays, PublishedGrows
  <1>2. CASE UNCHANGED consumer
    BY <1>1, <1>2 DEF consumer
  <1>3. CASE Consume
    <2> DEFINE e == log[offset + 1]
    <2>1. /\ offset < Len(log) /\ inbox' = inbox \cup {e}
          /\ effects' = [effects EXCEPT ![e] = IF e \in inbox THEN @ ELSE @ + 1]
      BY <1>3 DEF Consume
    <2>2. e \in Ids /\ e \in Published /\ Redeliverable(e)
      BY <1>0, <2>1 DEF Published, Redeliverable
    <2> HIDE DEF e
    <2>3. CASE i # e \/ i \in inbox
      BY <1>0, <1>1, <2>1, <2>2, <2>3
    <2>4. CASE i = e /\ i \notin inbox
      <3>1. ~(effects[i] > 0)
        BY <2>2, <2>4 DEF MarkerInv
      <3>2. effects'[i] = 1
        BY <1>0, <2>1, <2>2, <2>4, <3>1
      <3> QED BY <2>1, <2>2, <2>4, <3>2, PublishedGrows
    <2> QED BY <2>3, <2>4
  <1>4. CASE \E x \in inbox : InboxRetention(x)
    <2>1. PICK x \in inbox : InboxRetention(x)
      BY <1>4
    <2>2. ~Redeliverable(x) /\ inbox' = inbox \ {x} /\ UNCHANGED effects
      BY <2>1 DEF InboxRetention, MarkerExpired
    <2> QED BY <1>1, <2>2
  <1> QED BY <1>2, <1>3, <1>4, WhoActs

(* However often an event is published and delivered, its effect is        *)
(* committed once (MySqlInbox::process with a marker that outlives the     *)
(* redelivery horizon, InboxRetentionPolicy::validate).                    *)
THEOREM EffectsOnce == Spec => []EffectOnce
  <1>1. Init => MarkerInv
    BY DEF Init, MarkerInv
  <1>2. TypeOK /\ MarkerInv => EffectOnce
    <2> SUFFICES ASSUME TypeOK, MarkerInv, NEW i \in Ids PROVE effects[i] <= 1
      BY DEF EffectOnce
    <2>1. effects[i] \in Nat
      BY DEF TypeOK, LogType
    <2> QED BY <2>1 DEF MarkerInv
  <1> QED BY <1>1, <1>2, MarkerStep, TypeInit, TypeStep, LossInit, LossStep, PTL DEF Spec

-----------------------------------------------------------------------------
(* Authority on PostgreSQL.                                                *)

(* Authority comes with a claim, at the start of a round.                  *)
LEMMA AuthorityClaimed ==
  ASSUME TypeOK, [Next]_vars, NEW d \in Dispatchers, ~Authority(d), Authority(d)'
  PROVE  Claim(d)
  <1>0. owner \in [Roles -> Dispatchers \cup {Cleaner, Nobody}] /\ Nobody \notin Dispatchers
    BY OutboxAssumption DEF TypeOK
  <1> USE DEF Authority, Roles, TryClaim, Dropped, Abandoned, RoundError, CleanEnds
  <1>1. CASE UNCHANGED owner
    BY <1>1
  <1>2. CASE \E role \in Roles : AuthorityLost(role)
    BY <1>0, <1>2 DEF AuthorityLost
  <1>3. CASE \E x \in Dispatchers : Crash(x) \/ Release(x)
    BY <1>0, <1>3 DEF Crash, Release
  <1>4. CASE \E x \in Dispatchers : PollPending(x) \/ Renew(x) \/ MarkDispatched(x) \/ RecordFailed(x)
    BY <1>0, <1>4 DEF PollPending, Renew, MarkDispatched, RecordFailed
  <1>5. CASE CleanClaim \/ FetchCandidates \/ DeleteCandidates \/ CleanStops
    BY <1>0, <1>5 DEF CleanClaim, FetchCandidates, DeleteCandidates, CleanStops
  <1>6. ASSUME \/ \E a \in Aggregates, poison \in BOOLEAN : AppendEvent(a, poison)
               \/ \E i \in DOMAIN row : EndTransaction(i) \/ Age(i) \/ Revive(i)
               \/ Reconcile \/ ArchiveOne \/ Consume \/ \E i \in inbox : InboxRetention(i)
               \/ \E x \in Dispatchers : Publish(x) \/ BatchSent(x)
        PROVE  UNCHANGED owner
    BY <1>6 DEF AppendEvent, EndTransaction, Age, Revive, Reconcile, ArchiveOne, Consume,
        InboxRetention, Publish, BatchSent
  <1>7. CASE UNCHANGED vars
    BY <1>1, <1>7 DEF vars
  <1>8. CASE \E x \in Dispatchers : Claim(x)
    BY <1>0, <1>8 DEF Claim
  <1> QED BY <1>1, <1>2, <1>3, <1>4, <1>5, <1>6, <1>7, <1>8 DEF Next, Round

LEMMA StaleStep == Backend = "pgsql" /\ TypeOK /\ StaleInv /\ [Next]_vars => StaleInv'
  <1> SUFFICES ASSUME Backend = "pgsql", TypeOK, StaleInv, [Next]_vars,
                      NEW d \in Dispatchers, disp'[d].stale > 0
               PROVE  disp'[d].stale = 1 /\ ~Authority(d)' /\ disp'[d].pc # "publish"
    BY DEF StaleInv
  <1>0. disp \in [Dispatchers -> RoundState] /\ disp[d] \in RoundState /\ disp[d].stale \in Nat
    BY DEF TypeOK, RoundsType, RoundState
  <1>a. ASSUME NEW r, Goes(d, r) PROVE disp'[d] = r
    BY <1>0, <1>a DEF Goes
  <1>b. ~Goes(d, Idle)
    BY <1>a, IdleOK
  <1>c. ~Claim(d)
    <2>1. [Idle EXCEPT !.pc = "poll"].stale = 0
      BY DEF Idle
    <2>2. ASSUME Claim(d) PROVE disp'[d].stale = 0
      <3>1. disp'[d] = [Idle EXCEPT !.pc = "poll"]
        BY <1>a, <2>2 DEF Claim
      <3> QED BY ONLY <2>1, <3>1
    <2> QED BY <2>2
  (* The round did not publish: it was stale before, and still is. *)
  <1>d. ASSUME disp'[d].stale = disp[d].stale, disp'[d].pc # "publish" \/ disp'[d].pc = disp[d].pc
        PROVE  disp'[d].stale = 1 /\ ~Authority(d)' /\ disp'[d].pc # "publish"
    BY <1>c, <1>d, AuthorityClaimed DEF StaleInv
  <1>1. CASE UNCHANGED disp[d]
    BY <1>d, <1>1
  <1>2. CASE Publish(d)
    <2> DEFINE x == IF Authority(d) THEN disp[d].stale ELSE disp[d].stale + 1
               r == [disp[d] EXCEPT !.stale = x]
    <2>1. \/ Goes(d, [r EXCEPT !.pc = "send", !.k = @ + 1])
          \/ Goes(d, StopAt(r, "terminal"))
          \/ Goes(d, StopAt(r, "transient"))
      BY <1>2 DEF Publish
    <2>2. disp'[d].stale = x /\ disp'[d].pc \in {"send", "mark"}
      BY <1>0, <1>a, <2>1 DEF StopAt, RoundState
    <2>3. disp[d].stale = 0
      BY <1>0, <1>2 DEF Publish, StaleInv
    <2>4. Authority(d)' = Authority(d)
      BY <1>2 DEF Publish, Authority
    <2> QED BY <2>2, <2>3, <2>4
  <1>3. CASE Renew(d)
    <2>1. Authority(d) /\ Goes(d, [disp[d] EXCEPT !.pc = "publish"]) /\ UNCHANGED owner
      BY <1>b, <1>3 DEF Renew, Renewed, RoundError
    <2>2. disp'[d].stale = disp[d].stale
      BY <1>0, <1>a, <2>1 DEF RoundState
    <2> QED BY <2>1, <2>2 DEF StaleInv
  <1>4. CASE PollPending(d)
    <2>1. PICK b : Goes(d, [disp[d] EXCEPT !.pc = "send", !.batch = b])
      BY <1>b, <1>4 DEF PollPending, RoundError
    <2>2. disp'[d].stale = disp[d].stale /\ disp'[d].pc = "send"
      BY <1>0, <1>a, <2>1 DEF RoundState
    <2> QED BY <1>d, <2>2
  <1>5. CASE BatchSent(d) \/ MarkDispatched(d) \/ RecordFailed(d)
    <2>1. \/ Goes(d, [disp[d] EXCEPT !.pc = "mark"])
          \/ \E m : Goes(d, [disp[d] EXCEPT !.m = m])
          \/ Goes(d, [disp[d] EXCEPT !.err = "none"])
      BY <1>b, <1>5 DEF BatchSent, MarkDispatched, RecordFailed, RoundError
    <2>2. disp'[d].stale = disp[d].stale /\ disp'[d].pc \in {"mark", disp[d].pc}
      BY <1>0, <1>a, <2>1 DEF RoundState
    <2> QED BY <1>d, <2>2
  <1>6. CASE Release(d) \/ Crash(d)
    BY <1>b, <1>6 DEF Release, Crash, RoundError
  <1>7. CASE ~UNCHANGED disp[d]
    <2>1. PICK x \in Dispatchers : Claim(x) \/ Round(x) \/ Crash(x)
      BY <1>7, WhoActs
    <2>2. x = d
      BY <1>0, <1>7, <2>1, RoundStepOK DEF RoundMoves
    <2> QED BY <1>c, <1>2, <1>3, <1>4, <1>5, <1>6, <2>1, <2>2 DEF Round
  <1> QED BY <1>1, <1>7

(* On PostgreSQL a dispatcher whose lease was taken publishes at most once *)
(* more in its round: the renewal before the next publication fails.       *)
THEOREM OneSendAfterLoss == (Backend = "pgsql") /\ Spec => []OneStaleSend
  <1>1. Init => StaleInv
    BY IdleOK DEF Init, StaleInv
  <1>2. TypeOK /\ StaleInv => OneStaleSend
    <2> SUFFICES ASSUME TypeOK, StaleInv, NEW d \in Dispatchers PROVE disp[d].stale <= 1
      BY DEF OneStaleSend
    <2>1. disp[d].stale \in Nat
      BY DEF TypeOK, RoundsType, RoundState
    <2> QED BY <2>1 DEF StaleInv
  <1>3. SUFFICES ASSUME Backend = "pgsql" PROVE Spec => []OneStaleSend
    OBVIOUS
  <1>4. TypeOK /\ StaleInv /\ [Next]_vars => StaleInv'
    BY <1>3, StaleStep
  <1> QED BY <1>1, <1>2, <1>4, TypeInit, TypeStep, PTL DEF Spec

-----------------------------------------------------------------------------
(* Retention.                                                              *)

(* On either backend a row is deleted from a final class, with its receipt.*)
LEMMA DeletedWithReceipt ==
  ASSUME TypeOK, LossInv, [Next]_vars, NEW i \in DOMAIN row,
         row[i].st # "Deleted", row'[i].st = "Deleted"
  PROVE  /\ row[i].st \in {"Dispatched", "Dead"}
         /\ ArchiveRequired \/ row[i].st = "Dead" => i \in archive
  <1>1. clean.pc = "delete" /\ \E c \in clean.cand : c.id = i /\ StillCandidate(c)
    BY NewlyDeleted
  <1>2. PICK c \in clean.cand : c.id = i /\ StillCandidate(c)
    BY <1>1
  <1>3. row[i].st \in {"Dispatched", "Dead"}
    BY RowsKept DEF RowStep
  <1>4. NeedsReceipt(c) => i \in archive
    BY <1>1, <1>2 DEF LossInv, CleanInv
  <1> QED BY <1>2, <1>3, <1>4 DEF NeedsReceipt, StillCandidate

LEMMA AgeStep == TypeOK /\ AgeInv /\ [Next]_vars => AgeInv'
  <1> SUFFICES ASSUME TypeOK, AgeInv, [Next]_vars, NEW c \in clean'.cand
               PROVE  /\ row'[c.id].life >= c.life
                      /\ row'[c.id].life = c.life /\ row'[c.id].st = c.st => row'[c.id].aged
    BY DEF AgeInv
  <1>0. clean \in [pc : {"idle", "fetch", "archive", "delete"}, cand : SUBSET Candidate]
    BY DEF TypeOK, CleanType
  <1>1. CASE c \in clean.cand
    <2> DEFINE i == c.id
    <2>1. i \in DOMAIN row /\ c.life \in Nat /\ c.st \in {"Dispatched", "Dead"}
      BY <1>0, <1>1 DEF TypeOK, CleanType, Candidate
    <2>2. /\ row[i].life >= c.life
          /\ row[i].life = c.life /\ row[i].st = c.st => row[i].aged
      BY <1>1 DEF AgeInv
    <2> HIDE DEF i
    <2>3. RowStep(row[i], row'[i]) /\ row[i].life \in Nat /\ row'[i].life \in Nat
      BY <2>1, RowsKept DEF Row
    <2>4. row'[i].life >= c.life
      BY <2>1, <2>2, <2>3 DEF RowStep
    <2>5. ASSUME row'[i].life = c.life, row'[i].st = c.st PROVE row'[i].aged
      BY <2>1, <2>2, <2>3, <2>5 DEF RowStep
    <2> QED BY <2>4, <2>5 DEF i
  <1>2. CASE c \notin clean.cand
    <2>1. FetchCandidates
      BY <1>0, <1>2, WhoActs DEF CleanClaim, ArchiveOne, DeleteCandidates, CleanStops, CleanEnds, CleanIdle
    <2>2. c \in Candidates /\ UNCHANGED row
      BY <1>2, <2>1 DEF FetchCandidates, CleanEnds, CleanIdle, table
    <2>3. PICK st \in {"Dispatched", "Dead"} : c \in Due(st)
      BY <2>2 DEF Candidates
    <2>4. PICK i \in DOMAIN row : c = [id |-> i, st |-> st, life |-> row[i].life] /\ row[i].aged
      BY <2>3 DEF Due, InClass
    <2>5. row[i].life \in Nat
      BY RowsKept DEF Row
    <2> QED BY <2>2, <2>4, <2>5
  <1> QED BY <1>1, <1>2

(* On PostgreSQL a row is deleted only from a final class, at its minimum  *)
(* age counted from the last time it got there, and with its receipt.      *)
THEOREM DeletesDue == (Backend = "pgsql") /\ Spec => DeletesAreDue
  <1>1. SUFFICES ASSUME Backend = "pgsql" PROVE Spec => DeletesAreDue
    OBVIOUS
  <1>2. Init => AgeInv
    BY DEF Init, AgeInv, CleanIdle
  <1>3. TypeOK /\ LossInv /\ AgeInv /\ [Next]_vars =>
          [ \A i \in DOMAIN row :
              (row[i].st # "Deleted" /\ row'[i].st = "Deleted") =>
                  /\ row[i].st \in {"Dispatched", "Dead"}
                  /\ row[i].aged
                  /\ (ArchiveRequired \/ row[i].st = "Dead") => i \in archive ]_vars
    <2> SUFFICES ASSUME TypeOK, LossInv, AgeInv, [Next]_vars, NEW i \in DOMAIN row,
                        row[i].st # "Deleted", row'[i].st = "Deleted"
                 PROVE  /\ row[i].st \in {"Dispatched", "Dead"}
                        /\ row[i].aged
                        /\ (ArchiveRequired \/ row[i].st = "Dead") => i \in archive
      OBVIOUS
    <2>1. PICK c \in clean.cand : c.id = i /\ StillCandidate(c)
      BY NewlyDeleted
    <2>2. row[i].aged
      BY <1>1, <2>1 DEF StillCandidate, AgeInv
    <2> QED BY <2>2, DeletedWithReceipt
  <1> QED BY <1>2, <1>3, AgeStep, TypeInit, TypeStep, LossInit, LossStep, PTL DEF Spec, DeletesAreDue

(* On PostgreSQL the disposal table speaks of deleted rows only: the       *)
(* records and the delete take the same rows.                              *)
THEOREM DisposalTrue == (Backend = "pgsql") /\ Spec => []DisposalIsTrue
  <1>1. SUFFICES ASSUME Backend = "pgsql" PROVE Spec => []DisposalIsTrue
    OBVIOUS
  <1> DEFINE Inv == DisposalIsTrue /\ disposal \subseteq DOMAIN row
  <1>2. Init => Inv
    BY DEF Init, DisposalIsTrue
  <1>3. TypeOK /\ Inv /\ [Next]_vars => Inv'
    <2> SUFFICES ASSUME TypeOK, Inv, [Next]_vars, NEW i \in disposal'
                 PROVE  i \in DOMAIN row' /\ row'[i].st = "Deleted"
      BY DEF DisposalIsTrue
    <2>1. CASE i \in disposal
      <3>1. row[i].st = "Deleted" /\ i \in DOMAIN row
        BY <2>1 DEF DisposalIsTrue
      <3> QED BY <3>1, RowsKept DEF RowStep
    <2>2. CASE i \notin disposal
      <3>1. DeleteCandidates
        BY <2>2, WhoActs DEF CleanClaim, FetchCandidates, ArchiveOne, CleanStops
      <3>2. /\ i \in Disposed
            /\ row' = [j \in DOMAIN row |->
                         IF \E c \in clean.cand : c.id = j /\ StillCandidate(c)
                         THEN [row[j] EXCEPT !.st = "Deleted"] ELSE row[j]]
        BY <2>2, <3>1 DEF DeleteCandidates
      <3>3. PICK c \in clean.cand : c.id = i /\ StillCandidate(c)
        BY <1>1, <3>2 DEF Disposed
      <3>4. i \in DOMAIN row /\ row[i] \in Row
        BY <3>3, RowsKept DEF TypeOK, CleanType
      <3> QED BY <3>2, <3>3, <3>4 DEF Row
    <2> QED BY <2>1, <2>2
  <1>4. Inv => DisposalIsTrue
    OBVIOUS
  <1> HIDE DEF Inv
  <1> QED BY <1>2, <1>3, <1>4, TypeInit, TypeStep, PTL DEF Spec

-----------------------------------------------------------------------------
(* The quota.                                                              *)
QuotaMove(n, l, c, r) ==
  /\ IF n THEN l <= c ELSE l = c
  /\ c <= Cap + r /\ c <= l + r

LEMMA QuotaStep == TypeOK /\ QuotaInv /\ [Next]_vars => QuotaInv'
  <1> SUFFICES ASSUME TypeOK, QuotaInv, [Next]_vars, Cap > 0
               PROVE  QuotaMove(drifted', ledger', Cardinality(InFlight'), revivals')
    BY DEF QuotaInv, LedgerExact, QuotaMove
  <1>0. /\ DOMAIN row = 1 .. Len(row) /\ Len(row) \in Nat
        /\ \A i \in DOMAIN row : row[i] \in Row
        /\ ledger \in Nat /\ revivals \in Nat /\ Cap \in Nat /\ drifted \in BOOLEAN
    BY LenProperties, OutboxAssumption DEF TypeOK, TableType
  <1>1. QuotaMove(drifted, ledger, Cardinality(InFlight), revivals)
    BY DEF QuotaInv, LedgerExact, QuotaMove
  <1>2. InFlight \subseteq DOMAIN row /\ IsFiniteSet(InFlight) /\ Cardinality(InFlight) \in Nat
    <2>1. InFlight \subseteq 1 .. Len(row)
      BY <1>0 DEF InFlight, InClass
    <2>2. IsFiniteSet(1 .. Len(row))
      BY <1>0, FS_Interval
    <2> QED BY <1>0, <2>1, <2>2, FS_Subset, FS_CardinalityType
  <1>a. ASSUME InFlight' = InFlight, UNCHANGED <<ledger, drifted, revivals>>
        PROVE  QuotaMove(drifted', ledger', Cardinality(InFlight'), revivals')
    BY <1>1, <1>a
  (* n rows leave the stream and their places are released. *)
  <1>b. ASSUME NEW S \in SUBSET InFlight, InFlight' = InFlight \ S,
               ledger' = Released(Cardinality(S)), UNCHANGED <<drifted, revivals>>
        PROVE  QuotaMove(drifted', ledger', Cardinality(InFlight'), revivals')
    <2>1. /\ Cardinality(S) \in Nat /\ Cardinality(S) <= Cardinality(InFlight)
          /\ Cardinality(InFlight \ S) = Cardinality(InFlight) - Cardinality(S)
      <3>1. IsFiniteSet(S) /\ Cardinality(S) <= Cardinality(InFlight)
        BY <1>2, FS_Subset
      <3>2. InFlight \cap S = S
        OBVIOUS
      <3> QED BY <1>2, <3>1, <3>2, FS_Difference, FS_CardinalityType
    <2> QED BY <1>0, <1>1, <1>2, <1>b, <2>1 DEF QuotaMove, Released
  <1>3. ASSUME NEW a \in Aggregates, NEW p \in BOOLEAN, AppendEvent(a, p)
        PROVE  QuotaMove(drifted', ledger', Cardinality(InFlight'), revivals')
    <2> DEFINE e == [agg |-> a, poison |-> p, st |-> "Open", tries |-> 0, life |-> 0, aged |-> FALSE]
    <2>1. row' = Append(row, e) /\ e.st = "Open" /\ e \in Row
      BY <1>3 DEF AppendEvent, Row, States
    <2> HIDE DEF e
    <2>2. /\ DOMAIN row' = 1 .. Len(row) + 1 /\ row'[Len(row) + 1] = e
          /\ \A i \in DOMAIN row : row'[i] = row[i]
      BY <2>1, SeqAppend DEF TypeOK, TableType
    <2>3. InFlight' = InFlight \cup {Len(row) + 1}
      BY <1>0, <2>1, <2>2 DEF InFlight, InClass
    <2>4. Len(row) + 1 \notin InFlight
      BY <1>0, <1>2
    <2>5. Cardinality(InFlight') = Cardinality(InFlight) + 1
      BY <1>2, <2>3, <2>4, FS_AddElement
    <2>6. ledger' = ledger + 1 /\ ledger < Cap /\ UNCHANGED <<drifted, revivals>>
      BY <1>0, <1>3 DEF AppendEvent, Reserved
    <2> QED BY <1>0, <1>1, <1>2, <2>5, <2>6 DEF QuotaMove
  <1>4. ASSUME NEW i \in DOMAIN row, EndTransaction(i)
        PROVE  QuotaMove(drifted', ledger', Cardinality(InFlight'), revivals')
    <2>1. i \in InFlight /\ UNCHANGED <<drifted, revivals>>
      BY <1>4 DEF EndTransaction, InFlight
    <2>2. CASE row' = [row EXCEPT ![i].st = "Pending"] /\ UNCHANGED ledger
      <3>1. InFlight' = InFlight
        BY <1>0, <2>1, <2>2 DEF InFlight, InClass, Row
      <3> QED BY <1>a, <2>1, <2>2, <3>1
    <2>3. CASE row' = [row EXCEPT ![i].st = "RolledBack"] /\ ledger' = Released(1)
      <3>1. InFlight' = InFlight \ {i}
        BY <1>0, <2>1, <2>3 DEF InFlight, InClass, Row
      <3>2. Cardinality({i}) = 1
        BY FS_Singleton
      <3> QED BY <1>b, <2>1, <2>3, <3>1, <3>2
    <2> QED BY <1>4, <2>2, <2>3 DEF EndTransaction
  <1>5. CASE Reconcile
    <2>1. InFlight = InClass("Pending") /\ InFlight' = InFlight
      BY <1>0, <1>5 DEF Reconcile, LedgerFree, InFlight, InClass
    <2> QED BY <1>0, <1>1, <1>2, <1>5, <2>1 DEF Reconcile, QuotaMove
  <1>6. ASSUME NEW d \in Dispatchers, MarkDispatched(d)
        PROVE  QuotaMove(drifted', ledger', Cardinality(InFlight'), revivals')
    <2>1. UNCHANGED <<drifted, revivals>>
      BY <1>6 DEF MarkDispatched
    <2>2. CASE UNCHANGED <<row, ledger>>
      <3>1. InFlight' = InFlight
        BY <2>2 DEF InFlight, InClass
      <3> QED BY <1>a, <2>1, <2>2, <3>1
    <2>3. CASE ~UNCHANGED <<row, ledger>>
      <3> DEFINE now == MarkedNow(disp[d]) \cap InClass("Pending")
      <3>1. Final(now, "Dispatched") /\ ledger' = Released(Cardinality(now))
        BY <1>6, <2>3 DEF MarkDispatched
      <3>2. now \subseteq InFlight
        BY DEF InFlight
      <3> HIDE DEF now
      <3>3. InFlight' = InFlight \ now
        <4>1. DOMAIN row' = DOMAIN row /\ \A i \in DOMAIN row :
                row'[i].st = IF i \in now THEN "Dispatched" ELSE row[i].st
          BY <1>0, <3>1 DEF Final, Row
        <4> QED BY <4>1 DEF InFlight, InClass
      <3> QED BY <1>b, <2>1, <3>1, <3>2, <3>3
    <2> QED BY <2>2, <2>3
  <1>7. ASSUME NEW d \in Dispatchers, RecordFailed(d)
        PROVE  QuotaMove(drifted', ledger', Cardinality(InFlight'), revivals')
    <2>1. UNCHANGED <<drifted, revivals>>
      BY <1>7 DEF RecordFailed
    <2>2. CASE UNCHANGED <<row, ledger>>
      <3>1. InFlight' = InFlight
        BY <2>2 DEF InFlight, InClass
      <3> QED BY <1>a, <2>1, <2>2, <3>1
    <2>3. CASE ~UNCHANGED <<row, ledger>>
      <3> DEFINE i == disp[d].batch[disp[d].k + 1]
      <3>1. i \in InClass("Pending") /\ Refused(i)
        BY <1>7, <2>3 DEF RecordFailed
      <3> HIDE DEF i
      <3>2. i \in DOMAIN row /\ row[i].st = "Pending" /\ i \in InFlight
        BY <3>1 DEF InFlight, InClass
      <3>3. CASE row[i].tries + 1 >= MaxAttempts
        <4>1. ledger' = Released(1)
          BY <3>1, <3>3 DEF Refused
        <4>2. DOMAIN row' = DOMAIN row /\ row'[i].st = "Dead"
              /\ \A j \in DOMAIN row : j # i => row'[j] = row[j]
          BY <1>0, <3>1, <3>2, <3>3 DEF Refused, Row
        <4>3. InFlight' = InFlight \ {i}
          BY <3>2, <4>2 DEF InFlight, InClass
        <4>4. Cardinality({i}) = 1
          BY FS_Singleton
        <4> QED BY <1>b, <2>1, <3>2, <4>1, <4>3, <4>4
      <3>4. CASE ~(row[i].tries + 1 >= MaxAttempts)
        <4>1. row' = [row EXCEPT ![i].tries = @ + 1] /\ UNCHANGED ledger
          BY <3>1, <3>4 DEF Refused
        <4>2. DOMAIN row' = DOMAIN row /\ \A j \in DOMAIN row : row'[j].st = row[j].st
          BY <1>0, <3>2, <4>1 DEF Row
        <4>3. InFlight' = InFlight
          BY <4>2 DEF InFlight, InClass
        <4> QED BY <1>a, <2>1, <4>1, <4>3
      <3> QED BY <3>3, <3>4
    <2> QED BY <2>2, <2>3
  <1>8. ASSUME NEW i \in DOMAIN row, Revive(i)
        PROVE  QuotaMove(drifted', ledger', Cardinality(InFlight'), revivals')
    <2>1. row[i].st = "Dead" /\ drifted' = TRUE /\ revivals' = revivals + 1 /\ UNCHANGED ledger
      BY <1>8 DEF Revive, InClass
    <2>2. DOMAIN row' = DOMAIN row /\ row'[i].st = "Pending"
          /\ \A j \in DOMAIN row : j # i => row'[j] = row[j]
      BY <1>0, <1>8 DEF Revive, Row
    <2>3. InFlight' = InFlight \cup {i} /\ i \notin InFlight
      BY <2>1, <2>2 DEF InFlight, InClass
    <2>4. Cardinality(InFlight') = Cardinality(InFlight) + 1
      BY <1>2, <2>3, FS_AddElement
    <2> QED BY <1>0, <1>1, <1>2, <2>1, <2>4 DEF QuotaMove
  <1>9. ASSUME NEW i \in DOMAIN row, Age(i)
        PROVE  QuotaMove(drifted', ledger', Cardinality(InFlight'), revivals')
    <2>1. DOMAIN row' = DOMAIN row /\ \A j \in DOMAIN row : row'[j].st = row[j].st
      BY <1>0, <1>9 DEF Age, Row
    <2>2. InFlight' = InFlight
      BY <2>1 DEF InFlight, InClass
    <2> QED BY <1>a, <1>9, <2>2 DEF Age
  <1>10. CASE DeleteCandidates
    <2>1. DOMAIN row' = DOMAIN row /\ \A j \in DOMAIN row :
            \/ row'[j].st = row[j].st
            \/ row[j].st \in {"Dispatched", "Dead"} /\ row'[j].st = "Deleted"
      <3>1. CASE UNCHANGED row
        BY <3>1
      <3>2. CASE ~UNCHANGED row
        <4>1. DOMAIN row' = DOMAIN row
          BY <1>10, <3>2 DEF DeleteCandidates
        <4>2. \A j \in DOMAIN row : row'[j] = row[j] \/ row'[j].st = "Deleted"
          BY <1>0, <1>10, <3>2 DEF DeleteCandidates, Row
        <4> QED BY <4>1, <4>2, RowsKept DEF RowStep
      <3> QED BY <3>1, <3>2
    <2>2. InFlight' = InFlight
      BY <2>1 DEF InFlight, InClass
    <2> QED BY <1>a, <1>10, <2>2 DEF DeleteCandidates
  <1>11. ASSUME NEW d \in Dispatchers,
                \/ Claim(d) \/ PollPending(d) \/ Renew(d) \/ Publish(d)
                \/ BatchSent(d) \/ Release(d) \/ Crash(d)
         PROVE  UNCHANGED <<row, ledger, drifted, revivals>>
    BY <1>11 DEF Claim, PollPending, Renew, Publish, BatchSent, Release, Crash, table
  <1>12. ASSUME \/ UNCHANGED vars \/ \E role \in Roles : AuthorityLost(role)
                \/ CleanClaim \/ FetchCandidates \/ ArchiveOne \/ CleanStops
                \/ Consume \/ \E i \in inbox : InboxRetention(i)
         PROVE  UNCHANGED <<row, ledger, drifted, revivals>>
    BY <1>12 DEF AuthorityLost, CleanClaim, FetchCandidates, ArchiveOne, CleanStops, Consume,
        InboxRetention, vars, table
  <1>13. CASE UNCHANGED <<row, ledger, drifted, revivals>>
    BY <1>a, <1>13 DEF InFlight, InClass
  <1> QED BY <1>3, <1>4, <1>5, <1>6, <1>7, <1>8, <1>9, <1>10, <1>11, <1>12, <1>13 DEF Next, Round

(* The ledger counts the events in flight exactly through commits,         *)
(* rollbacks, dispatch and death, and only revivals take the tenant over   *)
(* its quota (reserve, release_quota, reconcile_outbox_tenant_quota).      *)
THEOREM LedgerHolds == Spec => []LedgerExact
  <1>1. Init => QuotaInv
    <2> SUFFICES ASSUME Init PROVE QuotaInv
      OBVIOUS
    <2>1. InFlight = {}
      BY DEF Init, InFlight, InClass
    <2>2. Cardinality(InFlight) = 0
      BY <2>1, FS_EmptySet
    <2> QED BY <2>2, OutboxAssumption DEF Init, QuotaInv, LedgerExact
  <1>2. QuotaInv => LedgerExact
    BY DEF QuotaInv, LedgerExact
  <1> QED BY <1>1, <1>2, QuotaStep, TypeInit, TypeStep, PTL DEF Spec
=============================================================================
