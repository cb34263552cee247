--------------------------- MODULE PollOwnerProofs ---------------------------
(***************************************************************************)
(* Proofs about PollOwner, for any set of partitions, any number of        *)
(* records, any capacity and any number of disturbances.                   *)
(*                                                                         *)
(* The group's offset is safe because every offset that the loop, the      *)
(* client or a commit under way may ever send to the broker is passed: the *)
(* records before it are handled or given up.  Passed offsets stay passed, *)
(* so stale tables, late commits and completions of a past assignment do   *)
(* no harm.  What has to be followed step by step is the position of the   *)
(* client: it may run ahead of the passed offsets only where nothing it    *)
(* delivers is observed.                                                   *)
(*                                                                         *)
(* The second half is about pauses: with eager rebalances every pause that *)
(* the loop polls under has a row, and every row an owner.                 *)
(***************************************************************************)
EXTENDS PollOwner, SequenceTheorems, FiniteSetTheorems, TLAPS

Reasons == {"halt", "retry", "dlt", "envelope", "degraded", "commit"}
Points == {"top", "turn", "poll", "maintain", "commit", "wait", "retry", "dead", "dlt",
           "stop", "exit", "down", "crashed", "stopped"}

OffsetsType == [Partitions -> Int]
EventType == [kind : {"none", "Assigned", "Revoked", "Error"}, parts : SUBSET Partitions,
              epoch : Nat, committed : OffsetsType]
JobType == [offset : Int, epoch : Nat]
ItemType == [offset : Int, safe : BOOLEAN]
ProgressType == [base : Int, epoch : Nat, seen : Seq(ItemType)]
WorkerType == [tp : Partitions, offset : Nat, epoch : Nat, phase : {"waiting", "sent"},
               cancel : BOOLEAN, live : BOOLEAN, ready : BOOLEAN]
DoneType == [tp : Partitions, offset : Nat, epoch : Nat, ok : BOOLEAN]

ClientType ==
  [assigned : SUBSET Partitions, paused : SUBSET Partitions, pos : [Partitions -> Nat],
   lost : BOOLEAN, snapshot : OffsetsType, mailbox : EventType, epochs : Nat,
   late : OffsetsType, busy : BOOLEAN, assignment : SUBSET Partitions, epoch : Nat,
   ready : {"no", "due", "yes"}, progress : [Partitions -> ProgressType],
   rows : SUBSET (Partitions \X Reasons), attempts : [Partitions -> [Offsets -> Nat]],
   retries : [Partitions -> [from : Int, due : BOOLEAN]],
   pending : [Partitions -> JobType], admission : [Partitions -> JobType],
   intent : SUBSET (Partitions \X Int), expect : OffsetsType, deferred : BOOLEAN,
   workers : SUBSET WorkerType]

FrameType == [cont : {"top", "stop", "retry", "dead", "dlt", "crash", "transient"},
              tp : Partitions \cup {"none"}, offset : Int, blocked : BOOLEAN,
              discarded : OffsetsType]

Types ==
  /\ c \in ClientType /\ pc \in Points /\ frame \in FrameType
  /\ committed \in [Partitions -> Nat]
  /\ done \subseteq DoneType
  /\ command \in {"none", "queued", "executing", "answered", "dropped"}
  /\ stop \in BOOLEAN /\ required \in BOOLEAN

-----------------------------------------------------------------------------
(* What is settled or waived; a record with everything before it; a whole  *)
(* prefix.                                                                 *)
World == settled \cup waived

Passed(W, p, n) ==
  n \in -1 .. Records[p] /\ \A o \in 0 .. (n - 1) : <<p, o>> \in W

Reached(W, p, o) == o \in 0 .. (Records[p] - 1) /\ Passed(W, p, o)

(* Every offset in the tables.                                             *)
ItemOK(W, p, x) == Reached(W, p, x.offset) /\ (x.safe => <<p, x.offset>> \in W)

Tables(W, s) ==
  \A p \in Partitions :
    /\ s.pos[p] <= Records[p]
    /\ Passed(W, p, s.snapshot[p])
    /\ Passed(W, p, s.late[p])
    /\ Passed(W, p, s.retries[p].from)
    /\ s.pending[p].offset # Nowhere => Reached(W, p, s.pending[p].offset)
    /\ s.admission[p].offset # Nowhere => Reached(W, p, s.admission[p].offset)
    /\ \A i \in DOMAIN s.progress[p].seen : ItemOK(W, p, s.progress[p].seen[i])

(* The client has passed what lies before its position, but for halted     *)
(* partitions, for those in X, and after a Stop was deferred.              *)
Halted(s, p) == <<p, "halt">> \in s.rows /\ p \in s.paused

Standing(W, s, X) ==
  s.deferred \/ \A p \in s.assigned \ X : Passed(W, p, s.pos[p]) \/ Halted(s, p)

InCommit == pc \in {"commit", "wait"}
Doing(k) == pc = k \/ (InCommit /\ frame.cont = k)

(* The record that the open call is about, not settled yet.                *)
Taken == IF Doing("retry") \/ Doing("dead") THEN {<<frame.tp, frame.offset>>} ELSE {}
Discarded == IF InCommit THEN {p \in Partitions : frame.discarded[p] # Nowhere} ELSE {}

WorldInv ==
  /\ \A p \in Partitions : Passed(World, p, committed[p])
  /\ required => waived = {}
  /\ \A d \in done : d.ok => <<d.tp, d.offset>> \in World

FrameInv ==
  /\ InCommit => frame.cont \in {"top", "stop", "retry", "dead", "dlt"}
  /\ Doing("retry") \/ Doing("dead") \/ Doing("dlt") =>
       frame.tp \in Partitions /\ Reached(World, frame.tp, frame.offset)
  /\ Doing("dlt") => <<frame.tp, frame.offset>> \in World
  /\ pc = "wait" => frame.blocked
  /\ pc = "poll" => ~c.deferred
  /\ pc = "maintain" => c.deferred
  /\ \A p \in Partitions : frame.discarded[p] \in -1 .. Records[p]
  /\ pc \in {"down", "crashed"} => c.assigned = {}

(* An Assigned event that waits names the whole assignment.               *)
MailOK(s) == s.mailbox.kind = "Assigned" => s.mailbox.parts = s.assigned
MailInv == MailOK(c)

(* The position of every assigned partition.                               *)
PositionInv ==
  /\ pc \notin {"exit", "stopped"} => Standing(World \cup Taken, c, Discarded)
  /\ InCommit /\ ~c.deferred => \A p \in Partitions : Passed(World, p, frame.discarded[p])
  /\ InCommit /\ frame.blocked /\ ~c.deferred /\ frame.cont \in {"retry", "dead"} =>
       \/ frame.tp \notin c.assigned \/ frame.tp \in c.paused
       \/ frame.tp \in Discarded
       \/ Passed(World, frame.tp, c.pos[frame.tp])

OffsetInv == Types /\ WorldInv /\ FrameInv /\ MailInv /\ Tables(World, c) /\ PositionInv

-----------------------------------------------------------------------------
(* The fields of the client that the invariants read, in groups: the       *)
(* tables of offsets, where the client stands, and its generations.        *)
Tab(s) == <<s.snapshot, s.late, s.retries, s.pending, s.admission, s.progress>>
Seat(s) == <<s.assigned, s.paused, s.pos, s.rows, s.deferred>>
Mail(s) == <<s.lost, s.mailbox, s.epochs, s.epoch, s.assignment>>

LEMMA Named == /\ Nowhere = -1 /\ Nowhere \in Int
               /\ NoOffsets \in OffsetsType
               /\ NoJob \in JobType /\ NoJob.offset = -1
               /\ NoRetry \in [from : Int, due : BOOLEAN] /\ NoRetry.from = -1
               /\ NoEvent \in EventType /\ NoEvent.kind = "none"
               /\ FreshPartition \in ProgressType /\ FreshPartition.seen = <<>>
               /\ NoFrame \in FrameType
               /\ NoAttempts \in [Partitions -> [Offsets -> Nat]]
               /\ Records \in [Partitions -> Nat]
  <1>1. NoOffsets \in OffsetsType /\ NoJob \in JobType /\ NoRetry \in [from : Int, due : BOOLEAN]
    BY DEF Nowhere, NoOffsets, OffsetsType, NoJob, JobType, NoRetry
  <1>2. NoEvent \in EventType
    BY <1>1 DEF NoEvent, EventType
  <1>3. <<>> \in Seq(ItemType)
    OBVIOUS
  <1>4. FreshPartition \in ProgressType
    BY <1>3 DEF FreshPartition, ProgressType, Nowhere
  <1>5. NoFrame \in FrameType
    BY <1>1 DEF NoFrame, FrameType, Nowhere
  <1>6. Nowhere = -1 /\ NoJob.offset = -1 /\ NoRetry.from = -1 /\ NoEvent.kind = "none" /\ FreshPartition.seen = <<>>
    BY DEF Nowhere, NoJob, NoRetry, NoEvent, FreshPartition
  <1> QED BY <1>1, <1>2, <1>4, <1>5, <1>6, PollOwnerAssumption DEF NoAttempts

LEMMA PosSet ==
  ASSUME NEW s \in ClientType, NEW v \in [Partitions -> Nat]
  PROVE  LET t == [s EXCEPT !.pos = v] IN
         /\ t \in ClientType /\ t.pos = v
         /\ Tab(t) = Tab(s) /\ Mail(t) = Mail(s) /\ t.workers = s.workers
         /\ t.assigned = s.assigned /\ t.paused = s.paused /\ t.rows = s.rows /\ t.deferred = s.deferred
  BY ZenonT(60) DEF ClientType, Tab, Mail

LEMMA ProgressSet ==
  ASSUME NEW s \in ClientType, NEW v \in [Partitions -> ProgressType]
  PROVE  LET t == [s EXCEPT !.progress = v] IN
         /\ t \in ClientType /\ t.progress = v
         /\ Seat(t) = Seat(s) /\ Mail(t) = Mail(s) /\ t.workers = s.workers
         /\ t.snapshot = s.snapshot /\ t.late = s.late /\ t.retries = s.retries
         /\ t.pending = s.pending /\ t.admission = s.admission
  BY ZenonT(60) DEF ClientType, Seat, Mail

LEMMA SnapshotSet ==
  ASSUME NEW s \in ClientType, NEW v \in OffsetsType
  PROVE  LET t == [s EXCEPT !.snapshot = v] IN
         /\ t \in ClientType /\ t.snapshot = v
         /\ Seat(t) = Seat(s) /\ Mail(t) = Mail(s) /\ t.workers = s.workers
         /\ t.progress = s.progress /\ t.late = s.late /\ t.retries = s.retries
         /\ t.pending = s.pending /\ t.admission = s.admission
  BY ZenonT(60) DEF ClientType, Seat, Mail

LEMMA PausedSet ==
  ASSUME NEW s \in ClientType, NEW v \in SUBSET Partitions
  PROVE  LET t == [s EXCEPT !.paused = v] IN
         /\ t \in ClientType /\ t.paused = v
         /\ Tab(t) = Tab(s) /\ Mail(t) = Mail(s) /\ t.workers = s.workers
         /\ t.assigned = s.assigned /\ t.pos = s.pos /\ t.rows = s.rows /\ t.deferred = s.deferred
  BY ZenonT(60) DEF ClientType, Tab, Mail

LEMMA RowsSet ==
  ASSUME NEW s \in ClientType, NEW v \in SUBSET (Partitions \X Reasons)
  PROVE  LET t == [s EXCEPT !.rows = v] IN
         /\ t \in ClientType /\ t.rows = v
         /\ Tab(t) = Tab(s) /\ Mail(t) = Mail(s) /\ t.workers = s.workers
         /\ t.assigned = s.assigned /\ t.pos = s.pos /\ t.paused = s.paused /\ t.deferred = s.deferred
  BY ZenonT(60) DEF ClientType, Tab, Mail

-----------------------------------------------------------------------------
(* What the operators on the client change, and what they leave.           *)
LEMMA PauseDoes ==
  ASSUME NEW s \in ClientType, NEW S \in SUBSET Partitions
  PROVE  LET t == Pause(s, S) IN
         /\ t \in ClientType /\ t.paused = s.paused \cup S
         /\ Tab(t) = Tab(s) /\ Mail(t) = Mail(s) /\ t.workers = s.workers
         /\ t.assigned = s.assigned /\ t.pos = s.pos /\ t.rows = s.rows /\ t.deferred = s.deferred
  <1>1. s.paused \cup S \in SUBSET Partitions
    BY DEF ClientType
  <1> QED BY <1>1, PausedSet DEF Pause

LEMMA ResumeDoes ==
  ASSUME NEW s \in ClientType, NEW S
  PROVE  LET t == Resume(s, S) IN
         /\ t \in ClientType /\ t.paused = s.paused \ S
         /\ Tab(t) = Tab(s) /\ Mail(t) = Mail(s) /\ t.workers = s.workers
         /\ t.assigned = s.assigned /\ t.pos = s.pos /\ t.rows = s.rows /\ t.deferred = s.deferred
  <1>1. s.paused \ S \in SUBSET Partitions
    BY DEF ClientType
  <1> QED BY <1>1, PausedSet DEF Resume

LEMMA RewindDoes ==
  ASSUME NEW s \in ClientType, NEW at \in OffsetsType, \A p \in Partitions : at[p] >= -1
  PROVE  LET t == Rewind(s, at) IN
         /\ t \in ClientType
         /\ \A p \in Partitions :
              t.pos[p] = IF p \in s.assigned /\ at[p] # -1 THEN at[p] ELSE s.pos[p]
         /\ Tab(t) = Tab(s) /\ Mail(t) = Mail(s) /\ t.workers = s.workers
         /\ t.assigned = s.assigned /\ t.paused = s.paused /\ t.rows = s.rows /\ t.deferred = s.deferred
  <1> DEFINE v == [p \in Partitions |-> IF p \in s.assigned /\ at[p] # Nowhere THEN at[p] ELSE s.pos[p]]
  <1>1. s.pos \in [Partitions -> Nat]
    BY DEF ClientType
  <1>2. v \in [Partitions -> Nat]
    BY <1>1, Named DEF OffsetsType
  <1>3. Rewind(s, at) = [s EXCEPT !.pos = v]
    BY DEF Rewind
  <1>4. \A p \in Partitions : v[p] = IF p \in s.assigned /\ at[p] # -1 THEN at[p] ELSE s.pos[p]
    BY Named
  <1> QED
    <2> HIDE DEF v
    <2> QED BY <1>2, <1>3, <1>4, PosSet

LEMMA AddDoes ==
  ASSUME NEW s \in ClientType, NEW S \in SUBSET Partitions, NEW r \in Reasons
  PROVE  LET t == AddPauseReason(s, S, r) IN
         /\ t \in ClientType /\ t.rows = s.rows \cup (S \X {r})
         /\ Tab(t) = Tab(s) /\ Mail(t) = Mail(s) /\ t.workers = s.workers
         /\ t.assigned = s.assigned /\ t.pos = s.pos /\ t.paused = s.paused /\ t.deferred = s.deferred
  <1>1. s.rows \cup (S \X {r}) \in SUBSET (Partitions \X Reasons)
    BY DEF ClientType
  <1> QED BY <1>1, RowsSet DEF AddPauseReason

LEMMA DropDoes ==
  ASSUME NEW s \in ClientType, NEW S, NEW rs
  PROVE  LET t == DropRows(s, S, rs) IN
         /\ t \in ClientType /\ t.rows = s.rows \ (S \X rs)
         /\ Tab(t) = Tab(s) /\ Mail(t) = Mail(s) /\ t.workers = s.workers
         /\ t.assigned = s.assigned /\ t.pos = s.pos /\ t.paused = s.paused /\ t.deferred = s.deferred
  <1>1. s.rows \ (S \X rs) \in SUBSET (Partitions \X Reasons)
    BY DEF ClientType
  <1> QED BY <1>1, RowsSet DEF DropRows

LEMMA ClearDoes ==
  ASSUME NEW s \in ClientType, NEW S, NEW rs
  PROVE  LET t == ClearAndResume(s, S, rs) IN
         /\ t \in ClientType /\ t.rows = s.rows \ (S \X rs)
         /\ t.paused = s.paused \ {p \in S : \A row \in t.rows : row[1] # p}
         /\ Tab(t) = Tab(s) /\ Mail(t) = Mail(s) /\ t.workers = s.workers
         /\ t.assigned = s.assigned /\ t.pos = s.pos /\ t.deferred = s.deferred
  <1> DEFINE d == DropRows(s, S, rs)
             U == Unblocked(d, S)
             t == Resume(d, U)
  <1>1. /\ d \in ClientType /\ d.rows = s.rows \ (S \X rs)
        /\ Tab(d) = Tab(s) /\ Mail(d) = Mail(s) /\ d.workers = s.workers
        /\ d.assigned = s.assigned /\ d.pos = s.pos /\ d.paused = s.paused /\ d.deferred = s.deferred
    BY DropDoes
  <1>2. /\ t \in ClientType /\ t.paused = d.paused \ U /\ t.rows = d.rows
        /\ Tab(t) = Tab(d) /\ Mail(t) = Mail(d) /\ t.workers = d.workers
        /\ t.assigned = d.assigned /\ t.pos = d.pos /\ t.deferred = d.deferred
    <2> HIDE DEF d, U
    <2> QED BY <1>1, ResumeDoes
  <1>3. U = {p \in S : \A row \in d.rows : row[1] # p}
    BY DEF Unblocked
  <1>4. ClearAndResume(s, S, rs) = t
    BY DEF ClearAndResume
  <1> HIDE DEF d, U, t
  <1> QED BY <1>1, <1>2, <1>3, <1>4

LEMMA HaltDoes ==
  ASSUME NEW s \in ClientType, NEW p \in Partitions
  PROVE  LET t == HaltPartition(s, p) IN
         /\ t \in ClientType /\ t.paused = s.paused \cup {p}
         /\ t.rows = {row \in s.rows : row[1] # p} \cup {<<p, "halt">>}
         /\ Tab(t) = Tab(s) /\ Mail(t) = Mail(s) /\ t.workers = s.workers
         /\ t.assigned = s.assigned /\ t.pos = s.pos /\ t.deferred = s.deferred
  <1> DEFINE u == Pause(s, {p})
             v == {row \in s.rows : row[1] # p} \cup {<<p, "halt">>}
  <1>1. {p} \in SUBSET Partitions
    OBVIOUS
  <1>2. /\ u \in ClientType /\ u.paused = s.paused \cup {p}
        /\ Tab(u) = Tab(s) /\ Mail(u) = Mail(s) /\ u.workers = s.workers
        /\ u.assigned = s.assigned /\ u.pos = s.pos /\ u.rows = s.rows /\ u.deferred = s.deferred
    BY <1>1, PauseDoes
  <1>3. v \in SUBSET (Partitions \X Reasons)
    BY DEF ClientType, Reasons
  <1>4. HaltPartition(s, p) = [u EXCEPT !.rows = v]
    BY <1>2 DEF HaltPartition
  <1> HIDE DEF u, v
  <1>5. LET t == [u EXCEPT !.rows = v] IN
         /\ t \in ClientType /\ t.rows = v
         /\ Tab(t) = Tab(u) /\ Mail(t) = Mail(u) /\ t.workers = u.workers
         /\ t.assigned = u.assigned /\ t.pos = u.pos /\ t.paused = u.paused /\ t.deferred = u.deferred
    BY <1>2, <1>3, RowsSet
  <1> QED BY <1>2, <1>4, <1>5 DEF v

-----------------------------------------------------------------------------
(* The least of some indices, found by going down the finite sets 1 .. n.  *)
LEMMA LeastIndex ==
  ASSUME NEW S \in SUBSET Nat, S # {}
  PROVE  Min(S) \in S /\ \A k \in S : Min(S) <= k
  <1> DEFINE F == {0 .. n : n \in S}
  <1>1. F # {}
    OBVIOUS
  <1>2. ASSUME NEW x \in F PROVE x \in SUBSET Nat /\ IsFiniteSet(x)
    <2>1. PICK n \in S : x = 0 .. n
      OBVIOUS
    <2>2. 0 \in Int /\ n \in Int
      OBVIOUS
    <2>3. IsFiniteSet(0 .. n)
      BY <2>2, FS_Interval
    <2> QED BY <2>1, <2>3
  <1>3. F \subseteq FiniteSubsetsOf(Nat)
    BY <1>2 DEF FiniteSubsetsOf
  <1>4. PICK x \in F : \A y \in F : <<y, x>> \notin StrictSubsetOrdering(Nat)
    <2> HIDE DEF F
    <2> QED BY <1>1, <1>3, FS_StrictSubsetOrderingWellFounded, WFMin
  <1>5. PICK n \in S : x = 0 .. n
    BY <1>4
  <1>6. ASSUME NEW k \in S, ~(n <= k) PROVE FALSE
    <2>1. 0 .. k \in F
      OBVIOUS
    <2>2. 0 .. k \subseteq x /\ 0 .. k # x
      BY <1>5, <1>6, SMT
    <2>3. <<0 .. k, x>> \in StrictSubsetOrdering(Nat)
      BY <2>2, <1>5, <1>2, <1>4, <2>1 DEF StrictSubsetOrdering
    <2> QED BY <2>1, <2>3, <1>4
  <1> DEFINE Q(m) == m \in S /\ \A k \in S : m <= k
  <1>7. Q(n)
    BY <1>6
  <1>8. \E m \in S : \A k \in S : m <= k
    BY <1>7
  <1> QED BY <1>8 DEF Min

LEMMA LesserOf ==
  ASSUME NEW a \in Nat, NEW b \in Nat
  PROVE  Min({a, b}) \in {a, b} /\ Min({a, b}) <= a /\ Min({a, b}) <= b
  <1>1. {a, b} \in SUBSET Nat /\ {a, b} # {}
    OBVIOUS
  <1> QED BY <1>1, LeastIndex

(* Passed offsets: what they are closed under.                             *)
LEMMA NothingPassed ==
  ASSUME NEW W, NEW p \in Partitions
  PROVE  Passed(W, p, -1) /\ Passed(W, p, 0)
  BY Named DEF Passed

LEMMA PassedLater ==
  ASSUME NEW W, NEW V, W \subseteq V, NEW p, NEW n, Passed(W, p, n)
  PROVE  Passed(V, p, n)
  BY DEF Passed

LEMMA PassedLess ==
  ASSUME NEW W, NEW p \in Partitions, NEW n, Passed(W, p, n), NEW m \in Nat, m <= n
  PROVE  Passed(W, p, m)
  BY Named DEF Passed

LEMMA PassedNext ==
  ASSUME NEW W, NEW p \in Partitions, NEW n, Reached(W, p, n), <<p, n>> \in W
  PROVE  Passed(W, p, n + 1) /\ n + 1 \in Nat
  <1>1. Records[p] \in Nat
    BY Named
  <1>2. n \in Nat /\ n < Records[p] /\ n + 1 \in -1 .. Records[p]
    BY <1>1 DEF Reached
  <1>3. ASSUME NEW o \in 0 .. (n + 1 - 1) PROVE <<p, o>> \in W
    <2>1. o = n \/ o \in 0 .. (n - 1)
      BY <1>2
    <2> QED BY <2>1 DEF Reached, Passed
  <1> QED BY <1>2, <1>3 DEF Passed

LEMMA PassedElsewhere ==
  ASSUME NEW W, NEW p, NEW q, NEW o, NEW n, Passed(W \cup {<<q, o>>}, p, n), p # q
  PROVE  Passed(W, p, n)
  BY DEF Passed

(* The frontier of what was seen, and what confirm_committed retains.      *)
LEMMA FrontierPassed ==
  ASSUME NEW W, NEW p \in Partitions, NEW seen \in Seq(ItemType), seen # <<>>,
         \A i \in DOMAIN seen : ItemOK(W, p, seen[i])
  PROVE  Passed(W, p, FrontierOf(seen)) /\ FrontierOf(seen) \in Nat
  <1> DEFINE unsafe == {i \in DOMAIN seen : ~seen[i].safe}
  <1>1. DOMAIN seen = 1 .. Len(seen) /\ Len(seen) \in Nat \ {0} /\ Len(seen) \in DOMAIN seen
    BY EmptySeq, LenProperties
  <1>2. CASE unsafe = {}
    <2>1. ItemOK(W, p, seen[Len(seen)]) /\ seen[Len(seen)].safe
      BY <1>1, <1>2
    <2>2. FrontierOf(seen) = seen[Len(seen)].offset + 1
      BY <1>2 DEF FrontierOf
    <2> QED BY <2>1, <2>2, PassedNext DEF ItemOK
  <1>3. CASE unsafe # {}
    <2>1. unsafe \in SUBSET Nat
      BY <1>1
    <2>2. Min(unsafe) \in unsafe
      <3> HIDE DEF unsafe
      <3> QED BY <1>3, <2>1, LeastIndex
    <2>3. FrontierOf(seen) = seen[Min(unsafe)].offset
      BY <1>3 DEF FrontierOf
    <2>4. ItemOK(W, p, seen[Min(unsafe)])
      BY <2>2
    <2> QED BY <2>3, <2>4, Named DEF ItemOK, Reached
  <1> QED BY <1>2, <1>3

LEMMA RetainedFewer ==
  ASSUME NEW seen \in Seq(ItemType), NEW n \in Int
  PROVE  /\ Retained(seen, n) \in Seq(ItemType)
         /\ \A i \in DOMAIN Retained(seen, n) : \E j \in DOMAIN seen : Retained(seen, n)[i] = seen[j]
  <1> DEFINE kept == {i \in DOMAIN seen : seen[i].offset >= n}
  <1>1. DOMAIN seen = 1 .. Len(seen) /\ Len(seen) \in Nat
    BY LenProperties
  <1>2. CASE kept = {}
    BY <1>2 DEF Retained
  <1>3. CASE kept # {}
    <2>1. kept \in SUBSET Nat
      BY <1>1
    <2>2. Min(kept) \in kept
      <3> HIDE DEF kept
      <3> QED BY <1>3, <2>1, LeastIndex
    <2>3. PICK m \in 1 .. Len(seen) : m = Min(kept)
      BY <1>1, <2>2
    <2>4. Retained(seen, n) = SubSeq(seen, m, Len(seen))
      BY <1>3, <2>3 DEF Retained
    <2>5. /\ SubSeq(seen, m, Len(seen)) \in Seq(ItemType)
          /\ Len(SubSeq(seen, m, Len(seen))) = Len(seen) - m + 1
          /\ \A i \in 1 .. (Len(seen) - m + 1) : SubSeq(seen, m, Len(seen))[i] = seen[m + i - 1]
      <3>1. \A i \in m .. Len(seen) : seen[i] \in ItemType
        BY <1>1, <2>3, ElementOfSeq
      <3>2. m \in Int /\ Len(seen) \in Int /\ m <= Len(seen)
        BY <1>1, <2>3
      <3> QED BY <3>1, <3>2, SubSeqProperties
    <2>6. DOMAIN SubSeq(seen, m, Len(seen)) = 1 .. (Len(seen) - m + 1)
      BY <2>5, LenProperties
    <2>7. ASSUME NEW i \in 1 .. (Len(seen) - m + 1)
          PROVE  m + i - 1 \in DOMAIN seen
      BY <1>1, <2>3
    <2> QED BY <2>4, <2>5, <2>6, <2>7
  <1> QED BY <1>2, <1>3

-----------------------------------------------------------------------------
(* The tables of progress.                                                 *)
Fewer(s, t) ==
  \A p \in Partitions : \A i \in DOMAIN t.progress[p].seen :
    \E j \in DOMAIN s.progress[p].seen : t.progress[p].seen[i] = s.progress[p].seen[j]

(* t is s but for its progress, of which nothing is new.                   *)
Trimmed(s, t) ==
  /\ t \in ClientType /\ Fewer(s, t)
  /\ Seat(t) = Seat(s) /\ Mail(t) = Mail(s) /\ t.workers = s.workers
  /\ t.snapshot = s.snapshot /\ t.late = s.late /\ t.retries = s.retries
  /\ t.pending = s.pending /\ t.admission = s.admission

LEMMA ProgressIs ==
  ASSUME NEW s \in ClientType, NEW p \in Partitions
  PROVE  /\ s.progress \in [Partitions -> ProgressType] /\ s.progress[p] \in ProgressType
         /\ s.progress[p].seen \in Seq(ItemType) /\ s.progress[p].base \in Int /\ s.progress[p].epoch \in Nat
         /\ s.epoch \in Nat
  <1>1. s.progress \in [Partitions -> ProgressType] /\ s.epoch \in Nat
    BY DEF ClientType
  <1>2. s.progress[p] \in ProgressType
    BY <1>1
  <1> QED BY <1>1, <1>2 DEF ProgressType

LEMMA TrimDoes ==
  ASSUME NEW s \in ClientType, NEW v \in [Partitions -> ProgressType],
         \A p \in Partitions : \A i \in DOMAIN v[p].seen :
           \E j \in DOMAIN s.progress[p].seen : v[p].seen[i] = s.progress[p].seen[j]
  PROVE  Trimmed(s, [s EXCEPT !.progress = v])
  BY ProgressSet DEF Trimmed, Fewer

LEMMA ResetDoes ==
  ASSUME NEW s \in ClientType, NEW S
  PROVE  Trimmed(s, ResetPartitions(s, S))
  <1> DEFINE v == [p \in Partitions |->
                     IF p \in S THEN [s.progress[p] EXCEPT !.seen = <<>>, !.epoch = 0] ELSE s.progress[p]]
  <1>1. ResetPartitions(s, S) = [s EXCEPT !.progress = v]
    BY DEF ResetPartitions
  <1>2. ASSUME NEW p \in Partitions
        PROVE  /\ v[p] \in ProgressType
               /\ v[p].seen = s.progress[p].seen \/ v[p].seen = <<>>
    <2>1. s.progress[p] \in ProgressType
      BY ProgressIs
    <2>2. <<>> \in Seq(ItemType)
      OBVIOUS
    <2> QED BY <2>1, <2>2 DEF ProgressType
  <1>3. v \in [Partitions -> ProgressType]
    BY <1>2
  <1>4. \A p \in Partitions : \A i \in DOMAIN v[p].seen :
           \E j \in DOMAIN s.progress[p].seen : v[p].seen[i] = s.progress[p].seen[j]
    <2> HIDE DEF v
    <2> QED BY <1>2
  <1> HIDE DEF v
  <1> QED BY <1>1, <1>3, <1>4, TrimDoes

LEMMA TrimTwice ==
  ASSUME NEW r \in ClientType, NEW s, NEW t, Trimmed(r, s), Trimmed(s, t)
  PROVE  Trimmed(r, t)
  <1>1. Fewer(r, t)
    BY DEF Trimmed, Fewer
  <1> QED BY <1>1 DEF Trimmed

LEMMA ResetForDoes ==
  ASSUME NEW s \in ClientType, NEW S
  PROVE  Trimmed(s, ResetForAssignment(s, S))
  <1> DEFINE r == ResetPartitions(s, S)
             v == [p \in Partitions |-> IF p \in S THEN r.progress[p] ELSE FreshPartition]
  <1>1. Trimmed(s, r)
    BY ResetDoes
  <1>2. r \in ClientType
    BY <1>1 DEF Trimmed
  <1>3. ResetForAssignment(s, S) = [r EXCEPT !.progress = v]
    BY DEF ResetForAssignment
  <1> HIDE DEF r
  <1>4. ASSUME NEW p \in Partitions
        PROVE  v[p] \in ProgressType /\ (v[p].seen = r.progress[p].seen \/ v[p].seen = <<>>)
    BY <1>2, ProgressIs, Named
  <1>5. v \in [Partitions -> ProgressType]
    BY <1>4
  <1>6. \A p \in Partitions : \A i \in DOMAIN v[p].seen :
           \E j \in DOMAIN r.progress[p].seen : v[p].seen[i] = r.progress[p].seen[j]
    <2> HIDE DEF v
    <2> QED BY <1>4
  <1> HIDE DEF v
  <1> QED BY <1>1, <1>2, <1>3, <1>5, <1>6, TrimDoes, TrimTwice

LEMMA ClearProgressDoes ==
  ASSUME NEW s \in ClientType
  PROVE  Trimmed(s, ClearProgress(s))
  <1> DEFINE v == [p \in Partitions |-> FreshPartition]
  <1>1. v \in [Partitions -> ProgressType] /\ \A p \in Partitions : v[p].seen = <<>>
    BY Named
  <1>2. ClearProgress(s) = [s EXCEPT !.progress = v]
    BY DEF ClearProgress
  <1>3. \A p \in Partitions : DOMAIN v[p].seen = {}
    BY <1>1
  <1> HIDE DEF v
  <1> QED BY <1>1, <1>2, <1>3, TrimDoes

LEMMA ConfirmDoes ==
  ASSUME NEW s \in ClientType, NEW at \in OffsetsType
  PROVE  Trimmed(s, ConfirmCommitted(s, at))
  <1> DEFINE named == {p \in Partitions : at[p] # Nowhere}
             v == [p \in Partitions |->
                     IF p \in named
                     THEN [s.progress[p] EXCEPT !.base = at[p], !.seen = Retained(s.progress[p].seen, at[p])]
                     ELSE s.progress[p]]
  <1>1. ConfirmCommitted(s, at) = [s EXCEPT !.progress = v] \/ ConfirmCommitted(s, at) = s
    BY DEF ConfirmCommitted
  <1>2. ASSUME NEW p \in Partitions
        PROVE  /\ v[p] \in ProgressType
               /\ \/ v[p].seen = s.progress[p].seen
                  \/ v[p].seen = Retained(s.progress[p].seen, at[p])
    <2>1. s.progress[p] \in ProgressType /\ s.progress[p].seen \in Seq(ItemType) /\ at[p] \in Int
      BY ProgressIs DEF OffsetsType
    <2>2. Retained(s.progress[p].seen, at[p]) \in Seq(ItemType)
      BY <2>1, RetainedFewer
    <2> QED BY <2>1, <2>2 DEF ProgressType
  <1>3. v \in [Partitions -> ProgressType]
    BY <1>2
  <1>4. ASSUME NEW p \in Partitions
        PROVE  \A i \in DOMAIN v[p].seen :
                 \E j \in DOMAIN s.progress[p].seen : v[p].seen[i] = s.progress[p].seen[j]
    <2>1. s.progress[p].seen \in Seq(ItemType) /\ at[p] \in Int
      BY ProgressIs DEF OffsetsType
    <2> DEFINE r == Retained(s.progress[p].seen, at[p])
    <2>2. \A i \in DOMAIN r : \E j \in DOMAIN s.progress[p].seen : r[i] = s.progress[p].seen[j]
      BY <2>1, RetainedFewer
    <2>3. v[p].seen = s.progress[p].seen \/ v[p].seen = r
      BY <1>2
    <2> HIDE DEF v, r
    <2> QED BY <2>2, <2>3
  <1>5. Trimmed(s, s)
    BY DEF Trimmed, Fewer
  <1> HIDE DEF v
  <1> QED BY <1>1, <1>3, <1>4, <1>5, TrimDoes

LEMMA ObserveDoes ==
  ASSUME NEW s \in ClientType, NEW p \in Partitions, NEW o \in Int, NEW safe \in BOOLEAN
  PROVE  LET t == Observe(s, p, o, safe) IN
         /\ t \in ClientType
         /\ Seat(t) = Seat(s) /\ Mail(t) = Mail(s) /\ t.workers = s.workers
         /\ t.snapshot = s.snapshot /\ t.late = s.late /\ t.retries = s.retries
         /\ t.pending = s.pending /\ t.admission = s.admission
         /\ \A q \in Partitions \ {p} : t.progress[q] = s.progress[q]
         /\ t.progress[p].seen = Append(s.progress[p].seen, [offset |-> o, safe |-> safe])
  <1> DEFINE e == s.progress[p]
             x == [offset |-> o, safe |-> safe]
             n == [base |-> IF e.base = Nowhere THEN o ELSE e.base, epoch |-> s.epoch,
                   seen |-> Append(e.seen, x)]
             v == [s.progress EXCEPT ![p] = n]
  <1>1. s.progress \in [Partitions -> ProgressType] /\ e \in ProgressType /\ e.seen \in Seq(ItemType)
        /\ e.base \in Int /\ s.epoch \in Nat
    BY ProgressIs
  <1>2. x \in ItemType
    BY DEF ItemType
  <1>3. Append(e.seen, x) \in Seq(ItemType)
    <2> HIDE DEF e, x
    <2> QED BY <1>1, <1>2, AppendProperties
  <1>4. n \in ProgressType /\ n.seen = Append(e.seen, x)
    <2> HIDE DEF e, x
    <2> QED BY <1>1, <1>3 DEF ProgressType
  <1>5. Observe(s, p, o, safe) = [s EXCEPT !.progress = v]
    BY DEF Observe
  <1> HIDE DEF n
  <1>6. v \in [Partitions -> ProgressType] /\ v[p] = n /\ \A q \in Partitions \ {p} : v[q] = s.progress[q]
    BY <1>1, <1>4
  <1> HIDE DEF v
  <1> QED BY <1>4, <1>5, <1>6, ProgressSet

-----------------------------------------------------------------------------
(* The tables stay sound.                                                  *)
LEMMA TablesLater ==
  ASSUME NEW W, NEW V, W \subseteq V, NEW s, Tables(W, s)
  PROVE  Tables(V, s)
  <1> SUFFICES ASSUME NEW p \in Partitions PROVE Tables(V, s)!(p)
    BY DEF Tables
  <1>1. Tables(W, s)!(p)
    BY DEF Tables
  <1>2. \A n : Passed(W, p, n) => Passed(V, p, n)
    BY PassedLater
  <1>3. \A n : Reached(W, p, n) => Reached(V, p, n)
    BY <1>2 DEF Reached
  <1>4. \A x : ItemOK(W, p, x) => ItemOK(V, p, x)
    BY <1>3 DEF ItemOK
  <1> QED BY <1>1, <1>2, <1>3, <1>4

LEMMA TablesSame ==
  ASSUME NEW W, NEW s, NEW t, Tables(W, s), Tab(t) = Tab(s), t.pos = s.pos
  PROVE  Tables(W, t)
  <1>1. /\ t.snapshot = s.snapshot /\ t.late = s.late /\ t.retries = s.retries
        /\ t.pending = s.pending /\ t.admission = s.admission /\ t.progress = s.progress
    BY DEF Tab
  <1> QED BY <1>1 DEF Tables

LEMMA TablesTrimmed ==
  ASSUME NEW W, NEW s, NEW t, Tables(W, s), Trimmed(s, t)
  PROVE  Tables(W, t)
  <1>1. /\ t.snapshot = s.snapshot /\ t.late = s.late /\ t.retries = s.retries
        /\ t.pending = s.pending /\ t.admission = s.admission /\ t.pos = s.pos
    BY DEF Trimmed, Seat
  <1>2. ASSUME NEW p \in Partitions, NEW i \in DOMAIN t.progress[p].seen
        PROVE  ItemOK(W, p, t.progress[p].seen[i])
    BY DEF Trimmed, Fewer, Tables
  <1> QED BY <1>1, <1>2 DEF Tables

LEMMA CommittablePassed ==
  ASSUME NEW W, NEW s \in ClientType, Tables(W, s)
  PROVE  /\ CommittableOffsets(s) \in OffsetsType
         /\ \A p \in Partitions : /\ Passed(W, p, CommittableOffsets(s)[p])
                                  /\ CommittableOffsets(s)[p] >= -1
  <1>1. ASSUME NEW p \in Partitions
        PROVE  /\ Passed(W, p, CommittableNext(s.progress[p]))
               /\ CommittableNext(s.progress[p]) \in Int
               /\ CommittableNext(s.progress[p]) >= -1
    <2> DEFINE e == s.progress[p]
    <2>1. e.seen \in Seq(ItemType)
      BY ProgressIs
    <2>2. \A i \in DOMAIN e.seen : ItemOK(W, p, e.seen[i])
      BY DEF Tables
    <2>3. Passed(W, p, -1)
      BY NothingPassed
    <2>4. CASE e.seen = <<>>
      BY <2>3, <2>4, Named DEF CommittableNext
    <2>5. CASE e.seen # <<>>
      <3>1. Passed(W, p, FrontierOf(e.seen)) /\ FrontierOf(e.seen) \in Nat
        <4> HIDE DEF e
        <4> QED BY <2>1, <2>2, <2>5, FrontierPassed
      <3>2. CommittableNext(e) = -1 \/ CommittableNext(e) = FrontierOf(e.seen)
        BY Named DEF CommittableNext
      <3> QED BY <2>3, <3>1, <3>2
    <2> QED BY <2>4, <2>5
  <1> QED BY <1>1 DEF CommittableOffsets, OffsetsType

LEMMA PublishSnapshotDoes ==
  ASSUME NEW W, NEW s \in ClientType, Tables(W, s)
  PROVE  LET t == PublishCommitSnapshot(s) IN
         /\ t \in ClientType /\ Tables(W, t)
         /\ Seat(t) = Seat(s) /\ Mail(t) = Mail(s) /\ t.workers = s.workers
         /\ t.progress = s.progress /\ t.late = s.late /\ t.retries = s.retries
         /\ t.pending = s.pending /\ t.admission = s.admission
  <1> DEFINE v == CommittableOffsets(s)
             t == [s EXCEPT !.snapshot = v]
  <1>1. v \in OffsetsType /\ \A p \in Partitions : Passed(W, p, v[p])
    BY CommittablePassed
  <1> HIDE DEF v
  <1>2. /\ t \in ClientType /\ t.snapshot = v
        /\ Seat(t) = Seat(s) /\ Mail(t) = Mail(s) /\ t.workers = s.workers
        /\ t.progress = s.progress /\ t.late = s.late /\ t.retries = s.retries
        /\ t.pending = s.pending /\ t.admission = s.admission
    BY <1>1, SnapshotSet
  <1> HIDE DEF t
  <1>3. t.pos = s.pos
    BY <1>2 DEF Seat
  <1>4. Tables(W, t)
    BY <1>1, <1>2, <1>3 DEF Tables
  <1>5. PublishCommitSnapshot(s) = t
    BY DEF PublishCommitSnapshot, t, v
  <1> QED BY <1>2, <1>4, <1>5

LEMMA TablesObserved ==
  ASSUME NEW W, NEW s \in ClientType, Tables(W, s), NEW p \in Partitions, NEW o, NEW safe \in BOOLEAN,
         Reached(W, p, o), safe => <<p, o>> \in W
  PROVE  Observe(s, p, o, safe) \in ClientType /\ Tables(W, Observe(s, p, o, safe))
  <1> DEFINE t == Observe(s, p, o, safe)
             x == [offset |-> o, safe |-> safe]
  <1>1. o \in Int /\ o \in Nat
    BY Named DEF Reached
  <1>2. /\ t \in ClientType
        /\ Seat(t) = Seat(s)
        /\ t.snapshot = s.snapshot /\ t.late = s.late /\ t.retries = s.retries
        /\ t.pending = s.pending /\ t.admission = s.admission
        /\ \A q \in Partitions \ {p} : t.progress[q] = s.progress[q]
        /\ t.progress[p].seen = Append(s.progress[p].seen, x)
    BY <1>1, ObserveDoes
  <1>3. s.progress[p].seen \in Seq(ItemType) /\ x \in ItemType
    BY <1>1, ProgressIs DEF ItemType
  <1>4. ItemOK(W, p, x)
    BY DEF ItemOK
  <1> HIDE DEF t, x
  <1>5. ASSUME NEW i \in DOMAIN Append(s.progress[p].seen, x)
        PROVE  ItemOK(W, p, Append(s.progress[p].seen, x)[i])
    <2> DEFINE q == s.progress[p].seen
    <2>1. /\ DOMAIN q = 1 .. Len(q) /\ Len(q) \in Nat /\ DOMAIN Append(q, x) = 1 .. (Len(q) + 1)
          /\ \A j \in 1 .. Len(q) : Append(q, x)[j] = q[j]
          /\ Append(q, x)[Len(q) + 1] = x
      <3> HIDE DEF q
      <3>1. q \in Seq(ItemType)
        BY <1>3 DEF q
      <3> QED BY <1>3, <3>1, AppendProperties, LenProperties
    <2>2. \A j \in DOMAIN q : ItemOK(W, p, q[j])
      BY DEF Tables
    <2> HIDE DEF q
    <2>3. i \in 1 .. Len(q) \/ i = Len(q) + 1
      BY SMTT(60), <2>1 DEF q
    <2> QED BY <1>4, <2>1, <2>2, <2>3 DEF q
  <1>6. t.pos = s.pos
    BY <1>2 DEF Seat
  <1>7. ASSUME NEW q \in Partitions, NEW i \in DOMAIN t.progress[q].seen
        PROVE  ItemOK(W, q, t.progress[q].seen[i])
    BY <1>2, <1>5, <1>7 DEF Tables
  <1>8. Tables(W, t)
    BY <1>2, <1>6, <1>7 DEF Tables
  <1> QED BY <1>2, <1>8 DEF t

-----------------------------------------------------------------------------
(* A client that is typed, whose tables are sound and that stands where it *)
(* may; V is W with the record taken by the open call.                     *)
Safe(W, V, s, X) == s \in ClientType /\ Tables(W, s) /\ Standing(V, s, X)

LEMMA SafeMore ==
  ASSUME NEW W, NEW V, NEW s, NEW X, NEW Y, Safe(W, V, s, X), X \subseteq Y
  PROVE  Safe(W, V, s, Y)
  BY DEF Safe, Standing

LEMMA SafeLater ==
  ASSUME NEW W, NEW V, NEW W1, NEW V1, W \subseteq W1, V \subseteq V1, NEW s, NEW X, Safe(W, V, s, X)
  PROVE  Safe(W1, V1, s, X)
  <1>1. Tables(W1, s)
    BY TablesLater DEF Safe
  <1>2. Standing(V1, s, X)
    BY PassedLater DEF Safe, Standing
  <1> QED BY <1>1, <1>2 DEF Safe

LEMMA SafeStands ==
  ASSUME NEW W, NEW V, NEW s, NEW X, Safe(W, V, s, X), NEW t \in ClientType, Tables(W, t),
         t.pos = s.pos, t.assigned \subseteq s.assigned, t.deferred = s.deferred,
         \A p \in t.assigned : Halted(s, p) => Halted(t, p)
  PROVE  Safe(W, V, t, X)
  BY DEF Safe, Standing

LEMMA SafeSame ==
  ASSUME NEW W, NEW V, NEW s, NEW X, Safe(W, V, s, X), NEW t \in ClientType,
         Tab(t) = Tab(s), Seat(t) = Seat(s)
  PROVE  Safe(W, V, t, X)
  <1>1. t.pos = s.pos /\ t.assigned = s.assigned /\ t.deferred = s.deferred
        /\ t.paused = s.paused /\ t.rows = s.rows
    BY DEF Seat
  <1>2. Tables(W, t)
    BY <1>1, TablesSame DEF Safe
  <1> QED BY <1>1, <1>2, SafeStands DEF Halted

LEMMA SafePause ==
  ASSUME NEW W, NEW V, NEW s, NEW X, Safe(W, V, s, X), NEW S \in SUBSET Partitions
  PROVE  Safe(W, V, Pause(s, S), X)
  <1> DEFINE t == Pause(s, S)
  <1>1. /\ t \in ClientType /\ t.paused = s.paused \cup S /\ Tab(t) = Tab(s)
        /\ t.assigned = s.assigned /\ t.pos = s.pos /\ t.rows = s.rows /\ t.deferred = s.deferred
    BY PauseDoes DEF Safe
  <1> HIDE DEF t
  <1>2. Tables(W, t)
    BY <1>1, TablesSame DEF Safe
  <1> QED BY <1>1, <1>2, SafeStands DEF Halted, t

LEMMA SafeAdd ==
  ASSUME NEW W, NEW V, NEW s, NEW X, Safe(W, V, s, X), NEW S \in SUBSET Partitions, NEW r \in Reasons
  PROVE  Safe(W, V, AddPauseReason(s, S, r), X)
  <1> DEFINE t == AddPauseReason(s, S, r)
  <1>1. /\ t \in ClientType /\ t.rows = s.rows \cup (S \X {r}) /\ Tab(t) = Tab(s)
        /\ t.assigned = s.assigned /\ t.pos = s.pos /\ t.paused = s.paused /\ t.deferred = s.deferred
    BY AddDoes DEF Safe
  <1> HIDE DEF t
  <1>2. Tables(W, t)
    BY <1>1, TablesSame DEF Safe
  <1> QED BY <1>1, <1>2, SafeStands DEF Halted, t

LEMMA SafeDrop ==
  ASSUME NEW W, NEW V, NEW s, NEW X, Safe(W, V, s, X), NEW S, NEW rs, "halt" \notin rs
  PROVE  Safe(W, V, DropRows(s, S, rs), X)
  <1> DEFINE t == DropRows(s, S, rs)
  <1>1. /\ t \in ClientType /\ t.rows = s.rows \ (S \X rs) /\ Tab(t) = Tab(s)
        /\ t.assigned = s.assigned /\ t.pos = s.pos /\ t.paused = s.paused /\ t.deferred = s.deferred
    BY DropDoes DEF Safe
  <1> HIDE DEF t
  <1>2. Tables(W, t)
    BY <1>1, TablesSame DEF Safe
  <1> QED BY <1>1, <1>2, SafeStands DEF Halted, t

LEMMA SafeResume ==
  ASSUME NEW W, NEW V, NEW s, NEW X, Safe(W, V, s, X), NEW S
  PROVE  Safe(W, V, Resume(s, Unblocked(s, S)), X)
  <1> DEFINE t == Resume(s, Unblocked(s, S))
  <1>1. /\ t \in ClientType /\ t.paused = s.paused \ Unblocked(s, S) /\ Tab(t) = Tab(s)
        /\ t.assigned = s.assigned /\ t.pos = s.pos /\ t.rows = s.rows /\ t.deferred = s.deferred
    BY ResumeDoes DEF Safe
  <1> HIDE DEF t
  <1>2. Tables(W, t)
    BY <1>1, TablesSame DEF Safe
  <1>3. ASSUME NEW p, Halted(s, p) PROVE Halted(t, p)
    BY <1>1, <1>3 DEF Halted, Unblocked
  <1> QED BY <1>1, <1>2, <1>3, SafeStands DEF t

LEMMA SafeClear ==
  ASSUME NEW W, NEW V, NEW s, NEW X, Safe(W, V, s, X), NEW S, NEW rs, "halt" \notin rs
  PROVE  Safe(W, V, ClearAndResume(s, S, rs), X)
  <1>1. Safe(W, V, DropRows(s, S, rs), X)
    BY SafeDrop
  <1> QED BY <1>1, SafeResume DEF ClearAndResume

LEMMA SafeHalt ==
  ASSUME NEW W, NEW V, NEW s, NEW X, Safe(W, V, s, X), NEW p \in Partitions
  PROVE  Safe(W, V, HaltPartition(s, p), X \ {p})
  <1> DEFINE t == HaltPartition(s, p)
  <1>1. /\ t \in ClientType /\ t.paused = s.paused \cup {p} /\ Tab(t) = Tab(s)
        /\ t.rows = {row \in s.rows : row[1] # p} \cup {<<p, "halt">>}
        /\ t.assigned = s.assigned /\ t.pos = s.pos /\ t.deferred = s.deferred
    BY HaltDoes DEF Safe
  <1> HIDE DEF t
  <1>2. Tables(W, t)
    BY <1>1, TablesSame DEF Safe
  <1>3. Halted(t, p)
    BY <1>1 DEF Halted
  <1>4. ASSUME NEW q \in Partitions, Halted(s, q) PROVE Halted(t, q)
    BY <1>1, <1>4 DEF Halted
  <1>5. s.assigned \subseteq Partitions
    BY DEF Safe, ClientType
  <1>6. Standing(V, t, X \ {p})
    BY <1>1, <1>3, <1>4, <1>5 DEF Safe, Standing
  <1> QED BY <1>1, <1>2, <1>6 DEF Safe, t

LEMMA SafeRewind ==
  ASSUME NEW W, NEW V, W \subseteq V, NEW s, NEW X, Safe(W, V, s, X), NEW at \in OffsetsType,
         \A p \in Partitions : Passed(W, p, at[p])
  PROVE  Safe(W, V, Rewind(s, at), X \ {p \in Partitions : at[p] # -1})
  <1> DEFINE t == Rewind(s, at)
             Y == X \ {p \in Partitions : at[p] # -1}
  <1>1. \A p \in Partitions : at[p] >= -1 /\ at[p] <= Records[p]
    BY Named DEF Passed
  <1>2. /\ t \in ClientType /\ Tab(t) = Tab(s)
        /\ \A p \in Partitions :
              t.pos[p] = IF p \in s.assigned /\ at[p] # -1 THEN at[p] ELSE s.pos[p]
        /\ t.assigned = s.assigned /\ t.paused = s.paused /\ t.rows = s.rows /\ t.deferred = s.deferred
    BY <1>1, RewindDoes DEF Safe
  <1> HIDE DEF t
  <1>3. Tables(W, t)
    <2>1. /\ t.snapshot = s.snapshot /\ t.late = s.late /\ t.retries = s.retries
          /\ t.pending = s.pending /\ t.admission = s.admission /\ t.progress = s.progress
      BY <1>2 DEF Tab
    <2> QED BY <1>1, <1>2, <2>1 DEF Safe, Tables
  <1>4. s.assigned \subseteq Partitions
    BY DEF Safe, ClientType
  <1>5. ASSUME ~s.deferred, NEW p \in s.assigned, p \notin Y
        PROVE  Passed(V, p, t.pos[p]) \/ Halted(t, p)
    <2>1. CASE at[p] # -1
      <3>1. t.pos[p] = at[p] /\ Passed(W, p, at[p])
        BY <1>2, <1>4, <1>5, <2>1
      <3> QED BY <3>1, PassedLater
    <2>2. CASE at[p] = -1
      <3>1. t.pos[p] = s.pos[p] /\ p \notin X
        BY <1>2, <1>4, <1>5, <2>2
      <3>2. Passed(V, p, s.pos[p]) \/ Halted(s, p)
        BY <1>5, <3>1 DEF Safe, Standing
      <3> QED BY <1>2, <3>1, <3>2 DEF Halted
    <2> QED BY <2>1, <2>2
  <1>6. Standing(V, t, Y)
    <2> HIDE DEF Y
    <2> QED BY <1>2, <1>5 DEF Standing
  <1> QED BY <1>2, <1>3, <1>6 DEF Safe, t

LEMMA SafeSeek ==
  ASSUME NEW W, NEW V, W \subseteq V, NEW s, NEW X, Safe(W, V, s, X), NEW p \in Partitions,
         NEW o \in Nat, Passed(W, p, o)
  PROVE  Safe(W, V, Seek(s, p, o), X \ {p})
  <1> DEFINE at == [NoOffsets EXCEPT ![p] = o]
  <1>1. at \in OffsetsType /\ at[p] = o /\ \A q \in Partitions \ {p} : at[q] = -1
    BY Named DEF NoOffsets, OffsetsType
  <1>2. \A q \in Partitions : Passed(W, q, at[q])
    BY <1>1, NothingPassed
  <1>3. {q \in Partitions : at[q] # -1} = {p}
    BY <1>1
  <1>4. Seek(s, p, o) = Rewind(s, at)
    BY DEF Seek
  <1> HIDE DEF at
  <1> QED BY <1>1, <1>2, <1>3, <1>4, SafeRewind

LEMMA SafeTrim ==
  ASSUME NEW W, NEW V, NEW s, NEW X, Safe(W, V, s, X), NEW t, Trimmed(s, t)
  PROVE  Safe(W, V, t, X)
  <1>1. Tables(W, t)
    BY TablesTrimmed DEF Safe
  <1>2. t.pos = s.pos /\ t.assigned = s.assigned /\ t.deferred = s.deferred
        /\ t.paused = s.paused /\ t.rows = s.rows /\ t \in ClientType
    BY DEF Trimmed, Seat
  <1> QED BY <1>1, <1>2, SafeStands DEF Halted

LEMMA SafeSnapshot ==
  ASSUME NEW W, NEW V, NEW s, NEW X, Safe(W, V, s, X)
  PROVE  Safe(W, V, PublishCommitSnapshot(s), X)
  <1> DEFINE t == PublishCommitSnapshot(s)
  <1>1. t \in ClientType /\ Tables(W, t) /\ Seat(t) = Seat(s)
    BY PublishSnapshotDoes DEF Safe
  <1> HIDE DEF t
  <1>2. t.pos = s.pos /\ t.assigned = s.assigned /\ t.deferred = s.deferred
        /\ t.paused = s.paused /\ t.rows = s.rows
    BY <1>1 DEF Seat
  <1> QED BY <1>1, <1>2, SafeStands DEF Halted, t

LEMMA SafeObserve ==
  ASSUME NEW W, NEW V, NEW s, NEW X, Safe(W, V, s, X), NEW p \in Partitions, NEW o, NEW safe \in BOOLEAN,
         Reached(W, p, o), safe => <<p, o>> \in W
  PROVE  Safe(W, V, Observe(s, p, o, safe), X)
  <1> DEFINE t == Observe(s, p, o, safe)
  <1>0. o \in Int
    BY Named DEF Reached
  <1>1. t \in ClientType /\ Tables(W, t)
    BY TablesObserved DEF Safe
  <1>2. Seat(t) = Seat(s)
    BY <1>0, ObserveDoes DEF Safe
  <1> HIDE DEF t
  <1>3. t.pos = s.pos /\ t.assigned = s.assigned /\ t.deferred = s.deferred
        /\ t.paused = s.paused /\ t.rows = s.rows
    BY <1>2 DEF Seat
  <1> QED BY <1>1, <1>3, SafeStands DEF Halted, t

-----------------------------------------------------------------------------
(* Updates of the other fields.                                            *)
LEMMA LedgerSet ==
  ASSUME NEW s \in ClientType, NEW i \in SUBSET (Partitions \X Int), NEW x \in OffsetsType
  PROVE  LET t == [s EXCEPT !.intent = i, !.expect = x] IN
         /\ t \in ClientType /\ Tab(t) = Tab(s) /\ Seat(t) = Seat(s) /\ Mail(t) = Mail(s)
         /\ t.workers = s.workers
  BY ZenonT(60) DEF ClientType, Tab, Seat, Mail

LEMMA IntentSet ==
  ASSUME NEW s \in ClientType, NEW i \in SUBSET (Partitions \X Int)
  PROVE  LET t == [s EXCEPT !.intent = i] IN
         /\ t \in ClientType /\ Tab(t) = Tab(s) /\ Seat(t) = Seat(s) /\ Mail(t) = Mail(s)
         /\ t.workers = s.workers
  BY ZenonT(60) DEF ClientType, Tab, Seat, Mail

LEMMA ExpectSet ==
  ASSUME NEW s \in ClientType, NEW x \in OffsetsType
  PROVE  LET t == [s EXCEPT !.expect = x] IN
         /\ t \in ClientType /\ Tab(t) = Tab(s) /\ Seat(t) = Seat(s) /\ Mail(t) = Mail(s)
         /\ t.workers = s.workers
  BY ZenonT(60) DEF ClientType, Tab, Seat, Mail

LEMMA AttemptsSet ==
  ASSUME NEW s \in ClientType, NEW a \in [Partitions -> [Offsets -> Nat]]
  PROVE  LET t == [s EXCEPT !.attempts = a] IN
         /\ t \in ClientType /\ Tab(t) = Tab(s) /\ Seat(t) = Seat(s) /\ Mail(t) = Mail(s)
         /\ t.workers = s.workers
  BY ZenonT(60) DEF ClientType, Tab, Seat, Mail

LEMMA ReadySet ==
  ASSUME NEW s \in ClientType, NEW r \in {"no", "due", "yes"}
  PROVE  LET t == [s EXCEPT !.ready = r] IN
         /\ t \in ClientType /\ Tab(t) = Tab(s) /\ Seat(t) = Seat(s) /\ Mail(t) = Mail(s)
         /\ t.workers = s.workers
  BY ZenonT(60) DEF ClientType, Tab, Seat, Mail

LEMMA WorkersSet ==
  ASSUME NEW s \in ClientType, NEW v \in SUBSET WorkerType
  PROVE  LET t == [s EXCEPT !.workers = v] IN
         /\ t \in ClientType /\ Tab(t) = Tab(s) /\ Seat(t) = Seat(s) /\ Mail(t) = Mail(s)
         /\ t.workers = v
  BY ZenonT(60) DEF ClientType, Tab, Seat, Mail

LEMMA RetriesSet ==
  ASSUME NEW s \in ClientType, NEW v \in [Partitions -> [from : Int, due : BOOLEAN]]
  PROVE  LET t == [s EXCEPT !.retries = v] IN
         /\ t \in ClientType /\ t.retries = v /\ Seat(t) = Seat(s) /\ Mail(t) = Mail(s)
         /\ t.workers = s.workers
         /\ t.snapshot = s.snapshot /\ t.late = s.late
         /\ t.pending = s.pending /\ t.admission = s.admission /\ t.progress = s.progress
  BY ZenonT(60) DEF ClientType, Seat, Mail

LEMMA PendingSet ==
  ASSUME NEW s \in ClientType, NEW v \in [Partitions -> JobType]
  PROVE  LET t == [s EXCEPT !.pending = v] IN
         /\ t \in ClientType /\ t.pending = v /\ Seat(t) = Seat(s) /\ Mail(t) = Mail(s)
         /\ t.workers = s.workers
         /\ t.snapshot = s.snapshot /\ t.late = s.late
         /\ t.retries = s.retries /\ t.admission = s.admission /\ t.progress = s.progress
  BY ZenonT(60) DEF ClientType, Seat, Mail

LEMMA AdmissionSet ==
  ASSUME NEW s \in ClientType, NEW v \in [Partitions -> JobType]
  PROVE  LET t == [s EXCEPT !.admission = v] IN
         /\ t \in ClientType /\ t.admission = v /\ Seat(t) = Seat(s) /\ Mail(t) = Mail(s)
         /\ t.workers = s.workers
         /\ t.snapshot = s.snapshot /\ t.late = s.late
         /\ t.retries = s.retries /\ t.pending = s.pending /\ t.progress = s.progress
  BY ZenonT(60) DEF ClientType, Seat, Mail

LEMMA DeferredSet ==
  ASSUME NEW s \in ClientType, NEW b \in BOOLEAN
  PROVE  LET t == [s EXCEPT !.deferred = b] IN
         /\ t \in ClientType /\ t.deferred = b /\ Tab(t) = Tab(s) /\ Mail(t) = Mail(s)
         /\ t.workers = s.workers
         /\ t.assigned = s.assigned /\ t.pos = s.pos /\ t.rows = s.rows /\ t.paused = s.paused
  BY ZenonT(60) DEF ClientType, Tab, Mail

LEMMA MailboxSet ==
  ASSUME NEW s \in ClientType, NEW e \in EventType
  PROVE  LET t == [s EXCEPT !.mailbox = e] IN
         /\ t \in ClientType /\ t.mailbox = e /\ Tab(t) = Tab(s) /\ Seat(t) = Seat(s)
         /\ t.workers = s.workers /\ t.lost = s.lost /\ t.epochs = s.epochs /\ t.epoch = s.epoch
         /\ t.assignment = s.assignment
  BY ZenonT(60) DEF ClientType, Tab, Seat

LEMMA SafeRetries ==
  ASSUME NEW W, NEW V, NEW s, NEW X, Safe(W, V, s, X),
         NEW v \in [Partitions -> [from : Int, due : BOOLEAN]],
         \A p \in Partitions : Passed(W, p, v[p].from)
  PROVE  Safe(W, V, [s EXCEPT !.retries = v], X)
  <1> DEFINE t == [s EXCEPT !.retries = v]
  <1>1. /\ t \in ClientType /\ t.retries = v /\ Seat(t) = Seat(s)
        /\ t.snapshot = s.snapshot /\ t.late = s.late
        /\ t.pending = s.pending /\ t.admission = s.admission /\ t.progress = s.progress
    BY RetriesSet DEF Safe
  <1> HIDE DEF t
  <1>2. t.pos = s.pos /\ t.assigned = s.assigned /\ t.deferred = s.deferred
        /\ t.paused = s.paused /\ t.rows = s.rows
    BY <1>1 DEF Seat
  <1>3. Tables(W, t)
    BY <1>1, <1>2 DEF Safe, Tables
  <1> QED BY <1>1, <1>2, <1>3, SafeStands DEF Halted, t

LEMMA SafeWorkers ==
  ASSUME NEW W, NEW V, NEW s, NEW X, Safe(W, V, s, X), NEW v \in SUBSET WorkerType
  PROVE  Safe(W, V, [s EXCEPT !.workers = v], X)
  <1> DEFINE t == [s EXCEPT !.workers = v]
  <1>1. t \in ClientType /\ Tab(t) = Tab(s) /\ Seat(t) = Seat(s)
    BY WorkersSet DEF Safe
  <1> HIDE DEF t
  <1> QED BY <1>1, SafeSame DEF t

LEMMA SafePending ==
  ASSUME NEW W, NEW V, NEW s, NEW X, Safe(W, V, s, X),
         NEW v \in [Partitions -> JobType],
         \A p \in Partitions : v[p].offset # Nowhere => Reached(W, p, v[p].offset)
  PROVE  Safe(W, V, [s EXCEPT !.pending = v], X)
  <1> DEFINE t == [s EXCEPT !.pending = v]
  <1>1. /\ t \in ClientType /\ t.pending = v /\ Seat(t) = Seat(s)
        /\ t.snapshot = s.snapshot /\ t.late = s.late
        /\ t.retries = s.retries /\ t.admission = s.admission /\ t.progress = s.progress
    BY PendingSet DEF Safe
  <1> HIDE DEF t
  <1>2. t.pos = s.pos /\ t.assigned = s.assigned /\ t.deferred = s.deferred
        /\ t.paused = s.paused /\ t.rows = s.rows
    BY <1>1 DEF Seat
  <1>3. Tables(W, t)
    BY <1>1, <1>2 DEF Safe, Tables
  <1> QED BY <1>1, <1>2, <1>3, SafeStands DEF Halted, t

LEMMA SafeAdmission ==
  ASSUME NEW W, NEW V, NEW s, NEW X, Safe(W, V, s, X),
         NEW v \in [Partitions -> JobType],
         \A p \in Partitions : v[p].offset # Nowhere => Reached(W, p, v[p].offset)
  PROVE  Safe(W, V, [s EXCEPT !.admission = v], X)
  <1> DEFINE t == [s EXCEPT !.admission = v]
  <1>1. /\ t \in ClientType /\ t.admission = v /\ Seat(t) = Seat(s)
        /\ t.snapshot = s.snapshot /\ t.late = s.late
        /\ t.retries = s.retries /\ t.pending = s.pending /\ t.progress = s.progress
    BY AdmissionSet DEF Safe
  <1> HIDE DEF t
  <1>2. t.pos = s.pos /\ t.assigned = s.assigned /\ t.deferred = s.deferred
        /\ t.paused = s.paused /\ t.rows = s.rows
    BY <1>1 DEF Seat
  <1>3. Tables(W, t)
    BY <1>1, <1>2 DEF Safe, Tables
  <1> QED BY <1>1, <1>2, <1>3, SafeStands DEF Halted, t

LEMMA LedgerDoes ==
  ASSUME NEW s \in ClientType, NEW S
  PROVE  LET t == ClearRecords(s, S) IN
         /\ t \in ClientType /\ Tab(t) = Tab(s) /\ Seat(t) = Seat(s) /\ Mail(t) = Mail(s)
         /\ t.workers = s.workers
  <1> DEFINE i == {x \in s.intent : x[1] \notin S}
             e == [p \in Partitions |-> IF p \in S THEN Nowhere ELSE s.expect[p]]
             t == [s EXCEPT !.intent = i, !.expect = e]
  <1>1. i \in SUBSET (Partitions \X Int) /\ e \in OffsetsType
    BY Named DEF ClientType, OffsetsType
  <1>2. ClearRecords(s, S) = t
    BY DEF ClearRecords
  <1>3. t \in ClientType /\ Tab(t) = Tab(s) /\ Seat(t) = Seat(s) /\ Mail(t) = Mail(s)
        /\ t.workers = s.workers
    <2> HIDE DEF i, e
    <2> QED BY <1>1, LedgerSet
  <1> HIDE DEF t
  <1> QED BY <1>2, <1>3

LEMMA SafeLedger ==
  ASSUME NEW W, NEW V, NEW s, NEW X, Safe(W, V, s, X), NEW S
  PROVE  Safe(W, V, ClearRecords(s, S), X)
  <1>1. s \in ClientType
    BY DEF Safe
  <1> QED BY <1>1, LedgerDoes, SafeSame

Cancelled(s, w) ==
  [w EXCEPT !.cancel = w.cancel \/ (/\ w.live
                                   /\ s.pending[w.tp].offset = w.offset
                                   /\ s.pending[w.tp].epoch = w.epoch)]

LEMMA CancelledIs ==
  ASSUME NEW s \in ClientType, NEW w \in s.workers
  PROVE  /\ Cancelled(s, w) \in WorkerType
         /\ Cancelled(s, w).live = w.live /\ Cancelled(s, w).epoch = w.epoch /\ Cancelled(s, w).tp = w.tp
  <1>1. w \in WorkerType
    BY DEF ClientType
  <1> DEFINE b == w.cancel \/ (/\ w.live
                               /\ s.pending[w.tp].offset = w.offset
                               /\ s.pending[w.tp].epoch = w.epoch)
  <1>2. b \in BOOLEAN
    OBVIOUS
  <1>3. Cancelled(s, w) = [w EXCEPT !.cancel = b]
    BY DEF Cancelled
  <1> HIDE DEF b
  <1> QED BY <1>1, <1>2, <1>3 DEF WorkerType

LEMMA CancelDoes ==
  ASSUME NEW s \in ClientType
  PROVE  LET t == CancelPending(s) IN
         /\ t \in ClientType /\ t.pending = [p \in Partitions |-> NoJob]
         /\ t.workers = {Cancelled(s, w) : w \in s.workers}
         /\ Seat(t) = Seat(s) /\ Mail(t) = Mail(s)
         /\ t.snapshot = s.snapshot /\ t.late = s.late
         /\ t.retries = s.retries /\ t.admission = s.admission /\ t.progress = s.progress
  <1> DEFINE w == {Cancelled(s, x) : x \in s.workers}
             v == [p \in Partitions |-> NoJob]
             u == [s EXCEPT !.workers = w]
             t == [u EXCEPT !.pending = v]
  <1>1. w \in SUBSET WorkerType /\ v \in [Partitions -> JobType]
    BY CancelledIs, Named
  <1>2. CancelPending(s) = t
    BY DEF CancelPending, Cancelled
  <1> HIDE DEF w, v
  <1>3. u \in ClientType /\ Tab(u) = Tab(s) /\ Seat(u) = Seat(s) /\ Mail(u) = Mail(s) /\ u.workers = w
    BY <1>1, WorkersSet
  <1> HIDE DEF u
  <1>4. /\ t \in ClientType /\ t.pending = v /\ Seat(t) = Seat(u) /\ Mail(t) = Mail(u)
        /\ t.workers = u.workers
        /\ t.snapshot = u.snapshot /\ t.late = u.late
        /\ t.retries = u.retries /\ t.admission = u.admission /\ t.progress = u.progress
    BY <1>1, <1>3, PendingSet
  <1> HIDE DEF t
  <1> QED BY <1>2, <1>3, <1>4 DEF Tab, w, v

LEMMA SafeCancel ==
  ASSUME NEW W, NEW V, NEW s, NEW X, Safe(W, V, s, X)
  PROVE  Safe(W, V, CancelPending(s), X)
  <1> DEFINE t == CancelPending(s)
  <1>1. /\ t \in ClientType /\ t.pending = [p \in Partitions |-> NoJob] /\ Seat(t) = Seat(s)
        /\ t.snapshot = s.snapshot /\ t.late = s.late
        /\ t.retries = s.retries /\ t.admission = s.admission /\ t.progress = s.progress
    BY CancelDoes DEF Safe
  <1> HIDE DEF t
  <1>2. t.pos = s.pos /\ t.assigned = s.assigned /\ t.deferred = s.deferred
        /\ t.paused = s.paused /\ t.rows = s.rows
    BY <1>1 DEF Seat
  <1>3. \A p \in Partitions : t.pending[p].offset = Nowhere
    BY <1>1, Named
  <1>4. Tables(W, t)
    BY <1>1, <1>2, <1>3 DEF Safe, Tables
  <1> QED BY <1>1, <1>2, <1>4, SafeStands DEF Halted, t

-----------------------------------------------------------------------------
(* An assignment is applied.                                               *)
WorldPassed(W) ==
  /\ committed \in [Partitions -> Nat]
  /\ \A p \in Partitions : Passed(W, p, committed[p])

LEMMA RetriesType ==
  ASSUME NEW s \in ClientType
  PROVE  /\ s.retries \in [Partitions -> [from : Int, due : BOOLEAN]]
         /\ s.pending \in [Partitions -> JobType] /\ s.admission \in [Partitions -> JobType]
         /\ s.assigned \subseteq Partitions /\ s.paused \subseteq Partitions
         /\ s.rows \subseteq Partitions \X Reasons /\ s.workers \subseteq WorkerType
         /\ s.pos \in [Partitions -> Nat] /\ s.mailbox \in EventType /\ s.deferred \in BOOLEAN
         /\ s.epoch \in Nat /\ s.epochs \in Nat /\ s.lost \in BOOLEAN
         /\ s.snapshot \in OffsetsType /\ s.late \in OffsetsType
         /\ s.intent \in SUBSET (Partitions \X Int) /\ s.expect \in OffsetsType
         /\ s.attempts \in [Partitions -> [Offsets -> Nat]] /\ s.ready \in {"no", "due", "yes"}
         /\ s.assignment \subseteq Partitions
  BY DEF ClientType

(* Up to the pauses that are put back: everything is rewound, and only the *)
(* halted partitions are paused.                                           *)
Primed(s, event) ==
  Rewind([s EXCEPT !.assignment = event.parts, !.epoch = event.epoch, !.ready = "due"],
         [p \in Partitions |-> IF p \in event.parts THEN committed[p] ELSE Nowhere])
FreshFor(s, event) ==
  PublishCommitSnapshot(ClearRecords(ResetForAssignment(Primed(s, event), event.parts), Partitions))
HaltedRows(s, S) == {row \in s.rows : row[1] \in S /\ row[2] = "halt"}
Rowed(s, event) ==
  LET fresh == FreshFor(s, event)
      halted == HaltedRows(fresh, event.parts)
  IN  Pause([Resume(fresh, event.parts) EXCEPT !.rows = halted], {row[1] : row \in halted})

LEMMA PrimedDoes ==
  ASSUME NEW W, WorldPassed(W), NEW s \in ClientType, Tables(W, s), NEW event \in EventType,
         event.parts = s.assigned
  PROVE  LET t == Primed(s, event) IN
         /\ t \in ClientType /\ Tables(W, t)
         /\ \A p \in t.assigned : Passed(W, p, t.pos[p])
         /\ t.assigned = s.assigned /\ t.deferred = s.deferred /\ t.rows = s.rows /\ t.paused = s.paused
         /\ t.retries = s.retries /\ t.pending = s.pending /\ t.workers = s.workers /\ t.late = s.late
         /\ t.assignment = event.parts /\ t.epoch = event.epoch
         /\ t.lost = s.lost /\ t.mailbox = s.mailbox /\ t.epochs = s.epochs
  <1> DEFINE S == event.parts
             n == event.epoch
             u == [s EXCEPT !.assignment = S, !.epoch = n, !.ready = "due"]
             at == [p \in Partitions |-> IF p \in S THEN committed[p] ELSE Nowhere]
             t == Rewind(u, at)
  <1>0. S \in SUBSET Partitions /\ n \in Nat /\ S = s.assigned
    BY DEF EventType
  <1>1. /\ u \in ClientType /\ Tab(u) = Tab(s) /\ Seat(u) = Seat(s) /\ u.workers = s.workers
        /\ u.assignment = S /\ u.epoch = n
        /\ u.lost = s.lost /\ u.mailbox = s.mailbox /\ u.epochs = s.epochs
    <2> HIDE DEF S, n
    <2> QED BY ZenonT(60), <1>0 DEF ClientType, Tab, Seat
  <1>2. at \in OffsetsType /\ (\A p \in Partitions : Passed(W, p, at[p]) /\ at[p] >= -1)
        /\ \A p \in S : at[p] = committed[p] /\ at[p] # -1
    BY <1>0, NothingPassed, Named DEF WorldPassed, OffsetsType
  <1> HIDE DEF at, u
  <1>3. /\ t \in ClientType
        /\ \A p \in Partitions :
              t.pos[p] = IF p \in u.assigned /\ at[p] # -1 THEN at[p] ELSE u.pos[p]
        /\ Tab(t) = Tab(u) /\ Mail(t) = Mail(u) /\ t.workers = u.workers
        /\ t.assigned = u.assigned /\ t.paused = u.paused /\ t.rows = u.rows /\ t.deferred = u.deferred
    BY <1>1, <1>2, RewindDoes
  <1>4. u.assigned = s.assigned /\ u.paused = s.paused /\ u.pos = s.pos /\ u.rows = s.rows /\ u.deferred = s.deferred
    BY <1>1 DEF Seat
  <1>5. /\ t.snapshot = s.snapshot /\ t.late = s.late /\ t.retries = s.retries
        /\ t.pending = s.pending /\ t.admission = s.admission /\ t.progress = s.progress
    BY <1>1, <1>3 DEF Tab
  <1>6. /\ t.assignment = event.parts /\ t.epoch = event.epoch
        /\ t.lost = s.lost /\ t.mailbox = s.mailbox /\ t.epochs = s.epochs
    BY <1>1, <1>3 DEF Mail
  <1> HIDE DEF t
  <1>7. \A p \in Partitions : t.pos[p] <= Records[p]
    <2> SUFFICES ASSUME NEW p \in Partitions PROVE t.pos[p] <= Records[p]
      OBVIOUS
    <2>1. at[p] <= Records[p] /\ s.pos[p] <= Records[p]
      BY <1>2, Named DEF Tables, Passed
    <2> QED BY <1>3, <1>4, <2>1
  <1>8. Tables(W, t)
    BY <1>5, <1>7 DEF Tables
  <1>9. ASSUME NEW p \in t.assigned PROVE Passed(W, p, t.pos[p])
    BY <1>0, <1>2, <1>3, <1>4
  <1>10. Primed(s, event) = t
    BY DEF Primed, t, u, at
  <1> QED BY <1>1, <1>3, <1>4, <1>5, <1>6, <1>8, <1>9, <1>10

LEMMA FreshDoes ==
  ASSUME NEW W, WorldPassed(W), NEW s \in ClientType, Tables(W, s), NEW event \in EventType,
         event.parts = s.assigned
  PROVE  LET t == FreshFor(s, event) IN
         /\ t \in ClientType /\ Tables(W, t)
         /\ \A p \in t.assigned : Passed(W, p, t.pos[p])
         /\ t.assigned = s.assigned /\ t.deferred = s.deferred /\ t.rows = s.rows /\ t.paused = s.paused
         /\ t.retries = s.retries /\ t.pending = s.pending /\ t.workers = s.workers /\ t.late = s.late
         /\ t.assignment = event.parts /\ t.epoch = event.epoch
         /\ t.lost = s.lost /\ t.mailbox = s.mailbox /\ t.epochs = s.epochs
  <1> DEFINE a == Primed(s, event)
             b == ResetForAssignment(a, event.parts)
             d == ClearRecords(b, Partitions)
             t == PublishCommitSnapshot(d)
  <1>1. /\ a \in ClientType /\ Tables(W, a)
        /\ \A p \in a.assigned : Passed(W, p, a.pos[p])
        /\ a.assigned = s.assigned /\ a.deferred = s.deferred /\ a.rows = s.rows /\ a.paused = s.paused
        /\ a.retries = s.retries /\ a.pending = s.pending /\ a.workers = s.workers /\ a.late = s.late
        /\ a.assignment = event.parts /\ a.epoch = event.epoch
        /\ a.lost = s.lost /\ a.mailbox = s.mailbox /\ a.epochs = s.epochs
    BY PrimedDoes
  <1> HIDE DEF a
  <1>2. Trimmed(a, b)
    BY <1>1, ResetForDoes
  <1> HIDE DEF b
  <1>3. b \in ClientType /\ Tables(W, b)
    BY <1>1, <1>2, TablesTrimmed DEF Trimmed
  <1>4. d \in ClientType /\ Tab(d) = Tab(b) /\ Seat(d) = Seat(b) /\ Mail(d) = Mail(b) /\ d.workers = b.workers
    BY <1>3, LedgerDoes
  <1> HIDE DEF d
  <1>5. Tables(W, d)
    BY <1>3, <1>4, TablesSame DEF Seat
  <1>6. /\ t \in ClientType /\ Tables(W, t)
        /\ Seat(t) = Seat(d) /\ Mail(t) = Mail(d) /\ t.workers = d.workers
        /\ t.progress = d.progress /\ t.late = d.late /\ t.retries = d.retries
        /\ t.pending = d.pending /\ t.admission = d.admission
    BY <1>4, <1>5, PublishSnapshotDoes
  <1> HIDE DEF t
  <1>7. /\ t.assigned = a.assigned /\ t.deferred = a.deferred /\ t.rows = a.rows /\ t.paused = a.paused
        /\ t.pos = a.pos
    BY <1>2, <1>4, <1>6 DEF Trimmed, Seat
  <1>8. t.retries = a.retries /\ t.pending = a.pending /\ t.workers = a.workers /\ t.late = a.late
    BY <1>2, <1>4, <1>6 DEF Trimmed, Tab
  <1>9. /\ t.assignment = a.assignment /\ t.epoch = a.epoch
        /\ t.lost = a.lost /\ t.mailbox = a.mailbox /\ t.epochs = a.epochs
    BY <1>2, <1>4, <1>6 DEF Trimmed, Mail
  <1>10. FreshFor(s, event) = t
    BY DEF FreshFor, t, d, b, a
  <1> QED BY <1>1, <1>6, <1>7, <1>8, <1>9, <1>10

LEMMA RowedDoes ==
  ASSUME NEW W, WorldPassed(W), NEW s \in ClientType, Tables(W, s), NEW event \in EventType,
         event.parts = s.assigned
  PROVE  LET t == Rowed(s, event) IN
         /\ t \in ClientType /\ Tables(W, t)
         /\ \A p \in t.assigned : Passed(W, p, t.pos[p])
         /\ t.assigned = s.assigned /\ t.deferred = s.deferred
         /\ t.rows = HaltedRows(s, s.assigned)
         /\ \A p \in t.assigned \cap t.paused : <<p, "halt">> \in t.rows
         /\ t.retries = s.retries /\ t.pending = s.pending /\ t.workers = s.workers /\ t.late = s.late
         /\ t.assignment = event.parts /\ t.epoch = event.epoch
         /\ t.lost = s.lost /\ t.mailbox = s.mailbox /\ t.epochs = s.epochs
  <1> DEFINE S == event.parts
             a == FreshFor(s, event)
             h == HaltedRows(a, S)
             b == Resume(a, S)
             d == [b EXCEPT !.rows = h]
             P == {row[1] : row \in h}
             t == Pause(d, P)
  <1>1. /\ a \in ClientType /\ Tables(W, a)
        /\ \A p \in a.assigned : Passed(W, p, a.pos[p])
        /\ a.assigned = s.assigned /\ a.deferred = s.deferred /\ a.rows = s.rows /\ a.paused = s.paused
        /\ a.retries = s.retries /\ a.pending = s.pending /\ a.workers = s.workers /\ a.late = s.late
        /\ a.assignment = event.parts /\ a.epoch = event.epoch
        /\ a.lost = s.lost /\ a.mailbox = s.mailbox /\ a.epochs = s.epochs
    BY FreshDoes
  <1> HIDE DEF a
  <1>2. h \in SUBSET (Partitions \X Reasons) /\ P \in SUBSET Partitions /\ h = HaltedRows(s, s.assigned)
        /\ \A p \in P : <<p, "halt">> \in h
    <2>1. a.rows \subseteq Partitions \X Reasons
      BY <1>1, RetriesType
    <2>2. h \in SUBSET (Partitions \X Reasons) /\ h = HaltedRows(s, s.assigned)
      BY <1>1, <2>1 DEF HaltedRows
    <2>3. ASSUME NEW row \in h PROVE row[1] \in Partitions /\ <<row[1], "halt">> \in h
      <3>1. row \in Partitions \X Reasons /\ row[2] = "halt"
        BY <2>2 DEF HaltedRows
      <3>2. row = <<row[1], "halt">> /\ row[1] \in Partitions
        BY <3>1
      <3> QED BY <3>2
    <2> HIDE DEF h
    <2> QED BY <2>2, <2>3
  <1>3. /\ b \in ClientType /\ b.paused = a.paused \ S
        /\ Tab(b) = Tab(a) /\ Mail(b) = Mail(a) /\ b.workers = a.workers
        /\ b.assigned = a.assigned /\ b.pos = a.pos /\ b.rows = a.rows /\ b.deferred = a.deferred
    BY <1>1, ResumeDoes
  <1> HIDE DEF b, h, P
  <1>4. /\ d \in ClientType /\ d.rows = h
        /\ Tab(d) = Tab(b) /\ Mail(d) = Mail(b) /\ d.workers = b.workers
        /\ d.assigned = b.assigned /\ d.pos = b.pos /\ d.paused = b.paused /\ d.deferred = b.deferred
    BY <1>2, <1>3, RowsSet
  <1> HIDE DEF d
  <1>5. /\ t \in ClientType /\ t.paused = d.paused \cup P
        /\ Tab(t) = Tab(d) /\ Mail(t) = Mail(d) /\ t.workers = d.workers
        /\ t.assigned = d.assigned /\ t.pos = d.pos /\ t.rows = d.rows /\ t.deferred = d.deferred
    BY <1>2, <1>4, PauseDoes
  <1> HIDE DEF t
  <1>6. Tab(t) = Tab(a) /\ t.pos = a.pos /\ Mail(t) = Mail(a)
    BY <1>3, <1>4, <1>5
  <1>7. Tables(W, t)
    BY <1>1, <1>6, TablesSame
  <1>8. t.retries = a.retries /\ t.pending = a.pending /\ t.late = a.late
    BY <1>6 DEF Tab
  <1>9. /\ t.assignment = a.assignment /\ t.epoch = a.epoch
        /\ t.lost = a.lost /\ t.mailbox = a.mailbox /\ t.epochs = a.epochs
    BY <1>6 DEF Mail
  <1>10. Rowed(s, event) = t
    BY DEF Rowed, t, d, b, h, P, a
  <1>11. \A p \in t.assigned \cap t.paused : <<p, "halt">> \in t.rows
    BY <1>1, <1>2, <1>3, <1>4, <1>5
  <1> QED BY <1>1, <1>2, <1>3, <1>4, <1>5, <1>6, <1>7, <1>8, <1>9, <1>10, <1>11

(* The workers that are left when the pending dead letters are cancelled:  *)
(* the same tasks, some with their flag set.                               *)
SameTasks(A, B) ==
  \E r \in ClientType : A = {Cancelled(r, w) : w \in B} /\ r.workers = B

Unsent(s) == /\ s.pending = [p \in Partitions |-> NoJob]
             /\ s.admission = [p \in Partitions |-> NoJob]

LEMMA AssignedDoes ==
  ASSUME NEW W, WorldPassed(W), NEW s \in ClientType, Tables(W, s), NEW event \in EventType,
         event.parts = s.assigned
  PROVE  LET t == Assigned(s, event) IN
         /\ Safe(W, W, t, {}) /\ Unsent(t) /\ SameTasks(t.workers, s.workers)
         /\ t.assigned = s.assigned /\ t.deferred = s.deferred
         /\ t.rows = HaltedRows(s, s.assigned) \cup (Waiting(t) \X {"retry"})
         /\ \A p \in t.assigned \cap t.paused : \E row \in t.rows : row[1] = p
         /\ t.assignment = event.parts /\ t.epoch = event.epoch
         /\ t.lost = s.lost /\ t.mailbox = s.mailbox /\ t.epochs = s.epochs
  <1> DEFINE S == event.parts
             a == Rowed(s, event)
             b == CancelPending(a)
             at == [p \in Partitions |-> IF p \in S THEN b.attempts[p] ELSE [o \in Offsets |-> 0]]
             re == [p \in Partitions |-> IF p \in S THEN b.retries[p] ELSE NoRetry]
             ad == [p \in Partitions |-> NoJob]
             d == [b EXCEPT !.attempts = at, !.retries = re, !.admission = ad]
             B == Waiting(d)
             e == Pause(d, B)
             back == [p \in Partitions |-> d.retries[p].from]
             f == Rewind(e, back)
             t == AddPauseReason(f, B, "retry")
  <1>1. /\ a \in ClientType /\ Tables(W, a)
        /\ \A p \in a.assigned : Passed(W, p, a.pos[p])
        /\ a.assigned = s.assigned /\ a.deferred = s.deferred
        /\ a.rows = HaltedRows(s, s.assigned)
        /\ \A p \in a.assigned \cap a.paused : <<p, "halt">> \in a.rows
        /\ a.retries = s.retries /\ a.pending = s.pending /\ a.workers = s.workers /\ a.late = s.late
        /\ a.assignment = event.parts /\ a.epoch = event.epoch
        /\ a.lost = s.lost /\ a.mailbox = s.mailbox /\ a.epochs = s.epochs
    BY RowedDoes
  <1>2. Assigned(s, event) = t
    BY DEF Assigned, Rowed, FreshFor, Primed, HaltedRows, Keep
  <1> HIDE DEF a
  <1>3. Safe(W, W, a, {})
    BY <1>1 DEF Safe, Standing
  <1>4. /\ b \in ClientType /\ b.pending = [p \in Partitions |-> NoJob]
        /\ b.workers = {Cancelled(a, w) : w \in a.workers}
        /\ Seat(b) = Seat(a) /\ Mail(b) = Mail(a)
        /\ b.snapshot = a.snapshot /\ b.late = a.late
        /\ b.retries = a.retries /\ b.admission = a.admission /\ b.progress = a.progress
    BY <1>1, CancelDoes
  <1>5. Safe(W, W, b, {})
    BY <1>3, SafeCancel
  <1> HIDE DEF b
  <1>6. /\ at \in [Partitions -> [Offsets -> Nat]]
        /\ re \in [Partitions -> [from : Int, due : BOOLEAN]]
        /\ ad \in [Partitions -> JobType]
    BY <1>4, RetriesType, Named
  <1>7. \A p \in Partitions : /\ Passed(W, p, re[p].from)
                              /\ ad[p].offset = Nowhere
    BY <1>5, NothingPassed, Named DEF Safe, Tables
  <1> HIDE DEF at, re, ad
  <1>8. /\ d \in ClientType /\ d.retries = re /\ d.admission = ad /\ d.pending = b.pending
        /\ d.snapshot = b.snapshot /\ d.late = b.late /\ d.progress = b.progress
        /\ Seat(d) = Seat(b) /\ Mail(d) = Mail(b) /\ d.workers = b.workers
    BY ZenonT(60), <1>4, <1>6 DEF ClientType, Seat, Mail
  <1> HIDE DEF d
  <1>9. Safe(W, W, d, {})
    <2>1. d.pos = b.pos /\ d.assigned = b.assigned /\ d.deferred = b.deferred
          /\ d.paused = b.paused /\ d.rows = b.rows
      BY <1>8 DEF Seat
    <2>2. Tables(W, d)
      BY <1>5, <1>7, <1>8, <2>1 DEF Safe, Tables
    <2> QED BY <1>5, <1>8, <2>1, <2>2, SafeStands DEF Halted
  <1>10. B \in SUBSET Partitions
    BY DEF Waiting
  <1>11. Safe(W, W, e, {})
    BY <1>9, <1>10, SafePause
  <1>12. /\ e \in ClientType /\ e.paused = d.paused \cup B
         /\ Tab(e) = Tab(d) /\ Mail(e) = Mail(d) /\ e.workers = d.workers
         /\ e.assigned = d.assigned /\ e.pos = d.pos /\ e.rows = d.rows /\ e.deferred = d.deferred
    BY <1>8, <1>10, PauseDoes
  <1>13. back \in OffsetsType /\ \A p \in Partitions : Passed(W, p, back[p]) /\ back[p] >= -1
    <2>1. \A p \in Partitions : d.retries[p] \in [from : Int, due : BOOLEAN] /\ d.retries[p].from = re[p].from
      BY <1>6, <1>8
    <2>2. \A p \in Partitions : Passed(W, p, back[p])
      BY <1>7, <2>1
    <2> QED BY <2>1, <2>2, Named DEF OffsetsType, Passed
  <1> HIDE DEF e, back, B
  <1>14. /\ f \in ClientType
         /\ Tab(f) = Tab(e) /\ Mail(f) = Mail(e) /\ f.workers = e.workers
         /\ f.assigned = e.assigned /\ f.paused = e.paused /\ f.rows = e.rows /\ f.deferred = e.deferred
    BY <1>12, <1>13, RewindDoes
  <1>15. Safe(W, W, f, {})
    <2>1. Safe(W, W, f, {} \ {p \in Partitions : back[p] # -1})
      BY <1>11, <1>13, SafeRewind
    <2> QED BY <2>1, SafeMore
  <1> HIDE DEF f
  <1>16. /\ t \in ClientType /\ t.rows = f.rows \cup (B \X {"retry"})
         /\ Tab(t) = Tab(f) /\ Mail(t) = Mail(f) /\ t.workers = f.workers
         /\ t.assigned = f.assigned /\ t.pos = f.pos /\ t.paused = f.paused /\ t.deferred = f.deferred
    BY <1>10, <1>14, AddDoes DEF Reasons
  <1>17. Safe(W, W, t, {})
    BY <1>10, <1>15, SafeAdd DEF Reasons
  <1> HIDE DEF t
  <1>18. t.retries = d.retries /\ t.pending = d.pending /\ t.admission = d.admission
    BY <1>12, <1>14, <1>16 DEF Tab
  <1>19. Waiting(t) = B
    BY <1>18 DEF Waiting, B
  <1>20. Unsent(t)
    BY <1>4, <1>8, <1>18 DEF Unsent, ad
  <1>21. SameTasks(t.workers, s.workers)
    BY <1>1, <1>4, <1>8, <1>12, <1>14, <1>16 DEF SameTasks
  <1>22. /\ t.assignment = a.assignment /\ t.epoch = a.epoch
         /\ t.lost = a.lost /\ t.mailbox = a.mailbox /\ t.epochs = a.epochs
    BY <1>4, <1>8, <1>12, <1>14, <1>16 DEF Mail
  <1>23. d.assigned = a.assigned /\ d.paused = a.paused /\ d.rows = a.rows /\ d.deferred = a.deferred
    BY <1>4, <1>8 DEF Seat
  <1>24. t.assigned = s.assigned /\ t.deferred = s.deferred
         /\ t.rows = HaltedRows(s, s.assigned) \cup (B \X {"retry"})
         /\ t.paused = a.paused \cup B
    BY <1>1, <1>12, <1>14, <1>16, <1>23
  <1>25. ASSUME NEW p \in t.assigned \cap t.paused PROVE \E row \in t.rows : row[1] = p
    <2>1. CASE p \in B
      <3>1. <<p, "retry">> \in t.rows
        BY <1>24, <2>1
      <3> QED BY <3>1
    <2>2. CASE p \notin B
      <3>1. <<p, "halt">> \in t.rows
        BY <1>1, <1>24, <2>2
      <3> QED BY <3>1
    <2> QED BY <2>1, <2>2
  <1> QED BY <1>1, <1>2, <1>17, <1>19, <1>20, <1>21, <1>22, <1>24, <1>25

-----------------------------------------------------------------------------
(* A revoke is applied.                                                    *)
LEMMA JobOffset ==
  ASSUME NEW W, NEW s \in ClientType, Tables(W, s), NEW p \in Partitions
  PROVE  /\ s.pending[p].offset \in Int /\ Passed(W, p, s.pending[p].offset)
         /\ s.admission[p].offset \in Int /\ Passed(W, p, s.admission[p].offset)
         /\ s.retries[p].from \in Int /\ Passed(W, p, s.retries[p].from)
         /\ s.pending[p].epoch \in Nat /\ s.admission[p].epoch \in Nat
  <1>1. s.pending[p] \in JobType /\ s.admission[p] \in JobType /\ s.retries[p] \in [from : Int, due : BOOLEAN]
    BY RetriesType
  <1> QED BY <1>1, NothingPassed, Named DEF JobType, Tables, Reached

LEMMA RevokedSafe ==
  ASSUME NEW W, NEW s, NEW X, Safe(W, W, s, X), NEW event \in EventType
  PROVE  LET t == Revoked(s, event) IN
         /\ Safe(W, W, t, X) /\ Unsent(t) /\ SameTasks(t.workers, s.workers)
         /\ t.assigned = s.assigned /\ t.deferred = s.deferred
         /\ t.epoch = event.epoch
         /\ t.lost = s.lost /\ t.mailbox = s.mailbox /\ t.epochs = s.epochs
  <1> DEFINE R == event.parts
             n == event.epoch
             as == s.assignment \ R
             a == [s EXCEPT !.assignment = as]
             b == ConfirmCommitted(a, event.committed)
             r == ResetPartitions(b, R)
             l == ClearRecords(r, R)
             d == PublishCommitSnapshot(l)
             at == [p \in Partitions |-> IF p \in Partitions \ R THEN d.attempts[p] ELSE [o \in Offsets |-> 0]]
             re == [p \in Partitions |-> IF p \in Partitions \ R THEN d.retries[p] ELSE NoRetry]
             k == [d EXCEPT !.attempts = at, !.retries = re]
             First(p) == IF k.pending[p].offset # Nowhere THEN k.pending[p].offset
                                                          ELSE k.admission[p].offset
             back == [p \in Partitions |-> IF p \in R THEN Nowhere ELSE First(p)]
             ex == [p \in Partitions |-> IF <<p, back[p]>> \in k.intent THEN back[p] ELSE k.expect[p]]
             x == [k EXCEPT !.expect = ex]
             y == CancelPending(x)
             ad == [p \in Partitions |-> NoJob]
             z == [y EXCEPT !.admission = ad]
             rw == Rewind(z, back)
             open == ClearAndResume(rw, rw.assignment, {"dlt", "degraded", "envelope"})
             C == {p \in open.assignment : <<p, "commit">> \in open.rows}
             clear == ClearAndResume(open, C, {"commit"})
             ro == {row \in clear.rows : row[1] \notin R \/ row[2] = "halt"}
             ry == IF clear.assignment = {} THEN "no" ELSE "due"
             t == [clear EXCEPT !.rows = ro, !.epoch = n, !.ready = ry]
  <1>0. /\ R \in SUBSET Partitions /\ n \in Nat /\ event.committed \in OffsetsType
        /\ s \in ClientType /\ as \in SUBSET Partitions
    BY RetriesType DEF EventType, Safe
  <1>1. Revoked(s, event) = t
    BY DEF Revoked, Keep
  <1> HIDE DEF as, n
  <1>2. /\ a \in ClientType /\ Tab(a) = Tab(s) /\ Seat(a) = Seat(s) /\ a.workers = s.workers
        /\ a.lost = s.lost /\ a.mailbox = s.mailbox /\ a.epochs = s.epochs /\ a.epoch = s.epoch
    BY ZenonT(60), <1>0 DEF ClientType, Tab, Seat
  <1> HIDE DEF a
  <1>3. Safe(W, W, a, X)
    BY <1>2, SafeSame
  <1>4. Trimmed(a, b)
    BY <1>0, <1>2, ConfirmDoes
  <1> HIDE DEF b
  <1>5. Safe(W, W, b, X) /\ b \in ClientType
    BY <1>3, <1>4, SafeTrim DEF Safe
  <1>6. Trimmed(b, r)
    BY <1>5, ResetDoes
  <1> HIDE DEF r
  <1>7. Safe(W, W, r, X) /\ r \in ClientType
    BY <1>5, <1>6, SafeTrim DEF Safe
  <1>8. l \in ClientType /\ Tab(l) = Tab(r) /\ Seat(l) = Seat(r) /\ Mail(l) = Mail(r) /\ l.workers = r.workers
    BY <1>7, LedgerDoes
  <1>9. Safe(W, W, l, X)
    BY <1>7, SafeLedger
  <1> HIDE DEF l
  <1>10. Safe(W, W, d, X)
    BY <1>9, SafeSnapshot
  <1>11. d \in ClientType /\ Seat(d) = Seat(l) /\ Mail(d) = Mail(l) /\ d.workers = l.workers
    BY <1>9, PublishSnapshotDoes DEF Safe
  <1> HIDE DEF d
  <1>12. /\ at \in [Partitions -> [Offsets -> Nat]]
         /\ re \in [Partitions -> [from : Int, due : BOOLEAN]]
    BY <1>11, RetriesType, Named
  <1>13. \A p \in Partitions : Passed(W, p, re[p].from)
    BY <1>10, NothingPassed, Named DEF Safe, Tables
  <1> HIDE DEF at, re
  <1>14. /\ k \in ClientType /\ k.retries = re /\ k.admission = d.admission /\ k.pending = d.pending
         /\ k.snapshot = d.snapshot /\ k.late = d.late /\ k.progress = d.progress
         /\ Seat(k) = Seat(d) /\ Mail(k) = Mail(d) /\ k.workers = d.workers
    BY ZenonT(60), <1>11, <1>12 DEF ClientType, Seat, Mail
  <1> HIDE DEF k
  <1>15. Safe(W, W, k, X)
    <2>1. k.pos = d.pos /\ k.assigned = d.assigned /\ k.deferred = d.deferred
          /\ k.paused = d.paused /\ k.rows = d.rows
      BY <1>14 DEF Seat
    <2>2. Tables(W, k)
      BY <1>10, <1>13, <1>14, <2>1 DEF Safe, Tables
    <2> QED BY <1>10, <1>14, <2>1, <2>2, SafeStands DEF Halted
  <1>16. /\ back \in OffsetsType
         /\ \A p \in Partitions : Passed(W, p, back[p])
         /\ \A p \in Partitions : back[p] >= -1
    <2>1. \A p \in Partitions : First(p) \in Int /\ Passed(W, p, First(p))
      BY <1>14, <1>15, JobOffset DEF Safe
    <2>2. \A p \in Partitions : Passed(W, p, back[p])
      <3> HIDE DEF First
      <3> QED BY <2>1, NothingPassed, Named
    <2> HIDE DEF First
    <2> QED BY <2>1, <2>2, Named DEF OffsetsType, Passed
  <1> HIDE DEF back
  <1>17. ex \in OffsetsType
    BY <1>14, <1>16, RetriesType DEF OffsetsType
  <1> HIDE DEF ex
  <1>18. x \in ClientType /\ Tab(x) = Tab(k) /\ Seat(x) = Seat(k) /\ Mail(x) = Mail(k) /\ x.workers = k.workers
    BY <1>14, <1>17, ExpectSet
  <1> HIDE DEF x
  <1>19. Safe(W, W, x, X)
    BY <1>15, <1>18, SafeSame
  <1>20. /\ y \in ClientType /\ y.pending = [p \in Partitions |-> NoJob]
         /\ y.workers = {Cancelled(x, w) : w \in x.workers}
         /\ Seat(y) = Seat(x) /\ Mail(y) = Mail(x)
    BY <1>18, CancelDoes
  <1>21. Safe(W, W, y, X)
    BY <1>19, SafeCancel
  <1> HIDE DEF y
  <1>22. ad \in [Partitions -> JobType] /\ \A p \in Partitions : ad[p].offset = Nowhere
    BY Named
  <1> HIDE DEF ad
  <1>23. /\ z \in ClientType /\ z.admission = ad /\ Seat(z) = Seat(y) /\ Mail(z) = Mail(y)
         /\ z.workers = y.workers /\ z.pending = y.pending
    BY <1>20, <1>22, AdmissionSet
  <1>24. Safe(W, W, z, X)
    BY <1>21, <1>22, SafeAdmission
  <1> HIDE DEF z
  <1>25. /\ rw \in ClientType
         /\ Tab(rw) = Tab(z) /\ Mail(rw) = Mail(z) /\ rw.workers = z.workers
         /\ rw.assigned = z.assigned /\ rw.deferred = z.deferred
    BY <1>16, <1>23, RewindDoes
  <1>26. Safe(W, W, rw, X)
    <2>1. Safe(W, W, rw, X \ {p \in Partitions : back[p] # -1})
      BY <1>16, <1>24, SafeRewind
    <2> QED BY <2>1, SafeMore
  <1> HIDE DEF rw
  <1>27. /\ open \in ClientType
         /\ Tab(open) = Tab(rw) /\ Mail(open) = Mail(rw) /\ open.workers = rw.workers
         /\ open.assigned = rw.assigned /\ open.deferred = rw.deferred
    BY <1>25, ClearDoes
  <1>28. Safe(W, W, open, X)
    BY <1>26, SafeClear
  <1> HIDE DEF open
  <1>29. /\ clear \in ClientType
         /\ Tab(clear) = Tab(open) /\ Mail(clear) = Mail(open) /\ clear.workers = open.workers
         /\ clear.assigned = open.assigned /\ clear.deferred = open.deferred
    BY <1>27, ClearDoes
  <1>30. Safe(W, W, clear, X)
    BY <1>28, SafeClear
  <1> HIDE DEF clear
  <1>31. ro \in SUBSET (Partitions \X Reasons) /\ ry \in {"no", "due", "yes"}
         /\ \A p : <<p, "halt">> \in clear.rows => <<p, "halt">> \in ro
    <2>1. clear.rows \subseteq Partitions \X Reasons
      BY <1>29, RetriesType
    <2> QED BY <2>1
  <1> HIDE DEF ro, ry
  <1>32. /\ t \in ClientType /\ t.rows = ro /\ t.epoch = n
         /\ Tab(t) = Tab(clear) /\ t.workers = clear.workers
         /\ t.assigned = clear.assigned /\ t.deferred = clear.deferred
         /\ t.pos = clear.pos /\ t.paused = clear.paused
         /\ t.lost = clear.lost /\ t.mailbox = clear.mailbox /\ t.epochs = clear.epochs
    BY ZenonT(60), <1>0, <1>29, <1>31 DEF ClientType, Tab
  <1> HIDE DEF t
  <1>33. Safe(W, W, t, X)
    <2>1. Tables(W, t)
      BY <1>30, <1>32, TablesSame DEF Safe
    <2> QED BY <1>30, <1>31, <1>32, <2>1, SafeStands DEF Halted
  <1>34. Unsent(t)
    BY <1>20, <1>23, <1>25, <1>27, <1>29, <1>32 DEF Unsent, Tab, ad
  <1>35. x.workers = s.workers
    BY <1>2, <1>4, <1>6, <1>8, <1>11, <1>14, <1>18 DEF Trimmed
  <1>36. t.workers = {Cancelled(x, w) : w \in x.workers}
    BY <1>20, <1>23, <1>25, <1>27, <1>29, <1>32
  <1>37. SameTasks(t.workers, s.workers)
    BY <1>18, <1>35, <1>36 DEF SameTasks
  <1>38. Mail(clear) = Mail(a)
    BY <1>4, <1>6, <1>8, <1>11, <1>14, <1>18, <1>20, <1>23, <1>25, <1>27, <1>29 DEF Trimmed
  <1>39. t.lost = s.lost /\ t.mailbox = s.mailbox /\ t.epochs = s.epochs
    BY <1>2, <1>32, <1>38 DEF Mail
  <1>40. Seat(z) = Seat(s)
    BY <1>2, <1>4, <1>6, <1>8, <1>11, <1>14, <1>18, <1>20, <1>23 DEF Trimmed
  <1>41. t.assigned = s.assigned /\ t.deferred = s.deferred
    BY <1>25, <1>27, <1>29, <1>32, <1>40 DEF Seat
  <1> QED BY <1>1, <1>32, <1>33, <1>34, <1>37, <1>39, <1>41 DEF n

(* apply_rebalance.                                                        *)
LEMMA ApplyDoes ==
  ASSUME NEW W, WorldPassed(W), NEW s, NEW X, Safe(W, W, s, X), s.mailbox.kind # "none",
         s.mailbox.kind = "Assigned" => s.mailbox.parts = s.assigned
  PROVE  LET t == ApplyRebalance(s) IN
         /\ Safe(W, W, t, IF s.mailbox.kind = "Assigned" THEN {} ELSE X)
         /\ t.mailbox = NoEvent /\ t.assigned = s.assigned /\ t.deferred = s.deferred
         /\ t.lost = s.lost /\ t.epochs = s.epochs
         /\ \/ /\ s.mailbox.kind = "Error"
               /\ t.epoch = s.epoch /\ Tab(t) = Tab(s) /\ t.workers = s.workers
            \/ /\ t.epoch = s.mailbox.epoch /\ Unsent(t) /\ SameTasks(t.workers, s.workers)
         /\ s.mailbox.kind = "Assigned" =>
              /\ t.rows = HaltedRows(s, s.assigned) \cup (Waiting(t) \X {"retry"})
              /\ \A p \in t.assigned \cap t.paused : \E row \in t.rows : row[1] = p
              /\ t.assignment = s.assigned
  <1> DEFINE e == s.mailbox
             u == [s EXCEPT !.mailbox = NoEvent]
             t == ApplyRebalance(s)
  <1>0. s \in ClientType /\ e \in EventType /\ e.kind \in {"Assigned", "Revoked", "Error"}
    BY RetriesType DEF Safe, EventType
  <1>1. /\ u \in ClientType /\ u.mailbox = NoEvent /\ Tab(u) = Tab(s) /\ Seat(u) = Seat(s)
        /\ u.workers = s.workers /\ u.lost = s.lost /\ u.epochs = s.epochs /\ u.epoch = s.epoch
    BY <1>0, MailboxSet, Named
  <1> HIDE DEF u
  <1>2. u.assigned = s.assigned /\ u.deferred = s.deferred /\ u.rows = s.rows
    BY <1>1 DEF Seat
  <1>3. Safe(W, W, u, X)
    BY <1>1, SafeSame
  <1>4. CASE e.kind = "Assigned"
    <2>1. t = Assigned(u, e)
      BY <1>4 DEF ApplyRebalance, u
    <2>2. e.parts = u.assigned
      BY <1>2, <1>4
    <2>3. LET v == Assigned(u, e) IN
         /\ Safe(W, W, v, {}) /\ Unsent(v) /\ SameTasks(v.workers, u.workers)
         /\ v.assigned = u.assigned /\ v.deferred = u.deferred
         /\ v.rows = HaltedRows(u, u.assigned) \cup (Waiting(v) \X {"retry"})
         /\ \A p \in v.assigned \cap v.paused : \E row \in v.rows : row[1] = p
         /\ v.assignment = e.parts /\ v.epoch = e.epoch
         /\ v.lost = u.lost /\ v.mailbox = u.mailbox /\ v.epochs = u.epochs
      <3>1. Tables(W, u)
        BY <1>3 DEF Safe
      <3> HIDE DEF e
      <3> QED BY <1>0, <1>1, <2>2, <3>1, AssignedDoes
    <2>4. HaltedRows(u, u.assigned) = HaltedRows(s, s.assigned)
      BY <1>2 DEF HaltedRows
    <2> HIDE DEF t
    <2> QED BY <1>1, <1>2, <1>4, <2>1, <2>2, <2>3, <2>4 DEF t
  <1>5. CASE e.kind = "Revoked"
    <2>1. t = Revoked(u, e)
      BY <1>5 DEF ApplyRebalance, u
    <2>2. LET v == Revoked(u, e) IN
         /\ Safe(W, W, v, X) /\ Unsent(v) /\ SameTasks(v.workers, u.workers)
         /\ v.assigned = u.assigned /\ v.deferred = u.deferred
         /\ v.epoch = e.epoch
         /\ v.lost = u.lost /\ v.mailbox = u.mailbox /\ v.epochs = u.epochs
      <3> HIDE DEF e
      <3> QED BY <1>0, <1>3, RevokedSafe
    <2> HIDE DEF t
    <2> QED BY <1>1, <1>2, <1>5, <2>1, <2>2 DEF t
  <1>6. CASE e.kind = "Error"
    <2> DEFINE r == IF u.ready = "due" THEN "no" ELSE u.ready
               v == [u EXCEPT !.ready = r]
    <2>1. t = v
      BY <1>6 DEF ApplyRebalance, u
    <2>2. r \in {"no", "due", "yes"}
      BY <1>1, RetriesType
    <2>3. v \in ClientType /\ Tab(v) = Tab(u) /\ Seat(v) = Seat(u) /\ Mail(v) = Mail(u) /\ v.workers = u.workers
      <3> HIDE DEF r
      <3> QED BY <1>1, <2>2, ReadySet
    <2> HIDE DEF v, t
    <2>4. Safe(W, W, v, X)
      BY <1>3, <2>3, SafeSame
    <2>5. v.assigned = u.assigned /\ v.deferred = u.deferred
      BY <2>3 DEF Seat
    <2>6. v.mailbox = u.mailbox /\ v.lost = u.lost /\ v.epochs = u.epochs /\ v.epoch = u.epoch
      BY <2>3 DEF Mail
    <2> QED BY <1>1, <1>2, <1>6, <2>1, <2>3, <2>4, <2>5, <2>6 DEF t
  <1> QED BY <1>0, <1>4, <1>5, <1>6


-----------------------------------------------------------------------------
(* What most operators leave alone.                                        *)
Calm(s, t) ==
  /\ Mail(t) = Mail(s) /\ t.assigned = s.assigned /\ t.deferred = s.deferred
  /\ t.workers = s.workers

LEMMA CalmTwice ==
  ASSUME NEW r, NEW s, NEW t, Calm(r, s), Calm(s, t)
  PROVE  Calm(r, t)
  BY DEF Calm

LEMMA CalmSeat ==
  ASSUME NEW s, NEW t, Seat(t) = Seat(s), Mail(t) = Mail(s), t.workers = s.workers
  PROVE  Calm(s, t)
  BY DEF Calm, Seat

LEMMA CalmMail ==
  ASSUME NEW s, NEW t, Calm(s, t)
  PROVE  /\ t.mailbox = s.mailbox /\ t.assigned = s.assigned /\ t.deferred = s.deferred
         /\ t.workers = s.workers /\ t.lost = s.lost /\ t.epoch = s.epoch /\ t.epochs = s.epochs
         /\ t.assignment = s.assignment /\ (MailOK(s) => MailOK(t))
  BY DEF Calm, Mail, MailOK

(* The state beside the client and the point of the loop.                  *)
Rest ==
  /\ committed \in [Partitions -> Nat] /\ done \subseteq DoneType
  /\ command \in {"none", "queued", "executing", "answered", "dropped"}
  /\ stop \in BOOLEAN /\ required \in BOOLEAN
  /\ WorldInv

LEMMA RestIs ==
  ASSUME OffsetInv
  PROVE  /\ Rest /\ WorldPassed(World) /\ c \in ClientType /\ Tables(World, c) /\ MailOK(c)
         /\ frame \in FrameType /\ pc \in Points
  BY DEF OffsetInv, Types, Rest, WorldPassed, WorldInv, MailInv

LEMMA RestSame ==
  ASSUME Rest, UNCHANGED <<world, done, required>>,
         command' \in {"none", "queued", "executing", "answered", "dropped"}, stop' \in BOOLEAN
  PROVE  Rest' /\ World' = World
  BY DEF Rest, WorldInv, World, world

LEMMA RestCommitted ==
  ASSUME Rest, UNCHANGED <<settled, waived, required>>, done' = done \/ done' = {},
         command' \in {"none", "queued", "executing", "answered", "dropped"}, stop' \in BOOLEAN,
         NEW at \in OffsetsType, \A p \in Partitions : Passed(World, p, at[p]) /\ at[p] >= -1,
         committed' = [p \in Partitions |-> IF at[p] = Nowhere THEN committed[p] ELSE at[p]]
  PROVE  Rest' /\ World' = World
  <1>1. World' = World
    BY DEF World
  <1>2. committed' \in [Partitions -> Nat] /\ \A p \in Partitions : Passed(World, p, committed'[p])
    BY Named DEF Rest, WorldInv, OffsetsType
  <1>3. done' \subseteq done /\ done' \subseteq DoneType
    BY DEF Rest
  <1> QED BY <1>1, <1>2, <1>3 DEF Rest, WorldInv

(* Where the loop can go from here.                                        *)
LEMMA GotoKeeps ==
  ASSUME NEW t, NEW at \in {"top", "turn", "poll", "maintain", "stopped"}, Goto(t, at), Rest', MailOK(t),
         Safe(World', World', t, {}), at = "poll" => ~t.deferred, at = "maintain" => t.deferred
  PROVE  OffsetInv'
  <1>1. c' = t /\ pc' = at /\ frame' = NoFrame
    BY DEF Goto
  <1>2. Types'
    BY <1>1, Named DEF Types, Rest, Safe, Points
  <1>3. NoFrame.discarded = NoOffsets /\ NoFrame.cont = "top"
    BY DEF NoFrame
  <1>4. ~InCommit' /\ ~Doing("retry")' /\ ~Doing("dead")' /\ ~Doing("dlt")'
    BY <1>1 DEF InCommit, Doing
  <1>5. FrameInv'
    <2>1. \A p \in Partitions : NoOffsets[p] \in -1 .. Records[p]
      BY Named DEF NoOffsets
    <2> QED BY <1>1, <1>3, <1>4, <2>1 DEF FrameInv
  <1>6. Taken' = {} /\ Discarded' = {}
    BY <1>4 DEF Taken, Discarded
  <1>7. PositionInv'
    <2>1. Standing(World', c', {})
      BY <1>1 DEF Safe
    <2>2. World' \cup Taken' = World'
      BY <1>6
    <2>3. Standing(World, c, {})' /\ (World \cup Taken)' = World'
      BY <2>1, <2>2
    <2> QED BY <1>4, <1>6, <2>1, <2>2 DEF PositionInv
  <1>8. MailInv' /\ Tables(World', c')
    BY <1>1 DEF MailInv, Safe
  <1> QED BY <1>2, <1>5, <1>7, <1>8 DEF OffsetInv, Rest

LEMMA EndsKeeps ==
  ASSUME NEW t \in ClientType, NEW kind \in {"stop", "crash", "transient"}, Ends(t, kind), Rest', MailOK(t),
         Tables(World', t)
  PROVE  OffsetInv'
  <1>1. c' = t /\ pc' = "exit" /\ frame' = [NoFrame EXCEPT !.cont = kind]
    BY DEF Ends
  <1>2. frame' \in FrameType /\ frame'.discarded = NoOffsets /\ frame'.cont = kind
    BY <1>1, Named DEF NoFrame, FrameType
  <1>3. Types'
    BY <1>1, <1>2 DEF Types, Rest, Points
  <1>4. ~InCommit' /\ ~Doing("retry")' /\ ~Doing("dead")' /\ ~Doing("dlt")'
    BY <1>1 DEF InCommit, Doing
  <1>5. FrameInv'
    <2>1. \A p \in Partitions : NoOffsets[p] \in -1 .. Records[p]
      BY Named DEF NoOffsets
    <2> QED BY <1>1, <1>2, <1>4, <2>1 DEF FrameInv
  <1>6. PositionInv'
    BY <1>1, <1>4 DEF PositionInv
  <1>7. MailInv' /\ Tables(World', c')
    BY <1>1 DEF MailInv
  <1> QED BY <1>3, <1>5, <1>6, <1>7 DEF OffsetInv, Rest

Taking(k, p, o) == IF k \in {"retry", "dead"} THEN {<<p, o>>} ELSE {}

LEMMA CallingIs ==
  ASSUME NEW k \in {"top", "stop", "retry", "dead", "dlt"}, NEW p \in Partitions \cup {"none"}, NEW o \in Int
  PROVE  LET f == Calling(k, p, o) IN
         /\ f \in FrameType /\ f.cont = k /\ f.tp = p /\ f.offset = o /\ ~f.blocked
         /\ f.discarded = NoOffsets /\ \A q \in Partitions : f.discarded[q] = -1
  BY Named DEF Calling, NoFrame, FrameType, NoOffsets

LEMMA CallKeeps ==
  ASSUME NEW t, NEW k \in {"top", "stop", "retry", "dead", "dlt"}, NEW p \in Partitions \cup {"none"},
         NEW o \in Int, Call(t, k, p, o), Rest', MailOK(t),
         Safe(World', World' \cup Taking(k, p, o), t, {}),
         k \in {"retry", "dead", "dlt"} => p \in Partitions /\ Reached(World', p, o),
         k = "dlt" => <<p, o>> \in World'
  PROVE  OffsetInv'
  <1> DEFINE f == Calling(k, p, o)
  <1>1. c' = t /\ pc' = "commit" /\ frame' = f
    BY DEF Call
  <1>2. /\ f \in FrameType /\ f.cont = k /\ f.tp = p /\ f.offset = o /\ ~f.blocked
        /\ f.discarded = NoOffsets /\ \A q \in Partitions : f.discarded[q] = -1
    BY CallingIs
  <1> HIDE DEF f
  <1>3. Types'
    BY <1>1, <1>2 DEF Types, Rest, Safe, Points
  <1>4. InCommit' /\ (\A j \in {"retry", "dead", "dlt"} : Doing(j)' <=> k = j)
    BY <1>1, <1>2 DEF InCommit, Doing
  <1>5. FrameInv'
    <2>1. \A q \in Partitions : f.discarded[q] \in -1 .. Records[q]
      BY <1>2, Named
    <2> QED BY <1>1, <1>2, <1>4, <2>1 DEF FrameInv
  <1>6. Taken' = Taking(k, p, o)
    BY <1>1, <1>2, <1>4 DEF Taken, Taking
  <1>7. Discarded' = {}
    BY <1>1, <1>2, <1>4, Named DEF Discarded
  <1>8. PositionInv'
    <2>1. Standing(World' \cup Taken', c', Discarded')
      BY <1>1, <1>6, <1>7 DEF Safe
    <2>2. \A q \in Partitions : Passed(World', q, frame'.discarded[q])
      BY <1>1, <1>2, NothingPassed
    <2> QED BY <1>1, <1>2, <2>1, <2>2 DEF PositionInv
  <1>9. MailInv' /\ Tables(World', c')
    BY <1>1 DEF MailInv, Safe
  <1> QED BY <1>3, <1>5, <1>8, <1>9 DEF OffsetInv, Rest

LEMMA SafeAnywhere ==
  ASSUME NEW W, NEW V, NEW s, NEW X, Safe(W, V, s, X), s.deferred, NEW at \in OffsetsType,
         \A p \in Partitions : at[p] \in -1 .. Records[p]
  PROVE  Safe(W, V, Rewind(s, at), {})
  <1> DEFINE t == Rewind(s, at)
  <1>1. s \in ClientType /\ \A p \in Partitions : at[p] >= -1
    BY Named DEF Safe
  <1>2. /\ t \in ClientType /\ Tab(t) = Tab(s) /\ t.deferred = s.deferred
        /\ \A p \in Partitions :
              t.pos[p] = IF p \in s.assigned /\ at[p] # -1 THEN at[p] ELSE s.pos[p]
    BY <1>1, RewindDoes
  <1> HIDE DEF t
  <1>3. Tables(W, t)
    <2>1. /\ t.snapshot = s.snapshot /\ t.late = s.late /\ t.retries = s.retries
          /\ t.pending = s.pending /\ t.admission = s.admission /\ t.progress = s.progress
      BY <1>2 DEF Tab
    <2>2. \A p \in Partitions : t.pos[p] <= Records[p]
      <3> SUFFICES ASSUME NEW p \in Partitions PROVE t.pos[p] <= Records[p]
        OBVIOUS
      <3>1. s.pos[p] <= Records[p]
        BY DEF Safe, Tables
      <3>2. at[p] <= Records[p]
        BY Named
      <3> QED BY <1>2, <3>1, <3>2
    <2> QED BY <2>1, <2>2 DEF Safe, Tables
  <1> QED BY <1>2, <1>3 DEF Safe, Standing, t

LEMMA PutBackDoes ==
  ASSUME OffsetInv, InCommit, NEW t, Safe(World, World \cup Taken, t, Discarded),
         ~t.deferred => ~c.deferred
  PROVE  Safe(World, World \cup Taken, PutBack(t), {}) /\ Calm(t, PutBack(t))
  <1> DEFINE W == World
             V == World \cup Taken
             at == frame.discarded
  <1>1. at \in OffsetsType /\ (\A p \in Partitions : at[p] \in -1 .. Records[p] /\ at[p] >= -1)
        /\ PutBack(t) = Rewind(t, at)
    BY Named DEF OffsetInv, Types, FrameType, FrameInv, PutBack
  <1>2. Discarded = {p \in Partitions : at[p] # -1}
    BY Named DEF Discarded
  <1>3. Calm(t, Rewind(t, at))
    BY <1>1, RewindDoes DEF Safe, Calm
  <1>4. CASE t.deferred
    BY <1>1, <1>3, <1>4, SafeAnywhere
  <1>5. CASE ~t.deferred
    <2>1. \A p \in Partitions : Passed(W, p, at[p])
      BY <1>5 DEF OffsetInv, PositionInv
    <2>2. W \subseteq V
      OBVIOUS
    <2> HIDE DEF W, V, at
    <2>3. Safe(W, V, t, Discarded)
      BY DEF W, V
    <2>4. Safe(W, V, Rewind(t, at), Discarded \ {p \in Partitions : at[p] # -1})
      BY <1>1, <2>1, <2>2, <2>3, SafeRewind
    <2>5. Discarded \ {p \in Partitions : at[p] # -1} = {}
      BY <1>2
    <2> QED BY <1>1, <1>3, <2>4, <2>5 DEF W, V
  <1> QED BY <1>4, <1>5

(* The open call ends, and its caller goes on.                             *)
LEMMA ResumesKeeps ==
  ASSUME OffsetInv, pc = "commit", NEW u, c' = u, pc' = frame.cont,
         frame' = Calling("top", frame.tp, frame.offset), Rest', World' = World, MailOK(u),
         Safe(World, World \cup Taken, u, {})
  PROVE  OffsetInv'
  <1> DEFINE f == Calling("top", frame.tp, frame.offset)
  <1>1. frame' = f
    OBVIOUS
  <1>2. InCommit /\ frame \in FrameType /\ frame.cont \in {"top", "stop", "retry", "dead", "dlt"}
        /\ frame.tp \in Partitions \cup {"none"} /\ frame.offset \in Int
    BY DEF OffsetInv, FrameInv, InCommit, Types, FrameType
  <1>3. /\ f \in FrameType /\ f.cont = "top" /\ f.tp = frame.tp /\ f.offset = frame.offset /\ ~f.blocked
        /\ f.discarded = NoOffsets /\ \A q \in Partitions : f.discarded[q] = -1
    BY <1>2, CallingIs
  <1> HIDE DEF f
  <1>4. Types'
    BY <1>1, <1>2, <1>3 DEF Types, Rest, Safe, Points
  <1>5. ~InCommit' /\ (\A j \in {"retry", "dead", "dlt"} : Doing(j)' <=> Doing(j))
    BY <1>1, <1>2, <1>3 DEF InCommit, Doing
  <1>6. Taken' = Taken /\ Discarded' = {}
    BY <1>1, <1>3, <1>5 DEF Taken, Discarded
  <1>7. FrameInv'
    <2>1. \A q \in Partitions : f.discarded[q] \in -1 .. Records[q]
      BY <1>3, Named
    <2>2. Doing("retry") \/ Doing("dead") \/ Doing("dlt") =>
            frame.tp \in Partitions /\ Reached(World, frame.tp, frame.offset)
      BY DEF OffsetInv, FrameInv
    <2>3. Doing("dlt") => <<frame.tp, frame.offset>> \in World
      BY DEF OffsetInv, FrameInv
    <2> QED BY <1>1, <1>2, <1>3, <1>5, <2>1, <2>2, <2>3 DEF FrameInv
  <1>8. PositionInv'
    <2>1. Standing(World' \cup Taken', c', Discarded')
      BY <1>6 DEF Safe
    <2> QED BY <1>5, <2>1 DEF PositionInv
  <1>9. MailInv' /\ Tables(World', c')
    BY DEF MailInv, Safe
  <1> QED BY <1>4, <1>7, <1>8, <1>9 DEF OffsetInv, Rest

LEMMA ReturnKeeps ==
  ASSUME OffsetInv, pc = "commit", NEW t, Return(t), Rest', World' = World, MailOK(t),
         Safe(World, World \cup Taken, t, Discarded), ~t.deferred => ~c.deferred
  PROVE  OffsetInv'
  <1> DEFINE u == PutBack(t)
  <1>1. c' = u /\ pc' = frame.cont /\ frame' = Calling("top", frame.tp, frame.offset)
    BY DEF Return
  <1>2. Safe(World, World \cup Taken, u, {}) /\ Calm(t, u)
    BY PutBackDoes DEF InCommit
  <1> HIDE DEF u
  <1>3. MailOK(u)
    BY <1>2, CalmMail
  <1> QED BY <1>1, <1>2, <1>3, ResumesKeeps

(* The record of the open call is settled, or its partition is left out.   *)
LEMMA SafeForget ==
  ASSUME NEW W, NEW s, NEW X, NEW p \in Partitions, NEW o, Safe(W, W \cup {<<p, o>>}, s, X)
  PROVE  Safe(W, W, s, X \cup {p})
  <1>1. ASSUME ~s.deferred, NEW q \in s.assigned \ (X \cup {p})
        PROVE  Passed(W, q, s.pos[q]) \/ Halted(s, q)
    BY <1>1, PassedElsewhere DEF Safe, Standing
  <1> QED BY <1>1 DEF Safe, Standing

(* Wherever the loop is about to go on, and its commit is not open.        *)
LEMMA Stands ==
  ASSUME OffsetInv, ~InCommit, pc \notin {"exit", "stopped"}
  PROVE  Safe(World, World \cup Taken, c, {})
  <1>1. Discarded = {}
    BY DEF Discarded
  <1> QED BY <1>1 DEF OffsetInv, PositionInv, Safe, Types

LEMMA StandsFree ==
  ASSUME OffsetInv, pc \in {"top", "turn", "poll", "maintain", "stop", "dlt", "down", "crashed"}
  PROVE  Safe(World, World, c, {})
  <1>1. Taken = {} /\ ~InCommit
    BY DEF Taken, Doing, InCommit
  <1>2. World \cup Taken = World
    BY <1>1
  <1> QED BY <1>1, <1>2, Stands

LEMMA StandsInCommit ==
  ASSUME OffsetInv, InCommit
  PROVE  Safe(World, World \cup Taken, c, Discarded)
  BY DEF OffsetInv, PositionInv, Safe, Types, InCommit

-----------------------------------------------------------------------------
(* The operators of the loop keep the client safe.                         *)
LEMMA KeepIntent ==
  ASSUME NEW W, NEW V, NEW s, NEW X, Safe(W, V, s, X), NEW i \in SUBSET (Partitions \X Int)
  PROVE  Safe(W, V, [s EXCEPT !.intent = i], X) /\ Calm(s, [s EXCEPT !.intent = i])
  <1> DEFINE t == [s EXCEPT !.intent = i]
  <1>1. t \in ClientType /\ Tab(t) = Tab(s) /\ Seat(t) = Seat(s) /\ Mail(t) = Mail(s) /\ t.workers = s.workers
    BY IntentSet DEF Safe
  <1> HIDE DEF t
  <1> QED BY <1>1, SafeSame, CalmSeat DEF t

LEMMA KeepExpect ==
  ASSUME NEW W, NEW V, NEW s, NEW X, Safe(W, V, s, X), NEW x \in OffsetsType
  PROVE  Safe(W, V, [s EXCEPT !.expect = x], X) /\ Calm(s, [s EXCEPT !.expect = x])
  <1> DEFINE t == [s EXCEPT !.expect = x]
  <1>1. t \in ClientType /\ Tab(t) = Tab(s) /\ Seat(t) = Seat(s) /\ Mail(t) = Mail(s) /\ t.workers = s.workers
    BY ExpectSet DEF Safe
  <1> HIDE DEF t
  <1> QED BY <1>1, SafeSame, CalmSeat DEF t

LEMMA KeepAttempts ==
  ASSUME NEW W, NEW V, NEW s, NEW X, Safe(W, V, s, X), NEW a \in [Partitions -> [Offsets -> Nat]]
  PROVE  Safe(W, V, [s EXCEPT !.attempts = a], X) /\ Calm(s, [s EXCEPT !.attempts = a])
  <1> DEFINE t == [s EXCEPT !.attempts = a]
  <1>1. t \in ClientType /\ Tab(t) = Tab(s) /\ Seat(t) = Seat(s) /\ Mail(t) = Mail(s) /\ t.workers = s.workers
    BY AttemptsSet DEF Safe
  <1> HIDE DEF t
  <1> QED BY <1>1, SafeSame, CalmSeat DEF t

LEMMA KeepReady ==
  ASSUME NEW W, NEW V, NEW s, NEW X, Safe(W, V, s, X)
  PROVE  Safe(W, V, PublishReady(s), X) /\ Calm(s, PublishReady(s))
  <1> DEFINE r == IF s.ready = "due" THEN "yes" ELSE s.ready
             t == [s EXCEPT !.ready = r]
  <1>0. s \in ClientType /\ r \in {"no", "due", "yes"}
    BY RetriesType DEF Safe
  <1>1. PublishReady(s) = t
    BY DEF PublishReady
  <1> HIDE DEF r
  <1>2. t \in ClientType /\ Tab(t) = Tab(s) /\ Seat(t) = Seat(s) /\ Mail(t) = Mail(s) /\ t.workers = s.workers
    BY <1>0, ReadySet
  <1> HIDE DEF t
  <1> QED BY <1>1, <1>2, SafeSame, CalmSeat

LEMMA KeepPause ==
  ASSUME NEW W, NEW V, NEW s, NEW X, Safe(W, V, s, X), NEW S \in SUBSET Partitions, NEW r \in Reasons
  PROVE  LET t == AddPauseReason(Pause(s, S), S, r) IN
         Safe(W, V, t, X) /\ Calm(s, t) /\ Tab(t) = Tab(s) /\ t.paused = s.paused \cup S
  <1> DEFINE u == Pause(s, S)
             t == AddPauseReason(u, S, r)
  <1>1. Safe(W, V, u, X)
    BY SafePause
  <1>2. u \in ClientType /\ Tab(u) = Tab(s) /\ Calm(s, u) /\ u.paused = s.paused \cup S
    BY PauseDoes DEF Calm, Safe
  <1> HIDE DEF u
  <1>3. Safe(W, V, t, X)
    BY <1>1, SafeAdd
  <1>4. Calm(u, t) /\ Tab(t) = Tab(u) /\ t.paused = u.paused
    BY <1>2, AddDoes DEF Calm
  <1> HIDE DEF t
  <1> QED BY <1>2, <1>3, <1>4, CalmTwice DEF t, u

LEMMA KeepSnapshot ==
  ASSUME NEW W, NEW V, NEW s, NEW X, Safe(W, V, s, X)
  PROVE  Safe(W, V, PublishCommitSnapshot(s), X) /\ Calm(s, PublishCommitSnapshot(s))
  BY SafeSnapshot, PublishSnapshotDoes, CalmSeat DEF Safe

LEMMA KeepTrim ==
  ASSUME NEW W, NEW V, NEW s, NEW X, Safe(W, V, s, X), NEW t, Trimmed(s, t)
  PROVE  Safe(W, V, PublishCommitSnapshot(t), X) /\ Calm(s, PublishCommitSnapshot(t))
  <1>1. Safe(W, V, t, X) /\ Calm(s, t)
    BY SafeTrim, CalmSeat DEF Trimmed
  <1> QED BY <1>1, KeepSnapshot, CalmTwice

LEMMA KeepClear ==
  ASSUME NEW W, NEW V, NEW s, NEW X, Safe(W, V, s, X), NEW S, NEW rs, "halt" \notin rs
  PROVE  Safe(W, V, ClearAndResume(s, S, rs), X) /\ Calm(s, ClearAndResume(s, S, rs))
  BY SafeClear, ClearDoes DEF Safe, Calm

LEMMA KeepHalt ==
  ASSUME NEW W, NEW V, NEW s, NEW X, Safe(W, V, s, X), NEW p \in Partitions
  PROVE  Safe(W, V, HaltPartition(s, p), X \ {p}) /\ Calm(s, HaltPartition(s, p))
  BY SafeHalt, HaltDoes DEF Safe, Calm

LEMMA KeepSeek ==
  ASSUME NEW W, NEW V, W \subseteq V, NEW s, NEW X, Safe(W, V, s, X), NEW p \in Partitions,
         NEW o \in Nat, Passed(W, p, o)
  PROVE  Safe(W, V, Seek(s, p, o), X \ {p}) /\ Calm(s, Seek(s, p, o)) /\ Tab(Seek(s, p, o)) = Tab(s)
  <1> DEFINE at == [NoOffsets EXCEPT ![p] = o]
  <1>1. at \in OffsetsType /\ \A q \in Partitions : at[q] >= -1
    BY Named DEF NoOffsets, OffsetsType
  <1> HIDE DEF at
  <1>2. Calm(s, Rewind(s, at)) /\ Tab(Rewind(s, at)) = Tab(s)
    BY <1>1, RewindDoes DEF Safe, Calm
  <1>3. Seek(s, p, o) = Rewind(s, at)
    BY DEF Seek, at
  <1> QED BY <1>2, <1>3, SafeSeek

LEMMA KeepObserve ==
  ASSUME NEW W, NEW V, NEW s, NEW X, Safe(W, V, s, X), NEW p \in Partitions, NEW o, NEW safe \in BOOLEAN,
         Reached(W, p, o), safe => <<p, o>> \in W
  PROVE  Safe(W, V, Observe(s, p, o, safe), X) /\ Calm(s, Observe(s, p, o, safe))
  <1>1. o \in Int
    BY Named DEF Reached
  <1> QED BY ZenonT(60), <1>1, SafeObserve, ObserveDoes, CalmSeat DEF Safe

(* The intents of committed records go; an intent is remembered.           *)
LEMMA KeepPruned ==
  ASSUME NEW W, NEW V, NEW s, NEW X, Safe(W, V, s, X)
  PROVE  Safe(W, V, Pruned(s), X) /\ Calm(s, Pruned(s)) /\ Pruned(s).pending = s.pending
  <1> DEFINE i == {x \in s.intent : x[2] >= s.progress[x[1]].base}
             t == [s EXCEPT !.intent = i]
  <1>1. i \in SUBSET (Partitions \X Int) /\ s \in ClientType
    BY RetriesType DEF Safe
  <1>2. Pruned(s) = t
    BY DEF Pruned
  <1> HIDE DEF i
  <1>3. Safe(W, V, t, X) /\ Calm(s, t) /\ Tab(t) = Tab(s)
    BY <1>1, KeepIntent, IntentSet
  <1>4. t.pending = s.pending
    BY <1>3 DEF Tab
  <1> QED BY <1>2, <1>3, <1>4

LEMMA KeepRemember ==
  ASSUME NEW W, NEW V, NEW s, NEW X, Safe(W, V, s, X), NEW p \in Partitions, NEW o \in Int
  PROVE  Safe(W, V, Remember(s, p, o), X) /\ Calm(s, Remember(s, p, o)) /\ Tab(Remember(s, p, o)) = Tab(s)
  <1> DEFINE i == s.intent \cup {<<p, o>>}
             t == [s EXCEPT !.intent = i]
  <1>1. i \in SUBSET (Partitions \X Int) /\ s \in ClientType
    BY RetriesType DEF Safe
  <1>2. Remember(s, p, o) = t
    BY DEF Remember
  <1> HIDE DEF i
  <1>3. Safe(W, V, t, X) /\ Calm(s, t) /\ Tab(t) = Tab(s)
    BY <1>1, KeepIntent, IntentSet
  <1> QED BY <1>2, <1>3

LEMMA KeepHalf ==
  ASSUME NEW W, NEW V, NEW s, NEW X, Safe(W, V, s, X), NEW p \in Partitions, NEW o \in Int
  PROVE  LET t == HalfScheduled(s, p, o) IN
         Safe(W, V, t, X) /\ Calm(s, t) /\ Tab(t) = Tab(s)
  <1> DEFINE r == Remember(s, p, o)
             t == AddPauseReason(Pause(r, {p}), {p}, "dlt")
  <1>1. Safe(W, V, r, X) /\ Calm(s, r) /\ Tab(r) = Tab(s)
    BY KeepRemember
  <1> HIDE DEF r
  <1>2. {p} \in SUBSET Partitions /\ "dlt" \in Reasons
    BY DEF Reasons
  <1>3. Safe(W, V, t, X) /\ Calm(r, t) /\ Tab(t) = Tab(r)
    BY <1>1, <1>2, KeepPause
  <1>4. HalfScheduled(s, p, o) = r \/ HalfScheduled(s, p, o) = t
    BY DEF HalfScheduled, r
  <1> HIDE DEF t
  <1> QED BY <1>1, <1>3, <1>4, CalmTwice

(* One more task, where an envelope is free.                               *)
Hired(A, B) == A = B \/ \E x \in WorkerType : A = B \cup {x} /\ Cardinality(B) < Envelopes

LEMMA KeepSchedule ==
  ASSUME NEW W, NEW s, NEW X, Safe(W, W, s, X), NEW p \in Partitions, NEW o, Reached(W, p, o)
  PROVE  LET t == ScheduleSingleDlt(s, p, o) IN
         /\ Safe(W, W, t, X \ {p}) /\ Hired(t.workers, s.workers)
         /\ Mail(t) = Mail(s) /\ t.assigned = s.assigned /\ t.deferred = s.deferred
  <1> DEFINE h == HalfScheduled(s, p, o)
             k == Seek(h, p, o)
             job == [offset |-> o, epoch |-> s.epoch]
             task == Task(s, p, o)
             ws == k.workers \cup {task}
             vp == [k.pending EXCEPT ![p] = job]
             a == [k EXCEPT !.workers = ws]
             b == [a EXCEPT !.pending = vp]
             d == AddPauseReason(k, {p}, "envelope")
             va == [d.admission EXCEPT ![p] = job]
             e == [d EXCEPT !.admission = va]
  <1>0. s \in ClientType /\ o \in Nat /\ o \in Int /\ Passed(W, p, o) /\ s.epoch \in Nat
    BY Named, RetriesType DEF Safe, Reached
  <1>1. Safe(W, W, h, X) /\ Calm(s, h) /\ Tab(h) = Tab(s)
    BY <1>0, KeepHalf
  <1> HIDE DEF h
  <1>2. Safe(W, W, k, X \ {p}) /\ Calm(h, k) /\ Tab(k) = Tab(h)
    BY <1>0, <1>1, KeepSeek
  <1> HIDE DEF k
  <1>3. Calm(s, k) /\ k.workers = s.workers /\ k \in ClientType
    BY <1>1, <1>2, CalmTwice, CalmMail DEF Safe
  <1>4. job \in JobType /\ job.offset = o
    BY <1>0 DEF JobType
  <1>5. task \in WorkerType
    BY <1>0 DEF Task, WorkerType
  <1> HIDE DEF task, job
  <1>6. ws \in SUBSET WorkerType
    BY <1>3, <1>5, RetriesType
  <1>7. vp \in [Partitions -> JobType] /\ \A q \in Partitions : vp[q].offset # Nowhere => Reached(W, q, vp[q].offset)
    <2>1. k.pending \in [Partitions -> JobType]
      BY <1>3, RetriesType
    <2>2. vp \in [Partitions -> JobType] /\ vp[p] = job /\ \A q \in Partitions \ {p} : vp[q] = k.pending[q]
      BY <1>4, <2>1
    <2> HIDE DEF vp
    <2> QED BY <1>2, <1>4, <2>2 DEF Safe, Tables
  <1> HIDE DEF ws, vp
  <1>8. Safe(W, W, a, X \ {p})
    BY <1>2, <1>6, SafeWorkers
  <1>9. a \in ClientType /\ Seat(a) = Seat(k) /\ Mail(a) = Mail(k) /\ a.workers = ws
    BY <1>3, <1>6, WorkersSet
  <1> HIDE DEF a
  <1>10. Safe(W, W, b, X \ {p})
    BY <1>7, <1>8, SafePending
  <1>11. Seat(b) = Seat(a) /\ Mail(b) = Mail(a) /\ b.workers = a.workers
    BY <1>7, <1>9, PendingSet
  <1>12. b = [k EXCEPT !.workers = ws, !.pending = vp]
    <2>1. a.pending = k.pending
      BY <1>3 DEF a, ClientType
    <2> QED BY <1>3 DEF a, ClientType
  <1> HIDE DEF b
  <1>13. {p} \in SUBSET Partitions /\ "envelope" \in Reasons
    BY DEF Reasons
  <1>14. Safe(W, W, d, X \ {p})
    BY <1>2, <1>13, SafeAdd
  <1>15. d \in ClientType /\ Calm(k, d)
    BY <1>3, <1>13, AddDoes DEF Calm
  <1> HIDE DEF d
  <1>16. va \in [Partitions -> JobType] /\ \A q \in Partitions : va[q].offset # Nowhere => Reached(W, q, va[q].offset)
    <2>1. d.admission \in [Partitions -> JobType]
      BY <1>15, RetriesType
    <2>2. va \in [Partitions -> JobType] /\ va[p] = job /\ \A q \in Partitions \ {p} : va[q] = d.admission[q]
      BY <1>4, <2>1
    <2> HIDE DEF va
    <2> QED BY <1>14, <1>4, <2>2 DEF Safe, Tables
  <1> HIDE DEF va
  <1>17. Safe(W, W, e, X \ {p})
    BY <1>14, <1>16, SafeAdmission
  <1>18. Seat(e) = Seat(d) /\ Mail(e) = Mail(d) /\ e.workers = d.workers
    BY <1>15, <1>16, AdmissionSet
  <1> HIDE DEF e
  <1>19. CASE Cardinality(s.workers) < Envelopes
    <2>1. ScheduleSingleDlt(s, p, o) = b
      BY <1>12, <1>19 DEF ScheduleSingleDlt, ws, vp, job, task, k, h
    <2>2. Hired(b.workers, s.workers)
      BY <1>3, <1>5, <1>9, <1>11, <1>19 DEF Hired, ws
    <2>3. Mail(b) = Mail(s) /\ b.assigned = s.assigned /\ b.deferred = s.deferred
      BY <1>3, <1>9, <1>11 DEF Seat, Calm
    <2> QED BY <1>10, <2>1, <2>2, <2>3
  <1>20. CASE ~(Cardinality(s.workers) < Envelopes)
    <2>1. ScheduleSingleDlt(s, p, o) = e
      BY <1>20 DEF ScheduleSingleDlt, e, d, va, job, k, h
    <2>2. Calm(s, e)
      BY <1>3, <1>15, <1>18, CalmTwice, CalmSeat
    <2> QED BY <1>17, <2>1, <2>2 DEF Calm, Hired
  <1> QED BY <1>19, <1>20

LEMMA KeepRetry ==
  ASSUME NEW W, NEW s, NEW X, Safe(W, W, s, X), NEW p \in Partitions, NEW o \in Nat, Passed(W, p, o)
  PROVE  LET t == SchedulePartitionRetry(s, p, o) IN Safe(W, W, t, X \ {p}) /\ Calm(s, t)
  <1> DEFINE k == Seek(s, p, o)
             a == AddPauseReason(Pause(k, {p}), {p}, "retry")
             new == [from |-> o, due |-> FALSE]
             v == [a.retries EXCEPT ![p] = new]
             b == [a EXCEPT !.retries = v]
  <1>1. Safe(W, W, k, X \ {p}) /\ Calm(s, k)
    BY KeepSeek
  <1> HIDE DEF k
  <1>2. {p} \in SUBSET Partitions /\ "retry" \in Reasons
    BY DEF Reasons
  <1>3. Safe(W, W, a, X \ {p}) /\ Calm(k, a)
    BY <1>1, <1>2, KeepPause
  <1> HIDE DEF a
  <1>4. new \in [from : Int, due : BOOLEAN] /\ new.from = o
    OBVIOUS
  <1> HIDE DEF new
  <1>5. v \in [Partitions -> [from : Int, due : BOOLEAN]] /\ \A q \in Partitions : Passed(W, q, v[q].from)
    <2>1. a.retries \in [Partitions -> [from : Int, due : BOOLEAN]]
      BY <1>3, RetriesType DEF Safe
    <2>2. v \in [Partitions -> [from : Int, due : BOOLEAN]] /\ v[p] = new
          /\ \A q \in Partitions \ {p} : v[q] = a.retries[q]
      BY <1>4, <2>1
    <2> HIDE DEF v
    <2> QED BY <1>3, <1>4, <2>2 DEF Safe, Tables
  <1> HIDE DEF v
  <1>6. Safe(W, W, b, X \ {p})
    BY <1>3, <1>5, SafeRetries
  <1>7. Calm(a, b)
    BY ZenonT(60), <1>3, <1>5, RetriesSet, CalmSeat DEF Safe
  <1>8. Calm(s, b)
    BY <1>1, <1>3, <1>7, CalmTwice
  <1>9. Safe(W, W, HaltPartition(s, p), X \ {p}) /\ Calm(s, HaltPartition(s, p))
    BY KeepHalt
  <1>10. SchedulePartitionRetry(s, p, o) = IF p \in s.assigned THEN b ELSE HaltPartition(s, p)
    BY DEF SchedulePartitionRetry, v, a, k, new
  <1> HIDE DEF b
  <1> QED BY <1>6, <1>8, <1>9, <1>10

LEMMA KeepDegraded ==
  ASSUME NEW W, NEW V, NEW s, NEW X, Safe(W, V, s, X), NEW w \in WorkerType
  PROVE  Safe(W, V, Degraded(s, w), X) /\ Calm(s, Degraded(s, w))
  <1>1. {w.tp} \in SUBSET Partitions /\ "degraded" \in Reasons
    BY DEF WorkerType, Reasons
  <1> DEFINE t == AddPauseReason(s, {w.tp}, "degraded")
  <1>2. Safe(W, V, t, X)
    BY <1>1, SafeAdd
  <1>3. Calm(s, t)
    BY <1>1, AddDoes DEF Calm, Safe
  <1>4. Degraded(s, w) = t \/ Degraded(s, w) = s
    BY DEF Degraded
  <1> HIDE DEF t
  <1> QED BY <1>2, <1>3, <1>4 DEF Calm

LEMMA KeepCommitBlocked ==
  ASSUME NEW W, NEW V, NEW s, NEW X, Safe(W, V, s, X)
  PROVE  Safe(W, V, ClearCommitBlocked(s), X) /\ Calm(s, ClearCommitBlocked(s))
  <1> DEFINE t == DropRows(s, Partitions, {"commit"})
             U == Unblocked(t, t.assignment)
             u == Resume(t, U)
  <1>1. Safe(W, V, t, X)
    BY SafeDrop
  <1>2. t \in ClientType /\ Calm(s, t)
    BY DropDoes DEF Safe, Calm
  <1> HIDE DEF t
  <1>3. Safe(W, V, u, X)
    BY <1>1, SafeResume
  <1> HIDE DEF U
  <1>4. Calm(t, u)
    BY <1>2, ResumeDoes DEF Calm
  <1>5. ClearCommitBlocked(s) = u
    BY DEF ClearCommitBlocked, t, U
  <1> QED BY <1>2, <1>3, <1>4, <1>5, CalmTwice

LEMMA KeepCancelRetries ==
  ASSUME NEW W, NEW V, NEW s, NEW X, Safe(W, V, s, X)
  PROVE  Safe(W, V, CancelRetries(s), X) /\ Calm(s, CancelRetries(s))
  <1> DEFINE v == [p \in Partitions |-> NoRetry]
             t == [s EXCEPT !.retries = v]
             u == ClearAndResume(t, Waiting(s), {"retry"})
  <1>1. v \in [Partitions -> [from : Int, due : BOOLEAN]] /\ \A p \in Partitions : Passed(W, p, v[p].from)
    BY Named, NothingPassed
  <1> HIDE DEF v
  <1>2. Safe(W, V, t, X)
    BY <1>1, SafeRetries
  <1>3. Calm(s, t)
    BY ZenonT(60), <1>1, RetriesSet, CalmSeat DEF Safe
  <1> HIDE DEF t
  <1>4. Safe(W, V, u, X) /\ Calm(t, u)
    BY <1>2, KeepClear
  <1>5. CancelRetries(s) = u
    BY DEF CancelRetries, t, v
  <1> QED BY <1>3, <1>4, <1>5, CalmTwice

LEMMA KeepActivate ==
  ASSUME NEW W, NEW s, Safe(W, W, s, {})
  PROVE  Safe(W, W, ActivateDueRetries(s), {}) /\ Calm(s, ActivateDueRetries(s))
  <1> DEFINE due == {p \in Waiting(s) : s.retries[p].due}
             open == due \cap s.assigned
             at == [p \in Partitions |-> IF p \in open THEN s.retries[p].from ELSE Nowhere]
             k == Rewind(s, at)
             v == [p \in Partitions |-> IF p \in open THEN NoRetry ELSE [k.retries[p] EXCEPT !.due = FALSE]]
             t == [k EXCEPT !.retries = v]
             u == ClearAndResume(t, open, {"retry"})
  <1>0. s \in ClientType
    BY DEF Safe
  <1>1. ActivateDueRetries(s) = u
    BY DEF ActivateDueRetries
  <1> HIDE DEF open
  <1>2. /\ at \in OffsetsType
        /\ \A p \in Partitions : Passed(W, p, at[p])
        /\ \A p \in Partitions : at[p] >= -1
    <2>1. \A p \in Partitions : s.retries[p].from \in Int /\ Passed(W, p, s.retries[p].from)
      BY <1>0, JobOffset DEF Safe
    <2>2. \A p \in Partitions : Passed(W, p, at[p])
      BY <2>1, NothingPassed, Named
    <2> QED BY <2>1, <2>2, Named DEF OffsetsType, Passed
  <1> HIDE DEF at
  <1>3. Safe(W, W, k, {})
    <2>1. Safe(W, W, k, {} \ {p \in Partitions : at[p] # -1})
      BY <1>2, SafeRewind
    <2> QED BY <2>1, SafeMore
  <1>4. k \in ClientType /\ Calm(s, k)
    BY <1>0, <1>2, RewindDoes DEF Calm
  <1> HIDE DEF k
  <1>5. v \in [Partitions -> [from : Int, due : BOOLEAN]] /\ \A p \in Partitions : Passed(W, p, v[p].from)
    <2> SUFFICES ASSUME NEW p \in Partitions
                 PROVE  v[p] \in [from : Int, due : BOOLEAN] /\ Passed(W, p, v[p].from)
      OBVIOUS
    <2>1. k.retries[p] \in [from : Int, due : BOOLEAN]
      BY <1>4, RetriesType
    <2>2. Passed(W, p, k.retries[p].from)
      BY <1>3 DEF Safe, Tables
    <2>3. [k.retries[p] EXCEPT !.due = FALSE].from = k.retries[p].from
          /\ [k.retries[p] EXCEPT !.due = FALSE] \in [from : Int, due : BOOLEAN]
      BY <2>1
    <2> QED BY <2>2, <2>3, Named, NothingPassed
  <1> HIDE DEF v
  <1>6. Safe(W, W, t, {})
    BY <1>3, <1>5, SafeRetries
  <1>7. Calm(k, t)
    BY ZenonT(60), <1>4, <1>5, RetriesSet, CalmSeat
  <1> HIDE DEF t
  <1>8. Safe(W, W, u, {}) /\ Calm(t, u)
    BY <1>6, KeepClear
  <1> HIDE DEF u
  <1>9. Calm(s, u)
    BY <1>4, <1>7, <1>8, CalmTwice
  <1> QED BY <1>1, <1>8, <1>9

LEMMA KeepService ==
  ASSUME NEW W, NEW s, Safe(W, W, s, {}), NEW stopping \in BOOLEAN
  PROVE  Safe(W, W, ServiceDltAdmission(s, stopping), {}) /\ Calm(s, ServiceDltAdmission(s, stopping))
  <1> DEFINE T == {p \in Jobs(s.admission) : \/ stopping \/ s.admission[p].epoch # s.epoch
                                             \/ Cardinality(s.workers) < Envelopes}
             again == {p \in T : ~stopping /\ s.admission[p].epoch = s.epoch}
             at == [p \in Partitions |-> IF p \in again THEN s.admission[p].offset ELSE Nowhere]
             k == Rewind(s, at)
             v == [p \in Partitions |-> IF p \in T THEN NoJob ELSE k.admission[p]]
             x == [p \in Partitions |-> IF p \in again THEN at[p] ELSE k.expect[p]]
             a == [k EXCEPT !.admission = v]
             t == [a EXCEPT !.expect = x]
             d == DropRows(t, T, {"envelope", "dlt"})
             u == ClearAndResume(t, T, {"envelope", "dlt"})
  <1>0. s \in ClientType
    BY DEF Safe
  <1>1. t = [Rewind(s, at) EXCEPT
                 !.admission = [p \in Partitions |-> IF p \in T THEN NoJob ELSE @[p]],
                 !.expect = [p \in Partitions |-> IF p \in again THEN at[p] ELSE @[p]]]
    <2> HIDE DEF T, again, at
    <2> QED OBVIOUS
  <1>2. ServiceDltAdmission(s, stopping) = IF Gated(s) THEN s ELSE IF stopping THEN d ELSE u
    BY <1>1 DEF ServiceDltAdmission
  <1> HIDE DEF T, again
  <1>3. /\ at \in OffsetsType
        /\ \A p \in Partitions : Passed(W, p, at[p])
        /\ \A p \in Partitions : at[p] >= -1
    <2>1. \A p \in Partitions : s.admission[p].offset \in Int /\ Passed(W, p, s.admission[p].offset)
      BY <1>0, JobOffset DEF Safe
    <2>2. \A p \in Partitions : Passed(W, p, at[p])
      BY <2>1, NothingPassed, Named
    <2> QED BY <2>1, <2>2, Named DEF OffsetsType, Passed
  <1> HIDE DEF at
  <1>4. Safe(W, W, k, {})
    <2>1. Safe(W, W, k, {} \ {p \in Partitions : at[p] # -1})
      BY <1>3, SafeRewind
    <2> QED BY <2>1, SafeMore
  <1>5. k \in ClientType /\ Calm(s, k)
    BY <1>0, <1>3, RewindDoes DEF Calm
  <1> HIDE DEF k
  <1>6. /\ v \in [Partitions -> JobType]
        /\ \A p \in Partitions : v[p].offset # Nowhere => Reached(W, p, v[p].offset)
        /\ x \in OffsetsType
    <2>1. k.admission \in [Partitions -> JobType] /\ k.expect \in OffsetsType
      BY <1>5, RetriesType
    <2>2. \A p \in Partitions : v[p].offset # Nowhere => Reached(W, p, v[p].offset)
      BY <1>4, Named DEF Safe, Tables
    <2> QED BY <1>3, <2>1, <2>2, Named DEF OffsetsType
  <1> HIDE DEF v, x
  <1>7. Safe(W, W, a, {})
    BY <1>4, <1>6, SafeAdmission
  <1>8. Calm(k, a)
    BY ZenonT(60), <1>5, <1>6, AdmissionSet, CalmSeat
  <1> HIDE DEF a
  <1>9. Safe(W, W, t, {}) /\ Calm(a, t)
    BY <1>6, <1>7, KeepExpect
  <1> HIDE DEF t
  <1>10. Calm(s, t) /\ t \in ClientType
    BY <1>5, <1>8, <1>9, CalmTwice DEF Safe
  <1>11. Safe(W, W, d, {})
    BY <1>9, SafeDrop
  <1>12. Calm(t, d)
    BY <1>10, DropDoes DEF Calm
  <1>13. Safe(W, W, u, {}) /\ Calm(t, u)
    BY <1>9, KeepClear
  <1> HIDE DEF d, u
  <1>14. Calm(s, d) /\ Calm(s, u) /\ Calm(s, s)
    BY <1>10, <1>12, <1>13, CalmTwice DEF Calm
  <1> QED BY <1>2, <1>11, <1>13, <1>14

-----------------------------------------------------------------------------
(* Steps beside the loop.                                                  *)
LEMMA BesideKeeps ==
  ASSUME OffsetInv, UNCHANGED <<pc, frame>>, Rest', World \subseteq World',
         c' \in ClientType, Tables(World', c'), MailOK(c'), c'.deferred = c.deferred,
         pc \in {"down", "crashed"} => c'.assigned = {},
         \A p \in c'.assigned :
            \/ Passed(World', p, c'.pos[p])
            \/ /\ p \in c.assigned /\ c'.pos[p] = c.pos[p]
               /\ Halted(c, p) => Halted(c', p)
               /\ p \in c.paused => p \in c'.paused
  PROVE  OffsetInv'
  <1>1. Types'
    BY DEF OffsetInv, Types, Rest
  <1>2. /\ InCommit' = InCommit /\ Taken' = Taken /\ Discarded' = Discarded
        /\ \A k : Doing(k)' <=> Doing(k)
    BY DEF InCommit, Taken, Discarded, Doing
  <1>3. FrameInv'
    <2>1. \A p, n : Reached(World, p, n) => Reached(World', p, n)
      BY PassedLater DEF Reached
    <2>2. FrameInv
      BY DEF OffsetInv
    <2> QED BY <1>2, <2>1, <2>2 DEF FrameInv
  <1>4. PositionInv'
    <2>1. Standing(World' \cup Taken, c', Discarded)
          \/ pc \in {"exit", "stopped"}
      <3> SUFFICES ASSUME pc \notin {"exit", "stopped"}, ~c'.deferred, NEW p \in c'.assigned \ Discarded
                   PROVE  Passed(World' \cup Taken, p, c'.pos[p]) \/ Halted(c', p)
        BY DEF Standing
      <3>1. CASE Passed(World', p, c'.pos[p])
        <4>1. World' \subseteq World' \cup Taken
          OBVIOUS
        <4> QED BY <3>1, <4>1, PassedLater
      <3>2. CASE /\ p \in c.assigned /\ c'.pos[p] = c.pos[p]
                 /\ Halted(c, p) => Halted(c', p)
        <4>1. Passed(World \cup Taken, p, c.pos[p]) \/ Halted(c, p)
          BY <3>2 DEF OffsetInv, PositionInv, Standing
        <4>2. World \cup Taken \subseteq World' \cup Taken
          OBVIOUS
        <4> QED BY <3>2, <4>1, <4>2, PassedLater
      <3> QED BY <3>1, <3>2
    <2>2. InCommit /\ ~c'.deferred => \A p \in Partitions : Passed(World', p, frame.discarded[p])
      BY PassedLater DEF OffsetInv, PositionInv
    <2>3. InCommit /\ frame.blocked /\ ~c'.deferred /\ frame.cont \in {"retry", "dead"} =>
             \/ frame.tp \notin c'.assigned \/ frame.tp \in c'.paused
             \/ frame.tp \in Discarded
             \/ Passed(World', frame.tp, c'.pos[frame.tp])
      <3> SUFFICES ASSUME InCommit, frame.blocked, ~c'.deferred, frame.cont \in {"retry", "dead"},
                          frame.tp \in c'.assigned, ~Passed(World', frame.tp, c'.pos[frame.tp])
                   PROVE  frame.tp \in c'.paused \/ frame.tp \in Discarded
        OBVIOUS
      <3>1. frame.tp \in c.assigned /\ c'.pos[frame.tp] = c.pos[frame.tp]
            /\ (frame.tp \in c.paused => frame.tp \in c'.paused)
        OBVIOUS
      <3>2. ~Passed(World, frame.tp, c.pos[frame.tp])
        BY <3>1, PassedLater
      <3> QED BY <3>1, <3>2 DEF OffsetInv, PositionInv
    <2> QED BY <1>2, <2>1, <2>2, <2>3 DEF PositionInv
  <1>5. MailInv'
    BY DEF MailInv
  <1> QED BY <1>1, <1>3, <1>4, <1>5 DEF OffsetInv, Rest

(* A step that changes no field the invariants read.                       *)
LEMMA BesideSame ==
  ASSUME OffsetInv, UNCHANGED <<pc, frame>>, Rest', World \subseteq World',
         c' \in ClientType, Tables(World', c'), Seat(c') = Seat(c), c'.mailbox = c.mailbox
  PROVE  OffsetInv'
  <1>1. c'.assigned = c.assigned /\ c'.paused = c.paused /\ c'.pos = c.pos /\ c'.rows = c.rows
        /\ c'.deferred = c.deferred
    BY DEF Seat
  <1>2. MailOK(c')
    BY <1>1 DEF OffsetInv, MailInv, MailOK
  <1>3. pc \in {"down", "crashed"} => c'.assigned = {}
    BY <1>1 DEF OffsetInv, FrameInv
  <1> QED BY <1>1, <1>2, <1>3, BesideKeeps DEF Halted

(* A callback fills the mailbox.                                           *)
LEMMA PublishDoes ==
  ASSUME NEW s \in ClientType, NEW kind \in {"Assigned", "Revoked", "Error"},
         NEW parts \in SUBSET Partitions, NEW at \in OffsetsType
  PROVE  LET t == Publish(s, kind, parts, at) IN
         /\ t \in ClientType /\ Tab(t) = Tab(s) /\ Seat(t) = Seat(s) /\ t.workers = s.workers
         /\ t.lost = s.lost /\ t.epoch = s.epoch /\ t.assignment = s.assignment
         /\ t.epochs = s.epochs + 1 /\ t.mailbox.epoch = s.epochs + 1
         /\ t.mailbox.kind = kind /\ t.mailbox.parts = parts /\ t.mailbox.committed = at
  <1> DEFINE n == s.epochs + 1
             e == [kind |-> kind, parts |-> parts, epoch |-> n, committed |-> at]
             t == [s EXCEPT !.epochs = n, !.mailbox = e]
  <1>1. n \in Nat
    BY RetriesType
  <1>2. e \in EventType /\ e.epoch = n /\ e.kind = kind /\ e.parts = parts /\ e.committed = at
    <2> HIDE DEF n
    <2> QED BY <1>1 DEF EventType
  <1>3. Publish(s, kind, parts, at) = t
    BY DEF Publish
  <1> HIDE DEF e, n
  <1>4. /\ t \in ClientType /\ Tab(t) = Tab(s) /\ Seat(t) = Seat(s) /\ t.workers = s.workers
        /\ t.lost = s.lost /\ t.epoch = s.epoch /\ t.assignment = s.assignment
        /\ t.epochs = n /\ t.mailbox = e
    BY ZenonT(60), <1>1, <1>2 DEF ClientType, Tab, Seat
  <1> HIDE DEF t
  <1> QED BY <1>2, <1>3, <1>4 DEF n

LEMMA OnAssignKeeps ==
  ASSUME OffsetInv, NEW S \in SUBSET Partitions, NEW lingers \in BOOLEAN, OnAssign(S, lingers)
  PROVE  OffsetInv' /\ c'.workers = c.workers
  <1> DEFINE as == c.assigned \cup S
             pa == IF lingers THEN c.paused ELSE c.paused \ S
             t == [c EXCEPT !.assigned = as, !.late = NoOffsets, !.paused = pa]
             at == [p \in Partitions |-> IF p \in S THEN committed[p] ELSE Nowhere]
             k == Rewind(t, at)
             u == Publish(k, "Assigned", t.assigned, NoOffsets)
  <1>0. c \in ClientType /\ Rest /\ Tables(World, c)
    BY RestIs
  <1>1. c' = u /\ UNCHANGED <<pc, frame, world, done, caller, required>> /\ Polling
    BY DEF OnAssign
  <1>2. Rest' /\ World' = World
    BY <1>0, <1>1, RestSame DEF Rest, caller
  <1>3. as \in SUBSET Partitions /\ pa \in SUBSET Partitions /\ S \subseteq as
        /\ (\A p \in c.paused : p \notin S => p \in pa)
    BY <1>0, RetriesType
  <1> HIDE DEF as, pa
  <1>4. /\ t \in ClientType /\ t.assigned = as /\ t.paused = pa /\ t.late = NoOffsets
        /\ t.pos = c.pos /\ t.rows = c.rows /\ t.deferred = c.deferred /\ t.workers = c.workers
        /\ t.snapshot = c.snapshot /\ t.retries = c.retries
        /\ t.pending = c.pending /\ t.admission = c.admission /\ t.progress = c.progress
    BY ZenonT(60), <1>0, <1>3, Named DEF ClientType
  <1>5. Tables(World, t)
    BY <1>0, <1>4, NothingPassed, Named DEF Tables, NoOffsets
  <1>6. at \in OffsetsType /\ (\A p \in Partitions : Passed(World, p, at[p]) /\ at[p] >= -1)
        /\ (\A p \in S : at[p] # -1) /\ (\A p \in Partitions \ S : at[p] = -1)
    BY <1>0, NothingPassed, Named DEF Rest, WorldInv, OffsetsType
  <1> HIDE DEF t, at
  <1>7. /\ k \in ClientType
        /\ \A p \in Partitions :
              k.pos[p] = IF p \in t.assigned /\ at[p] # -1 THEN at[p] ELSE t.pos[p]
        /\ Tab(k) = Tab(t) /\ k.workers = t.workers
        /\ k.assigned = t.assigned /\ k.paused = t.paused /\ k.rows = t.rows /\ k.deferred = t.deferred
    BY <1>4, <1>6, RewindDoes
  <1> HIDE DEF k
  <1>8. /\ u \in ClientType /\ Tab(u) = Tab(k) /\ Seat(u) = Seat(k) /\ u.workers = k.workers
        /\ u.mailbox.parts = t.assigned
    <2>1. t.assigned \in SUBSET Partitions /\ NoOffsets \in OffsetsType
          /\ "Assigned" \in {"Assigned", "Revoked", "Error"}
      BY <1>3, <1>4, Named
    <2> QED BY <1>7, <2>1, PublishDoes
  <1> HIDE DEF u
  <1>9. u.assigned = as /\ u.paused = pa /\ u.rows = c.rows /\ u.deferred = c.deferred /\ u.pos = k.pos
    BY <1>4, <1>7, <1>8 DEF Seat
  <1>10. Tables(World, u)
    <2>1. \A p \in Partitions : k.pos[p] <= Records[p]
      <3> SUFFICES ASSUME NEW p \in Partitions PROVE k.pos[p] <= Records[p]
        OBVIOUS
      <3>1. t.pos[p] <= Records[p] /\ at[p] <= Records[p]
        BY <1>5, <1>6, Named DEF Tables, Passed
      <3> QED BY <1>7, <3>1
    <2>2. /\ u.snapshot = t.snapshot /\ u.late = t.late /\ u.retries = t.retries
          /\ u.pending = t.pending /\ u.admission = t.admission /\ u.progress = t.progress
      BY <1>7, <1>8 DEF Tab
    <2> QED BY <1>5, <1>9, <2>1, <2>2 DEF Tables
  <1>11. MailOK(u)
    BY <1>4, <1>8, <1>9 DEF MailOK
  <1>12. ASSUME NEW p \in u.assigned
         PROVE  \/ Passed(World, p, u.pos[p])
                \/ /\ p \in c.assigned /\ u.pos[p] = c.pos[p]
                   /\ Halted(c, p) => Halted(u, p)
                   /\ p \in c.paused => p \in u.paused
    <2>1. p \in Partitions
      BY <1>3, <1>9
    <2>2. CASE p \in S
      BY <1>3, <1>4, <1>6, <1>7, <1>9, <2>1, <2>2
    <2>3. CASE p \notin S
      <3>1. u.pos[p] = c.pos[p] /\ p \in c.assigned
        BY <1>4, <1>6, <1>7, <1>9, <2>1, <2>3 DEF as
      <3> QED BY <1>3, <1>9, <2>3, <3>1 DEF Halted
    <2> QED BY <2>2, <2>3
  <1>13. pc \notin {"down", "crashed"}
    BY <1>1 DEF Polling
  <1>14. OffsetInv'
    BY <1>1, <1>2, <1>8, <1>9, <1>10, <1>11, <1>12, <1>13, BesideKeeps
  <1> QED BY <1>1, <1>4, <1>7, <1>8, <1>14

(* No more tasks than envelopes.                                           *)
Staffed(S) == IsFiniteSet(S) /\ Cardinality(S) <= Envelopes
Manned == Staffed(c.workers) => Staffed(c'.workers)

LEMMA StaffSwap ==
  ASSUME NEW S, Staffed(S), NEW w \in S, NEW x
  PROVE  Staffed(S \ {w}) /\ Staffed((S \ {w}) \cup {x})
  <1>1. IsFiniteSet(S) /\ Cardinality(S) \in Nat /\ Cardinality(S) <= Envelopes /\ Envelopes \in Nat
    BY FS_CardinalityType, PollOwnerAssumption DEF Staffed
  <1>2. IsFiniteSet(S \ {w}) /\ Cardinality(S \ {w}) = Cardinality(S) - 1
    BY <1>1, FS_RemoveElement
  <1>3. /\ IsFiniteSet((S \ {w}) \cup {x})
        /\ \/ Cardinality((S \ {w}) \cup {x}) = Cardinality(S \ {w})
           \/ Cardinality((S \ {w}) \cup {x}) = Cardinality(S \ {w}) + 1
    BY <1>2, FS_AddElement
  <1> QED BY <1>1, <1>2, <1>3 DEF Staffed

LEMMA StaffImage ==
  ASSUME NEW S, Staffed(S), NEW T, NEW f \in [S -> T], \A y \in T : \E x \in S : f[x] = y
  PROVE  Staffed(T)
  <1>1. f \in Surjection(S, T)
    BY DEF Surjection
  <1>2. IsFiniteSet(S) /\ Cardinality(S) \in Nat /\ Cardinality(S) <= Envelopes /\ Envelopes \in Nat
    BY FS_CardinalityType, PollOwnerAssumption DEF Staffed
  <1>3. IsFiniteSet(T) /\ Cardinality(T) <= Cardinality(S)
    BY <1>1, <1>2, FS_Surjection
  <1>4. Cardinality(T) \in Nat
    BY <1>3, FS_CardinalityType
  <1> QED BY <1>2, <1>3, <1>4 DEF Staffed

LEMMA StaffHired ==
  ASSUME NEW S, Staffed(S), NEW T, Hired(T, S)
  PROVE  Staffed(T)
  <1>1. CASE T = S
    BY <1>1
  <1>2. ASSUME NEW x, T = S \cup {x}, Cardinality(S) < Envelopes
        PROVE  Staffed(T)
    <2>1. IsFiniteSet(S) /\ Cardinality(S) \in Nat /\ Envelopes \in Nat
      BY FS_CardinalityType, PollOwnerAssumption DEF Staffed
    <2>2. IsFiniteSet(T) /\ (Cardinality(T) = Cardinality(S) \/ Cardinality(T) = Cardinality(S) + 1)
      BY <1>2, <2>1, FS_AddElement
    <2> QED BY <1>2, <2>1, <2>2 DEF Staffed
  <1> QED BY <1>1, <1>2 DEF Hired

LEMMA StaffSame ==
  ASSUME NEW S, Staffed(S), NEW T, SameTasks(T, S)
  PROVE  Staffed(T)
  <1>1. PICK r \in ClientType : T = {Cancelled(r, w) : w \in S} /\ r.workers = S
    BY DEF SameTasks
  <1> DEFINE f == [w \in S |-> Cancelled(r, w)]
  <1>2. f \in [S -> T] /\ \A y \in T : \E x \in S : f[x] = y
    BY <1>1
  <1> HIDE DEF f
  <1> QED BY <1>2, StaffImage

(* A revoke, with its commit.                                              *)
LEMMA RevokeKeeps ==
  ASSUME OffsetInv, NEW R \in SUBSET Partitions, NEW outcome \in {"committed", "failed", "late"},
         Revoke(R, outcome)
  PROVE  OffsetInv' /\ c'.workers = c.workers
  <1> DEFINE at == RevokeOffsets(R)
             as == c.assigned \ R
             la == IF outcome = "late" THEN at ELSE c.late
             bu == c.busy \/ outcome = "late"
             t == [c EXCEPT !.assigned = as, !.lost = FALSE, !.late = la, !.busy = bu]
             ac == IF outcome = "committed" THEN at ELSE NoOffsets
             u == Publish(t, "Revoked", R, ac)
  <1>0. c \in ClientType /\ Rest /\ Tables(World, c)
    BY RestIs
  <1>1. c' = u /\ UNCHANGED <<pc, frame, settled, waived, done, caller, required>> /\ Polling
        /\ committed' = IF outcome = "committed"
                        THEN [p \in Partitions |-> IF at[p] = Nowhere THEN committed[p] ELSE at[p]]
                        ELSE committed
    BY DEF Revoke
  <1>2. at \in OffsetsType /\ \A p \in Partitions : Passed(World, p, at[p]) /\ at[p] >= -1
    <2>1. \A p \in Partitions : c.snapshot[p] \in Int /\ Passed(World, p, c.snapshot[p])
      BY <1>0, RetriesType DEF Tables, OffsetsType
    <2>2. \A p \in Partitions : at[p] \in {c.snapshot[p], -1}
      BY Named DEF RevokeOffsets
    <2>3. \A p \in Partitions : Passed(World, p, at[p])
      BY <2>1, <2>2, NothingPassed
    <2>4. at = [p \in Partitions |-> at[p]]
      BY DEF RevokeOffsets
    <2> HIDE DEF at
    <2> QED BY <2>1, <2>2, <2>3, <2>4, Named DEF OffsetsType, Passed
  <1> HIDE DEF at
  <1>3. Rest' /\ World' = World
    <2>1. command' \in {"none", "queued", "executing", "answered", "dropped"} /\ stop' \in BOOLEAN
      BY <1>0, <1>1 DEF Rest, caller
    <2>2. CASE outcome = "committed"
      BY <1>0, <1>1, <1>2, <2>1, <2>2, RestCommitted
    <2>3. CASE outcome # "committed"
      BY <1>0, <1>1, <2>1, <2>3, RestSame DEF world
    <2> QED BY <2>2, <2>3
  <1>4. as \in SUBSET Partitions /\ la \in OffsetsType /\ bu \in BOOLEAN
        /\ (\A p \in Partitions : Passed(World, p, la[p])) /\ ac \in OffsetsType
    BY <1>0, <1>2, RetriesType, Named DEF Tables
  <1> HIDE DEF as, la, bu, ac
  <1>5. /\ t \in ClientType /\ t.assigned = as /\ t.late = la /\ t.paused = c.paused
        /\ t.pos = c.pos /\ t.rows = c.rows /\ t.deferred = c.deferred /\ t.workers = c.workers
        /\ t.snapshot = c.snapshot /\ t.retries = c.retries
        /\ t.pending = c.pending /\ t.admission = c.admission /\ t.progress = c.progress
    BY ZenonT(60), <1>0, <1>4 DEF ClientType
  <1> HIDE DEF t
  <1>6. Tables(World, t)
    BY <1>0, <1>4, <1>5 DEF Tables
  <1>7. /\ u \in ClientType /\ Tab(u) = Tab(t) /\ Seat(u) = Seat(t) /\ u.workers = t.workers
        /\ u.mailbox.kind = "Revoked"
    <2>1. "Revoked" \in {"Assigned", "Revoked", "Error"}
      OBVIOUS
    <2> QED BY <1>4, <1>5, <2>1, PublishDoes
  <1> HIDE DEF u
  <1>8. u.assigned = as /\ u.paused = c.paused /\ u.rows = c.rows /\ u.deferred = c.deferred /\ u.pos = c.pos
    BY <1>5, <1>7 DEF Seat
  <1>9. Tables(World, u) /\ MailOK(u)
    BY <1>5, <1>6, <1>7, <1>8, TablesSame DEF MailOK
  <1>10. pc \notin {"down", "crashed"}
    BY <1>1 DEF Polling
  <1>11. OffsetInv'
    BY <1>1, <1>3, <1>7, <1>8, <1>9, <1>10, BesideKeeps DEF Halted, as
  <1> QED BY <1>1, <1>5, <1>7, <1>11

LEMMA OnErrorKeeps ==
  ASSUME OffsetInv, OnError
  PROVE  OffsetInv' /\ c'.workers = c.workers
  <1> DEFINE none == {}
             t == [c EXCEPT !.assigned = none]
             u == Publish(t, "Error", {}, NoOffsets)
  <1>0. c \in ClientType /\ Rest /\ Tables(World, c)
    BY RestIs
  <1>1. c' = u /\ UNCHANGED <<pc, frame, world, done, caller, required>> /\ Polling
    BY DEF OnError
  <1>2. Rest' /\ World' = World
    BY <1>0, <1>1, RestSame DEF Rest, caller
  <1>3. none \in SUBSET Partitions
    OBVIOUS
  <1> HIDE DEF none
  <1>4. /\ t \in ClientType /\ t.assigned = none /\ Tab(t) = Tab(c)
        /\ t.pos = c.pos /\ t.deferred = c.deferred /\ t.workers = c.workers
    BY <1>0, <1>3 DEF ClientType, Tab
  <1> HIDE DEF t
  <1>5. /\ u \in ClientType /\ Tab(u) = Tab(t) /\ Seat(u) = Seat(t) /\ u.workers = t.workers
        /\ u.mailbox.kind = "Error"
    <2>1. "Error" \in {"Assigned", "Revoked", "Error"} /\ {} \in SUBSET Partitions
      OBVIOUS
    <2> QED BY <1>4, <2>1, PublishDoes, Named
  <1> HIDE DEF u
  <1>6. u.assigned = {} /\ u.deferred = c.deferred /\ u.pos = c.pos
    BY <1>4, <1>5 DEF Seat, none
  <1>7. Tables(World, u) /\ MailOK(u)
    BY <1>0, <1>4, <1>5, <1>6, TablesSame DEF MailOK
  <1>8. OffsetInv'
    BY <1>1, <1>2, <1>5, <1>6, <1>7, BesideKeeps
  <1> QED BY <1>1, <1>4, <1>5, <1>8

LEMMA LoseKeeps ==
  ASSUME OffsetInv, LoseAssignment
  PROVE  OffsetInv' /\ c'.workers = c.workers
  <1>0. c \in ClientType /\ Rest /\ Tables(World, c)
    BY RestIs
  <1>1. c' = [c EXCEPT !.lost = TRUE] /\ UNCHANGED <<pc, frame, world, done, caller, required>>
    BY DEF LoseAssignment
  <1>2. Rest' /\ World' = World
    BY <1>0, <1>1, RestSame DEF Rest, caller
  <1>3. /\ c' \in ClientType /\ Tab(c') = Tab(c) /\ Seat(c') = Seat(c) /\ c'.mailbox = c.mailbox
        /\ c'.workers = c.workers
    BY ZenonT(60), <1>0, <1>1 DEF ClientType, Tab, Seat
  <1>4. Tables(World', c')
    BY <1>0, <1>2, <1>3, TablesSame DEF Seat
  <1> QED BY <1>1, <1>2, <1>3, <1>4, BesideSame

LEMMA LateKeeps ==
  ASSUME OffsetInv, NEW lands \in BOOLEAN, LateCommit(lands)
  PROVE  OffsetInv' /\ c'.workers = c.workers
  <1>0. c \in ClientType /\ Rest /\ Tables(World, c)
    BY RestIs
  <1>1. /\ c' = [c EXCEPT !.late = NoOffsets, !.busy = FALSE]
        /\ UNCHANGED <<pc, frame, settled, waived, done, caller, required>>
        /\ committed' = IF lands
                        THEN [p \in Partitions |-> IF c.late[p] = Nowhere THEN committed[p] ELSE c.late[p]]
                        ELSE committed
    BY DEF LateCommit
  <1>2. Rest' /\ World' = World
    <2>1. command' \in {"none", "queued", "executing", "answered", "dropped"} /\ stop' \in BOOLEAN
      BY <1>0, <1>1 DEF Rest, caller
    <2>2. c.late \in OffsetsType /\ \A p \in Partitions : Passed(World, p, c.late[p]) /\ c.late[p] >= -1
      BY <1>0, RetriesType, Named DEF Tables, Passed
    <2>3. CASE lands
      BY <1>0, <1>1, <2>1, <2>2, <2>3, RestCommitted
    <2>4. CASE ~lands
      BY <1>0, <1>1, <2>1, <2>4, RestSame DEF world
    <2> QED BY <2>3, <2>4
  <1>3. /\ c' \in ClientType /\ Seat(c') = Seat(c) /\ c'.mailbox = c.mailbox /\ c'.late = NoOffsets
        /\ c'.workers = c.workers /\ c'.snapshot = c.snapshot /\ c'.retries = c.retries /\ c'.pos = c.pos
        /\ c'.pending = c.pending /\ c'.admission = c.admission /\ c'.progress = c.progress
    BY ZenonT(60), <1>0, <1>1, Named DEF ClientType, Seat
  <1>4. Tables(World', c')
    BY <1>0, <1>2, <1>3, NothingPassed, Named DEF Tables, NoOffsets
  <1> QED BY <1>1, <1>2, <1>3, <1>4, BesideSame

LEMMA OtherKeeps ==
  ASSUME OffsetInv, NEW p \in Partitions, OtherRuns(p)
  PROVE  OffsetInv' /\ c'.workers = c.workers
  <1>0. c \in ClientType /\ Rest /\ Tables(World, c)
    BY RestIs
  <1>1. /\ c' = [c EXCEPT !.late = NoOffsets]
        /\ UNCHANGED <<pc, frame, waived, done, caller, required>>
        /\ settled' = settled \cup {<<p, committed[p]>>}
        /\ committed' = [committed EXCEPT ![p] = @ + 1] /\ committed[p] < Records[p]
    BY DEF OtherRuns
  <1>2. World' = World \cup {<<p, committed[p]>>}
    BY <1>1 DEF World
  <1>3. Rest'
    <2>1. committed \in [Partitions -> Nat] /\ \A q \in Partitions : Passed(World, q, committed[q])
      BY <1>0 DEF Rest, WorldInv
    <2>2. Reached(World', p, committed[p])
      BY <1>1, <1>2, <2>1, PassedLater, Named DEF Reached
    <2>3. Passed(World', p, committed[p] + 1)
      BY <1>2, <2>2, PassedNext
    <2>4. \A q \in Partitions : Passed(World', q, committed'[q])
      BY <1>1, <1>2, <2>1, <2>3, PassedLater
    <2>5. committed' \in [Partitions -> Nat]
      BY <1>1, <2>1
    <2> QED BY <1>0, <1>1, <1>2, <2>4, <2>5 DEF Rest, WorldInv, caller
  <1>4. /\ c' \in ClientType /\ Seat(c') = Seat(c) /\ c'.mailbox = c.mailbox /\ c'.late = NoOffsets
        /\ c'.workers = c.workers /\ c'.snapshot = c.snapshot /\ c'.retries = c.retries /\ c'.pos = c.pos
        /\ c'.pending = c.pending /\ c'.admission = c.admission /\ c'.progress = c.progress
    BY ZenonT(60), <1>0, <1>1, Named DEF ClientType, Seat
  <1>5. Tables(World, c')
    BY <1>0, <1>4, NothingPassed, Named DEF Tables, NoOffsets
  <1>6. Tables(World', c')
    BY <1>2, <1>5, TablesLater
  <1> QED BY <1>1, <1>2, <1>3, <1>4, <1>6, BesideSame

LEMMA RetryDueKeeps ==
  ASSUME OffsetInv, NEW p \in Partitions, RetryDue(p)
  PROVE  OffsetInv' /\ c'.workers = c.workers
  <1> DEFINE x == [c.retries[p] EXCEPT !.due = TRUE]
             v == [c.retries EXCEPT ![p] = x]
  <1>0. c \in ClientType /\ Rest /\ Tables(World, c)
    BY RestIs
  <1>1. c' = [c EXCEPT !.retries = v] /\ UNCHANGED <<pc, frame, world, done, caller, required>>
    BY DEF RetryDue
  <1>2. Rest' /\ World' = World
    BY <1>0, <1>1, RestSame DEF Rest, caller
  <1>3. x \in [from : Int, due : BOOLEAN] /\ x.from = c.retries[p].from
    <2>1. c.retries[p] \in [from : Int, due : BOOLEAN]
      BY <1>0, RetriesType
    <2> QED BY <2>1
  <1> HIDE DEF x
  <1>4. v \in [Partitions -> [from : Int, due : BOOLEAN]] /\ \A q \in Partitions : v[q].from = c.retries[q].from
    <2>1. c.retries \in [Partitions -> [from : Int, due : BOOLEAN]]
      BY <1>0, RetriesType
    <2> QED BY <1>3, <2>1
  <1> HIDE DEF v
  <1>5. /\ c' \in ClientType /\ Seat(c') = Seat(c) /\ Mail(c') = Mail(c) /\ c'.workers = c.workers
        /\ c'.retries = v /\ c'.snapshot = c.snapshot /\ c'.late = c.late
        /\ c'.pending = c.pending /\ c'.admission = c.admission /\ c'.progress = c.progress
    BY <1>0, <1>1, <1>4, RetriesSet
  <1>6. c'.pos = c.pos /\ c'.mailbox = c.mailbox
    BY <1>5 DEF Seat, Mail
  <1>7. Tables(World', c')
    BY <1>0, <1>2, <1>4, <1>5, <1>6 DEF Tables
  <1> QED BY <1>1, <1>2, <1>5, <1>6, <1>7, BesideSame

(* A task takes its step.                                                  *)
LEMMA WorkersKeep ==
  ASSUME OffsetInv, NEW v \in SUBSET WorkerType, c' = [c EXCEPT !.workers = v],
         UNCHANGED <<pc, frame>>, Rest', World \subseteq World'
  PROVE  OffsetInv' /\ c'.workers = v
  <1>0. c \in ClientType /\ Tables(World, c)
    BY RestIs
  <1>1. /\ c' \in ClientType /\ Tab(c') = Tab(c) /\ Seat(c') = Seat(c) /\ Mail(c') = Mail(c)
        /\ c'.workers = v
    BY <1>0, WorkersSet
  <1>2. c'.pos = c.pos /\ c'.mailbox = c.mailbox
    BY <1>1 DEF Seat, Mail
  <1>3. Tables(World', c')
    BY <1>0, <1>1, <1>2, TablesSame, TablesLater
  <1> QED BY <1>1, <1>2, <1>3, BesideSame

LEMMA RestDone ==
  ASSUME Rest, UNCHANGED <<committed, caller, required>>, World \subseteq World',
         required => waived' = {}, done' \subseteq DoneType,
         \A d \in done' : d.ok => <<d.tp, d.offset>> \in World'
  PROVE  Rest'
  BY PassedLater DEF Rest, WorldInv, caller

LEMMA WorkerKeeps ==
  ASSUME OffsetInv, NEW w \in c.workers, WorkerStep(w)
  PROVE  OffsetInv' /\ Manned
  <1>0. c \in ClientType /\ Rest /\ c.workers \subseteq WorkerType /\ w \in WorkerType
    BY RestIs, RetriesType
  <1> DEFINE Fin(ok) == [tp |-> w.tp, offset |-> w.offset, epoch |-> w.epoch, ok |-> ok]
             gone == c.workers \ {w}
             sent == [w EXCEPT !.phase = "sent"]
             back == [w EXCEPT !.phase = "waiting"]
  <1>1. gone \in SUBSET WorkerType
    BY <1>0
  <1>2. \A ok \in BOOLEAN : Fin(ok) \in DoneType /\ Fin(ok).ok = ok /\ Fin(ok).tp = w.tp /\ Fin(ok).offset = w.offset
    BY <1>0 DEF WorkerType, DoneType
  <1>3. sent \in WorkerType /\ back \in WorkerType
    BY <1>0 DEF WorkerType
  <1> HIDE DEF Fin, gone, sent, back
  <1>3a. Staffed(c.workers) => Staffed(gone \cup {sent}) /\ Staffed(gone \cup {back}) /\ Staffed(gone)
    BY StaffSwap DEF gone
  <1>4. ASSUME NEW ok \in BOOLEAN, WorkerEnds(w, ok), UNCHANGED <<pc, frame, committed, waived, caller, required>>,
               settled' = IF ok THEN settled \cup {<<w.tp, w.offset>>} ELSE settled
        PROVE  OffsetInv' /\ Manned
    <2>1. c' = [c EXCEPT !.workers = gone] /\ (done' = done \/ done' = done \cup {Fin(ok)})
      BY <1>4 DEF WorkerEnds, Fin, gone
    <2>2. World \subseteq World' /\ (ok => <<w.tp, w.offset>> \in World')
      BY <1>4 DEF World
    <2>3. done' \subseteq DoneType /\ \A d \in done' : d.ok => <<d.tp, d.offset>> \in World'
      BY <1>0, <1>2, <2>1, <2>2 DEF Rest, WorldInv
    <2>4. required => waived' = {}
      BY <1>0, <1>4 DEF Rest, WorldInv
    <2>5. Rest'
      BY <1>0, <1>4, <2>2, <2>3, <2>4, RestDone
    <2>6. OffsetInv' /\ c'.workers = gone
      BY <1>1, <1>4, <2>1, <2>2, <2>5, WorkersKeep
    <2> QED BY <1>3a, <2>6 DEF Manned
  <1>5. CASE WorkerSends(w)
    <2> DEFINE v == gone \cup {sent}
    <2>1. c' = [c EXCEPT !.workers = v] /\ UNCHANGED <<pc, frame, world, done, caller, required>>
      BY <1>5 DEF WorkerSends, gone, sent
    <2>2. v \in SUBSET WorkerType
      BY <1>1, <1>3
    <2>3. Rest' /\ World' = World
      BY <1>0, <2>1, RestSame DEF Rest, caller
    <2> HIDE DEF v
    <2>4. OffsetInv' /\ c'.workers = v
      BY <2>1, <2>2, <2>3, WorkersKeep
    <2> QED BY <1>3a, <2>4 DEF Manned, v
  <1>6. CASE WorkerStops(w)
    <2>1. /\ WorkerEnds(w, FALSE) /\ UNCHANGED <<pc, frame, committed, waived, caller, required>>
          /\ settled' = settled
      BY <1>6 DEF WorkerStops, world
    <2> QED BY <1>4, <2>1
  <1>7. CASE WorkerAcked(w)
    <2>1. /\ WorkerEnds(w, TRUE) /\ UNCHANGED <<pc, frame, committed, waived, caller, required>>
          /\ settled' = settled \cup {<<w.tp, w.offset>>}
      BY <1>7 DEF WorkerAcked
    <2> QED BY <1>4, <2>1
  <1>8. CASE WorkerFails(w)
    <2>1. UNCHANGED <<pc, frame, world, caller, required>>
      BY <1>8 DEF WorkerFails
    <2>2. CASE WorkerEnds(w, FALSE)
      <3>1. /\ UNCHANGED <<pc, frame, committed, waived, caller, required>>
            /\ settled' = settled
        BY <2>1 DEF world
      <3> QED BY <1>4, <2>2, <3>1
    <2> DEFINE v == gone \cup {back}
               s == [c EXCEPT !.workers = v]
    <2>3. CASE c' = Degraded(s, w) /\ UNCHANGED done
      <3>1. v \in SUBSET WorkerType
        BY <1>1, <1>3
      <3>2. Rest' /\ World' = World
        BY <1>0, <2>1, <2>3, RestSame DEF Rest, caller
      <3> HIDE DEF v
      <3>3. /\ s \in ClientType /\ Tab(s) = Tab(c) /\ Seat(s) = Seat(c) /\ Mail(s) = Mail(c) /\ s.workers = v
        BY <1>0, <3>1, WorkersSet
      <3> DEFINE u == AddPauseReason(s, {w.tp}, "degraded")
      <3>4. {w.tp} \in SUBSET Partitions /\ "degraded" \in Reasons
        BY <1>0 DEF WorkerType, Reasons
      <3> HIDE DEF s
      <3>5. /\ u \in ClientType /\ u.rows = s.rows \cup ({w.tp} \X {"degraded"})
            /\ Tab(u) = Tab(s) /\ Mail(u) = Mail(s) /\ u.workers = s.workers
            /\ u.assigned = s.assigned /\ u.pos = s.pos /\ u.paused = s.paused /\ u.deferred = s.deferred
        BY <3>3, <3>4, AddDoes
      <3>6. c' = u \/ c' = s
        BY <2>3 DEF Degraded
      <3> HIDE DEF u
      <3>7. /\ c' \in ClientType /\ Tab(c') = Tab(c) /\ c'.workers = v /\ c'.mailbox = c.mailbox
            /\ c'.assigned = c.assigned /\ c'.pos = c.pos /\ c'.paused = c.paused /\ c'.deferred = c.deferred
            /\ c.rows \subseteq c'.rows
        BY <3>3, <3>5, <3>6 DEF Seat, Mail
      <3>8. Tables(World', c') /\ MailOK(c')
        BY <3>2, <3>7, RestIs, TablesSame DEF MailOK
      <3>9. pc \in {"down", "crashed"} => c'.assigned = {}
        BY <3>7 DEF OffsetInv, FrameInv
      <3>10. OffsetInv'
        BY <2>1, <3>2, <3>7, <3>8, <3>9, BesideKeeps DEF Halted
      <3> QED BY <1>3a, <3>7, <3>10 DEF Manned, v
    <2> QED BY <1>8, <2>2, <2>3 DEF WorkerFails, gone, back
  <1> QED BY <1>5, <1>6, <1>7, <1>8 DEF WorkerStep

LEMMA RequestKeeps ==
  ASSUME OffsetInv, RequestStop
  PROVE  OffsetInv' /\ c'.workers = c.workers
  <1>0. c \in ClientType /\ Rest /\ Tables(World, c)
    BY RestIs
  <1>1. command' = "queued" /\ UNCHANGED <<c, pc, frame, world, done, stop, required>>
    BY DEF RequestStop
  <1>2. Rest' /\ World' = World
    BY <1>0, <1>1, RestSame DEF Rest
  <1>3. Seat(c') = Seat(c) /\ c'.mailbox = c.mailbox /\ c' \in ClientType /\ Tables(World', c')
    BY <1>0, <1>1, <1>2
  <1> QED BY <1>1, <1>2, <1>3, BesideSame

LEMMA RestartKeeps ==
  ASSUME OffsetInv, NEW clear \in BOOLEAN, Restart(clear)
  PROVE  OffsetInv' /\ c'.workers = c.workers
  <1> DEFINE a == IF clear THEN NoAttempts ELSE c.attempts
             t == [c EXCEPT !.attempts = a]
  <1>0. c \in ClientType /\ Rest /\ MailOK(c)
    BY RestIs
  <1>1. Goto(t, "top") /\ pc \in {"down", "crashed"} /\ UNCHANGED <<world, done, caller, required>>
    BY DEF Restart
  <1>2. Rest' /\ World' = World
    BY <1>0, <1>1, RestSame DEF Rest, caller
  <1>3. a \in [Partitions -> [Offsets -> Nat]]
    BY <1>0, RetriesType, Named
  <1> HIDE DEF a
  <1>4. Safe(World, World, c, {})
    BY <1>1, StandsFree
  <1>5. Safe(World, World, t, {}) /\ Calm(c, t)
    BY <1>3, <1>4, KeepAttempts
  <1> HIDE DEF t
  <1>6. OffsetInv'
    BY <1>0, <1>1, <1>2, <1>5, GotoKeeps, CalmMail
  <1> QED BY <1>1, <1>5, <1>6, CalmMail DEF Goto

LEMMA StopDownKeeps ==
  ASSUME OffsetInv, StopWhileDown
  PROVE  OffsetInv' /\ c'.workers = c.workers
  <1>0. c \in ClientType /\ Rest /\ MailOK(c)
    BY RestIs
  <1>1. Goto(c, "stopped") /\ pc \in {"down", "crashed"} /\ UNCHANGED <<world, done, required>>
        /\ command' = "answered" /\ stop' = TRUE
    BY DEF StopWhileDown
  <1>2. Rest' /\ World' = World
    BY <1>0, <1>1, RestSame
  <1>3. Safe(World, World, c, {})
    BY <1>1, StandsFree
  <1>4. OffsetInv'
    BY <1>0, <1>1, <1>2, <1>3, GotoKeeps
  <1> QED BY <1>1, <1>4 DEF Goto

-----------------------------------------------------------------------------
(* Steps of the loop, before a poll.                                       *)
LEMMA DrainedKeeps ==
  ASSUME OffsetInv, Drained
  PROVE  OffsetInv' /\ c'.workers = c.workers
  <1>0. Rest /\ MailOK(c) /\ Safe(World, World, c, {})
    BY RestIs, StandsFree DEF Drained
  <1>1. Goto(Pruned(c), "turn") /\ UNCHANGED <<world, done, caller, required>>
    BY DEF Drained
  <1>2. Rest' /\ World' = World
    BY <1>0, <1>1, RestSame DEF Rest, caller
  <1>3. Safe(World, World, Pruned(c), {}) /\ Calm(c, Pruned(c))
    BY <1>0, KeepPruned
  <1>4. OffsetInv'
    BY <1>0, <1>1, <1>2, <1>3, GotoKeeps, CalmMail
  <1> QED BY <1>1, <1>3, <1>4, CalmMail DEF Goto

LEMMA DrainKeeps ==
  ASSUME OffsetInv, NEW d \in done, Drain(d)
  PROVE  OffsetInv' /\ c'.workers = c.workers
  <1> DEFINE pr == Pruned(c)
             v == [pr.pending EXCEPT ![d.tp] = NoJob]
             s == [pr EXCEPT !.pending = v]
             p == d.tp
             o == d.offset
  <1>0. Rest /\ MailOK(c) /\ Safe(World, World, c, {}) /\ c \in ClientType /\ Tables(World, c)
    BY RestIs, StandsFree DEF Drain
  <1>1. /\ done' = done \ {d} /\ UNCHANGED <<committed, settled, caller, required>>
        /\ IF ~Matches(c, d) THEN Goto(pr, "top") /\ UNCHANGED waived
           ELSE IF d.epoch # c.epoch \/ (~d.ok /\ stop) THEN Goto(s, "top") /\ UNCHANGED waived
           ELSE IF (~d.ok /\ required) \/ ObserveFails(s, p, o)
                THEN Goto(HaltPartition(s, p), "top") /\ UNCHANGED waived
           ELSE /\ Call(PublishCommitSnapshot(Observe(s, p, o, TRUE)), "dlt", p, o)
                /\ waived' = IF d.ok THEN waived ELSE waived \cup {<<p, o>>}
    BY DEF Drain
  <1>2. d \in DoneType /\ p \in Partitions /\ o \in Nat /\ d.ok \in BOOLEAN
    BY <1>0 DEF Rest, DoneType
  <1>3. Safe(World, World, pr, {}) /\ Calm(c, pr) /\ pr.pending = c.pending /\ pr \in ClientType
    BY <1>0, KeepPruned DEF Safe
  <1> HIDE DEF pr
  <1>4. /\ v \in [Partitions -> JobType]
        /\ \A q \in Partitions : v[q].offset # Nowhere => Reached(World, q, v[q].offset)
    <2>1. pr.pending \in [Partitions -> JobType]
      BY <1>3, RetriesType
    <2>2. v \in [Partitions -> JobType] /\ \A q \in Partitions : v[q] = NoJob \/ v[q] = pr.pending[q]
      BY <1>2, <2>1, Named
    <2> HIDE DEF v
    <2> QED BY <1>3, <2>2, Named DEF Safe, Tables
  <1> HIDE DEF v
  <1>5. Safe(World, World, s, {}) /\ Calm(c, s)
    <2>1. Safe(World, World, s, {})
      BY <1>3, <1>4, SafePending
    <2>2. Calm(pr, s)
      BY ZenonT(60), <1>3, <1>4, PendingSet, CalmSeat
    <2> QED BY <1>3, <2>1, <2>2, CalmTwice
  <1> HIDE DEF s, p, o
  <1>6. World \subseteq World'
    BY <1>1 DEF World
  <1>7. ASSUME UNCHANGED waived PROVE Rest' /\ World' = World
    <2>1. World' = World
      BY <1>1, <1>7 DEF World
    <2>2. required => waived' = {}
      BY <1>0, <1>7 DEF Rest, WorldInv
    <2>3. done' \subseteq DoneType /\ \A e \in done' : e.ok => <<e.tp, e.offset>> \in World'
      BY <1>0, <1>1, <2>1 DEF Rest, WorldInv
    <2> QED BY <1>0, <1>1, <1>6, <2>1, <2>2, <2>3, RestDone
  <1>8. CASE Goto(pr, "top") /\ UNCHANGED waived
    <2>1. OffsetInv'
      BY <1>0, <1>3, <1>7, <1>8, GotoKeeps, CalmMail
    <2> QED BY <1>3, <1>8, <2>1, CalmMail DEF Goto
  <1>9. CASE Goto(s, "top") /\ UNCHANGED waived
    <2>1. OffsetInv'
      BY <1>0, <1>5, <1>7, <1>9, GotoKeeps, CalmMail
    <2> QED BY <1>5, <1>9, <2>1, CalmMail DEF Goto
  <1>10. CASE Goto(HaltPartition(s, p), "top") /\ UNCHANGED waived
    <2> DEFINE t == HaltPartition(s, p)
    <2>1. Safe(World, World, t, {}) /\ Calm(s, t)
      <3>1. Safe(World, World, t, {} \ {p}) /\ Calm(s, t)
        BY <1>2, <1>5, KeepHalt
      <3> QED BY <3>1, SafeMore
    <2> HIDE DEF t
    <2>2. Calm(c, t)
      BY <1>5, <2>1, CalmTwice
    <2>3. OffsetInv'
      BY <1>0, <1>7, <1>10, <2>1, <2>2, GotoKeeps, CalmMail DEF t
    <2> QED BY <1>10, <2>2, <2>3, CalmMail DEF Goto, t
  <1>11. CASE /\ Matches(c, d) /\ ~(~d.ok /\ required)
              /\ Call(PublishCommitSnapshot(Observe(s, p, o, TRUE)), "dlt", p, o)
              /\ waived' = IF d.ok THEN waived ELSE waived \cup {<<p, o>>}
    <2> DEFINE t == Observe(s, p, o, TRUE)
               u == PublishCommitSnapshot(t)
               W == World'
    <2>1. Reached(World, p, o)
      <3>1. c.pending[p].offset = o
        BY <1>11 DEF Matches, p, o
      <3> QED BY <1>0, <1>2, <3>1, Named DEF Tables
    <2>2. Reached(W, p, o) /\ <<p, o>> \in W
      <3>1. <<p, o>> \in W
        BY <1>0, <1>1, <1>11 DEF Rest, WorldInv, World, p, o
      <3> QED BY <1>6, <2>1, <3>1, PassedLater DEF Reached
    <2> HIDE DEF W
    <2>3. Safe(W, W, s, {})
      BY <1>5, <1>6, SafeLater DEF W
    <2>4. Safe(W, W, t, {}) /\ Calm(s, t)
      BY <1>2, <2>2, <2>3, KeepObserve
    <2> HIDE DEF t
    <2>5. Safe(W, W, u, {}) /\ Calm(t, u)
      BY <2>4, KeepSnapshot
    <2> HIDE DEF u
    <2>6. Calm(c, u)
      BY <1>5, <2>4, <2>5, CalmTwice
    <2>7. Rest'
      <3>1. required => waived' = {}
        BY <1>0, <1>11 DEF Rest, WorldInv
      <3>2. done' \subseteq DoneType /\ \A e \in done' : e.ok => <<e.tp, e.offset>> \in World'
        BY <1>0, <1>1, <1>6 DEF Rest, WorldInv
      <3> QED BY <1>0, <1>1, <1>6, <3>1, <3>2, RestDone
    <2>8. Safe(World', World' \cup Taking("dlt", p, o), u, {})
      <3>1. World' \cup Taking("dlt", p, o) = W
        BY DEF Taking, W
      <3> QED BY <2>5, <3>1 DEF W
    <2>9. Call(u, "dlt", p, o) /\ MailOK(u) /\ o \in Int
      <3>1. Call(u, "dlt", p, o)
        BY <1>11 DEF u, t
      <3>2. MailOK(u)
        BY <1>0, <2>6, CalmMail
      <3> QED BY <1>2, <3>1, <3>2
    <2>10. OffsetInv'
      BY <1>2, <2>2, <2>7, <2>8, <2>9, CallKeeps DEF W
    <2> QED BY <2>6, <2>9, <2>10, CalmMail DEF Call
  <1> QED BY <1>1, <1>8, <1>9, <1>10, <1>11

LEMMA ToPollKeeps ==
  ASSUME NEW s, NEW stopping \in BOOLEAN, ToPoll(s, stopping), Rest', MailOK(s), Safe(World', World', s, {})
  PROVE  OffsetInv' /\ c'.workers = s.workers
  <1> DEFINE t == ServiceDltAdmission(s, stopping)
             at == IF s.deferred THEN "maintain" ELSE "poll"
  <1>1. Goto(t, at)
    BY DEF ToPoll
  <1>2. Safe(World', World', t, {}) /\ Calm(s, t)
    <2> DEFINE W == World'
    <2>1. Safe(W, W, s, {})
      OBVIOUS
    <2> HIDE DEF W
    <2>2. Safe(W, W, t, {}) /\ Calm(s, t)
      BY <2>1, KeepService
    <2> QED BY <2>2 DEF W
  <1> HIDE DEF t
  <1>3. t.deferred = s.deferred /\ MailOK(t) /\ t.workers = s.workers
    BY <1>2, CalmMail
  <1>4. OffsetInv'
    BY <1>1, <1>2, <1>3, GotoKeeps
  <1> QED BY <1>1, <1>3, <1>4 DEF Goto

LEMMA SafeDeferred ==
  ASSUME NEW W, NEW V, NEW s, NEW X, Safe(W, V, s, X)
  PROVE  LET t == [s EXCEPT !.deferred = TRUE] IN
         /\ Safe(W, V, t, X) /\ t.deferred /\ t.workers = s.workers /\ Mail(t) = Mail(s)
         /\ t.assigned = s.assigned /\ (MailOK(s) => MailOK(t))
  <1> DEFINE t == [s EXCEPT !.deferred = TRUE]
  <1>1. /\ t \in ClientType /\ t.deferred /\ Tab(t) = Tab(s) /\ Mail(t) = Mail(s) /\ t.workers = s.workers
        /\ t.assigned = s.assigned /\ t.pos = s.pos
    BY DeferredSet DEF Safe
  <1> HIDE DEF t
  <1>2. Safe(W, V, t, X)
    BY <1>1, TablesSame DEF Safe, Standing
  <1>3. MailOK(s) => MailOK(t)
    BY <1>1 DEF Mail, MailOK
  <1> QED BY <1>1, <1>2, <1>3 DEF t

LEMMA StopOrDeferKeeps ==
  ASSUME Rest, UNCHANGED <<world, done, required>>, stop' \in BOOLEAN,
         NEW s, Safe(World, World, s, {}), MailOK(s), StopOrDefer(s)
  PROVE  OffsetInv' /\ c'.workers = s.workers
  <1> DEFINE t == CancelRetries(s)
             d == [t EXCEPT !.deferred = TRUE]
             e == ClearProgress(t)
  <1>1. \/ command' = "executing" /\ ToPoll(d, TRUE)
        \/ command' = "answered" /\ Ends(e, "stop")
    BY DEF StopOrDefer
  <1>2. Rest' /\ World' = World
    BY <1>1, RestSame
  <1>3. Safe(World, World, t, {}) /\ Calm(s, t)
    BY KeepCancelRetries
  <1> HIDE DEF t
  <1>4. MailOK(t) /\ t.workers = s.workers /\ t \in ClientType
    BY <1>3, CalmMail DEF Safe
  <1>5. Safe(World, World, d, {}) /\ d.deferred /\ d.workers = t.workers /\ MailOK(d)
    BY <1>3, <1>4, SafeDeferred
  <1> HIDE DEF d
  <1>6. CASE ToPoll(d, TRUE)
    BY <1>2, <1>4, <1>5, <1>6, ToPollKeeps
  <1>7. CASE Ends(e, "stop")
    <2>1. Trimmed(t, e)
      BY <1>4, ClearProgressDoes
    <2> HIDE DEF e
    <2>2. Safe(World, World, e, {}) /\ Calm(t, e)
      BY <1>3, <2>1, SafeTrim, CalmSeat DEF Trimmed
    <2>3. MailOK(e) /\ e.workers = t.workers /\ e \in ClientType /\ Tables(World', e)
      BY <1>2, <1>4, <2>2, CalmMail DEF Safe
    <2>4. OffsetInv'
      BY <1>2, <1>7, <2>3, EndsKeeps
    <2> QED BY <1>4, <1>7, <2>3, <2>4 DEF Ends
  <1> QED BY <1>1, <1>6, <1>7

LEMMA TurnsKeep ==
  ASSUME OffsetInv, TurnFinishes \/ Turn \/ TurnStops \/ AfterStop
  PROVE  OffsetInv' /\ c'.workers = c.workers
  <1>0. Rest /\ MailOK(c) /\ Safe(World, World, c, {}) /\ c \in ClientType /\ Tables(World, c)
    BY RestIs, StandsFree DEF TurnFinishes, Turn, TurnStops, AfterStop
  <1> DEFINE s == ActivateDueRetries(c)
  <1>1. Safe(World, World, s, {}) /\ Calm(c, s)
    BY <1>0, KeepActivate
  <1> HIDE DEF s
  <1>2. MailOK(s) /\ s.workers = c.workers
    BY <1>0, <1>1, CalmMail
  <1>3. CASE TurnFinishes
    <2> DEFINE t == [c EXCEPT !.deferred = FALSE]
    <2>1. /\ Ends(t, "stop") /\ UNCHANGED <<world, done, stop, required>> /\ command' = "answered"
      BY <1>3 DEF TurnFinishes
    <2>2. Rest' /\ World' = World
      BY <1>0, <2>1, RestSame DEF Rest
    <2>3. /\ t \in ClientType /\ Tab(t) = Tab(c) /\ Mail(t) = Mail(c) /\ t.workers = c.workers
          /\ t.assigned = c.assigned /\ t.pos = c.pos
      BY <1>0, DeferredSet
    <2> HIDE DEF t
    <2>4. Tables(World', t) /\ MailOK(t)
      BY <1>0, <2>2, <2>3, TablesSame DEF Mail, MailOK
    <2>5. OffsetInv'
      BY <2>1, <2>2, <2>3, <2>4, EndsKeeps
    <2> QED BY <2>1, <2>3, <2>5 DEF Ends
  <1>4. CASE Turn
    <2>1. ToPoll(s, stop) /\ UNCHANGED <<world, done, caller, required>>
      BY <1>4 DEF Turn, s
    <2>2. Rest' /\ World' = World /\ stop \in BOOLEAN
      BY <1>0, <2>1, RestSame DEF Rest, caller
    <2> QED BY <1>1, <1>2, <2>1, <2>2, ToPollKeeps
  <1>5. CASE TurnStops
    <2>1. /\ UNCHANGED <<world, done, required>> /\ stop' = TRUE
          /\ \/ Call(s, "stop", "none", Nowhere) /\ command' = "executing"
             \/ StopOrDefer(s)
      BY <1>5 DEF TurnStops, s
    <2>2. CASE StopOrDefer(s)
      BY <1>0, <1>1, <1>2, <2>1, <2>2, StopOrDeferKeeps
    <2>3. CASE Call(s, "stop", "none", Nowhere) /\ command' = "executing"
      <3>1. Rest' /\ World' = World
        BY <1>0, <2>1, <2>3, RestSame
      <3>2. Taking("stop", "none", Nowhere) = {} /\ Nowhere \in Int
        BY Named DEF Taking
      <3>3. Safe(World', World' \cup Taking("stop", "none", Nowhere), s, {})
        <4>1. World \cup Taking("stop", "none", Nowhere) = World
          BY <3>2
        <4> QED BY <1>1, <3>1, <4>1
      <3>4. OffsetInv'
        BY <1>2, <2>3, <3>1, <3>2, <3>3, CallKeeps
      <3> QED BY <1>2, <2>3, <3>4 DEF Call
    <2> QED BY <2>1, <2>2, <2>3
  <1>6. CASE AfterStop
    <2>1. UNCHANGED <<world, done, required>> /\ stop' \in BOOLEAN /\ StopOrDefer(c)
      BY <1>0, <1>6 DEF AfterStop, Rest
    <2> QED BY <1>0, <2>1, StopOrDeferKeeps
  <1> QED BY <1>3, <1>4, <1>5, <1>6

-----------------------------------------------------------------------------
(* commit_until_resolved.                                                  *)
LEMMA VoidKeeps ==
  ASSUME OffsetInv, CommitVoid
  PROVE  OffsetInv' /\ c'.workers = c.workers
  <1> DEFINE e == ClearProgress(c)
             t == PublishCommitSnapshot(e)
             r == IF CommittableOffsets(c) = NoOffsets THEN c ELSE t
  <1>0. Rest /\ MailOK(c) /\ c \in ClientType /\ pc = "commit" /\ InCommit
    BY RestIs DEF CommitVoid, InCommit
  <1>1. Return(r) /\ UNCHANGED <<world, done, caller, required>>
    BY DEF CommitVoid
  <1>2. Rest' /\ World' = World
    BY <1>0, <1>1, RestSame DEF Rest, caller
  <1> DEFINE V == World \cup Taken
  <1>3. Safe(World, V, c, Discarded)
    BY <1>0, StandsInCommit
  <1>4. Trimmed(c, e)
    BY <1>0, ClearProgressDoes
  <1> HIDE DEF e, V
  <1>5. Safe(World, V, t, Discarded) /\ Calm(c, t)
    BY <1>3, <1>4, KeepTrim
  <1> HIDE DEF t
  <1>6. Safe(World, V, r, Discarded) /\ Calm(c, r)
    BY <1>3, <1>5 DEF Calm
  <1> HIDE DEF r
  <1>7. MailOK(r) /\ r.deferred = c.deferred /\ r.workers = c.workers
    BY <1>0, <1>6, CalmMail
  <1>8. OffsetInv'
    BY <1>0, <1>1, <1>2, <1>6, <1>7, ReturnKeeps DEF V
  <1>9. Calm(r, PutBack(r))
    BY <1>0, <1>6, <1>7, PutBackDoes DEF V
  <1> QED BY <1>1, <1>7, <1>8, <1>9, CalmMail DEF Return

LEMMA CommitEndsKeeps ==
  ASSUME OffsetInv, InCommit, NEW t, NEW kind \in {"stop", "crash", "transient"}, Ends(PutBack(t), kind),
         Rest', World' = World, MailOK(t),
         Safe(World, World \cup Taken, t, Discarded), ~t.deferred => ~c.deferred
  PROVE  OffsetInv' /\ c'.workers = t.workers
  <1> DEFINE u == PutBack(t)
  <1>1. Safe(World, World \cup Taken, u, {}) /\ Calm(t, u)
    BY PutBackDoes
  <1> HIDE DEF u
  <1>2. u \in ClientType /\ Tables(World', u) /\ MailOK(u) /\ u.workers = t.workers
    BY <1>1, CalmMail DEF Safe
  <1>3. OffsetInv'
    BY <1>2, EndsKeeps DEF u
  <1> QED BY <1>2, <1>3 DEF Ends, u

LEMMA AcceptedKeeps ==
  ASSUME OffsetInv, CommitAccepted
  PROVE  OffsetInv' /\ c'.workers = c.workers
  <1> DEFINE at == CommittableOffsets(c)
             named == {p \in Partitions : at[p] # Nowhere}
             k == ConfirmCommitted(c, at)
             s == PublishCommitSnapshot(k)
             Lower(p) == IF at[p] = Nowhere THEN frame.discarded[p]
                         ELSE IF frame.discarded[p] = Nowhere THEN at[p]
                         ELSE Min({at[p], frame.discarded[p]})
             lo == [p \in Partitions |-> Lower(p)]
             x == Rewind(s, lo)
             y == ClearCommitBlocked(x)
             V == World \cup Taken
  <1>0. Rest /\ MailOK(c) /\ c \in ClientType /\ pc = "commit" /\ InCommit /\ Tables(World, c)
        /\ frame \in FrameType
    BY RestIs DEF CommitAccepted, InCommit
  <1>1. /\ UNCHANGED <<settled, waived, done, caller, required>>
        /\ committed' = [p \in Partitions |-> IF at[p] = Nowhere THEN committed[p] ELSE at[p]]
        /\ IF ~frame.blocked THEN Return(s)
           ELSE IF ~(named \subseteq c.assigned) THEN Ends(PutBack(s), "crash")
           ELSE c' = y /\ pc' = frame.cont /\ frame' = Calling("top", frame.tp, frame.offset)
    BY DEF CommitAccepted, Accept
  <1>2. at \in OffsetsType /\ \A p \in Partitions : Passed(World, p, at[p]) /\ at[p] >= -1
    BY <1>0, CommittablePassed
  <1> HIDE DEF at
  <1>3. Rest' /\ World' = World
    <2>1. command' \in {"none", "queued", "executing", "answered", "dropped"} /\ stop' \in BOOLEAN
      BY <1>0, <1>1 DEF Rest, caller
    <2> QED BY <1>0, <1>1, <1>2, <2>1, RestCommitted
  <1>4. Safe(World, V, c, Discarded)
    BY <1>0, StandsInCommit
  <1>5. Trimmed(c, k)
    BY <1>0, <1>2, ConfirmDoes
  <1> HIDE DEF k, V
  <1>6. Safe(World, V, s, Discarded) /\ Calm(c, s)
    BY <1>4, <1>5, KeepTrim
  <1> HIDE DEF s
  <1>7. MailOK(s) /\ s.deferred = c.deferred /\ s.workers = c.workers
    BY <1>0, <1>6, CalmMail
  <1>8. CASE Return(s)
    <2>1. OffsetInv'
      BY <1>0, <1>3, <1>6, <1>7, <1>8, ReturnKeeps DEF V
    <2>2. Calm(s, PutBack(s))
      BY <1>0, <1>6, <1>7, PutBackDoes DEF V
    <2> QED BY <1>7, <1>8, <2>1, <2>2, CalmMail DEF Return
  <1>9. CASE Ends(PutBack(s), "crash")
    BY <1>0, <1>3, <1>6, <1>7, <1>9, CommitEndsKeeps DEF V
  <1>10. CASE c' = y /\ pc' = frame.cont /\ frame' = Calling("top", frame.tp, frame.offset)
    <2>1. \A p \in Partitions : frame.discarded[p] \in Int /\ frame.discarded[p] \in -1 .. Records[p]
      BY <1>0, Named DEF OffsetInv, FrameInv, FrameType, OffsetsType
    <2>2. ASSUME NEW p \in Partitions
          PROVE  /\ Lower(p) \in Int /\ Lower(p) \in -1 .. Records[p]
                 /\ frame.discarded[p] # -1 => Lower(p) # -1
                 /\ Passed(World, p, frame.discarded[p]) => Passed(World, p, Lower(p))
      <3>1. at[p] \in Int /\ at[p] \in -1 .. Records[p]
        BY <1>2, Named DEF OffsetsType, Passed
      <3>2. CASE at[p] = -1
        BY <2>1, <3>2, Named
      <3>3. CASE frame.discarded[p] = -1 /\ at[p] # -1
        BY <1>2, <3>1, <3>3, Named
      <3>4. CASE frame.discarded[p] # -1 /\ at[p] # -1
        <4>1. at[p] \in Nat /\ frame.discarded[p] \in Nat
          BY <2>1, <3>1, <3>4, Named
        <4>2. Lower(p) \in {at[p], frame.discarded[p]}
          BY <3>4, <4>1, LesserOf, Named
        <4> HIDE DEF Lower
        <4> QED BY <1>2, <2>1, <3>1, <4>1, <4>2
      <3> QED BY <3>2, <3>3, <3>4
    <2> HIDE DEF Lower
    <2>3. /\ lo \in OffsetsType /\ \A p \in Partitions : lo[p] = Lower(p)
      BY <2>2 DEF OffsetsType
    <2> HIDE DEF lo
    <2>4. Discarded = {p \in Partitions : frame.discarded[p] # -1}
      BY <1>0, Named DEF Discarded
    <2>5. Safe(World, V, x, {})
      <3>1. CASE s.deferred
        BY <1>6, <2>2, <2>3, <3>1, SafeAnywhere
      <3>2. CASE ~s.deferred
        <4>1. \A p \in Partitions : Passed(World, p, lo[p])
          BY <1>0, <1>7, <2>2, <2>3, <3>2 DEF OffsetInv, PositionInv
        <4>2. World \subseteq V
          BY DEF V
        <4>3. Safe(World, V, x, Discarded \ {p \in Partitions : lo[p] # -1})
          BY <1>6, <2>3, <4>1, <4>2, SafeRewind
        <4>4. Discarded \ {p \in Partitions : lo[p] # -1} = {}
          BY <2>2, <2>3, <2>4
        <4> QED BY <4>3, <4>4
      <3> QED BY <3>1, <3>2
    <2>6. Calm(s, x)
      <3>1. \A p \in Partitions : lo[p] >= -1
        BY <2>2, <2>3, Named
      <3> QED BY <1>6, <2>3, <3>1, RewindDoes DEF Safe, Calm
    <2> HIDE DEF x
    <2>7. Safe(World, V, y, {}) /\ Calm(x, y)
      BY <2>5, KeepCommitBlocked
    <2> HIDE DEF y
    <2>8. Calm(s, y)
      BY <2>6, <2>7, CalmTwice
    <2>9. MailOK(y) /\ y.workers = c.workers
      BY <1>7, <2>8, CalmMail
    <2>10. OffsetInv'
      BY <1>0, <1>3, <1>10, <2>7, <2>9, ResumesKeeps DEF V
    <2> QED BY <1>10, <2>9, <2>10
  <1> QED BY <1>1, <1>8, <1>9, <1>10

LEMMA RefusedKeeps ==
  ASSUME OffsetInv, CommitRefused
  PROVE  OffsetInv' /\ c'.workers = c.workers
  <1> DEFINE V == World \cup Taken
             all == AddPauseReason(Pause(c, c.assigned), c.assigned, "commit")
             s == IF frame.blocked THEN c ELSE all
             d == [s EXCEPT !.deferred = TRUE]
             e == ClearProgress(s)
             u == PublishCommitSnapshot(e)
  <1>0. Rest /\ MailOK(c) /\ c \in ClientType /\ pc = "commit" /\ InCommit /\ Tables(World, c)
        /\ frame \in FrameType /\ c.assigned \in SUBSET Partitions /\ "commit" \in Reasons
    BY RestIs, RetriesType DEF CommitRefused, InCommit, Reasons
  <1>1. /\ UNCHANGED <<world, done, required>>
        /\ \/ /\ command = "queued" /\ stop' = TRUE
              /\ \/ command' = "executing" /\ Return(d)
                 \/ command' = "answered" /\ Ends(PutBack(s), "stop")
           \/ /\ UNCHANGED caller
              /\ \/ Return(u)
                 \/ c' = s /\ pc' = "wait" /\ frame' = [frame EXCEPT !.blocked = TRUE]
    BY DEF CommitRefused
  <1>2. Rest' /\ World' = World
    BY <1>0, <1>1, RestSame DEF Rest, caller
  <1>3. Safe(World, V, c, Discarded)
    BY <1>0, StandsInCommit
  <1> HIDE DEF V
  <1>4. Safe(World, V, all, Discarded) /\ Calm(c, all) /\ all.paused = c.paused \cup c.assigned
    BY <1>0, <1>3, KeepPause
  <1>4a. all.pos = c.pos
    <2> DEFINE q == Pause(c, c.assigned)
    <2>1. q \in ClientType /\ q.pos = c.pos
      BY <1>0, PauseDoes
    <2> HIDE DEF q
    <2>2. AddPauseReason(q, c.assigned, "commit").pos = q.pos
      BY <1>0, <2>1, AddDoes
    <2> QED BY <2>1, <2>2 DEF q
  <1> HIDE DEF all
  <1>5. Safe(World, V, s, Discarded) /\ Calm(c, s)
    BY <1>3, <1>4 DEF Calm
  <1>6. frame.blocked => s = c
    OBVIOUS
  <1>7. ~frame.blocked => s.paused = c.paused \cup c.assigned
    BY <1>4
  <1>7a. s.pos = c.pos
    BY <1>4a
  <1> HIDE DEF s
  <1>8. MailOK(s) /\ s.deferred = c.deferred /\ s.workers = c.workers /\ s \in ClientType
        /\ s.assigned = c.assigned
    BY <1>0, <1>5, CalmMail DEF Safe
  <1>9. Safe(World, V, d, Discarded) /\ d.deferred /\ d.workers = s.workers /\ MailOK(d)
    BY <1>5, <1>8, SafeDeferred
  <1> HIDE DEF d
  <1>10. Trimmed(s, e)
    BY <1>8, ClearProgressDoes
  <1> HIDE DEF e
  <1>11. Safe(World, V, u, Discarded) /\ Calm(s, u)
    BY <1>5, <1>10, KeepTrim
  <1> HIDE DEF u
  <1>12. MailOK(u) /\ u.deferred = c.deferred /\ u.workers = c.workers
    BY <1>8, <1>11, CalmMail
  <1>13. CASE Return(d)
    <2>1. OffsetInv'
      BY <1>0, <1>2, <1>9, <1>13, ReturnKeeps DEF V
    <2>2. Calm(d, PutBack(d))
      BY <1>0, <1>9, PutBackDoes DEF V
    <2> QED BY <1>8, <1>9, <1>13, <2>1, <2>2, CalmMail DEF Return
  <1>14. CASE Ends(PutBack(s), "stop")
    BY <1>0, <1>2, <1>5, <1>8, <1>14, CommitEndsKeeps DEF V
  <1>15. CASE Return(u)
    <2>1. OffsetInv'
      BY <1>0, <1>2, <1>11, <1>12, <1>15, ReturnKeeps DEF V
    <2>2. Calm(u, PutBack(u))
      BY <1>0, <1>11, <1>12, PutBackDoes DEF V
    <2> QED BY <1>12, <1>15, <2>1, <2>2, CalmMail DEF Return
  <1>16. CASE c' = s /\ pc' = "wait" /\ frame' = [frame EXCEPT !.blocked = TRUE]
    <2>1. /\ frame' \in FrameType /\ frame'.cont = frame.cont /\ frame'.tp = frame.tp /\ frame'.blocked
          /\ frame'.offset = frame.offset /\ frame'.discarded = frame.discarded
      BY <1>0, <1>16 DEF FrameType
    <2>2. InCommit' /\ \A j \in {"retry", "dead", "dlt"} : Doing(j)' <=> Doing(j)
      BY <1>0, <1>16, <2>1 DEF InCommit, Doing
    <2>3. Taken' = Taken /\ Discarded' = Discarded
      BY <1>0, <2>1, <2>2 DEF Taken, Discarded
    <2>4. Types'
      BY <1>2, <1>8, <1>16, <2>1 DEF Types, Rest, Points
    <2>5. FrameInv'
      BY <1>0, <1>2, <1>16, <2>1, <2>2 DEF OffsetInv, FrameInv
    <2>6. PositionInv'
      <3>1. Standing(World' \cup Taken', c', Discarded')
        BY <1>2, <1>5, <1>16, <2>3 DEF Safe, V
      <3>2. ~c'.deferred => \A p \in Partitions : Passed(World', p, frame'.discarded[p])
        BY <1>0, <1>2, <1>8, <1>16, <2>1 DEF OffsetInv, PositionInv
      <3>3. ~c'.deferred /\ frame'.cont \in {"retry", "dead"} =>
               \/ frame'.tp \notin c'.assigned \/ frame'.tp \in c'.paused
               \/ frame'.tp \in Discarded'
               \/ Passed(World', frame'.tp, c'.pos[frame'.tp])
        <4>1. CASE frame.blocked
          BY <1>0, <1>2, <1>6, <1>16, <2>1, <2>3, <4>1 DEF OffsetInv, PositionInv
        <4>2. CASE ~frame.blocked
          BY <1>7, <1>8, <1>16, <2>1, <4>2
        <4> QED BY <4>1, <4>2
      <3> QED BY <3>1, <3>2, <3>3 DEF PositionInv
    <2>7. MailInv' /\ Tables(World', c')
      BY <1>2, <1>5, <1>8, <1>16 DEF MailInv, Safe
    <2> QED BY <1>2, <1>8, <1>16, <2>4, <2>5, <2>6, <2>7 DEF OffsetInv, Rest
  <1> QED BY <1>1, <1>13, <1>14, <1>15, <1>16

LEMMA WaitNoneKeeps ==
  ASSUME OffsetInv, WaitNone
  PROVE  OffsetInv' /\ c'.workers = c.workers
  <1>0. Rest
    BY RestIs
  <1>1. pc = "wait" /\ pc' = "commit" /\ UNCHANGED <<c, frame, world, done, caller, required>>
    BY DEF WaitNone
  <1>2. Rest' /\ World' = World
    BY <1>0, <1>1, RestSame DEF Rest, caller
  <1>3. InCommit /\ InCommit' /\ \A j \in {"retry", "dead", "dlt"} : Doing(j)' <=> Doing(j)
    BY <1>1 DEF InCommit, Doing
  <1>4. Taken' = Taken /\ Discarded' = Discarded
    BY <1>1, <1>3 DEF Taken, Discarded
  <1>5. Types'
    BY <1>1, <1>2 DEF OffsetInv, Types, Rest, Points
  <1>6. FrameInv'
    BY <1>1, <1>2, <1>3 DEF OffsetInv, FrameInv
  <1>7. PositionInv'
    BY <1>1, <1>2, <1>3, <1>4 DEF OffsetInv, PositionInv
  <1> QED BY <1>1, <1>2, <1>5, <1>6, <1>7 DEF OffsetInv, MailInv, Rest

(* The client delivers a record of p.                                      *)
LEMMA TakeDoes ==
  ASSUME NEW s \in ClientType, NEW p \in Partitions
  PROVE  LET t == [s EXCEPT !.pos[p] = @ + 1] IN
         /\ t \in ClientType /\ t.pos = [s.pos EXCEPT ![p] = s.pos[p] + 1]
         /\ Tab(t) = Tab(s) /\ Mail(t) = Mail(s) /\ t.workers = s.workers
         /\ t.assigned = s.assigned /\ t.paused = s.paused /\ t.rows = s.rows /\ t.deferred = s.deferred
  <1> DEFINE v == [s.pos EXCEPT ![p] = s.pos[p] + 1]
             t == [s EXCEPT !.pos = v]
  <1>1. v \in [Partitions -> Nat]
    BY RetriesType
  <1>2. [s EXCEPT !.pos[p] = @ + 1] = t
    OBVIOUS
  <1> HIDE DEF v
  <1>3. /\ t \in ClientType /\ t.pos = v
        /\ Tab(t) = Tab(s) /\ Mail(t) = Mail(s) /\ t.workers = s.workers
        /\ t.assigned = s.assigned /\ t.paused = s.paused /\ t.rows = s.rows /\ t.deferred = s.deferred
    BY <1>1, PosSet
  <1> HIDE DEF t
  <1> QED BY <1>2, <1>3 DEF v

LEMMA TakeTables ==
  ASSUME NEW W, NEW s \in ClientType, Tables(W, s), NEW p \in Partitions, s.pos[p] < Records[p]
  PROVE  Tables(W, [s EXCEPT !.pos[p] = @ + 1])
  <1> DEFINE t == [s EXCEPT !.pos[p] = @ + 1]
  <1>1. t.pos = [s.pos EXCEPT ![p] = s.pos[p] + 1] /\ Tab(t) = Tab(s)
    BY TakeDoes
  <1> HIDE DEF t
  <1>2. /\ t.snapshot = s.snapshot /\ t.late = s.late /\ t.retries = s.retries
        /\ t.pending = s.pending /\ t.admission = s.admission /\ t.progress = s.progress
    BY <1>1 DEF Tab
  <1>3. \A q \in Partitions : t.pos[q] <= Records[q]
    <2> SUFFICES ASSUME NEW q \in Partitions PROVE t.pos[q] <= Records[q]
      OBVIOUS
    <2>1. s.pos[q] <= Records[q] /\ s.pos \in [Partitions -> Nat] /\ Records[p] \in Nat
      BY RetriesType, Named DEF Tables
    <2> QED BY <1>1, <2>1
  <1> QED BY <1>2, <1>3 DEF Tables, t

LEMMA WaitMessageKeeps ==
  ASSUME OffsetInv, NEW p \in Partitions, WaitMessage(p)
  PROVE  OffsetInv' /\ c'.workers = c.workers
  <1>0. Rest /\ MailOK(c) /\ c \in ClientType /\ pc = "wait" /\ InCommit /\ Tables(World, c)
        /\ frame \in FrameType
    BY RestIs DEF WaitMessage, InCommit
  <1> DEFINE x == frame.discarded[p]
             n == IF x = Nowhere THEN c.pos[p] ELSE Min({x, c.pos[p]})
             di == [frame.discarded EXCEPT ![p] = n]
  <1>1. /\ pc' = "commit" /\ frame' = [frame EXCEPT !.discarded = di]
        /\ c' = [c EXCEPT !.pos[p] = @ + 1]
        /\ UNCHANGED <<world, done, caller, required>>
        /\ p \in c.assigned \ c.paused /\ c.pos[p] < Records[p]
    BY DEF WaitMessage, Deliverable
  <1>2. Rest' /\ World' = World
    BY <1>0, <1>1, RestSame DEF Rest, caller
  <1>3. c.pos[p] \in Nat /\ frame.discarded \in OffsetsType /\ Records[p] \in Nat
        /\ x \in Int /\ x \in -1 .. Records[p]
    BY <1>0, RetriesType, Named DEF OffsetInv, FrameInv, FrameType, OffsetsType
  <1>4. n \in Nat /\ n \in 0 .. Records[p] /\ (x = -1 => n = c.pos[p]) /\ (x # -1 => n <= x)
    <2>1. CASE x = -1
      BY <1>1, <1>3, <2>1, Named
    <2>2. CASE x # -1
      <3>1. x \in Nat
        BY <1>3, <2>2
      <3> HIDE DEF x
      <3>2. n = Min({x, c.pos[p]})
        BY <2>2, Named
      <3>3. n \in {x, c.pos[p]} /\ n <= x
        BY <1>3, <3>1, <3>2, LesserOf
      <3> HIDE DEF n
      <3> QED BY <1>1, <1>3, <2>2, <3>1, <3>3
    <2> QED BY <2>1, <2>2
  <1> HIDE DEF n
  <1>5. di \in OffsetsType /\ di[p] = n /\ \A q \in Partitions \ {p} : di[q] = frame.discarded[q]
    BY <1>3, <1>4 DEF OffsetsType
  <1> HIDE DEF di
  <1>6. /\ frame' \in FrameType /\ frame'.cont = frame.cont /\ frame'.tp = frame.tp
        /\ frame'.blocked = frame.blocked /\ frame'.offset = frame.offset /\ frame'.discarded = di
    BY <1>0, <1>1, <1>5 DEF FrameType
  <1>7. InCommit' /\ \A j \in {"retry", "dead", "dlt"} : Doing(j)' <=> Doing(j)
    BY <1>0, <1>1, <1>6 DEF InCommit, Doing
  <1>8. Taken' = Taken /\ Discarded' = Discarded \cup {p}
    <2>1. Discarded' = {q \in Partitions : di[q] # -1} /\ Discarded = {q \in Partitions : frame.discarded[q] # -1}
      BY <1>0, <1>6, <1>7, Named DEF Discarded
    <2> QED BY <1>4, <1>5, <1>6, <1>7, <2>1 DEF Taken
  <1>9. /\ c' \in ClientType /\ c'.pos = [c.pos EXCEPT ![p] = c.pos[p] + 1]
        /\ Tab(c') = Tab(c) /\ Mail(c') = Mail(c) /\ c'.workers = c.workers
        /\ c'.assigned = c.assigned /\ c'.paused = c.paused /\ c'.rows = c.rows /\ c'.deferred = c.deferred
    BY <1>0, <1>1, TakeDoes
  <1>10. Tables(World', c')
    BY <1>0, <1>1, <1>2, TakeTables
  <1>11. Types'
    BY <1>1, <1>2, <1>6, <1>9 DEF Types, Rest, Points
  <1>12. FrameInv'
    <2>1. \A q \in Partitions : di[q] \in -1 .. Records[q]
      <3> SUFFICES ASSUME NEW q \in Partitions PROVE di[q] \in -1 .. Records[q]
        OBVIOUS
      <3>1. CASE q = p
        BY <1>3, <1>4, <1>5, <3>1
      <3>2. CASE q # p
        BY <1>5, <3>2 DEF OffsetInv, FrameInv
      <3> QED BY <3>1, <3>2
    <2> QED BY <1>0, <1>1, <1>2, <1>6, <1>7, <2>1 DEF OffsetInv, FrameInv
  <1>13. ~c.deferred => Passed(World, p, n)
    <2> SUFFICES ASSUME ~c.deferred PROVE Passed(World, p, n)
      OBVIOUS
    <2>1. Passed(World, p, x)
      BY <1>0 DEF OffsetInv, PositionInv
    <2>2. CASE x # -1
      BY <1>4, <2>1, <2>2, PassedLess
    <2>3. CASE x = -1
      <3>1. p \notin Discarded
        BY <2>3, Named DEF Discarded
      <3>2. Passed(World \cup Taken, p, c.pos[p])
        BY <1>0, <1>1, <3>1 DEF OffsetInv, PositionInv, Standing, Halted
      <3>3. frame.blocked
        BY <1>0 DEF OffsetInv, FrameInv
      <3>4. Passed(World, p, c.pos[p])
        <4>1. CASE Taken = {}
          <5>1. World \cup Taken = World
            BY <4>1
          <5> QED BY <3>2, <5>1
        <4>2. CASE Taken # {}
          <5>1. Taken = {<<frame.tp, frame.offset>>} /\ frame.cont \in {"retry", "dead"}
            BY <1>0, <4>2 DEF Taken, Doing
          <5>2. CASE p # frame.tp
            BY <3>2, <5>1, <5>2, PassedElsewhere
          <5>3. CASE p = frame.tp
            BY <1>0, <1>1, <3>1, <3>3, <5>1, <5>3 DEF OffsetInv, PositionInv
          <5> QED BY <5>2, <5>3
        <4> QED BY <4>1, <4>2
      <3> QED BY <1>4, <2>3, <3>4
    <2> QED BY <2>2, <2>3
  <1>14. PositionInv'
    <2>1. Standing(World' \cup Taken', c', Discarded')
      <3> SUFFICES ASSUME ~c'.deferred, NEW q \in c'.assigned \ Discarded'
                   PROVE  Passed(World' \cup Taken', q, c'.pos[q]) \/ Halted(c', q)
        BY DEF Standing
      <3>1. q # p /\ q \in c.assigned \ Discarded /\ q \in Partitions
        BY <1>0, <1>8, <1>9, RetriesType
      <3>2. Passed(World \cup Taken, q, c.pos[q]) \/ Halted(c, q)
        BY <1>0, <1>9, <3>1 DEF OffsetInv, PositionInv, Standing
      <3>3. c'.pos[q] = c.pos[q]
        BY <1>0, <1>9, <3>1, RetriesType
      <3> QED BY <1>2, <1>8, <1>9, <3>2, <3>3 DEF Halted
    <2>2. ~c'.deferred => \A q \in Partitions : Passed(World', q, frame'.discarded[q])
      BY <1>0, <1>2, <1>5, <1>6, <1>9, <1>13 DEF OffsetInv, PositionInv
    <2>3. frame'.blocked /\ ~c'.deferred /\ frame'.cont \in {"retry", "dead"} =>
               \/ frame'.tp \notin c'.assigned \/ frame'.tp \in c'.paused
               \/ frame'.tp \in Discarded'
               \/ Passed(World', frame'.tp, c'.pos[frame'.tp])
      <3> SUFFICES ASSUME frame.blocked, ~c.deferred, frame.cont \in {"retry", "dead"},
                          frame.tp # p, frame.tp \in c.assigned
                   PROVE  \/ frame.tp \in c.paused \/ frame.tp \in Discarded
                          \/ Passed(World, frame.tp, c'.pos[frame.tp])
        BY <1>2, <1>6, <1>8, <1>9
      <3>1. frame.tp \in Partitions
        BY <1>0, RetriesType
      <3>2. c'.pos[frame.tp] = c.pos[frame.tp]
        BY <1>0, <1>9, <3>1, RetriesType
      <3> QED BY <1>0, <3>2 DEF OffsetInv, PositionInv
    <2> QED BY <2>1, <2>2, <2>3 DEF PositionInv
  <1>15. MailInv'
    BY <1>0, <1>9 DEF MailInv, MailOK, Mail
  <1> QED BY <1>2, <1>9, <1>10, <1>11, <1>12, <1>14, <1>15 DEF OffsetInv, Rest

LEMMA FailsKeeps ==
  ASSUME OffsetInv, NEW kind \in Failures, WaitFails(kind) \/ PollFails(kind) \/ MaintainFails(kind)
  PROVE  OffsetInv' /\ c'.workers = c.workers
  <1>0. Rest /\ MailOK(c) /\ c \in ClientType /\ Tables(World, c)
    BY RestIs
  <1>1. UNCHANGED <<world, done, caller, required>> /\ kind \in {"stop", "crash", "transient"}
    BY DEF WaitFails, PollFails, MaintainFails, Failures
  <1>2. Rest' /\ World' = World
    BY <1>0, <1>1, RestSame DEF Rest, caller
  <1>3. CASE Ends(c, kind)
    <2>1. OffsetInv'
      BY <1>0, <1>1, <1>2, <1>3, EndsKeeps
    <2> QED BY <1>3, <2>1 DEF Ends
  <1>4. CASE pc = "wait" /\ Ends(PutBack(c), kind)
    <2>1. InCommit
      BY <1>4 DEF InCommit
    <2>2. Safe(World, World \cup Taken, c, Discarded)
      BY <2>1, StandsInCommit
    <2> QED BY <1>0, <1>1, <1>2, <1>4, <2>1, <2>2, CommitEndsKeeps
  <1> QED BY <1>3, <1>4 DEF WaitFails, PollFails, MaintainFails

-----------------------------------------------------------------------------
(* What follows the commit, by caller.                                     *)
LEMMA LessAttempts ==
  ASSUME NEW s \in ClientType, NEW p \in Partitions, NEW o \in Int, NEW n \in Nat
  PROVE  /\ [s.attempts EXCEPT ![p][o] = n] \in [Partitions -> [Offsets -> Nat]]
         /\ [s EXCEPT !.attempts[p][o] = n] = [s EXCEPT !.attempts = [s.attempts EXCEPT ![p][o] = n]]
  <1>1. s.attempts \in [Partitions -> [Offsets -> Nat]]
    BY RetriesType
  <1>2. s.attempts[p] \in [Offsets -> Nat]
    BY <1>1
  <1>3. [s.attempts[p] EXCEPT ![o] = n] \in [Offsets -> Nat]
    BY <1>2
  <1>4. [s.attempts EXCEPT ![p] = [s.attempts[p] EXCEPT ![o] = n]] \in [Partitions -> [Offsets -> Nat]]
    BY <1>1, <1>3
  <1> QED BY <1>4

LEMMA SkipKeeps ==
  ASSUME OffsetInv, Rest, NEW p \in Partitions, NEW o, Reached(World, p, o), ~required,
         NEW s, Safe(World, World \cup {<<p, o>>}, s, {}), MailOK(s), AvailabilitySkip(s, p, o),
         UNCHANGED <<committed, settled, done, caller, required>>
  PROVE  OffsetInv' /\ c'.workers = s.workers
  <1>0. o \in Int
    BY Named DEF Reached
  <1>1. CASE Goto(HaltPartition(s, p), "top") /\ UNCHANGED waived
    <2> DEFINE t == HaltPartition(s, p)
    <2>1. Rest' /\ World' = World
      BY <1>1, RestSame DEF Rest, caller, world
    <2>2. Safe(World, World, s, {} \cup {p})
      BY SafeForget
    <2>3. Safe(World, World, t, ({} \cup {p}) \ {p}) /\ Calm(s, t)
      BY <2>2, KeepHalt
    <2>4. Safe(World, World, t, {})
      BY <2>3, SafeMore
    <2> HIDE DEF t
    <2>5. MailOK(t) /\ t.workers = s.workers
      BY <2>3, CalmMail
    <2>6. OffsetInv'
      BY <1>1, <2>1, <2>4, <2>5, GotoKeeps DEF t
    <2> QED BY <1>1, <2>5, <2>6 DEF Goto, t
  <1>2. CASE /\ Call(PublishCommitSnapshot(Observe(s, p, o, TRUE)), "top", p, o)
             /\ waived' = waived \cup {<<p, o>>}
    <2> DEFINE W == World'
               t == Observe(s, p, o, TRUE)
               u == PublishCommitSnapshot(t)
    <2>1. W = World \cup {<<p, o>>} /\ World \subseteq W /\ <<p, o>> \in W
      BY <1>2 DEF World
    <2>2. Rest'
      <3>1. required => waived' = {}
        OBVIOUS
      <3>2. done' \subseteq DoneType /\ \A e \in done' : e.ok => <<e.tp, e.offset>> \in World'
        BY <2>1 DEF Rest, WorldInv
      <3> QED BY <2>1, <3>1, <3>2, RestDone
    <2>3. Reached(W, p, o)
      BY <2>1, PassedLater DEF Reached
    <2> HIDE DEF W
    <2>4. Safe(W, W, s, {})
      BY <2>1, SafeLater
    <2>5. Safe(W, W, t, {}) /\ Calm(s, t)
      BY <2>1, <2>3, <2>4, KeepObserve
    <2> HIDE DEF t
    <2>6. Safe(W, W, u, {}) /\ Calm(t, u)
      BY <2>5, KeepSnapshot
    <2>7. Call(u, "top", p, o)
      BY <1>2 DEF t
    <2> HIDE DEF u
    <2>8. MailOK(u) /\ u.workers = s.workers
      BY <2>5, <2>6, CalmMail
    <2>9. W \cup Taking("top", p, o) = W
      BY DEF Taking
    <2>10. Safe(World', World' \cup Taking("top", p, o), u, {})
      BY <2>6, <2>9 DEF W
    <2>11. OffsetInv'
      BY <1>0, <2>2, <2>7, <2>8, <2>10, CallKeeps
    <2> QED BY <2>7, <2>8, <2>11 DEF Call
  <1> QED BY <1>1, <1>2 DEF AvailabilitySkip

LEMMA DeadLetterKeeps ==
  ASSUME OffsetInv, Rest, NEW p \in Partitions, NEW o, Reached(World, p, o),
         NEW s, Safe(World, World \cup {<<p, o>>}, s, {}), MailOK(s), DeadLetter(s, p, o),
         UNCHANGED <<committed, settled, done, caller, required>>
  PROVE  OffsetInv' /\ (Staffed(s.workers) => Staffed(c'.workers))
  <1> DEFINE h == HalfScheduled(s, p, o)
             t == ScheduleSingleDlt(s, p, o)
             x == HaltPartition(h, p)
  <1>0. o \in Int
    BY Named DEF Reached
  <1>1. \/ Goto(t, "top") /\ UNCHANGED waived
        \/ Goto(x, "top") /\ UNCHANGED waived
        \/ ~required /\ AvailabilitySkip(h, p, o)
    BY DEF DeadLetter, Rest
  <1>2. Safe(World, World, s, {} \cup {p})
    BY SafeForget
  <1>3. CASE Goto(t, "top") /\ UNCHANGED waived
    <2>1. Rest' /\ World' = World
      BY <1>3, RestSame DEF Rest, caller, world
    <2>2. /\ Safe(World, World, t, ({} \cup {p}) \ {p}) /\ Hired(t.workers, s.workers)
          /\ Mail(t) = Mail(s) /\ t.assigned = s.assigned
      BY <1>2, KeepSchedule
    <2> HIDE DEF t
    <2>3. Safe(World, World, t, {}) /\ MailOK(t)
      BY <2>2, SafeMore DEF Mail, MailOK
    <2>4. OffsetInv'
      BY <1>3, <2>1, <2>3, GotoKeeps
    <2> QED BY <1>3, <2>2, <2>4, StaffHired DEF Goto
  <1>4. CASE Goto(x, "top") /\ UNCHANGED waived
    <2>1. Rest' /\ World' = World
      BY <1>4, RestSame DEF Rest, caller, world
    <2>2. Safe(World, World, h, {} \cup {p}) /\ Calm(s, h)
      BY <1>0, <1>2, KeepHalf
    <2> HIDE DEF h
    <2>3. Safe(World, World, x, ({} \cup {p}) \ {p}) /\ Calm(h, x)
      BY <2>2, KeepHalt
    <2> HIDE DEF x
    <2>4. Safe(World, World, x, {}) /\ MailOK(x) /\ x.workers = s.workers
      BY <2>2, <2>3, SafeMore, CalmMail
    <2>5. OffsetInv'
      BY <1>4, <2>1, <2>4, GotoKeeps
    <2> QED BY <1>4, <2>4, <2>5 DEF Goto
  <1>5. CASE ~required /\ AvailabilitySkip(h, p, o)
    <2> DEFINE V == World \cup {<<p, o>>}
    <2>0. Safe(World, V, s, {})
      OBVIOUS
    <2> HIDE DEF V
    <2>1. Safe(World, V, h, {}) /\ Calm(s, h)
      BY <1>0, <2>0, KeepHalf
    <2> HIDE DEF h
    <2>2. MailOK(h) /\ h.workers = s.workers
      BY <2>1, CalmMail
    <2>3. OffsetInv' /\ c'.workers = h.workers
      BY <1>5, <2>1, <2>2, SkipKeeps DEF V
    <2> QED BY <2>2, <2>3
  <1> QED BY <1>1, <1>3, <1>4, <1>5

(* A call about a record that no one has settled is back.                  *)
LEMMA CallBack ==
  ASSUME OffsetInv, pc \in {"retry", "dead"}
  PROVE  LET p == frame.tp
             o == frame.offset
             s == PublishCommitSnapshot(ResetPartitions(c, {p}))
         IN  /\ p \in Partitions /\ Reached(World, p, o) /\ Rest /\ o \in Nat /\ o \in Offsets
             /\ Safe(World, World \cup {<<p, o>>}, s, {}) /\ Calm(c, s) /\ MailOK(s)
  <1> DEFINE p == frame.tp
             o == frame.offset
             r == ResetPartitions(c, {p})
             s == PublishCommitSnapshot(r)
             V == World \cup {<<p, o>>}
  <1>1. Rest /\ MailOK(c) /\ c \in ClientType /\ Doing(pc) /\ ~InCommit
    BY RestIs DEF Doing, InCommit
  <1>2. p \in Partitions /\ Reached(World, p, o)
    BY <1>1 DEF OffsetInv, FrameInv, Doing
  <1>3. Taken = {<<p, o>>}
    BY <1>1 DEF Taken, Doing
  <1>4. Safe(World, V, c, {})
    BY <1>1, <1>3, Stands
  <1>5. Trimmed(c, r)
    BY <1>1, ResetDoes
  <1> HIDE DEF V, r
  <1>6. Safe(World, V, s, {}) /\ Calm(c, s)
    BY <1>4, <1>5, KeepTrim
  <1>7. o \in Nat /\ o \in Offsets
    BY <1>2, Named DEF Reached, Offsets
  <1> HIDE DEF s
  <1>8. MailOK(s)
    BY <1>1, <1>6, CalmMail
  <1> QED BY <1>1, <1>2, <1>6, <1>7, <1>8 DEF V, s, r

LEMMA AfterDeadKeeps ==
  ASSUME OffsetInv, AfterDead
  PROVE  OffsetInv' /\ Manned
  <1> DEFINE p == frame.tp
             o == frame.offset
             s == PublishCommitSnapshot(ResetPartitions(c, {p}))
  <1>1. pc = "dead" /\ DeadLetter(s, p, o) /\ UNCHANGED <<committed, settled, done, caller, required>>
    BY DEF AfterDead
  <1>2. /\ p \in Partitions /\ Reached(World, p, o) /\ Rest
        /\ Safe(World, World \cup {<<p, o>>}, s, {}) /\ Calm(c, s) /\ MailOK(s)
    BY <1>1, CallBack
  <1> HIDE DEF s, p, o
  <1>3. OffsetInv' /\ (Staffed(s.workers) => Staffed(c'.workers))
    BY <1>1, <1>2, DeadLetterKeeps
  <1> QED BY <1>2, <1>3, CalmMail DEF Manned

LEMMA AfterRetryKeeps ==
  ASSUME OffsetInv, AfterRetry
  PROVE  OffsetInv' /\ Manned
  <1> DEFINE p == frame.tp
             o == frame.offset
             n == Min({c.attempts[p][o] + 1, MaxAttempts})
             r == PublishCommitSnapshot(ResetPartitions(c, {p}))
             a == [r.attempts EXCEPT ![p][o] = n]
             s == [r EXCEPT !.attempts = a]
             V == World \cup {<<p, o>>}
  <1>1. pc = "retry" /\ UNCHANGED <<committed, settled, done, caller, required>>
    BY DEF AfterRetry
  <1>2. /\ p \in Partitions /\ Reached(World, p, o) /\ Rest /\ o \in Nat /\ o \in Offsets
        /\ Safe(World, V, r, {}) /\ Calm(c, r) /\ MailOK(r)
    BY <1>1, CallBack
  <1>3. n \in Nat
    <2>1. c.attempts[p][o] \in Nat /\ MaxAttempts \in Nat
      BY <1>2, RestIs, RetriesType, PollOwnerAssumption
    <2> HIDE DEF p, o
    <2>2. c.attempts[p][o] + 1 \in Nat
      BY <2>1
    <2> QED BY <2>1, <2>2, LesserOf
  <1>4. \/ DeadLetter(s, p, o)
        \/ Goto(SchedulePartitionRetry(s, p, o), "top") /\ UNCHANGED waived
    BY DEF AfterRetry
  <1> HIDE DEF n, r, p, o, V
  <1>5. a \in [Partitions -> [Offsets -> Nat]]
    BY <1>2, <1>3, LessAttempts DEF Safe
  <1> HIDE DEF a
  <1>6. Safe(World, V, s, {}) /\ Calm(r, s)
    BY <1>2, <1>5, KeepAttempts
  <1> HIDE DEF s
  <1>7. MailOK(s) /\ s.workers = c.workers
    BY <1>2, <1>6, CalmMail
  <1>8. CASE DeadLetter(s, p, o)
    <2>1. OffsetInv' /\ (Staffed(s.workers) => Staffed(c'.workers))
      BY <1>1, <1>2, <1>6, <1>7, <1>8, DeadLetterKeeps DEF V
    <2> QED BY <1>7, <2>1 DEF Manned
  <1>9. CASE Goto(SchedulePartitionRetry(s, p, o), "top") /\ UNCHANGED waived
    <2> DEFINE t == SchedulePartitionRetry(s, p, o)
    <2>1. Rest' /\ World' = World
      BY <1>1, <1>2, <1>9, RestSame DEF Rest, caller, world
    <2>2. Safe(World, World, s, {} \cup {p})
      BY <1>2, <1>6, SafeForget DEF V
    <2>3. Safe(World, World, t, ({} \cup {p}) \ {p}) /\ Calm(s, t)
      BY <1>2, <2>2, KeepRetry DEF Reached
    <2>4. Goto(t, "top")
      BY <1>9
    <2> HIDE DEF t
    <2>5. Safe(World, World, t, {}) /\ MailOK(t) /\ t.workers = c.workers
      BY <1>7, <2>3, SafeMore, CalmMail
    <2>6. OffsetInv'
      BY <2>1, <2>4, <2>5, GotoKeeps
    <2> QED BY <2>4, <2>5, <2>6 DEF Goto, Manned
  <1> QED BY <1>4, <1>8, <1>9

LEMMA NextLetterType ==
  ASSUME NEW s \in ClientType, NEW p \in Partitions, NEW n
  PROVE  NextDeadLetter(s, p, n) \in Int
  <1> DEFINE later == {o \in Offsets : <<p, o>> \in s.intent /\ o >= n}
  <1>1. s.expect[p] \in Int
    BY RetriesType DEF OffsetsType
  <1>2. later \in SUBSET Nat
    BY Named DEF Offsets
  <1>3. NextDeadLetter(s, p, n) = IF later = {} THEN s.expect[p] ELSE Min(later)
    BY DEF NextDeadLetter
  <1> HIDE DEF later
  <1>4. later # {} => Min(later) \in Nat
    BY <1>2, LeastIndex
  <1>5. CASE later = {}
    BY <1>1, <1>3, <1>5
  <1>6. CASE later # {}
    <2>1. NextDeadLetter(s, p, n) = Min(later)
      BY <1>3, <1>6
    <2> QED BY <1>4, <1>6, <2>1
  <1> QED BY <1>5, <1>6

LEMMA AfterDltKeeps ==
  ASSUME OffsetInv, AfterDlt
  PROVE  OffsetInv' /\ c'.workers = c.workers
  <1> DEFINE p == frame.tp
             o == frame.offset
             next == o + 1
             x == [c.expect EXCEPT ![p] = NextDeadLetter(c, p, next)]
             s == [c EXCEPT !.expect = x]
             k == Seek(s, p, next)
             a == [k.attempts EXCEPT ![p][o] = 0]
             m == [k EXCEPT !.attempts = a]
             t == ClearAndResume(m, {p}, {"dlt", "degraded"})
             u == HaltPartition(s, p)
  <1>0. Rest /\ MailOK(c) /\ Safe(World, World, c, {}) /\ c \in ClientType /\ Doing("dlt")
    BY RestIs, StandsFree DEF AfterDlt, Doing
  <1>1. UNCHANGED <<world, done, caller, required>> /\ (Goto(t, "top") \/ Goto(u, "top"))
    BY DEF AfterDlt
  <1>2. Rest' /\ World' = World
    BY <1>0, <1>1, RestSame DEF Rest, caller
  <1>3. p \in Partitions /\ Reached(World, p, o) /\ <<p, o>> \in World
    BY <1>0 DEF OffsetInv, FrameInv
  <1>4. Passed(World, p, next) /\ next \in Nat /\ o \in Int
    BY <1>3, PassedNext, Named DEF Reached
  <1> HIDE DEF p, o, next
  <1>5. x \in OffsetsType
    BY <1>0, <1>3, NextLetterType, RetriesType DEF OffsetsType
  <1> HIDE DEF x
  <1>6. Safe(World, World, s, {}) /\ Calm(c, s)
    BY <1>0, <1>5, KeepExpect
  <1> HIDE DEF s
  <1>7. Safe(World, World, k, {}) /\ Calm(s, k)
    <2>1. Safe(World, World, k, {} \ {p}) /\ Calm(s, k)
      BY <1>3, <1>4, <1>6, KeepSeek
    <2> QED BY <2>1, SafeMore
  <1> HIDE DEF k
  <1>8. a \in [Partitions -> [Offsets -> Nat]]
    BY <1>3, <1>4, <1>7, LessAttempts DEF Safe
  <1> HIDE DEF a
  <1>9. Safe(World, World, m, {}) /\ Calm(k, m)
    BY <1>7, <1>8, KeepAttempts
  <1> HIDE DEF m
  <1>10. Safe(World, World, t, {}) /\ Calm(m, t)
    BY <1>9, KeepClear
  <1> HIDE DEF t
  <1>11. Safe(World, World, u, {}) /\ Calm(s, u)
    <2>1. Safe(World, World, u, {} \ {p}) /\ Calm(s, u)
      BY <1>3, <1>6, KeepHalt
    <2> QED BY <2>1, SafeMore
  <1> HIDE DEF u
  <1>12. Calm(c, t) /\ Calm(c, u)
    BY <1>6, <1>7, <1>9, <1>10, <1>11, CalmTwice
  <1>13. MailOK(t) /\ MailOK(u) /\ t.workers = c.workers /\ u.workers = c.workers
    BY <1>0, <1>12, CalmMail
  <1>14. OffsetInv'
    BY <1>1, <1>2, <1>10, <1>11, <1>13, GotoKeeps
  <1> QED BY <1>1, <1>13, <1>14 DEF Goto

-----------------------------------------------------------------------------
(* The polls.                                                              *)
LEMMA HaltGoes ==
  ASSUME Rest', NEW s, NEW p \in Partitions, NEW W, W \subseteq World', Safe(W, W, s, {p}), MailOK(s),
         Goto(HaltPartition(s, p), "top")
  PROVE  OffsetInv' /\ c'.workers = s.workers
  <1> DEFINE t == HaltPartition(s, p)
  <1>1. Safe(W, W, t, {p} \ {p}) /\ Calm(s, t)
    BY KeepHalt
  <1> HIDE DEF t
  <1>2. Safe(W, W, t, {})
    BY <1>1, SafeMore
  <1>3. Safe(World', World', t, {})
    <2> DEFINE U == World'
    <2> HIDE DEF U
    <2>1. Safe(U, U, t, {})
      BY <1>2, SafeLater DEF U
    <2> QED BY <2>1 DEF U
  <1>4. MailOK(t) /\ t.workers = s.workers /\ Goto(t, "top")
    BY <1>1, CalmMail DEF t
  <1>5. OffsetInv'
    BY <1>3, <1>4, GotoKeeps
  <1> QED BY <1>4, <1>5 DEF Goto

(* The record is with the handler: s stands one record ahead.              *)
LEMMA ProcessKeeps ==
  ASSUME NEW W, NEW p \in Partitions, NEW o, Reached(W, p, o), NEW answer \in {"safe", "retry", "dead", "halt"},
         World' = W \/ World' = W \cup {<<p, o>>}, answer = "safe" => World' = W \cup {<<p, o>>}, Rest',
         NEW s, Safe(W, W \cup {<<p, o>>}, s, {}), MailOK(s), Process(s, p, o, answer)
  PROVE  OffsetInv' /\ c'.workers = s.workers
  <1> DEFINE U == World'
             V == W \cup {<<p, o>>}
             safe == answer = "safe"
             t == Observe(s, p, o, safe)
             k == PublishCommitSnapshot(t)
             a == [k.attempts EXCEPT ![p][o] = 0]
             u == [k EXCEPT !.attempts = a]
  <1>0. o \in Int /\ W \subseteq U /\ W \subseteq V /\ V \subseteq U \cup {<<p, o>>}
        /\ (answer = "safe" => <<p, o>> \in U /\ V \subseteq U)
    BY Named DEF Reached
  <1>1. Reached(U, p, o)
    BY <1>0, PassedLater DEF Reached
  <1>2. Safe(W, V, s, {})
    OBVIOUS
  <1>3. CASE Goto(HaltPartition(s, p), "top")
    <2>1. Safe(W, W, s, {} \cup {p})
      BY SafeForget
    <2>2. Safe(W, W, s, {p})
      BY <2>1, SafeMore
    <2> QED BY <1>0, <1>3, <2>2, HaltGoes
  <1>4. ASSUME NEW X, V \subseteq X, U \subseteq X
        PROVE  /\ Safe(U, X, t, {}) /\ Calm(s, t)
               /\ Safe(U, X, k, {}) /\ Calm(s, k)
    <2> HIDE DEF U, V
    <2>1. Safe(U, X, s, {})
      BY <1>0, <1>2, <1>4, SafeLater
    <2>2. safe \in BOOLEAN /\ (safe => <<p, o>> \in U)
      BY <1>0
    <2> HIDE DEF safe
    <2>3. Safe(U, X, t, {}) /\ Calm(s, t)
      BY <1>1, <2>1, <2>2, KeepObserve
    <2> HIDE DEF t
    <2>4. Safe(U, X, k, {}) /\ Calm(t, k)
      BY <2>3, KeepSnapshot
    <2> QED BY <2>3, <2>4, CalmTwice
  <1>5. CASE answer = "retry" /\ Call(k, "retry", p, o)
    <2>1. Taking("retry", p, o) = {<<p, o>>}
      BY DEF Taking
    <2> HIDE DEF t
    <2>2. Safe(U, U \cup Taking("retry", p, o), k, {}) /\ Calm(s, k)
      <3> DEFINE X == U \cup {<<p, o>>}
      <3>1. V \subseteq X /\ U \subseteq X
        BY <1>0
      <3> HIDE DEF X, V, U, k
      <3> QED BY <1>4, <2>1, <3>1 DEF X
    <2> HIDE DEF k
    <2>3. MailOK(k) /\ k.workers = s.workers
      BY <2>2, CalmMail
    <2>4. OffsetInv'
      BY <1>0, <1>1, <1>5, <2>2, <2>3, CallKeeps
    <2> QED BY <1>5, <2>3, <2>4 DEF Call
  <1>6. CASE answer = "dead" /\ Call(t, "dead", p, o)
    <2>1. Taking("dead", p, o) = {<<p, o>>}
      BY DEF Taking
    <2> HIDE DEF t
    <2>2. Safe(U, U \cup Taking("dead", p, o), t, {}) /\ Calm(s, t)
      <3> DEFINE X == U \cup {<<p, o>>}
      <3>1. V \subseteq X /\ U \subseteq X
        BY <1>0
      <3> HIDE DEF X, V, U, k
      <3> QED BY <1>4, <2>1, <3>1 DEF X
    <2>3. MailOK(t) /\ t.workers = s.workers
      BY <2>2, CalmMail
    <2>4. OffsetInv'
      BY <1>0, <1>1, <1>6, <2>2, <2>3, CallKeeps
    <2> QED BY <1>6, <2>3, <2>4 DEF Call
  <1>7. CASE answer = "safe" /\ (Goto(u, "top") \/ Call(u, "top", p, o))
    <2> HIDE DEF t
    <2>1. Safe(U, U, k, {}) /\ Calm(s, k)
      <3> HIDE DEF U, V, k
      <3> QED BY <1>0, <1>4, <1>7
    <2> HIDE DEF k
    <2>2. a \in [Partitions -> [Offsets -> Nat]]
      BY <1>0, <2>1, LessAttempts DEF Safe
    <2> HIDE DEF a
    <2>3. Safe(U, U, u, {}) /\ Calm(k, u)
      BY <2>1, <2>2, KeepAttempts
    <2> HIDE DEF u
    <2>4. MailOK(u) /\ u.workers = s.workers
      BY <2>1, <2>3, CalmMail
    <2>5. CASE Goto(u, "top")
      <3>1. OffsetInv'
        BY <2>3, <2>4, <2>5, GotoKeeps
      <3> QED BY <2>4, <2>5, <3>1 DEF Goto
    <2>6. CASE Call(u, "top", p, o)
      <3>1. U \cup Taking("top", p, o) = U
        BY DEF Taking
      <3>2. Safe(World', World' \cup Taking("top", p, o), u, {})
        BY <2>3, <3>1
      <3>3. OffsetInv'
        BY <1>0, <2>4, <2>6, <3>2, CallKeeps
      <3> QED BY <2>4, <2>6, <3>3 DEF Call
    <2> QED BY <1>7, <2>5, <2>6
  <1>8. u = [PublishCommitSnapshot(t) EXCEPT !.attempts[p][o] = 0]
    OBVIOUS
  <1>9. \/ Goto(HaltPartition(s, p), "top")
        \/ answer = "retry" /\ Call(k, "retry", p, o)
        \/ answer = "dead" /\ Call(t, "dead", p, o)
        \/ answer = "safe" /\ (Goto(u, "top") \/ Call(u, "top", p, o))
    BY <1>8 DEF Process
  <1> QED BY <1>3, <1>5, <1>6, <1>7, <1>9

LEMMA ExpectedKeeps ==
  ASSUME NEW W, NEW p \in Partitions, NEW o, Reached(W, p, o), NEW answer \in {"safe", "retry", "dead", "halt"},
         NEW s, World' = W \/ World' = W \cup {<<p, o>>},
         answer = "safe" /\ s.expect[p] \in {Nowhere, o} => World' = W \cup {<<p, o>>}, Rest',
         Safe(W, W \cup {<<p, o>>}, s, {}), MailOK(s), Expected(s, p, o, answer)
  PROVE  OffsetInv' /\ c'.workers = s.workers
  <1> DEFINE V == W \cup {<<p, o>>}
             x == [s.expect EXCEPT ![p] = Nowhere]
             t == [s EXCEPT !.expect = x]
  <1>0. x \in OffsetsType
    BY RetriesType, Named DEF Safe, OffsetsType
  <1>1. CASE s.expect[p] \in {Nowhere, o} /\ Process(t, p, o, answer)
    <2> HIDE DEF x
    <2>0. Safe(W, V, s, {})
      OBVIOUS
    <2>1. Safe(W, V, t, {}) /\ Calm(s, t)
      <3> HIDE DEF V
      <3> QED BY <1>0, <2>0, KeepExpect
    <2> HIDE DEF t
    <2>2. MailOK(t) /\ t.workers = s.workers
      BY <2>1, CalmMail
    <2> QED BY <1>1, <2>1, <2>2, ProcessKeeps
  <1>2. CASE Goto(HaltPartition(s, p), "top")
    <2>1. Safe(W, W, s, {} \cup {p})
      BY SafeForget
    <2>2. Safe(W, W, s, {p}) /\ W \subseteq World'
      BY <2>1, SafeMore
    <2> QED BY <1>2, <2>2, HaltGoes
  <1> QED BY <1>1, <1>2 DEF Expected

(* A record is taken from the client.                                      *)
LEMMA TakenSafe ==
  ASSUME OffsetInv, pc = "poll", NEW p \in Partitions, Deliverable(p)
  PROVE  LET o == c.pos[p]
             t == [c EXCEPT !.pos[p] = @ + 1]
         IN  /\ Reached(World, p, o) /\ o \in Nat
             /\ Safe(World, World \cup {<<p, o>>}, t, {}) /\ Safe(World, World, t, {p})
             /\ Calm(c, t) /\ t.expect = c.expect
  <1> DEFINE o == c.pos[p]
             t == [c EXCEPT !.pos[p] = @ + 1]
             V == World \cup {<<p, o>>}
  <1>0. c \in ClientType /\ Tables(World, c) /\ Safe(World, World, c, {}) /\ ~c.deferred
        /\ p \in c.assigned /\ p \notin c.paused /\ o < Records[p] /\ o \in Nat
    BY RestIs, StandsFree, RetriesType DEF OffsetInv, FrameInv, Deliverable
  <1>1. Passed(World, p, o)
    BY <1>0 DEF Safe, Standing, Halted
  <1>2. Reached(World, p, o)
    BY <1>0, <1>1, Named DEF Reached
  <1>3. /\ t \in ClientType /\ t.pos = [c.pos EXCEPT ![p] = o + 1]
        /\ Tab(t) = Tab(c) /\ Mail(t) = Mail(c) /\ t.workers = c.workers
        /\ t.assigned = c.assigned /\ t.paused = c.paused /\ t.rows = c.rows /\ t.deferred = c.deferred
    BY <1>0, TakeDoes
  <1>4. Tables(World, t)
    BY <1>0, TakeTables
  <1>5. t.expect = c.expect
    BY <1>0 DEF ClientType
  <1> HIDE DEF t
  <1>6. Standing(V, t, {})
    <2> SUFFICES ASSUME NEW q \in c.assigned PROVE Passed(V, q, t.pos[q]) \/ Halted(t, q)
      BY <1>3 DEF Standing
    <2>0. World \subseteq V /\ <<p, o>> \in V /\ c.pos \in [Partitions -> Nat] /\ q \in Partitions
      BY <1>0, RetriesType
    <2>1. CASE q = p
      <3>1. Reached(V, p, o)
        BY <1>2, <2>0, PassedLater DEF Reached
      <3>2. Passed(V, p, o + 1)
        BY <2>0, <3>1, PassedNext
      <3> QED BY <1>3, <2>0, <2>1, <3>2
    <2>2. CASE q # p
      <3>1. Passed(World, q, c.pos[q]) \/ Halted(c, q)
        BY <1>0 DEF Safe, Standing
      <3>2. t.pos[q] = c.pos[q]
        BY <1>3, <2>0, <2>2
      <3> QED BY <1>3, <2>0, <3>1, <3>2, PassedLater DEF Halted
    <2> QED BY <2>1, <2>2
  <1>7. Safe(World, V, t, {})
    BY <1>3, <1>4, <1>6 DEF Safe
  <1>8. Safe(World, World, t, {} \cup {p})
    BY <1>7, SafeForget
  <1>9. Safe(World, World, t, {p})
    BY <1>8, SafeMore
  <1> QED BY <1>0, <1>2, <1>3, <1>5, <1>7, <1>9 DEF Calm, t

(* A rebalance is applied; the tasks stay, though they may be cancelled.   *)
LEMMA ApplyKeeps ==
  ASSUME WorldPassed(World), NEW s, NEW X, Safe(World, World, s, X), HasRebalance(s), MailOK(s)
  PROVE  LET t == ApplyRebalance(s) IN
         /\ Safe(World, World, t, IF s.mailbox.kind = "Assigned" THEN {} ELSE X)
         /\ MailOK(t) /\ t.deferred = s.deferred
         /\ (Staffed(s.workers) => Staffed(t.workers))
  <1> DEFINE t == ApplyRebalance(s)
             Y == IF s.mailbox.kind = "Assigned" THEN {} ELSE X
  <1>0. s.mailbox.kind # "none" /\ (s.mailbox.kind = "Assigned" => s.mailbox.parts = s.assigned)
    BY DEF HasRebalance, MailOK
  <1>1. Safe(World, World, t, Y) /\ t.mailbox = NoEvent /\ t.deferred = s.deferred
        /\ (t.workers = s.workers \/ SameTasks(t.workers, s.workers))
    BY <1>0, ApplyDoes
  <1> HIDE DEF t
  <1>2. MailOK(t)
    BY <1>1, Named DEF MailOK
  <1>3. Staffed(s.workers) => Staffed(t.workers)
    BY <1>1, StaffSame
  <1> QED BY <1>1, <1>2, <1>3 DEF t

LEMMA PollMessageKeeps ==
  ASSUME OffsetInv, NEW p \in Partitions, NEW answer \in Outcomes \cup {"safe"}, PollMessage(p, answer)
  PROVE  OffsetInv' /\ Manned
  <1> DEFINE o == c.pos[p]
             taken == [c EXCEPT !.pos[p] = @ + 1]
             s == PublishReady(taken)
             a == ApplyRebalance(taken)
             k == Seek(a, p, o)
             V == World \cup {<<p, o>>}
  <1>0. Rest /\ MailOK(c) /\ c \in ClientType /\ pc = "poll" /\ Deliverable(p) /\ WorldPassed(World)
        /\ UNCHANGED <<committed, waived, done, caller, required>>
    BY RestIs DEF PollMessage
  <1>1. \/ HasRebalance(c) /\ UNCHANGED settled
           /\ ((c.mailbox.kind = "Assigned" /\ Goto(a, "top")) \/ (c.mailbox.kind # "Assigned" /\ Goto(k, "top")))
        \/ UNCHANGED settled /\ Expected(s, p, o, "dead")
        \/ /\ answer \in Outcomes /\ Expected(s, p, o, answer)
           /\ settled' = IF answer = "safe" /\ c.expect[p] \in {Nowhere, o}
                         THEN settled \cup {<<p, o>>} ELSE settled
    BY DEF PollMessage
  <1>2. /\ Reached(World, p, o) /\ o \in Nat
        /\ Safe(World, V, taken, {}) /\ Safe(World, World, taken, {p})
        /\ Calm(c, taken) /\ taken.expect = c.expect
    BY <1>0, TakenSafe
  <1>3. taken \in ClientType
    BY <1>2 DEF Safe
  <1> HIDE DEF taken
  <1>4. MailOK(taken) /\ taken.mailbox = c.mailbox /\ taken.workers = c.workers
    BY <1>0, <1>2, CalmMail
  <1>5. Safe(World, V, s, {}) /\ Calm(taken, s)
    <2> HIDE DEF V
    <2> QED BY <1>2, KeepReady
  <1>6. s.expect = c.expect
    BY <1>2, <1>3 DEF PublishReady, ClientType
  <1> HIDE DEF s
  <1>7. MailOK(s) /\ s.workers = c.workers
    BY <1>4, <1>5, CalmMail
  <1>8. World' = World \/ World' = World \cup {<<p, o>>}
    BY <1>0, <1>1 DEF World
  <1>9. Rest'
    <2>1. World \subseteq World' /\ (required => waived' = {}) /\ done' \subseteq DoneType
          /\ \A d \in done' : d.ok => <<d.tp, d.offset>> \in World'
      BY <1>0, <1>8 DEF Rest, WorldInv
    <2> QED BY <1>0, <2>1, RestDone
  <1>10. CASE /\ HasRebalance(c) /\ UNCHANGED settled
              /\ ((c.mailbox.kind = "Assigned" /\ Goto(a, "top")) \/ (c.mailbox.kind # "Assigned" /\ Goto(k, "top")))
    <2>0. World' = World
      BY <1>0, <1>10 DEF World
    <2>1. HasRebalance(taken)
      BY <1>4, <1>10 DEF HasRebalance
    <2>2. /\ Safe(World, World, a, IF c.mailbox.kind = "Assigned" THEN {} ELSE {p})
          /\ MailOK(a) /\ (Staffed(c.workers) => Staffed(a.workers))
      BY <1>0, <1>2, <1>4, <2>1, ApplyKeeps
    <2> HIDE DEF a
    <2>3. CASE c.mailbox.kind = "Assigned" /\ Goto(a, "top")
      <3>1. Safe(World, World, a, {})
        BY <2>2, <2>3
      <3>2. OffsetInv'
        BY <1>9, <2>0, <2>2, <2>3, <3>1, GotoKeeps
      <3> QED BY <2>2, <2>3, <3>2 DEF Goto, Manned
    <2>4. CASE c.mailbox.kind # "Assigned" /\ Goto(k, "top")
      <3>1. Safe(World, World, a, {p})
        BY <2>2, <2>4
      <3>2. Safe(World, World, k, {p} \ {p}) /\ Calm(a, k)
        BY <1>2, <3>1, KeepSeek DEF Reached
      <3> HIDE DEF k
      <3>3. Safe(World, World, k, {}) /\ MailOK(k) /\ k.workers = a.workers
        BY <2>2, <3>2, CalmMail, SafeMore
      <3>4. OffsetInv'
        BY <1>9, <2>0, <2>4, <3>3, GotoKeeps
      <3> QED BY <2>2, <2>4, <3>3, <3>4 DEF Goto, Manned
    <2> QED BY <1>10, <2>3, <2>4
  <1>11. CASE UNCHANGED settled /\ Expected(s, p, o, "dead")
    <2>1. OffsetInv' /\ c'.workers = s.workers
      BY <1>2, <1>5, <1>7, <1>8, <1>9, <1>11, ExpectedKeeps
    <2> QED BY <1>7, <2>1 DEF Manned
  <1>12. CASE /\ answer \in Outcomes /\ Expected(s, p, o, answer)
              /\ settled' = IF answer = "safe" /\ c.expect[p] \in {Nowhere, o}
                            THEN settled \cup {<<p, o>>} ELSE settled
    <2>1. answer = "safe" /\ s.expect[p] \in {Nowhere, o} => World' = World \cup {<<p, o>>}
      BY <1>0, <1>6, <1>12 DEF World
    <2>2. answer \in {"safe", "retry", "dead", "halt"}
      BY <1>12, PollOwnerAssumption
    <2>3. OffsetInv' /\ c'.workers = s.workers
      BY <1>2, <1>5, <1>7, <1>8, <1>9, <1>12, <2>1, <2>2, ExpectedKeeps
    <2> QED BY <1>7, <2>3 DEF Manned
  <1> QED BY <1>1, <1>10, <1>11, <1>12

LEMMA PollNoneKeeps ==
  ASSUME OffsetInv, NEW elapsed \in BOOLEAN, PollNone(elapsed)
  PROVE  OffsetInv' /\ Manned
  <1> DEFINE a == ApplyRebalance(c)
             r == PublishReady(c)
             s == IF HasRebalance(c) THEN a ELSE r
  <1>0. Rest /\ MailOK(c) /\ c \in ClientType /\ pc = "poll" /\ WorldPassed(World)
        /\ Safe(World, World, c, {}) /\ UNCHANGED <<world, done, caller, required>>
    BY RestIs, StandsFree DEF PollNone
  <1>1. Call(s, "top", "none", Nowhere) \/ Goto(s, "top")
    BY DEF PollNone
  <1>2. Rest' /\ World' = World
    BY <1>0, RestSame DEF Rest, caller
  <1>3. Safe(World, World, s, {}) /\ MailOK(s) /\ (Staffed(c.workers) => Staffed(s.workers))
    <2>1. CASE HasRebalance(c)
      <3> DEFINE Y == IF c.mailbox.kind = "Assigned" THEN {} ELSE {}
      <3>1. Safe(World, World, a, Y) /\ MailOK(a) /\ (Staffed(c.workers) => Staffed(a.workers))
        BY <1>0, <2>1, ApplyKeeps
      <3>2. Y = {}
        OBVIOUS
      <3> HIDE DEF Y, a
      <3> QED BY <2>1, <3>1, <3>2
    <2>2. CASE ~HasRebalance(c)
      <3>1. Safe(World, World, r, {}) /\ Calm(c, r)
        BY <1>0, KeepReady
      <3> HIDE DEF r
      <3> QED BY <1>0, <2>2, <3>1, CalmMail
    <2> QED BY <2>1, <2>2
  <1> HIDE DEF s
  <1>4. CASE Goto(s, "top")
    <2>1. OffsetInv'
      BY <1>2, <1>3, <1>4, GotoKeeps
    <2> QED BY <1>3, <1>4, <2>1 DEF Goto, Manned
  <1>5. CASE Call(s, "top", "none", Nowhere)
    <2>1. World' \cup Taking("top", "none", Nowhere) = World' /\ Nowhere \in Int
      BY Named DEF Taking
    <2>2. Safe(World', World' \cup Taking("top", "none", Nowhere), s, {})
      BY <1>2, <1>3, <2>1
    <2>3. OffsetInv'
      BY <1>2, <1>3, <1>5, <2>1, <2>2, CallKeeps
    <2> QED BY <1>3, <1>5, <2>3 DEF Call, Manned
  <1> QED BY <1>1, <1>4, <1>5

(* The polls for the callbacks alone.                                      *)
LEMMA MaintainKeeps ==
  ASSUME OffsetInv, MaintainNone \/ \E p \in Partitions : MaintainMessage(p)
  PROVE  OffsetInv' /\ c'.workers = c.workers
  <1>0. Rest /\ MailOK(c) /\ c \in ClientType /\ pc = "maintain" /\ c.deferred /\ Tables(World, c)
        /\ Safe(World, World, c, {}) /\ UNCHANGED <<world, done, caller, required>>
    BY RestIs, StandsFree DEF MaintainNone, MaintainMessage, OffsetInv, FrameInv
  <1>1. Rest' /\ World' = World
    BY <1>0, RestSame DEF Rest, caller
  <1>2. CASE MaintainNone
    <2>1. Goto(c, "top")
      BY <1>2 DEF MaintainNone
    <2>2. OffsetInv'
      BY <1>0, <1>1, <2>1, GotoKeeps
    <2> QED BY <2>1, <2>2 DEF Goto
  <1>3. ASSUME NEW p \in Partitions, MaintainMessage(p)
        PROVE  OffsetInv' /\ c'.workers = c.workers
    <2> DEFINE t == [c EXCEPT !.pos[p] = @ + 1]
    <2>1. Goto(t, "top") /\ c.pos[p] < Records[p]
      BY <1>3 DEF MaintainMessage, Deliverable
    <2>2. /\ t \in ClientType /\ Mail(t) = Mail(c) /\ t.workers = c.workers
          /\ t.assigned = c.assigned /\ t.deferred = c.deferred
      BY <1>0, TakeDoes
    <2>3. Tables(World, t)
      BY <1>0, <2>1, TakeTables
    <2> HIDE DEF t
    <2>4. Safe(World, World, t, {}) /\ MailOK(t)
      BY <1>0, <2>2, <2>3, CalmMail DEF Safe, Standing, Calm
    <2>5. OffsetInv'
      BY <1>1, <2>1, <2>4, GotoKeeps
    <2> QED BY <2>1, <2>2, <2>5 DEF Goto
  <1> QED BY <1>2, <1>3

-----------------------------------------------------------------------------
(* A session ends, and the next begins empty-handed.                       *)
LEMMA SessionIs ==
  ASSUME NEW rows \in SUBSET (Partitions \X Reasons), NEW attempts \in [Partitions -> [Offsets -> Nat]],
         NEW workers \in SUBSET WorkerType
  PROVE  LET t == Session(rows, attempts, workers) IN
         /\ t \in ClientType /\ \A W : Tables(W, t)
         /\ t.assigned = {} /\ MailOK(t) /\ t.workers = workers /\ ~t.deferred
  <1> DEFINE zero == [p \in Partitions |-> 0]
             fresh == [p \in Partitions |-> FreshPartition]
             calm == [p \in Partitions |-> NoRetry]
             idle == [p \in Partitions |-> NoJob]
             t == Session(rows, attempts, workers)
  <1>1. /\ zero \in [Partitions -> Nat] /\ \A p \in Partitions : zero[p] = 0
    OBVIOUS
  <1>2. fresh \in [Partitions -> ProgressType] /\ \A p \in Partitions : fresh[p].seen = <<>>
    BY Named
  <1>3. calm \in [Partitions -> [from : Int, due : BOOLEAN]] /\ \A p \in Partitions : calm[p].from = -1
    BY Named
  <1>4. idle \in [Partitions -> JobType] /\ \A p \in Partitions : idle[p].offset = -1
    BY Named
  <1>5. t = [assigned |-> {}, paused |-> {}, pos |-> zero, lost |-> FALSE,
             snapshot |-> NoOffsets, mailbox |-> NoEvent, epochs |-> 0,
             late |-> NoOffsets, busy |-> FALSE, assignment |-> {}, epoch |-> 0, ready |-> "no",
             progress |-> fresh, rows |-> rows, attempts |-> attempts, retries |-> calm,
             pending |-> idle, admission |-> idle, intent |-> {}, expect |-> NoOffsets,
             deferred |-> FALSE, workers |-> workers]
    BY DEF Session
  <1> HIDE DEF zero, fresh, calm, idle, t
  <1>6. NoOffsets \in OffsetsType /\ NoEvent \in EventType /\ NoEvent.kind = "none"
        /\ \A p \in Partitions : NoOffsets[p] = -1
    BY Named DEF NoOffsets
  <1>7. t \in ClientType
    BY <1>1, <1>2, <1>3, <1>4, <1>5, <1>6 DEF ClientType
  <1>8. /\ t.assigned = {} /\ t.mailbox = NoEvent /\ t.workers = workers /\ ~t.deferred
        /\ t.pos = zero /\ t.snapshot = NoOffsets /\ t.late = NoOffsets /\ t.retries = calm
        /\ t.pending = idle /\ t.admission = idle /\ t.progress = fresh
    BY <1>5
  <1>9. \A W : Tables(W, t)
    BY <1>1, <1>2, <1>3, <1>4, <1>6, <1>8, NothingPassed, Named DEF Tables
  <1> QED BY <1>6, <1>7, <1>8, <1>9 DEF t, MailOK

LEMMA ExitKeeps ==
  ASSUME OffsetInv, NEW accepted \in BOOLEAN, Exit(accepted)
  PROVE  OffsetInv' /\ Manned
  <1> DEFINE at == IF c.lost THEN NoOffsets ELSE CommittableOffsets(c)
             Left(w) == [w EXCEPT !.cancel = TRUE, !.live = FALSE]
             v == {Left(w) : w \in c.workers}
             t == Session(c.rows, c.attempts, v)
  <1>0. /\ Rest /\ c \in ClientType /\ Tables(World, c)
        /\ c.rows \in SUBSET (Partitions \X Reasons) /\ c.attempts \in [Partitions -> [Offsets -> Nat]]
        /\ c.workers \subseteq WorkerType
    BY RestIs, RetriesType
  <1>1. /\ c' = t /\ frame' = NoFrame /\ done' = {} /\ command' = Unanswered
        /\ pc' \in {"stopped", "crashed", "down"} /\ UNCHANGED <<settled, waived, stop, required>>
        /\ (Accept(at) \/ UNCHANGED committed)
    BY DEF Exit
  <1>2. at \in OffsetsType /\ \A p \in Partitions : Passed(World, p, at[p]) /\ at[p] >= -1
    <2>1. \A p \in Partitions : NoOffsets[p] = -1
      BY Named DEF NoOffsets
    <2> QED BY <1>0, <2>1, CommittablePassed, NothingPassed, Named
  <1> HIDE DEF at
  <1>3. Rest' /\ World' = World
    <2>1. command' \in {"none", "queued", "executing", "answered", "dropped"} /\ stop' \in BOOLEAN
      BY <1>0, <1>1 DEF Rest, Unanswered
    <2>2. CASE Accept(at)
      BY <1>0, <1>1, <1>2, <2>1, <2>2, RestCommitted DEF Accept
    <2>3. CASE UNCHANGED committed
      <3>1. NoOffsets \in OffsetsType /\ \A p \in Partitions : Passed(World, p, NoOffsets[p]) /\ NoOffsets[p] >= -1
        BY NothingPassed, Named DEF NoOffsets
      <3>2. committed' = [p \in Partitions |-> IF NoOffsets[p] = Nowhere THEN committed[p] ELSE NoOffsets[p]]
        BY <1>0, <2>3 DEF NoOffsets, Rest
      <3> QED BY <1>0, <1>1, <2>1, <3>1, <3>2, RestCommitted
    <2> QED BY <1>1, <2>2, <2>3
  <1>4. \A w \in WorkerType : Left(w) \in WorkerType
    BY DEF WorkerType
  <1> HIDE DEF Left
  <1>5. v \in SUBSET WorkerType
    BY <1>0, <1>4
  <1>6. Staffed(c.workers) => Staffed(v)
    <2> DEFINE f == [w \in c.workers |-> Left(w)]
    <2>1. f \in [c.workers -> v] /\ \A y \in v : \E x \in c.workers : f[x] = y
      OBVIOUS
    <2> HIDE DEF f, v
    <2> QED BY <2>1, StaffImage
  <1> HIDE DEF v
  <1>7. /\ t \in ClientType /\ Tables(World, t)
        /\ t.assigned = {} /\ MailOK(t) /\ t.workers = v /\ ~t.deferred
    <2> DEFINE r == c.rows
               a == c.attempts
               u == Session(r, a, v)
    <2>1. r \in SUBSET (Partitions \X Reasons) /\ a \in [Partitions -> [Offsets -> Nat]]
      BY <1>0
    <2> HIDE DEF r, a
    <2>2. /\ u \in ClientType /\ \A W : Tables(W, u)
          /\ u.assigned = {} /\ MailOK(u) /\ u.workers = v /\ ~u.deferred
      BY <1>5, <2>1, SessionIs
    <2> QED BY <2>2 DEF r, a
  <1> HIDE DEF t
  <1>8. NoFrame.discarded = NoOffsets /\ NoFrame.cont = "top"
    BY DEF NoFrame
  <1>9. ~InCommit' /\ ~Doing("retry")' /\ ~Doing("dead")' /\ ~Doing("dlt")'
    BY <1>1 DEF InCommit, Doing
  <1>10. Types'
    BY <1>1, <1>3, <1>7, Named DEF Types, Rest, Points
  <1>11. FrameInv'
    <2>1. \A p \in Partitions : NoOffsets[p] \in -1 .. Records[p]
      BY Named DEF NoOffsets
    <2> QED BY <1>1, <1>7, <1>8, <1>9, <2>1 DEF FrameInv
  <1>12. PositionInv'
    <2>1. Standing(World' \cup Taken', c', Discarded')
      BY <1>1, <1>7 DEF Standing
    <2> QED BY <1>9, <2>1 DEF PositionInv
  <1>13. MailInv' /\ Tables(World', c')
    BY <1>1, <1>3, <1>7 DEF MailInv
  <1>14. OffsetInv'
    BY <1>3, <1>10, <1>11, <1>12, <1>13 DEF OffsetInv, Rest
  <1> QED BY <1>1, <1>6, <1>7, <1>14 DEF Manned

-----------------------------------------------------------------------------
(* The invariant holds at first, and every step keeps it.                  *)
OwnerInv == OffsetInv /\ Staffed(c.workers)

LEMMA InitHolds ==
  ASSUME Init
  PROVE  OwnerInv
  <1> DEFINE t == Session({}, NoAttempts, {})
  <1>0. /\ c = t /\ pc = "top" /\ frame = NoFrame /\ committed = [p \in Partitions |-> 0]
        /\ settled = {} /\ waived = {} /\ done = {} /\ command = "none" /\ stop = FALSE /\ required \in BOOLEAN
    BY PollOwnerAssumption DEF Init
  <1>1. /\ t \in ClientType /\ Tables(World, t)
        /\ t.assigned = {} /\ MailOK(t) /\ t.workers = {} /\ ~t.deferred
    <2>1. {} \in SUBSET (Partitions \X Reasons) /\ {} \in SUBSET WorkerType
      OBVIOUS
    <2> QED BY ZenonT(60), <2>1, SessionIs, Named
  <1> HIDE DEF t
  <1>2. Rest
    BY <1>0, NothingPassed DEF Rest, WorldInv
  <1>3. NoFrame.discarded = NoOffsets /\ NoFrame.cont = "top"
    BY DEF NoFrame
  <1>4. ~InCommit /\ ~Doing("retry") /\ ~Doing("dead") /\ ~Doing("dlt")
    BY <1>0 DEF InCommit, Doing
  <1>5. Types
    BY <1>0, <1>1, <1>2, Named DEF Types, Rest, Points
  <1>6. FrameInv
    <2>1. \A p \in Partitions : NoOffsets[p] \in -1 .. Records[p]
      BY Named DEF NoOffsets
    <2> QED BY <1>0, <1>3, <1>4, <2>1 DEF FrameInv
  <1>7. PositionInv
    <2>1. Standing(World \cup Taken, c, Discarded)
      BY <1>0, <1>1 DEF Standing
    <2> QED BY <1>4, <2>1 DEF PositionInv
  <1>8. OffsetInv
    BY <1>0, <1>1, <1>2, <1>5, <1>6, <1>7 DEF OffsetInv, MailInv, Rest
  <1>9. Staffed({})
    BY FS_EmptySet, PollOwnerAssumption DEF Staffed
  <1> QED BY <1>0, <1>1, <1>8, <1>9 DEF OwnerInv

LEMMA SameHolds ==
  ASSUME OwnerInv, UNCHANGED vars
  PROVE  OwnerInv'
  <1>1. UNCHANGED <<c, pc, frame, committed, settled, waived, done, command, stop, required>>
    BY DEF vars, world, caller
  <1>2. /\ World' = World /\ InCommit' = InCommit /\ Taken' = Taken /\ Discarded' = Discarded
        /\ \A k : Doing(k)' <=> Doing(k)
    BY <1>1 DEF World, InCommit, Doing, Taken, Discarded
  <1>3. Types' /\ WorldInv' /\ MailInv' /\ Tables(World', c')
    BY <1>1, <1>2 DEF OwnerInv, OffsetInv, Types, WorldInv, MailInv
  <1>4. FrameInv'
    BY <1>1, <1>2 DEF OwnerInv, OffsetInv, FrameInv
  <1>5. PositionInv'
    BY <1>1, <1>2 DEF OwnerInv, OffsetInv, PositionInv
  <1> QED BY <1>1, <1>3, <1>4, <1>5 DEF OwnerInv, OffsetInv

LEMMA OwnerStepHolds ==
  ASSUME OffsetInv, OwnerStep
  PROVE  OffsetInv' /\ Manned
  <1>1. CASE \E d \in done : Drain(d)
    BY <1>1, DrainKeeps DEF Manned
  <1>2. CASE Drained
    BY <1>2, DrainedKeeps DEF Manned
  <1>3. CASE TurnFinishes \/ Turn \/ TurnStops \/ AfterStop
    BY <1>3, TurnsKeep DEF Manned
  <1>4. CASE CommitVoid
    BY <1>4, VoidKeeps DEF Manned
  <1>5. CASE CommitAccepted
    BY <1>5, AcceptedKeeps DEF Manned
  <1>6. CASE CommitRefused
    BY <1>6, RefusedKeeps DEF Manned
  <1>7. CASE WaitNone
    BY <1>7, WaitNoneKeeps DEF Manned
  <1>8. CASE AfterRetry
    BY <1>8, AfterRetryKeeps
  <1>9. CASE AfterDead
    BY <1>9, AfterDeadKeeps
  <1>10. CASE AfterDlt
    BY <1>10, AfterDltKeeps DEF Manned
  <1>11. CASE \E p \in Partitions : WaitMessage(p)
    BY <1>11, WaitMessageKeeps DEF Manned
  <1>12. CASE MaintainNone \/ \E p \in Partitions : MaintainMessage(p)
    BY <1>12, MaintainKeeps DEF Manned
  <1>13. CASE \E p \in Partitions, a \in Outcomes \cup {"safe"} : PollMessage(p, a)
    BY <1>13, PollMessageKeeps
  <1>14. CASE \E elapsed \in BOOLEAN : PollNone(elapsed)
    BY <1>14, PollNoneKeeps
  <1>15. CASE \E kind \in Failures : WaitFails(kind) \/ PollFails(kind) \/ MaintainFails(kind)
    BY <1>15, FailsKeeps DEF Manned
  <1>16. CASE \E accepted \in BOOLEAN : Exit(accepted)
    BY <1>16, ExitKeeps
  <1>17. CASE Restart(FALSE)
    BY <1>17, RestartKeeps DEF Manned
  <1>18. CASE StopWhileDown
    BY <1>18, StopDownKeeps DEF Manned
  <1> QED BY <1>1, <1>2, <1>3, <1>4, <1>5, <1>6, <1>7, <1>8, <1>9, <1>10, <1>11, <1>12, <1>13, <1>14,
             <1>15, <1>16, <1>17, <1>18 DEF OwnerStep

LEMMA EnvironmentHolds ==
  ASSUME OffsetInv, Environment
  PROVE  OffsetInv' /\ Manned
  <1>1. CASE \E S \in SUBSET Partitions, lingers \in BOOLEAN : OnAssign(S, lingers)
    BY <1>1, OnAssignKeeps DEF Manned
  <1>2. CASE OnRevoke \/ OnRevokeLost
    <2>1. PICK R \in SUBSET c.assigned, outcome \in {"committed", "failed", "late"} : Revoke(R, outcome)
      BY <1>2 DEF OnRevoke, OnRevokeLost
    <2>2. R \in SUBSET Partitions
      BY RestIs, RetriesType
    <2> QED BY <2>1, <2>2, RevokeKeeps DEF Manned
  <1>3. CASE LoseAssignment
    BY <1>3, LoseKeeps DEF Manned
  <1>4. CASE OnError
    BY <1>4, OnErrorKeeps DEF Manned
  <1>5. CASE \E lands \in BOOLEAN : LateCommit(lands)
    BY <1>5, LateKeeps DEF Manned
  <1>6. CASE \E p \in Partitions : OtherRuns(p) \/ RetryDue(p)
    BY <1>6, OtherKeeps, RetryDueKeeps DEF Manned
  <1>7. CASE \E w \in c.workers : WorkerStep(w)
    BY <1>7, WorkerKeeps
  <1>8. CASE RequestStop
    BY <1>8, RequestKeeps DEF Manned
  <1>9. CASE Restart(TRUE)
    BY <1>9, RestartKeeps DEF Manned
  <1> QED BY <1>1, <1>2, <1>3, <1>4, <1>5, <1>6, <1>7, <1>8, <1>9 DEF Environment

(* Every offset that may reach the broker is passed, and no task is beyond *)
(* the envelopes: the invariant that carries the theorems.                 *)
THEOREM OwnerInvHolds == Spec => []OwnerInv
  <1>1. Init => OwnerInv
    BY InitHolds
  <1>2. OwnerInv /\ [Next]_vars => OwnerInv'
    <2> SUFFICES ASSUME OwnerInv, [Next]_vars PROVE OwnerInv'
      OBVIOUS
    <2>1. CASE OwnerStep
      BY <2>1, OwnerStepHolds DEF OwnerInv, Manned
    <2>2. CASE Environment
      BY <2>2, EnvironmentHolds DEF OwnerInv, Manned
    <2>3. CASE UNCHANGED vars
      BY <2>3, SameHolds
    <2> QED BY <2>1, <2>2, <2>3 DEF Next, Terminated
  <1> QED BY <1>1, <1>2, PTL DEF Spec

(* The group's offset at the broker never passes a record that is neither  *)
(* handled nor given up, whatever commits, rebalances, dead letters, late  *)
(* answers and rebuilt sessions do, for any number of partitions, records  *)
(* and disturbances; a group that requires its dead letters gives none up. *)
THEOREM AtLeastOnceHolds == Spec => []AtLeastOnce
  <1>1. OwnerInv => AtLeastOnce
    BY DEF OwnerInv, OffsetInv, WorldInv, World, Passed, AtLeastOnce
  <1> QED BY <1>1, OwnerInvHolds, PTL

(* The tables keep their types, no position and no committed offset is     *)
(* beyond the log, and there are never more tasks than envelopes, through  *)
(* every session the dispatcher outlives.                                  *)
THEOREM TypeCorrect == Spec => []TypeOK
  <1>1. OwnerInv => TypeOK
    <2> SUFFICES ASSUME OwnerInv PROVE TypeOK
      OBVIOUS
    <2>1. /\ c \in ClientType /\ pc \in Points /\ Tables(World, c) /\ committed \in [Partitions -> Nat]
          /\ (\A p \in Partitions : Passed(World, p, committed[p])) /\ Cardinality(c.workers) <= Envelopes
          /\ command \in {"none", "queued", "executing", "answered", "dropped"}
      BY DEF OwnerInv, OffsetInv, Types, WorldInv, Staffed
    <2>2. /\ c.assigned \subseteq Partitions /\ c.assignment \subseteq Partitions
          /\ c.rows \subseteq Partitions \X Reasons /\ c.pos \in [Partitions -> Nat]
      BY <2>1, RetriesType
    <2>3. \A p \in Partitions : {c.pos[p], committed[p]} \subseteq 0 .. Records[p]
      <3> SUFFICES ASSUME NEW p \in Partitions
                   PROVE  c.pos[p] \in 0 .. Records[p] /\ committed[p] \in 0 .. Records[p]
        OBVIOUS
      <3>1. c.pos[p] <= Records[p] /\ committed[p] <= Records[p]
        BY <2>1, Named DEF Tables, Passed
      <3> QED BY <2>1, <2>2, <3>1, Named
    <2> QED BY <2>1, <2>2, <2>3 DEF TypeOK, Points, Reasons
  <1> QED BY <1>1, OwnerInvHolds, PTL

-----------------------------------------------------------------------------
(* No pause without an owner, for eager rebalances.                        *)
(*                                                                         *)
(* Whenever authority is not in doubt and no stop is under way, every      *)
(* paused partition has a row and every row has its owner: not only at     *)
(* the poll, but at every point of the loop, up to the partition whose     *)
(* completion is being committed and to the rows of a commit that is being *)
(* retried.  While authority is in doubt nothing is claimed: the next      *)
(* event that the loop applies sets the pauses and the rows anew, or       *)
(* leaves the client without an assignment.                                *)

(* With eager rebalances the client's assignment is the loop's, or it is   *)
(* gone, or the loop is about to be told.  Events are numbered, so that a  *)
(* task of an earlier assignment is known by its number.                   *)
Place(s) ==
  /\ s.mailbox.kind = "none" => s.assigned = {} \/ s.assigned = s.assignment
  /\ s.mailbox.kind = "Assigned" => s.assigned = s.mailbox.parts
  /\ s.mailbox.kind \in {"Revoked", "Error"} => s.assigned = {}
  /\ s.epoch <= s.epochs
  /\ s.mailbox.kind # "none" => s.epoch < s.mailbox.epoch /\ s.mailbox.epoch <= s.epochs

(* A task, or its completion, belongs to the present assignment exactly    *)
(* when it is the one its partition waits for.                             *)
JobOf(w) == [offset |-> w.offset, epoch |-> w.epoch]
Present(s) == {w \in s.workers : w.live /\ w.epoch = s.epoch}
Sent(s, D) == {d \in D : d.epoch = s.epoch}

Crew(s, D) ==
  /\ \A p \in Jobs(s.pending) : s.pending[p].epoch = s.epoch
  /\ \A w \in s.workers : w.live => w.epoch <= s.epoch
  /\ \A d \in D : d.epoch <= s.epoch
  /\ \A w \in Present(s) : s.pending[w.tp] = JobOf(w)
  /\ \A d \in Sent(s, D) : s.pending[d.tp] = JobOf(d)
  /\ \A w \in Present(s), d \in Sent(s, D) : w.tp # d.tp
  /\ \A w \in Present(s), v \in Present(s) : w.tp = v.tp => w = v
  /\ \A d \in Sent(s, D), e \in Sent(s, D) : d.tp = e.tp => d = e

(* Every pause has a row and every row somebody who will lift it, but for  *)
(* the dead letters of the partitions in X; b: a commit is being retried.  *)
HeldAt(s, p, X, b) ==
  /\ p \in s.paused => \E r \in Reasons : <<p, r>> \in s.rows
  /\ <<p, "retry">> \in s.rows => s.retries[p].from # Nowhere
  /\ <<p, "dlt">> \in s.rows => p \in Jobs(s.pending) \cup Jobs(s.admission) \cup X
  /\ <<p, "degraded">> \in s.rows => p \in Jobs(s.pending) \cup X
  /\ <<p, "envelope">> \in s.rows => p \in Jobs(s.admission)
  /\ <<p, "commit">> \in s.rows => b

Held(s, X, b) == \A p \in s.assigned : HeldAt(s, p, X, b)

(* The partition whose completion is being committed.                      *)
Closing == IF Doing("dlt") THEN {frame.tp} ELSE {}
Blocked == InCommit /\ frame.blocked

StopInv ==
  /\ InCommit /\ frame.cont = "stop" => stop
  /\ pc = "stop" => stop
  /\ c.deferred => stop

PauseInv ==
  /\ Place(c) /\ Crew(c, done) /\ StopInv
  /\ ~Gated(c) /\ ~stop =>
       /\ pc # "exit" => Held(c, Closing, Blocked)
       /\ Blocked => CommittableOffsets(c) # NoOffsets

(* The fields that this invariant reads, and what it needs of their types. *)
Fields == {"assigned", "paused", "pos", "lost", "snapshot", "mailbox", "epochs", "late", "busy",
           "assignment", "epoch", "ready", "progress", "rows", "attempts", "retries", "pending",
           "admission", "intent", "expect", "deferred", "workers"}

Fit(s) ==
  /\ DOMAIN s = Fields
  /\ s.assigned \subseteq Partitions /\ s.paused \subseteq Partitions
  /\ s.rows \subseteq Partitions \X Reasons
  /\ s.retries \in [Partitions -> [from : Int, due : BOOLEAN]]
  /\ s.pending \in [Partitions -> JobType] /\ s.admission \in [Partitions -> JobType]
  /\ s.workers \subseteq WorkerType /\ s.epoch \in Nat

Posted(s, t) ==
  /\ t.assigned = s.assigned /\ t.lost = s.lost /\ t.mailbox = s.mailbox /\ t.epochs = s.epochs
  /\ t.assignment = s.assignment /\ t.epoch = s.epoch /\ t.deferred = s.deferred

Alike(s, t) ==
  /\ DOMAIN t = Fields /\ Posted(s, t) /\ t.paused = s.paused /\ t.rows = s.rows
  /\ t.retries = s.retries /\ t.pending = s.pending /\ t.admission = s.admission
  /\ t.workers = s.workers

Duty(s, D, st, X, b) ==
  /\ Fit(s) /\ Place(s) /\ Crew(s, D)
  /\ ~Gated(s) /\ ~st => Held(s, X, b)

LEMMA FitIs ==
  ASSUME NEW s \in ClientType
  PROVE  Fit(s)
  BY DEF ClientType, Fit, Fields

LEMMA AlikeTwice ==
  ASSUME NEW s, NEW t, NEW u, Alike(s, t), Alike(t, u)
  PROVE  Alike(s, u)
  BY DEF Alike, Posted

LEMMA DutyAlike ==
  ASSUME NEW s, NEW t, Alike(s, t), NEW D, NEW st, NEW X, NEW b, Duty(s, D, st, X, b)
  PROVE  Duty(t, D, st, X, b)
  <1>1. Fit(t) /\ Place(t)
    BY DEF Alike, Posted, Duty, Fit, Place
  <1>2. Crew(t, D)
    BY DEF Alike, Posted, Duty, Crew, Present, Sent
  <1>3. Gated(t) <=> Gated(s)
    BY DEF Alike, Posted, Gated, HasRebalance
  <1>4. Held(s, X, b) => Held(t, X, b)
    BY DEF Alike, Posted, Held, HeldAt
  <1> QED BY <1>1, <1>2, <1>3, <1>4 DEF Duty

(* The changes that none of this reads.                                    *)
LEMMA AlikeRewind ==
  ASSUME NEW s, DOMAIN s = Fields, NEW at
  PROVE  Alike(s, Rewind(s, at))
  BY DEF Alike, Posted, Rewind, Fields

LEMMA AlikeSeek ==
  ASSUME NEW s, DOMAIN s = Fields, NEW p, NEW o
  PROVE  Alike(s, Seek(s, p, o))
  BY AlikeRewind DEF Seek

LEMMA AlikeSnapshot ==
  ASSUME NEW s, DOMAIN s = Fields
  PROVE  Alike(s, PublishCommitSnapshot(s))
  BY DEF Alike, Posted, PublishCommitSnapshot, Fields

LEMMA AlikeAttempts ==
  ASSUME NEW s, DOMAIN s = Fields, NEW v
  PROVE  Alike(s, [s EXCEPT !.attempts = v])
  BY DEF Alike, Posted, Fields

LEMMA AlikeObserve ==
  ASSUME NEW s, DOMAIN s = Fields, NEW p, NEW o, NEW safe
  PROVE  Alike(s, Observe(s, p, o, safe))
  BY DEF Observe, Alike, Posted, Fields

LEMMA AlikeConfirm ==
  ASSUME NEW s, DOMAIN s = Fields, NEW at
  PROVE  Alike(s, ConfirmCommitted(s, at))
  BY DEF ConfirmCommitted, Alike, Posted, Fields

LEMMA AlikeReset ==
  ASSUME NEW s, DOMAIN s = Fields, NEW S
  PROVE  Alike(s, ResetPartitions(s, S)) /\ Alike(s, ClearProgress(s))
  BY DEF ResetPartitions, ClearProgress, Alike, Posted, Fields

LEMMA AlikePruned ==
  ASSUME NEW s, DOMAIN s = Fields
  PROVE  Alike(s, Pruned(s))
  BY DEF Pruned, Alike, Posted, Fields

LEMMA AlikeRemember ==
  ASSUME NEW s, DOMAIN s = Fields, NEW p, NEW o
  PROVE  Alike(s, Remember(s, p, o))
  BY DEF Remember, Alike, Posted, Fields

LEMMA AlikeReady ==
  ASSUME NEW s, DOMAIN s = Fields
  PROVE  Alike(s, PublishReady(s))
  BY DEF PublishReady, Alike, Posted, Fields

LEMMA AlikePos ==
  ASSUME NEW s, DOMAIN s = Fields, NEW p
  PROVE  Alike(s, [s EXCEPT !.pos[p] = @ + 1])
  BY DEF Alike, Posted, Fields

LEMMA AlikeAttempt ==
  ASSUME NEW s, DOMAIN s = Fields, NEW p, NEW o, NEW n
  PROVE  Alike(s, [s EXCEPT !.attempts[p][o] = n])
  BY DEF Alike, Posted, Fields

LEMMA AlikeExpectAt ==
  ASSUME NEW s, DOMAIN s = Fields, NEW p, NEW n
  PROVE  Alike(s, [s EXCEPT !.expect[p] = n])
  BY DEF Alike, Posted, Fields

(* The changes to pauses and rows.                                         *)
LEMMA DutyMore ==
  ASSUME NEW s, NEW D, NEW st, NEW X, NEW b, Duty(s, D, st, {}, b)
  PROVE  Duty(s, D, st, X, b)
  BY DEF Duty, Held, HeldAt

LEMMA DutyHalt ==
  ASSUME NEW s, NEW D, NEW st, NEW b, NEW p \in Partitions, Duty(s, D, st, {p}, b)
  PROVE  /\ Duty(HaltPartition(s, p), D, st, {}, b)
         /\ HaltPartition(s, p).deferred = s.deferred
  <1> DEFINE t == HaltPartition(s, p)
  <1>1. DOMAIN s = Fields
    BY DEF Duty, Fit
  <1>2. /\ DOMAIN t = Fields /\ Posted(s, t) /\ t.paused = s.paused \cup {p}
        /\ t.rows = {row \in s.rows : row[1] # p} \cup {<<p, "halt">>}
        /\ t.retries = s.retries /\ t.pending = s.pending /\ t.admission = s.admission
        /\ t.workers = s.workers
    BY <1>1 DEF HaltPartition, Pause, Posted, Fields
  <1> HIDE DEF t
  <1>3. Fit(t) /\ Place(t) /\ Crew(t, D) /\ (Gated(t) <=> Gated(s))
    <2>1. Fit(t)
      BY <1>2 DEF Duty, Fit, Posted, Reasons
    <2>2. Place(t) /\ (Gated(t) <=> Gated(s))
      BY <1>2 DEF Duty, Place, Posted, Gated, HasRebalance
    <2>3. Crew(t, D)
      BY <1>2 DEF Duty, Crew, Posted, Present, Sent
    <2> QED BY <2>1, <2>2, <2>3
  <1>4. ASSUME Held(s, {p}, b) PROVE Held(t, {}, b)
    <2> SUFFICES ASSUME NEW q \in s.assigned PROVE HeldAt(t, q, {}, b)
      BY <1>2 DEF Held, Posted
    <2>1. CASE q = p
      <3>1. \A r : <<p, r>> \in t.rows => r = "halt"
        BY <1>2
      <3>2. <<p, "halt">> \in t.rows
        BY <1>2
      <3> QED BY <2>1, <3>1, <3>2 DEF HeldAt, Reasons
    <2>2. CASE q # p
      <3>1. \A r : <<q, r>> \in t.rows <=> <<q, r>> \in s.rows
        BY <1>2, <2>2
      <3> QED BY <1>2, <1>4, <2>2, <3>1 DEF Held, HeldAt
    <2> QED BY <2>1, <2>2
  <1> QED BY <1>2, <1>3, <1>4 DEF Duty, t, Posted

LEMMA ClearIs ==
  ASSUME NEW s, Fit(s), NEW S, NEW rs
  PROVE  LET t == ClearAndResume(s, S, rs) IN
         /\ Fit(t) /\ Posted(s, t) /\ t.rows = s.rows \ (S \X rs)
         /\ t.retries = s.retries /\ t.pending = s.pending /\ t.admission = s.admission
         /\ t.workers = s.workers
         /\ \A p \in Partitions : (p \in s.paused => \E r \in Reasons : <<p, r>> \in s.rows)
                         => (p \in t.paused => \E r \in Reasons : <<p, r>> \in t.rows)
  <1> DEFINE u == DropRows(s, S, rs)
             t == Resume(u, Unblocked(u, S))
  <1>1. /\ DOMAIN u = Fields /\ Posted(s, u) /\ u.rows = s.rows \ (S \X rs) /\ u.paused = s.paused
        /\ u.retries = s.retries /\ u.pending = s.pending /\ u.admission = s.admission
        /\ u.workers = s.workers
    BY DEF DropRows, Fit, Posted, Fields
  <1> HIDE DEF u
  <1>2. /\ DOMAIN t = Fields /\ Posted(s, t) /\ t.rows = s.rows \ (S \X rs)
        /\ t.paused = s.paused \ Unblocked(u, S)
        /\ t.retries = s.retries /\ t.pending = s.pending /\ t.admission = s.admission
        /\ t.workers = s.workers
    BY <1>1 DEF Resume, Posted, Fields
  <1> HIDE DEF t
  <1>3. Fit(t)
    BY <1>2 DEF Fit, Posted
  <1>4. ASSUME NEW p \in Partitions, p \in t.paused, NEW r \in Reasons, <<p, r>> \in s.rows
        PROVE  \E x \in Reasons : <<p, x>> \in t.rows
    <2>1. CASE p \notin S
      BY <2>1, <1>2, <1>4
    <2>2. CASE p \in S
      <3>1. PICK row \in u.rows : row[1] = p
        BY <1>2, <1>4, <2>2 DEF Unblocked
      <3>2. row \in Partitions \X Reasons
        BY <1>1, <3>1 DEF Fit
      <3>3. row = <<p, row[2]>> /\ row[2] \in Reasons
        BY <3>1, <3>2
      <3> QED BY <1>1, <1>2, <3>1, <3>3
    <2> QED BY <2>1, <2>2
  <1>5. t.paused \subseteq s.paused
    BY <1>2
  <1>6. ClearAndResume(s, S, rs) = t
    BY DEF ClearAndResume, t, u
  <1> QED BY <1>2, <1>3, <1>4, <1>5, <1>6

(* Place and crew from the fields that they read.                          *)
LEMMA DutySame ==
  ASSUME NEW s, NEW t, Fit(t), Posted(s, t), t.pending = s.pending, t.workers = s.workers,
         NEW D, Place(s), Crew(s, D)
  PROVE  Place(t) /\ Crew(t, D) /\ (Gated(t) <=> Gated(s))
  <1>1. Place(t) /\ (Gated(t) <=> Gated(s))
    BY DEF Place, Posted, Gated, HasRebalance
  <1>2. Crew(t, D)
    BY DEF Crew, Posted, Present, Sent
  <1> QED BY <1>1, <1>2

(* AfterDlt: the dead letter's rows go, and with them its exception.       *)
LEMMA DutyClear ==
  ASSUME NEW s, NEW D, NEW st, NEW b, NEW p \in Partitions, Duty(s, D, st, {p}, b)
  PROVE  LET t == ClearAndResume(s, {p}, {"dlt", "degraded"}) IN
         Duty(t, D, st, {}, b) /\ t.deferred = s.deferred
  <1> DEFINE t == ClearAndResume(s, {p}, {"dlt", "degraded"})
  <1>0. Fit(s)
    BY DEF Duty
  <1>1. /\ Fit(t) /\ Posted(s, t) /\ t.rows = s.rows \ ({p} \X {"dlt", "degraded"})
        /\ t.retries = s.retries /\ t.pending = s.pending /\ t.admission = s.admission
        /\ t.workers = s.workers
        /\ \A q \in Partitions : (q \in s.paused => \E r \in Reasons : <<q, r>> \in s.rows)
                        => (q \in t.paused => \E r \in Reasons : <<q, r>> \in t.rows)
    BY <1>0, ClearIs
  <1> HIDE DEF t
  <1>2. Place(t) /\ Crew(t, D) /\ (Gated(t) <=> Gated(s))
    BY <1>1, DutySame DEF Duty
  <1>3. ASSUME Held(s, {p}, b) PROVE Held(t, {}, b)
    <2> SUFFICES ASSUME NEW q \in s.assigned PROVE HeldAt(t, q, {}, b)
      BY <1>1 DEF Held, Posted
    <2>1. HeldAt(s, q, {p}, b) /\ q \in Partitions
      BY <1>3 DEF Held, Duty, Fit
    <2>2. q \in t.paused => \E r \in Reasons : <<q, r>> \in t.rows
      BY <1>1, <2>1 DEF HeldAt
    <2>3. \A r : <<q, r>> \in t.rows => <<q, r>> \in s.rows
      BY <1>1
    <2>4. q = p => <<q, "dlt">> \notin t.rows /\ <<q, "degraded">> \notin t.rows
      BY <1>1
    <2> QED BY <1>1, <2>1, <2>2, <2>3, <2>4 DEF HeldAt
  <1> QED BY <1>1, <1>2, <1>3 DEF Duty, t, Posted

(* A pause with its row, for the partitions of S.                          *)
LEMMA PauseIs ==
  ASSUME NEW s, Fit(s), NEW S \in SUBSET Partitions, NEW r \in Reasons
  PROVE  LET t == AddPauseReason(Pause(s, S), S, r) IN
         /\ Fit(t) /\ Posted(s, t) /\ t.rows = s.rows \cup (S \X {r}) /\ t.paused = s.paused \cup S
         /\ t.retries = s.retries /\ t.pending = s.pending /\ t.admission = s.admission
         /\ t.workers = s.workers
  <1> DEFINE t == AddPauseReason(Pause(s, S), S, r)
  <1>1. /\ DOMAIN t = Fields /\ Posted(s, t) /\ t.rows = s.rows \cup (S \X {r}) /\ t.paused = s.paused \cup S
        /\ t.retries = s.retries /\ t.pending = s.pending /\ t.admission = s.admission
        /\ t.workers = s.workers
    BY DEF AddPauseReason, Pause, Posted, Fields, Fit
  <1> HIDE DEF t
  <1>2. Fit(t)
    BY <1>1 DEF Fit, Posted
  <1> QED BY <1>1, <1>2 DEF t

(* Where the loop can go from here.                                        *)
LEMMA DutyIs ==
  ASSUME OffsetInv, PauseInv, pc # "exit"
  PROVE  Duty(c, done, stop, Closing, Blocked) /\ (c.deferred => stop)
  BY RestIs, FitIs DEF PauseInv, StopInv, Duty

LEMMA GotoPause ==
  ASSUME NEW s, NEW at \in {"top", "turn", "poll", "maintain", "stopped"}, Goto(s, at),
         Duty(s, done', stop', {}, FALSE), s.deferred => stop'
  PROVE  PauseInv'
  <1>1. c' = s /\ pc' = at
    BY DEF Goto
  <1>2. ~InCommit' /\ Closing' = {} /\ Blocked' = FALSE
    BY <1>1 DEF InCommit, Closing, Doing, Blocked
  <1> QED BY <1>1, <1>2 DEF PauseInv, StopInv, Duty

LEMMA EndsPause ==
  ASSUME NEW s, NEW k, Ends(s, k), Place(s), Crew(s, done'), s.deferred => stop'
  PROVE  PauseInv'
  <1>1. c' = s /\ pc' = "exit"
    BY DEF Ends
  <1>2. ~InCommit' /\ Blocked' = FALSE
    BY <1>1 DEF InCommit, Blocked
  <1> QED BY <1>1, <1>2 DEF PauseInv, StopInv

LEMMA CallPause ==
  ASSUME NEW s, NEW k \in {"top", "stop", "retry", "dead", "dlt"}, NEW p, NEW o, Call(s, k, p, o),
         Duty(s, done', stop', IF k = "dlt" THEN {p} ELSE {}, FALSE),
         s.deferred => stop', k = "stop" => stop'
  PROVE  PauseInv'
  <1>1. c' = s /\ pc' = "commit" /\ frame'.cont = k /\ frame'.tp = p /\ frame'.blocked = FALSE
    BY CallingIs DEF Call, Calling, NoFrame
  <1>2. InCommit' /\ Closing' = (IF k = "dlt" THEN {p} ELSE {}) /\ Blocked' = FALSE
    BY <1>1 DEF InCommit, Closing, Doing, Blocked
  <1> QED BY <1>1, <1>2 DEF PauseInv, StopInv, Duty

LEMMA ReturnPause ==
  ASSUME OffsetInv, InCommit, NEW s, pc' = frame.cont, frame' = Calling("top", frame.tp, frame.offset),
         c' = s, Duty(s, done', stop', Closing, FALSE), s.deferred => stop', frame.cont = "stop" => stop'
  PROVE  PauseInv'
  <1>1. frame'.tp = frame.tp /\ frame.cont \in {"top", "stop", "retry", "dead", "dlt"}
    BY CallingIs DEF Calling, NoFrame, OffsetInv, FrameInv
  <1>2. ~InCommit' /\ Blocked' = FALSE /\ Closing' = Closing
    BY <1>1 DEF InCommit, Closing, Doing, Blocked
  <1> QED BY <1>1, <1>2 DEF PauseInv, StopInv, Duty

LEMMA PutBackAlike ==
  ASSUME NEW s, DOMAIN s = Fields
  PROVE  Alike(s, PutBack(s))
  BY AlikeRewind DEF PutBack

(* A step beside the loop.                                                 *)
LEMMA BesidePause ==
  ASSUME PauseInv, UNCHANGED <<pc, frame, stop>>, Place(c'), Crew(c', done'), c'.deferred = c.deferred,
         ~Gated(c') => /\ ~Gated(c) /\ c'.progress = c.progress
                       /\ \A X, b : Held(c, X, b) => Held(c', X, b)
  PROVE  PauseInv'
  <1>1. (InCommit' <=> InCommit) /\ Closing' = Closing /\ (Blocked' <=> Blocked) /\ StopInv'
    BY DEF InCommit, Closing, Doing, Blocked, PauseInv, StopInv
  <1>2. CASE Gated(c')
    BY <1>1, <1>2 DEF PauseInv
  <1>3. CASE ~Gated(c')
    <2>1. CommittableOffsets(c') = CommittableOffsets(c)
      BY <1>3 DEF CommittableOffsets
    <2>2. Held(c, Closing, Blocked) => Held(c', Closing', Blocked')
      <3>1. Held(c, Closing, Blocked) => Held(c', Closing, Blocked)
        BY <1>3
      <3>2. Held(c', Closing, Blocked) => Held(c', Closing', Blocked')
        BY <1>1 DEF Held, HeldAt
      <3> QED BY <3>1, <3>2
    <2> QED BY <1>1, <1>3, <2>1, <2>2 DEF PauseInv
  <1> QED BY <1>2, <1>3

(* The callbacks, and what else runs beside the loop.  After a callback    *)
(* authority is in doubt.                                                  *)
LEMMA PublishIs ==
  ASSUME NEW s, DOMAIN s = Fields, NEW kind, NEW parts, NEW at
  PROVE  LET t == Publish(s, kind, parts, at) IN
         /\ t.epochs = s.epochs + 1 /\ t.assigned = s.assigned /\ t.assignment = s.assignment
         /\ t.mailbox = [kind |-> kind, parts |-> parts, epoch |-> s.epochs + 1, committed |-> at]
         /\ t.epoch = s.epoch /\ t.deferred = s.deferred
         /\ t.pending = s.pending /\ t.workers = s.workers
  BY DEF Publish, Fields

LEMMA EventPause ==
  ASSUME OffsetInv, PauseInv, UNCHANGED <<pc, frame, stop, done>>,
         NEW kind \in {"Assigned", "Revoked", "Error"}, NEW parts, NEW at, NEW s, DOMAIN s = Fields,
         s.epochs = c.epochs, s.epoch = c.epoch, s.deferred = c.deferred, s.pending = c.pending,
         s.workers = c.workers, s.assigned = (IF kind = "Assigned" THEN parts ELSE {}),
         c' = Publish(s, kind, parts, at)
  PROVE  PauseInv'
  <1>1. /\ c'.epochs = c.epochs + 1 /\ c'.assigned = s.assigned
        /\ c'.mailbox = [kind |-> kind, parts |-> parts, epoch |-> c.epochs + 1, committed |-> at]
        /\ c'.epoch = c.epoch /\ c'.deferred = c.deferred
        /\ c'.pending = c.pending /\ c'.workers = c.workers
    BY PublishIs
  <1>2. c'.mailbox.kind = kind /\ c'.mailbox.parts = parts /\ c'.mailbox.epoch = c.epochs + 1
    BY <1>1
  <1>3. c.epochs \in Nat /\ c.epoch \in Nat
    BY RestIs DEF ClientType
  <1>4. Place(c')
    BY <1>1, <1>2, <1>3 DEF Place, PauseInv
  <1>5. Crew(c', done')
    BY <1>1 DEF Crew, PauseInv, Present, Sent
  <1>6. Gated(c')
    BY <1>2 DEF Gated, HasRebalance
  <1> QED BY <1>1, <1>4, <1>5, <1>6, BesidePause

LEMMA OnAssignPause ==
  ASSUME ~Cooperative, OffsetInv, PauseInv, NEW S, NEW lingers, OnAssign(S, lingers)
  PROVE  PauseInv'
  <1> DEFINE t == [c EXCEPT !.assigned = @ \cup S, !.late = NoOffsets,
                            !.paused = IF lingers THEN @ ELSE @ \ S]
             at == [p \in Partitions |-> IF p \in S THEN committed[p] ELSE Nowhere]
             s == Rewind(t, at)
  <1>1. DOMAIN c = Fields
    BY RestIs, FitIs DEF Fit
  <1>2. c.assigned = {} /\ c' = Publish(s, "Assigned", t.assigned, NoOffsets)
        /\ UNCHANGED <<pc, frame, stop, done>>
    BY DEF OnAssign, caller
  <1>3. /\ DOMAIN t = Fields /\ t.epochs = c.epochs /\ t.epoch = c.epoch /\ t.deferred = c.deferred
        /\ t.pending = c.pending /\ t.workers = c.workers
    BY <1>1 DEF Fields
  <1> HIDE DEF t
  <1>4. Alike(t, s)
    BY <1>3, AlikeRewind
  <1> HIDE DEF s
  <1>5. /\ DOMAIN s = Fields /\ s.epochs = c.epochs /\ s.epoch = c.epoch /\ s.deferred = c.deferred
        /\ s.pending = c.pending /\ s.workers = c.workers /\ s.assigned = t.assigned
    BY <1>3, <1>4 DEF Alike, Posted
  <1> QED BY <1>2, <1>5, EventPause

LEMMA RevokePause ==
  ASSUME ~Cooperative, OffsetInv, PauseInv, NEW R, NEW outcome, Revoke(R, outcome)
  PROVE  PauseInv'
  <1> DEFINE at == RevokeOffsets(R)
             s == [c EXCEPT !.assigned = @ \ R, !.lost = FALSE,
                            !.late = IF outcome = "late" THEN at ELSE @,
                            !.busy = @ \/ outcome = "late"]
             n == IF outcome = "committed" THEN at ELSE NoOffsets
  <1>1. DOMAIN c = Fields
    BY RestIs, FitIs DEF Fit
  <1>2. R = c.assigned /\ c' = Publish(s, "Revoked", R, n) /\ UNCHANGED <<pc, frame, stop, done>>
    BY DEF Revoke, caller
  <1>3. /\ DOMAIN s = Fields /\ s.epochs = c.epochs /\ s.epoch = c.epoch /\ s.deferred = c.deferred
        /\ s.pending = c.pending /\ s.workers = c.workers /\ s.assigned = c.assigned \ R
    BY <1>1 DEF Fields
  <1>4. s.assigned = {}
    BY <1>2, <1>3
  <1> HIDE DEF s, n
  <1> QED BY <1>2, <1>3, <1>4, EventPause

LEMMA OnErrorPause ==
  ASSUME OffsetInv, PauseInv, OnError
  PROVE  PauseInv'
  <1> DEFINE s == [c EXCEPT !.assigned = {}]
  <1>1. DOMAIN c = Fields
    BY RestIs, FitIs DEF Fit
  <1>2. c' = Publish(s, "Error", {}, NoOffsets) /\ UNCHANGED <<pc, frame, stop, done>>
    BY DEF OnError, caller
  <1>3. /\ DOMAIN s = Fields /\ s.epochs = c.epochs /\ s.epoch = c.epoch /\ s.deferred = c.deferred
        /\ s.pending = c.pending /\ s.workers = c.workers /\ s.assigned = {}
    BY <1>1 DEF Fields
  <1> HIDE DEF s
  <1> QED BY <1>2, <1>3, EventPause

LEMMA LosePause ==
  ASSUME OffsetInv, PauseInv, LoseAssignment
  PROVE  PauseInv'
  <1>1. DOMAIN c = Fields
    BY RestIs, FitIs DEF Fit
  <1>2. c' = [c EXCEPT !.lost = TRUE] /\ UNCHANGED <<pc, frame, stop, done>>
    BY DEF LoseAssignment, caller
  <1>3. /\ c'.lost = TRUE /\ c'.assigned = c.assigned /\ c'.mailbox = c.mailbox /\ c'.epochs = c.epochs
        /\ c'.assignment = c.assignment /\ c'.epoch = c.epoch /\ c'.deferred = c.deferred
        /\ c'.pending = c.pending /\ c'.workers = c.workers
    BY <1>1, <1>2 DEF Fields
  <1>4. Place(c') /\ Gated(c')
    BY <1>3 DEF Place, PauseInv, Gated
  <1>5. Crew(c', done')
    BY <1>2, <1>3 DEF Crew, PauseInv, Present, Sent
  <1> QED BY <1>2, <1>3, <1>4, <1>5, BesidePause

LEMMA AlikePause ==
  ASSUME OffsetInv, PauseInv, UNCHANGED <<pc, frame, stop, done>>, Alike(c, c'),
         c'.progress = c.progress
  PROVE  PauseInv'
  <1>1. Fit(c') /\ Posted(c, c') /\ c'.pending = c.pending /\ c'.workers = c.workers
    BY RestIs, FitIs DEF Alike, Fit, Posted
  <1>2. Place(c') /\ Crew(c', done') /\ (Gated(c') <=> Gated(c))
    BY <1>1, DutySame DEF PauseInv
  <1>3. \A X, b : Held(c, X, b) => Held(c', X, b)
    BY DEF Held, HeldAt, Alike, Posted
  <1> QED BY <1>1, <1>2, <1>3, BesidePause DEF Posted

LEMMA LatePause ==
  ASSUME OffsetInv, PauseInv, \/ \E lands \in BOOLEAN : LateCommit(lands)
                              \/ \E p \in Partitions : OtherRuns(p)
  PROVE  PauseInv'
  <1>1. DOMAIN c = Fields
    BY RestIs, FitIs DEF Fit
  <1>2. /\ c' = [c EXCEPT !.late = NoOffsets, !.busy = FALSE] \/ c' = [c EXCEPT !.late = NoOffsets]
        /\ UNCHANGED <<pc, frame, stop, done>>
    BY DEF LateCommit, OtherRuns, caller
  <1>3. Alike(c, c') /\ c'.progress = c.progress
    <2>1. CASE c' = [c EXCEPT !.late = NoOffsets]
      BY <1>1, <2>1 DEF Alike, Posted, Fields
    <2>2. CASE c' = [c EXCEPT !.late = NoOffsets, !.busy = FALSE]
      BY <1>1, <2>2 DEF Alike, Posted, Fields
    <2> QED BY <1>2, <2>1, <2>2
  <1> QED BY <1>2, <1>3, AlikePause

LEMMA RetryDuePause ==
  ASSUME OffsetInv, PauseInv, NEW p \in Partitions, RetryDue(p)
  PROVE  PauseInv'
  <1>1. Fit(c)
    BY RestIs, FitIs
  <1>2. c' = [c EXCEPT !.retries[p].due = TRUE] /\ UNCHANGED <<pc, frame, stop, done>>
    BY DEF RetryDue, caller
  <1>3. /\ Posted(c, c') /\ c'.paused = c.paused /\ c'.rows = c.rows /\ c'.pending = c.pending
        /\ c'.admission = c.admission /\ c'.workers = c.workers /\ c'.progress = c.progress
        /\ c'.retries = [c.retries EXCEPT ![p].due = TRUE] /\ DOMAIN c' = Fields
    BY <1>1, <1>2 DEF Fit, Posted, Fields
  <1>4. c'.retries \in [Partitions -> [from : Int, due : BOOLEAN]]
        /\ \A q \in Partitions : c'.retries[q].from = c.retries[q].from
    <2> DEFINE r == [c.retries[p] EXCEPT !.due = TRUE]
    <2>1. c.retries \in [Partitions -> [from : Int, due : BOOLEAN]]
      BY <1>1 DEF Fit
    <2>2. r \in [from : Int, due : BOOLEAN] /\ r.from = c.retries[p].from
      BY <2>1
    <2>3. c'.retries = [c.retries EXCEPT ![p] = r]
      BY <1>3
    <2> HIDE DEF r
    <2> QED BY <2>1, <2>2, <2>3
  <1>5. Fit(c')
    BY <1>1, <1>3, <1>4 DEF Fit, Posted
  <1>6. Place(c') /\ Crew(c', done') /\ (Gated(c') <=> Gated(c))
    BY <1>2, <1>3, <1>5, DutySame DEF PauseInv
  <1>7. ASSUME NEW X, NEW b, Held(c, X, b) PROVE Held(c', X, b)
    BY <1>1, <1>3, <1>4, <1>7 DEF Held, HeldAt, Posted, Fit
  <1> QED BY <1>2, <1>3, <1>6, <1>7, BesidePause DEF Posted

(* A task goes on to its next phase, or ends with a completion.            *)
LEMMA SwapPause ==
  ASSUME NEW s, Fit(s), NEW D, Place(s), Crew(s, D), NEW w \in s.workers, NEW v \in WorkerType,
         v.tp = w.tp, v.offset = w.offset, v.epoch = w.epoch, v.live = w.live,
         NEW t, t.workers = (s.workers \ {w}) \cup {v}, t.pending = s.pending, t.epoch = s.epoch
  PROVE  Crew(t, D)
  <1>1. w \in WorkerType /\ JobOf(v) = JobOf(w)
    BY DEF Fit, JobOf
  <1>2. \A x \in Present(t) : \E y \in Present(s) :
          /\ y.tp = x.tp /\ JobOf(y) = JobOf(x) /\ (x = v => y = w) /\ (x # v => x = y /\ y # w)
    BY <1>1 DEF Present
  <1>3. \A x \in Present(t), y \in Present(t) : x.tp = y.tp => x = y
    BY <1>2 DEF Crew
  <1>4. \A x \in t.workers : x.live => x.epoch <= t.epoch
    BY DEF Crew
  <1>5. \A x \in Present(t) : t.pending[x.tp] = JobOf(x)
    BY <1>2 DEF Crew
  <1>6. Sent(t, D) = Sent(s, D)
    BY DEF Sent
  <1>7. \A x \in Present(t), d \in Sent(t, D) : x.tp # d.tp
    BY <1>2, <1>6 DEF Crew
  <1>8. /\ \A p \in Jobs(t.pending) : t.pending[p].epoch = t.epoch
        /\ \A d \in D : d.epoch <= t.epoch
        /\ \A d \in Sent(t, D) : t.pending[d.tp] = JobOf(d)
        /\ \A d \in Sent(t, D), e \in Sent(t, D) : d.tp = e.tp => d = e
    BY <1>6 DEF Crew
  <1> QED BY <1>3, <1>4, <1>5, <1>7, <1>8 DEF Crew

LEMMA EndPause ==
  ASSUME NEW s, Fit(s), NEW D, Place(s), Crew(s, D), NEW w \in s.workers,
         NEW d, d.tp = w.tp, d.offset = w.offset, d.epoch = w.epoch,
         NEW t, t.workers = s.workers \ {w}, t.pending = s.pending, t.epoch = s.epoch
  PROVE  Crew(t, IF w.live THEN D \cup {d} ELSE D)
  <1> DEFINE E == IF w.live THEN D \cup {d} ELSE D
  <1>1. Present(t) = Present(s) \ {w}
    BY DEF Present
  <1>2. \A e \in Sent(t, E) : e \in Sent(s, D) \/ (e = d /\ w \in Present(s))
    BY DEF Sent, Present
  <1>3. JobOf(d) = JobOf(w)
    BY DEF JobOf
  <1>4. \A e \in E : e.epoch <= t.epoch
    BY DEF Crew
  <1>5. \A e \in Sent(t, E) : t.pending[e.tp] = JobOf(e)
    BY <1>2, <1>3 DEF Crew
  <1>6. \A x \in Present(t), e \in Sent(t, E) : x.tp # e.tp
    BY <1>1, <1>2 DEF Crew
  <1>7. \A e \in Sent(t, E), f \in Sent(t, E) : e.tp = f.tp => e = f
    BY <1>2 DEF Crew
  <1>8. /\ \A p \in Jobs(t.pending) : t.pending[p].epoch = t.epoch
        /\ \A x \in t.workers : x.live => x.epoch <= t.epoch
        /\ \A x \in Present(t) : t.pending[x.tp] = JobOf(x)
        /\ \A x \in Present(t), y \in Present(t) : x.tp = y.tp => x = y
    BY <1>1 DEF Crew
  <1> HIDE DEF E
  <1>9. Crew(t, E)
    BY <1>4, <1>5, <1>6, <1>7, <1>8 DEF Crew
  <1> QED BY <1>9 DEF E

LEMMA WorkersPause ==
  ASSUME OffsetInv, PauseInv, UNCHANGED <<pc, frame, stop>>, NEW v, c' = [c EXCEPT !.workers = v],
         Crew(c', done')
  PROVE  PauseInv'
  <1>1. DOMAIN c = Fields
    BY RestIs, FitIs DEF Fit
  <1>2. /\ Posted(c, c') /\ c'.paused = c.paused /\ c'.rows = c.rows /\ c'.retries = c.retries
        /\ c'.pending = c.pending /\ c'.admission = c.admission /\ c'.progress = c.progress
    BY <1>1 DEF Posted, Fields
  <1>3. Place(c') /\ (Gated(c') <=> Gated(c))
    BY <1>2 DEF PauseInv, Place, Posted, Gated, HasRebalance
  <1>4. \A X, b : Held(c, X, b) => Held(c', X, b)
    BY <1>2 DEF Held, HeldAt, Posted
  <1> QED BY <1>2, <1>3, <1>4, BesidePause DEF Posted

LEMMA WorkerEndsPause ==
  ASSUME OffsetInv, PauseInv, UNCHANGED <<pc, frame, stop>>, NEW w \in c.workers, NEW ok, WorkerEnds(w, ok)
  PROVE  PauseInv'
  <1> DEFINE d == [tp |-> w.tp, offset |-> w.offset, epoch |-> w.epoch, ok |-> ok]
  <1>1. Fit(c)
    BY RestIs, FitIs
  <1>2. c' = [c EXCEPT !.workers = @ \ {w}] /\ done' = IF w.live THEN done \cup {d} ELSE done
    BY DEF WorkerEnds
  <1>3. c'.workers = c.workers \ {w} /\ c'.pending = c.pending /\ c'.epoch = c.epoch
    BY <1>1, <1>2 DEF Fit, Fields
  <1>4. d.tp = w.tp /\ d.offset = w.offset /\ d.epoch = w.epoch
    OBVIOUS
  <1> HIDE DEF d
  <1>5. Crew(c', done')
    BY <1>1, <1>2, <1>3, <1>4, EndPause DEF PauseInv
  <1> QED BY <1>2, <1>5, WorkersPause

LEMMA WorkerPause ==
  ASSUME OffsetInv, PauseInv, NEW w \in c.workers, WorkerStep(w)
  PROVE  PauseInv'
  <1>1. Fit(c) /\ DOMAIN c = Fields /\ w \in WorkerType
    BY RestIs, FitIs DEF Fit
  <1>2. UNCHANGED <<pc, frame, stop>>
    BY DEF WorkerStep, WorkerSends, WorkerStops, WorkerAcked, WorkerFails, caller
  <1>3. CASE \E ok \in BOOLEAN : WorkerEnds(w, ok)
    BY <1>2, <1>3, WorkerEndsPause
  <1>4. CASE WorkerSends(w)
    <2> DEFINE v == [w EXCEPT !.phase = "sent"]
    <2>1. v \in WorkerType /\ v.tp = w.tp /\ v.offset = w.offset /\ v.epoch = w.epoch /\ v.live = w.live
      BY <1>1 DEF WorkerType
    <2>2. c' = [c EXCEPT !.workers = (@ \ {w}) \cup {v}] /\ done' = done
      BY <1>4 DEF WorkerSends
    <2> HIDE DEF v
    <2>3. c'.workers = (c.workers \ {w}) \cup {v} /\ c'.pending = c.pending /\ c'.epoch = c.epoch
      BY <1>1, <2>2 DEF Fields
    <2>4. Crew(c', done')
      BY <1>1, <2>1, <2>2, <2>3, SwapPause DEF PauseInv
    <2> QED BY <1>2, <2>2, <2>4, WorkersPause
  <1>5. CASE WorkerFails(w) /\ ~(\E ok \in BOOLEAN : WorkerEnds(w, ok))
    <2> DEFINE v == [w EXCEPT !.phase = "waiting"]
               s == [c EXCEPT !.workers = (@ \ {w}) \cup {v}]
    <2>1. v \in WorkerType /\ v.tp = w.tp /\ v.offset = w.offset /\ v.epoch = w.epoch /\ v.live = w.live
      BY <1>1 DEF WorkerType
    <2>2. c' = Degraded(s, w) /\ done' = done
      BY <1>5 DEF WorkerFails
    <2>3. /\ DOMAIN s = Fields /\ Posted(c, s) /\ s.paused = c.paused /\ s.rows = c.rows
          /\ s.retries = c.retries /\ s.pending = c.pending /\ s.admission = c.admission
          /\ s.progress = c.progress /\ s.workers = (c.workers \ {w}) \cup {v}
      BY <1>1 DEF Posted, Fields
    <2>4. Crew(s, done)
      BY <1>1, <2>1, <2>3, SwapPause DEF PauseInv, Posted
    <2>5. CASE c' = s
      BY <1>2, <2>2, <2>4, <2>5, WorkersPause
    <2> HIDE DEF v, s
    <2>6. CASE c' = AddPauseReason(s, {w.tp}, "degraded") /\ w.live /\ w.epoch = s.epoch
      <3>1. /\ Posted(s, c') /\ c'.paused = s.paused /\ c'.rows = s.rows \cup ({w.tp} \X {"degraded"})
            /\ c'.retries = s.retries /\ c'.pending = s.pending /\ c'.admission = s.admission
            /\ c'.progress = s.progress /\ c'.workers = s.workers
        BY <2>3, <2>6 DEF AddPauseReason, Posted, Fields
      <3>2. Place(c') /\ (Gated(c') <=> Gated(c))
        BY <2>3, <3>1 DEF PauseInv, Place, Posted, Gated, HasRebalance
      <3>3. Crew(c', done')
        BY <2>2, <2>4, <3>1 DEF Crew, Posted, Present, Sent
      <3>4. w.tp \in Jobs(c.pending)
        <4>1. c.pending[w.tp] = JobOf(w)
          BY <2>3, <2>6 DEF PauseInv, Crew, Present, Posted
        <4>2. w.tp \in Partitions /\ w.offset \in Nat
          BY <1>1 DEF WorkerType
        <4> QED BY <4>1, <4>2, Named DEF Jobs, JobOf
      <3>5. ASSUME NEW X, NEW b, Held(c, X, b) PROVE Held(c', X, b)
        <4> SUFFICES ASSUME NEW q \in c.assigned PROVE HeldAt(c', q, X, b)
          BY <2>3, <3>1 DEF Held, Posted
        <4>1. \A r : <<q, r>> \in c'.rows <=> <<q, r>> \in c.rows \/ (q = w.tp /\ r = "degraded")
          BY <2>3, <3>1
        <4>2. HeldAt(c, q, X, b)
          BY <3>5 DEF Held
        <4> QED BY ZenonT(60), <2>3, <3>1, <3>4, <4>1, <4>2 DEF HeldAt
      <3> QED BY <1>2, <2>3, <3>1, <3>2, <3>3, <3>5, BesidePause DEF Posted
    <2> QED BY <2>2, <2>5, <2>6 DEF Degraded
  <1> QED BY <1>3, <1>4, <1>5 DEF WorkerStep, WorkerStops, WorkerAcked

LEMMA RequestPause ==
  ASSUME OffsetInv, PauseInv, RequestStop
  PROVE  PauseInv'
  <1>1. UNCHANGED <<c, pc, frame, stop, done>>
    BY DEF RequestStop
  <1>2. Alike(c, c') /\ c'.progress = c.progress
    BY <1>1, RestIs, FitIs DEF Alike, Posted, Fit
  <1> QED BY <1>1, <1>2, AlikePause

-----------------------------------------------------------------------------
(* The steps of the loop: between sessions.                                *)
LEMMA ExitPause ==
  ASSUME OffsetInv, PauseInv, NEW accepted, Exit(accepted)
  PROVE  PauseInv'
  <1> DEFINE W == {[w EXCEPT !.cancel = TRUE, !.live = FALSE] : w \in c.workers}
  <1>1. c.workers \subseteq WorkerType
    BY RestIs DEF ClientType
  <1>2. \A w \in W : w.live = FALSE
    BY <1>1 DEF WorkerType
  <1>3. c' = Session(c.rows, c.attempts, W) /\ done' = {}
    BY DEF Exit
  <1>4. pc' \in {"stopped", "crashed", "down"}
    BY DEF Exit
  <1> HIDE DEF W
  <1>5. /\ c'.assigned = {} /\ c'.mailbox = NoEvent /\ c'.epoch = 0 /\ c'.epochs = 0 /\ c'.deferred = FALSE
        /\ c'.workers = W /\ c'.pending = [p \in Partitions |-> NoJob]
    BY <1>3 DEF Session
  <1>6. NoEvent.kind = "none" /\ Jobs(c'.pending) = {}
    BY <1>5, Named DEF NoEvent, NoJob, Jobs
  <1>7. Place(c')
    BY <1>5, <1>6 DEF Place
  <1>8. Crew(c', done')
    BY <1>2, <1>3, <1>5, <1>6 DEF Crew, Present, Sent
  <1>9. \A X, b : Held(c', X, b)
    BY <1>5 DEF Held
  <1>10. ~InCommit' /\ ~Blocked'
    BY <1>4 DEF InCommit, Blocked
  <1> QED BY <1>4, <1>5, <1>7, <1>8, <1>9, <1>10 DEF PauseInv, StopInv

(* Outside of a call nothing is being closed or retried.                   *)
LEMMA FreeIs ==
  ASSUME OffsetInv, PauseInv, pc \in {"top", "turn", "poll", "maintain", "down", "crashed", "retry", "dead", "stop"}
  PROVE  Duty(c, done, stop, {}, FALSE) /\ (c.deferred => stop) /\ DOMAIN c = Fields
  <1>1. Closing = {} /\ Blocked = FALSE
    BY DEF Closing, Blocked, Doing, InCommit
  <1> QED BY <1>1, DutyIs DEF Duty, Fit

LEMMA RestartPause ==
  ASSUME OffsetInv, PauseInv, NEW clear, Restart(clear)
  PROVE  PauseInv'
  <1> DEFINE v == IF clear THEN NoAttempts ELSE c.attempts
             s == [c EXCEPT !.attempts = v]
  <1>1. /\ pc \in {"down", "crashed"} /\ Goto([c EXCEPT !.attempts = v], "top")
        /\ UNCHANGED <<stop, done>>
    BY DEF Restart, caller
  <1>2. Duty(c, done, stop, {}, FALSE) /\ (c.deferred => stop) /\ Alike(c, s)
    BY <1>1, FreeIs, AlikeAttempts
  <1> HIDE DEF v
  <1>3. Duty(s, done, stop, {}, FALSE) /\ s.deferred = c.deferred
    BY <1>2, DutyAlike DEF Alike, Posted
  <1> HIDE DEF s
  <1> QED BY <1>1, <1>2, <1>3, GotoPause DEF s

LEMMA StopDownPause ==
  ASSUME OffsetInv, PauseInv, StopWhileDown
  PROVE  PauseInv'
  <1>1. pc \in {"down", "crashed"} /\ Goto(c, "stopped") /\ stop' = TRUE /\ done' = done
    BY DEF StopWhileDown
  <1>2. Duty(c, done', stop', {}, FALSE)
    BY <1>1, FreeIs DEF Duty
  <1> QED BY <1>1, <1>2, GotoPause

(* The top of the loop: completions.                                       *)
LEMMA DrainedPause ==
  ASSUME OffsetInv, PauseInv, Drained
  PROVE  PauseInv'
  <1> DEFINE s == Pruned(c)
  <1>1. pc = "top" /\ Goto(s, "turn") /\ UNCHANGED <<stop, done>>
    BY DEF Drained, caller
  <1>2. Duty(c, done, stop, {}, FALSE) /\ (c.deferred => stop) /\ Alike(c, s)
    BY <1>1, FreeIs, AlikePruned
  <1>3. Duty(s, done, stop, {}, FALSE) /\ s.deferred = c.deferred
    BY <1>2, DutyAlike DEF Alike, Posted
  <1> HIDE DEF s
  <1> QED BY <1>1, <1>2, <1>3, GotoPause

(* A job that its completion has answered is closed.                       *)
LEMMA CloseIs ==
  ASSUME NEW s, NEW D, NEW st, Duty(s, D, st, {}, FALSE), NEW d \in D, D \subseteq DoneType,
         d.epoch = s.epoch
  PROVE  LET t == [s EXCEPT !.pending[d.tp] = NoJob] IN
         Duty(t, D \ {d}, st, {d.tp}, FALSE) /\ t.deferred = s.deferred
  <1> DEFINE v == [s.pending EXCEPT ![d.tp] = NoJob]
             t == [s EXCEPT !.pending = v]
  <1>0. \A e \in D : e.tp \in Partitions
    BY DEF DoneType
  <1>1. Fit(s) /\ v \in [Partitions -> JobType]
    BY Named DEF Duty, Fit
  <1>2. /\ DOMAIN t = Fields /\ Posted(s, t) /\ t.paused = s.paused /\ t.rows = s.rows
        /\ t.retries = s.retries /\ t.pending = v /\ t.admission = s.admission
        /\ t.workers = s.workers
    BY <1>1 DEF Posted, Fields, Fit
  <1>3. /\ Jobs(v) = Jobs(s.pending) \ {d.tp}
        /\ \A p \in Partitions : p # d.tp => v[p] = s.pending[p]
    BY <1>1, Named DEF Jobs, Fit
  <1> HIDE DEF t, v
  <1>4. Fit(t) /\ Place(t) /\ (Gated(t) <=> Gated(s))
    BY <1>1, <1>2 DEF Duty, Fit, Posted, Place, Gated, HasRebalance
  <1>5. d \in Sent(s, D)
    BY DEF Sent
  <1>6. Present(t) = Present(s) /\ Sent(t, D \ {d}) = Sent(s, D) \ {d}
    BY <1>2 DEF Present, Sent, Posted
  <1>7. /\ \A w \in Present(t) : w.tp # d.tp /\ w.tp \in Partitions
        /\ \A e \in Sent(t, D \ {d}) : e.tp # d.tp
    BY <1>1, <1>5, <1>6 DEF Crew, Duty, Fit, WorkerType, Present
  <1>8. \A w \in Present(t) : v[w.tp] = JobOf(w)
    BY <1>3, <1>6, <1>7 DEF Crew, Duty
  <1>9. \A e \in Sent(t, D \ {d}) : v[e.tp] = s.pending[e.tp]
    BY <1>0, <1>3, <1>7 DEF Sent
  <1>10. Crew(t, D \ {d})
    <2>1. Crew(s, D)
      BY DEF Duty
    <2>2. /\ \A p \in Jobs(t.pending) : t.pending[p].epoch = t.epoch
          /\ \A w \in t.workers : w.live => w.epoch <= t.epoch
          /\ \A e \in D \ {d} : e.epoch <= t.epoch
      BY <1>2, <1>3, <2>1 DEF Crew, Posted, Jobs
    <2>3. \A e \in Sent(t, D \ {d}) : t.pending[e.tp] = JobOf(e)
      BY <1>2, <1>6, <1>9, <2>1 DEF Crew
    <2>4. /\ \A w \in Present(t), e \in Sent(t, D \ {d}) : w.tp # e.tp
          /\ \A w \in Present(t), x \in Present(t) : w.tp = x.tp => w = x
          /\ \A f \in Sent(t, D \ {d}), e \in Sent(t, D \ {d}) : f.tp = e.tp => f = e
      BY <1>6, <2>1 DEF Crew
    <2> QED BY <1>2, <1>8, <2>2, <2>3, <2>4 DEF Crew
  <1>11. Held(s, {}, FALSE) => Held(t, {d.tp}, FALSE)
    BY <1>2, <1>3 DEF Held, HeldAt, Posted
  <1>12. Duty(t, D \ {d}, st, {d.tp}, FALSE) /\ t.deferred = s.deferred
    BY <1>2, <1>4, <1>10, <1>11 DEF Duty, Posted
  <1> QED BY <1>12 DEF t, v

LEMMA DrainPause ==
  ASSUME OffsetInv, PauseInv, NEW d \in done, Drain(d)
  PROVE  PauseInv'
  <1> DEFINE a == Pruned(c)
             s == [a EXCEPT !.pending[d.tp] = NoJob]
  <1>0. IF ~Matches(c, d) THEN Goto(a, "top")
        ELSE IF d.epoch # c.epoch \/ (~d.ok /\ stop) THEN Goto(s, "top")
        ELSE IF (~d.ok /\ required) \/ ObserveFails(s, d.tp, d.offset)
             THEN Goto(HaltPartition(s, d.tp), "top")
        ELSE Call(PublishCommitSnapshot(Observe(s, d.tp, d.offset, TRUE)), "dlt", d.tp, d.offset)
    BY DEF Drain
  <1>1. pc = "top" /\ ~Gated(c) /\ done' = done \ {d} /\ stop' = stop
    BY DEF Drain, caller
  <1>2. Duty(c, done, stop, {}, FALSE) /\ (c.deferred => stop) /\ Alike(c, a)
    BY <1>1, FreeIs, AlikePruned
  <1>3. Duty(a, done, stop, {}, FALSE) /\ a.deferred = c.deferred
    BY <1>2, DutyAlike DEF Alike, Posted
  <1>4. done \subseteq DoneType /\ d.tp \in Partitions /\ d.offset \in Nat /\ d.epoch \in Nat
    BY RestIs DEF Rest, DoneType
  <1> HIDE DEF a
  <1>5. CASE ~Matches(c, d)
    <2>1. Goto(a, "top")
      BY <1>0, <1>5
    <2>2. Crew(a, done \ {d})
      BY <1>3 DEF Duty, Crew, Sent
    <2>3. Duty(a, done', stop', {}, FALSE)
      BY <1>1, <1>3, <2>2 DEF Duty
    <2> QED BY <1>1, <1>2, <1>3, <2>1, <2>3, GotoPause
  <1>6. CASE Matches(c, d)
    <2>1. d.epoch = c.epoch /\ c.epoch = a.epoch
      <3>1. c.pending[d.tp].offset = d.offset /\ c.pending[d.tp].epoch = d.epoch
        BY <1>6 DEF Matches
      <3>2. d.tp \in Jobs(c.pending)
        BY <1>4, <3>1, Named DEF Jobs
      <3> QED BY <1>2, <3>1, <3>2 DEF PauseInv, Crew, Alike, Posted
    <2>2. Duty(s, done \ {d}, stop, {d.tp}, FALSE) /\ s.deferred = a.deferred
      BY ZenonT(60), <1>3, <1>4, <2>1, CloseIs
    <2> HIDE DEF s
    <2>3. DOMAIN s = Fields
      BY <2>2 DEF Duty, Fit
    <2>4. CASE ~d.ok /\ stop
      <3>1. Goto(s, "top")
        BY <1>0, <1>6, <2>4
      <3>2. Duty(s, done', stop', {}, FALSE)
        BY <1>1, <2>2, <2>4 DEF Duty
      <3> QED BY <1>1, <2>4, <3>1, <3>2, GotoPause
    <2>5. CASE ~(~d.ok /\ stop) /\ ((~d.ok /\ required) \/ ObserveFails(s, d.tp, d.offset))
      <3> DEFINE t == HaltPartition(s, d.tp)
      <3>1. Goto(t, "top")
        BY <1>0, <1>6, <2>1, <2>5
      <3>2. Duty(t, done \ {d}, stop, {}, FALSE) /\ t.deferred = s.deferred
        <4> DEFINE E == done \ {d}
                   p == d.tp
        <4>1. p \in Partitions /\ Duty(s, E, stop, {p}, FALSE)
          BY <1>4, <2>2
        <4> HIDE DEF E, p
        <4>2. Duty(HaltPartition(s, p), E, stop, {}, FALSE) /\ HaltPartition(s, p).deferred = s.deferred
          BY <4>1, DutyHalt
        <4> QED BY <4>2 DEF E, p
      <3> HIDE DEF t
      <3> QED BY <1>1, <1>2, <1>3, <2>2, <3>1, <3>2, GotoPause
    <2>6. CASE ~(~d.ok /\ stop) /\ ~((~d.ok /\ required) \/ ObserveFails(s, d.tp, d.offset))
      <3> DEFINE u == Observe(s, d.tp, d.offset, TRUE)
                 t == PublishCommitSnapshot(u)
      <3>1. Call(t, "dlt", d.tp, d.offset)
        BY <1>0, <1>6, <2>1, <2>6
      <3>2. Alike(s, u)
        BY <2>3, AlikeObserve
      <3> HIDE DEF u
      <3>3. DOMAIN u = Fields
        BY <3>2 DEF Alike
      <3>5. Alike(s, t)
        BY <3>2, <3>3, AlikeSnapshot, AlikeTwice
      <3> HIDE DEF t
      <3>4. Duty(t, done \ {d}, stop, {d.tp}, FALSE) /\ t.deferred = s.deferred
        BY <2>2, <3>5, DutyAlike DEF Alike, Posted
      <3> QED BY <1>1, <1>2, <1>3, <2>2, <3>1, <3>4, CallPause
    <2> QED BY <2>4, <2>5, <2>6
  <1> QED BY <1>5, <1>6

(* The turn: retries that are due, and the dead letters that wait for an   *)
(* envelope.                                                               *)
LEMMA DutyActivate ==
  ASSUME NEW s, NEW D, NEW st, Duty(s, D, st, {}, FALSE)
  PROVE  LET t == ActivateDueRetries(s) IN
         Duty(t, D, st, {}, FALSE) /\ t.deferred = s.deferred
  <1> DEFINE due == {p \in Waiting(s) : s.retries[p].due}
             open == due \cap s.assigned
             at == [p \in Partitions |-> IF p \in open THEN s.retries[p].from ELSE Nowhere]
             u == Rewind(s, at)
             v == [p \in Partitions |-> IF p \in open THEN NoRetry ELSE [u.retries[p] EXCEPT !.due = FALSE]]
             w == [u EXCEPT !.retries = v]
             t == ClearAndResume(w, open, {"retry"})
  <1>1. ActivateDueRetries(s) = t
    BY DEF ActivateDueRetries
  <1>2. Fit(s) /\ Place(s) /\ Crew(s, D)
    BY DEF Duty
  <1>3. Alike(s, u)
    BY <1>2, AlikeRewind DEF Fit
  <1>4. v \in [Partitions -> [from : Int, due : BOOLEAN]]
        /\ \A p \in Partitions : p \notin open => v[p].from = s.retries[p].from
    <2>1. u.retries \in [Partitions -> [from : Int, due : BOOLEAN]] /\ u.retries = s.retries
      BY <1>2, <1>3 DEF Fit, Alike
    <2> HIDE DEF u, open
    <2>2. NoRetry \in [from : Int, due : BOOLEAN]
      BY Named
    <2>3. \A p \in Partitions : /\ [u.retries[p] EXCEPT !.due = FALSE] \in [from : Int, due : BOOLEAN]
                                /\ [u.retries[p] EXCEPT !.due = FALSE].from = u.retries[p].from
      BY <2>1
    <2> QED BY <2>1, <2>2, <2>3
  <1> HIDE DEF u, v, open
  <1>5. /\ DOMAIN w = Fields /\ Posted(s, w) /\ w.paused = s.paused /\ w.rows = s.rows
        /\ w.retries = v /\ w.pending = s.pending /\ w.admission = s.admission
        /\ w.workers = s.workers
    BY <1>3 DEF Alike, Posted, Fields
  <1> HIDE DEF w
  <1>6. Fit(w)
    BY <1>2, <1>4, <1>5 DEF Fit, Posted
  <1>7. /\ Fit(t) /\ Posted(w, t) /\ t.rows = w.rows \ (open \X {"retry"})
        /\ t.retries = w.retries /\ t.pending = w.pending /\ t.admission = w.admission
        /\ t.workers = w.workers
        /\ \A q \in Partitions : (q \in w.paused => \E r \in Reasons : <<q, r>> \in w.rows)
                        => (q \in t.paused => \E r \in Reasons : <<q, r>> \in t.rows)
    BY <1>6, ClearIs
  <1> HIDE DEF t
  <1>8. Posted(s, t)
    BY <1>5, <1>7 DEF Posted
  <1>9. Place(t) /\ Crew(t, D) /\ (Gated(t) <=> Gated(s))
    BY <1>2, <1>5, <1>7, <1>8, DutySame
  <1>10. ASSUME Held(s, {}, FALSE) PROVE Held(t, {}, FALSE)
    <2> SUFFICES ASSUME NEW q \in s.assigned PROVE HeldAt(t, q, {}, FALSE)
      BY <1>8 DEF Held, Posted
    <2>1. HeldAt(s, q, {}, FALSE) /\ q \in Partitions
      BY <1>2, <1>10 DEF Held, Fit
    <2>2. q \in t.paused => \E r \in Reasons : <<q, r>> \in t.rows
      BY <1>5, <1>7, <2>1 DEF HeldAt
    <2>3. \A r : <<q, r>> \in t.rows => <<q, r>> \in s.rows /\ (r = "retry" => q \notin open)
      BY <1>5, <1>7
    <2>4. <<q, "retry">> \in t.rows => t.retries[q].from # Nowhere
      BY <1>4, <1>5, <1>7, <2>1, <2>3 DEF HeldAt
    <2> QED BY <1>5, <1>7, <2>1, <2>2, <2>3, <2>4 DEF HeldAt
  <1>11. Duty(t, D, st, {}, FALSE) /\ t.deferred = s.deferred
    BY <1>7, <1>8, <1>9, <1>10 DEF Duty, Posted
  <1> QED BY <1>1, <1>11

LEMMA DropIs ==
  ASSUME NEW s, Fit(s), NEW S, NEW rs
  PROVE  LET t == DropRows(s, S, rs) IN
         /\ Fit(t) /\ Posted(s, t) /\ t.pending = s.pending /\ t.workers = s.workers
  <1> DEFINE t == DropRows(s, S, rs)
  <1>1. /\ DOMAIN t = Fields /\ Posted(s, t) /\ t.rows = s.rows \ (S \X rs) /\ t.paused = s.paused
        /\ t.retries = s.retries /\ t.pending = s.pending /\ t.admission = s.admission
        /\ t.workers = s.workers
    BY DEF DropRows, Fit, Posted, Fields
  <1> HIDE DEF t
  <1>2. Fit(t)
    BY <1>1 DEF Fit, Posted
  <1> QED BY <1>1, <1>2 DEF t

LEMMA DutyService ==
  ASSUME NEW s, NEW D, NEW st, Duty(s, D, st, {}, FALSE), NEW stopping, stopping => st
  PROVE  LET t == ServiceDltAdmission(s, stopping) IN
         Duty(t, D, st, {}, FALSE) /\ t.deferred = s.deferred
  <1> DEFINE T == {p \in Jobs(s.admission) : \/ stopping \/ s.admission[p].epoch # s.epoch
                                            \/ Cardinality(s.workers) < Envelopes}
             again == {p \in T : ~stopping /\ s.admission[p].epoch = s.epoch}
             at == [p \in Partitions |-> IF p \in again THEN s.admission[p].offset ELSE Nowhere]
             a == Rewind(s, at)
             v == [p \in Partitions |-> IF p \in T THEN NoJob ELSE a.admission[p]]
             x == [p \in Partitions |-> IF p \in again THEN at[p] ELSE a.expect[p]]
             u == [a EXCEPT !.admission = v, !.expect = x]
             t == ServiceDltAdmission(s, stopping)
  <1>1. t = IF Gated(s) THEN s
            ELSE IF stopping THEN DropRows(u, T, {"envelope", "dlt"})
            ELSE ClearAndResume(u, T, {"envelope", "dlt"})
    BY DEF ServiceDltAdmission
  <1>2. Fit(s) /\ Place(s) /\ Crew(s, D)
    BY DEF Duty
  <1>3. Alike(s, a)
    BY <1>2, AlikeRewind DEF Fit
  <1> HIDE DEF T, t, again, at
  <1>4. /\ v \in [Partitions -> JobType]
        /\ \A p \in Partitions : p \notin T => v[p] = s.admission[p]
    <2>1. a.admission = s.admission /\ s.admission \in [Partitions -> JobType]
      BY <1>2, <1>3 DEF Alike, Fit
    <2> HIDE DEF a
    <2> QED BY <2>1, Named
  <1> HIDE DEF a, v, x
  <1>5. /\ DOMAIN u = Fields /\ Posted(s, u) /\ u.paused = s.paused /\ u.rows = s.rows
        /\ u.retries = s.retries /\ u.pending = s.pending /\ u.admission = v
        /\ u.workers = s.workers
    BY <1>3 DEF Alike, Posted, Fields
  <1> HIDE DEF u
  <1>6. Fit(u)
    BY <1>2, <1>4, <1>5 DEF Fit, Posted
  <1>7. CASE Gated(s)
    BY <1>1, <1>7 DEF t
  <1>8. CASE ~Gated(s) /\ stopping
    <2>1. Fit(t) /\ Posted(u, t) /\ t.pending = u.pending /\ t.workers = u.workers
      BY <1>1, <1>6, <1>8, DropIs
    <2>2. Posted(s, t)
      BY <1>5, <2>1 DEF Posted
    <2>3. Place(t) /\ Crew(t, D)
      BY <1>2, <1>5, <2>1, <2>2, DutySame
    <2> QED BY <1>8, <2>1, <2>2, <2>3 DEF Duty, Posted, t
  <1>9. CASE ~Gated(s) /\ ~stopping
    <2> DEFINE y == ClearAndResume(u, T, {"envelope", "dlt"})
    <2>0. /\ Fit(y) /\ Posted(u, y) /\ y.rows = u.rows \ (T \X {"envelope", "dlt"})
          /\ y.retries = u.retries /\ y.pending = u.pending /\ y.admission = u.admission
          /\ y.workers = u.workers
          /\ \A q \in Partitions : (q \in u.paused => \E r \in Reasons : <<q, r>> \in u.rows)
                        => (q \in y.paused => \E r \in Reasons : <<q, r>> \in y.rows)
      BY <1>6, ClearIs
    <2> HIDE DEF y
    <2>1. /\ t = y /\ Fit(t) /\ Posted(u, t) /\ t.rows = u.rows \ (T \X {"envelope", "dlt"})
          /\ t.retries = u.retries /\ t.pending = u.pending /\ t.admission = u.admission
          /\ t.workers = u.workers
          /\ \A q \in Partitions : (q \in u.paused => \E r \in Reasons : <<q, r>> \in u.rows)
                        => (q \in t.paused => \E r \in Reasons : <<q, r>> \in t.rows)
      <3>1. t = y
        BY <1>1, <1>9 DEF y
      <3> QED BY <2>0, <3>1
    <2>2. Posted(s, t)
      BY <1>5, <2>1 DEF Posted
    <2>3. Place(t) /\ Crew(t, D) /\ (Gated(t) <=> Gated(s))
      BY <1>2, <1>5, <2>1, <2>2, DutySame
    <2>4. ASSUME Held(s, {}, FALSE) PROVE Held(t, {}, FALSE)
      <3> SUFFICES ASSUME NEW q \in s.assigned PROVE HeldAt(t, q, {}, FALSE)
        BY <2>2 DEF Held, Posted
      <3>1. HeldAt(s, q, {}, FALSE) /\ q \in Partitions
        BY <1>2, <2>4 DEF Held, Fit
      <3>2. q \in t.paused => \E r \in Reasons : <<q, r>> \in t.rows
        BY <1>5, <2>1, <3>1 DEF HeldAt
      <3>3. \A r : <<q, r>> \in t.rows => <<q, r>> \in s.rows /\ (r \in {"envelope", "dlt"} => q \notin T)
        BY <1>5, <2>1
      <3>4. q \notin T => (q \in Jobs(t.admission) <=> q \in Jobs(s.admission))
        BY <1>4, <1>5, <2>1, <3>1 DEF Jobs
      <3> QED BY <1>5, <2>1, <3>1, <3>2, <3>3, <3>4 DEF HeldAt
    <2> QED BY <2>1, <2>2, <2>3, <2>4 DEF Duty, Posted, t
  <1> QED BY <1>7, <1>8, <1>9 DEF t

LEMMA ToPollPause ==
  ASSUME NEW s, NEW stopping, Duty(s, done', stop', {}, FALSE), stopping => stop', s.deferred => stop',
         ToPoll(s, stopping)
  PROVE  PauseInv'
  <1> DEFINE t == ServiceDltAdmission(s, stopping)
             at == IF s.deferred THEN "maintain" ELSE "poll"
  <1>1. Goto(t, at) /\ at \in {"top", "turn", "poll", "maintain", "stopped"}
    BY DEF ToPoll
  <1>2. Duty(t, done', stop', {}, FALSE) /\ t.deferred = s.deferred
    BY ZenonT(60), DutyService
  <1> HIDE DEF t, at
  <1> QED BY <1>1, <1>2, GotoPause

(* On the way to a stop nothing is asked of pauses and rows.               *)
LEMMA DutyCancel ==
  ASSUME NEW s, NEW D, Duty(s, D, TRUE, {}, FALSE)
  PROVE  Duty(CancelRetries(s), D, TRUE, {}, FALSE)
  <1> DEFINE v == [p \in Partitions |-> NoRetry]
             u == [s EXCEPT !.retries = v]
             t == ClearAndResume(u, Waiting(s), {"retry"})
  <1>1. CancelRetries(s) = t
    BY DEF CancelRetries
  <1>2. Fit(s) /\ Place(s) /\ Crew(s, D)
    BY DEF Duty
  <1>3. v \in [Partitions -> [from : Int, due : BOOLEAN]]
    BY Named
  <1> HIDE DEF v
  <1>4. /\ DOMAIN u = Fields /\ Posted(s, u) /\ u.paused = s.paused /\ u.rows = s.rows
        /\ u.retries = v /\ u.pending = s.pending /\ u.admission = s.admission
        /\ u.workers = s.workers
    BY <1>2 DEF Fit, Posted, Fields
  <1> HIDE DEF u
  <1>5. Fit(u)
    BY <1>2, <1>3, <1>4 DEF Fit, Posted
  <1>6. Fit(t) /\ Posted(u, t) /\ t.pending = u.pending /\ t.workers = u.workers
    BY <1>5, ClearIs
  <1> HIDE DEF t
  <1>7. Posted(s, t)
    BY <1>4, <1>6 DEF Posted
  <1>8. Place(t) /\ Crew(t, D)
    BY <1>2, <1>4, <1>6, <1>7, DutySame
  <1> QED BY <1>1, <1>6, <1>8 DEF Duty

LEMMA DutyDefer ==
  ASSUME NEW s, NEW D, Duty(s, D, TRUE, {}, FALSE), NEW v
  PROVE  Duty([s EXCEPT !.deferred = v], D, TRUE, {}, FALSE)
  <1> DEFINE t == [s EXCEPT !.deferred = v]
  <1>1. /\ DOMAIN t = Fields /\ t.assigned = s.assigned /\ t.lost = s.lost /\ t.mailbox = s.mailbox
        /\ t.epochs = s.epochs /\ t.assignment = s.assignment /\ t.epoch = s.epoch
        /\ t.paused = s.paused /\ t.rows = s.rows /\ t.retries = s.retries /\ t.pending = s.pending
        /\ t.admission = s.admission /\ t.workers = s.workers
    BY DEF Duty, Fit, Fields
  <1> HIDE DEF t
  <1>2. Fit(t) /\ Place(t)
    BY <1>1 DEF Duty, Fit, Place
  <1>3. Crew(t, D)
    BY <1>1 DEF Duty, Crew, Present, Sent
  <1> QED BY <1>2, <1>3 DEF Duty, t

LEMMA StopOrDeferPause ==
  ASSUME NEW s, Duty(s, done', TRUE, {}, FALSE), stop' = TRUE, StopOrDefer(s)
  PROVE  PauseInv'
  <1> DEFINE t == CancelRetries(s)
             u == [t EXCEPT !.deferred = TRUE]
             x == ClearProgress(t)
  <1>1. ToPoll(u, TRUE) \/ Ends(x, "stop")
    BY DEF StopOrDefer
  <1>2. Duty(t, done', TRUE, {}, FALSE)
    BY DutyCancel
  <1> HIDE DEF t
  <1>3. Duty(u, done', stop', {}, FALSE)
    BY <1>2, DutyDefer
  <1> HIDE DEF u
  <1>4. Alike(t, x)
    BY <1>2, AlikeReset DEF Duty, Fit
  <1> HIDE DEF x
  <1>5. Place(x) /\ Crew(x, done')
    BY <1>2, <1>4, DutyAlike DEF Duty
  <1>6. CASE ToPoll(u, TRUE)
    BY <1>3, <1>6, ToPollPause
  <1>7. CASE Ends(x, "stop")
    BY <1>5, <1>7, EndsPause
  <1> QED BY <1>1, <1>6, <1>7

LEMMA TurnsPause ==
  ASSUME OffsetInv, PauseInv, TurnFinishes \/ Turn \/ TurnStops \/ AfterStop
  PROVE  PauseInv'
  <1> DEFINE s == ActivateDueRetries(c)
  <1>1. /\ Duty(c, done, stop, {}, FALSE) /\ (c.deferred => stop) /\ done' = done
        /\ stop \in BOOLEAN
    BY FreeIs, RestIs DEF TurnFinishes, Turn, TurnStops, AfterStop, Rest
  <1>2. Duty(s, done, stop, {}, FALSE) /\ s.deferred = c.deferred
    BY <1>1, DutyActivate
  <1>3. CASE TurnFinishes
    <2> DEFINE t == [c EXCEPT !.deferred = FALSE]
    <2>1. Ends(t, "stop")
      BY <1>3 DEF TurnFinishes
    <2>2. Duty(c, done, TRUE, {}, FALSE)
      BY <1>1 DEF Duty
    <2>3. Duty(t, done, TRUE, {}, FALSE)
      BY <2>2, DutyDefer
    <2>4. t.deferred = FALSE
      BY <1>1 DEF Duty, Fit, Fields
    <2> HIDE DEF t
    <2> QED BY <1>1, <2>1, <2>3, <2>4, EndsPause DEF Duty
  <1>4. CASE Turn
    <2>1. ToPoll(s, stop) /\ stop' = stop
      BY <1>4 DEF Turn, caller
    <2> HIDE DEF s
    <2> QED BY <1>1, <1>2, <2>1, ToPollPause
  <1>5. CASE TurnStops
    <2>1. stop' = TRUE /\ (Call(s, "stop", "none", Nowhere) \/ StopOrDefer(s))
      BY <1>5 DEF TurnStops
    <2> HIDE DEF s
    <2>2. Duty(s, done', stop', {}, FALSE)
      BY <1>1, <1>2, <2>1 DEF Duty
    <2>3. CASE Call(s, "stop", "none", Nowhere)
      BY <2>1, <2>2, <2>3, CallPause
    <2>4. CASE StopOrDefer(s)
      BY <2>1, <2>2, <2>4, StopOrDeferPause
    <2> QED BY <2>1, <2>3, <2>4
  <1>6. CASE AfterStop
    <2>1. StopOrDefer(c) /\ stop' = stop /\ stop
      BY <1>6 DEF AfterStop, PauseInv, StopInv
    <2>2. Duty(c, done', TRUE, {}, FALSE) /\ stop' = TRUE
      BY <1>1, <2>1 DEF Duty
    <2> QED BY <2>1, <2>2, StopOrDeferPause
  <1> QED BY <1>3, <1>4, <1>5, <1>6

(* commit_until_resolved.                                                  *)
LEMMA CommitIs ==
  ASSUME OffsetInv, PauseInv, InCommit
  PROVE  /\ Duty(c, done, stop, Closing, Blocked) /\ (c.deferred => stop) /\ Fit(c) /\ DOMAIN c = Fields
         /\ (frame.cont = "stop" => stop) /\ stop \in BOOLEAN
  BY DutyIs, RestIs, FitIs DEF InCommit, PauseInv, StopInv, Fit, Rest

LEMMA DutyStop ==
  ASSUME NEW s, NEW D, NEW st, NEW X, NEW b, Duty(s, D, st, X, b), NEW Y, NEW e
  PROVE  Duty(s, D, TRUE, Y, e)
  BY DEF Duty

LEMMA DutyGated ==
  ASSUME NEW s, NEW D, NEW st, NEW X, NEW b, Duty(s, D, st, X, b), Gated(s), NEW Y, NEW e
  PROVE  Duty(s, D, st, Y, e)
  BY DEF Duty

(* A return without a retry, from a client that is like the one before.    *)
LEMMA QuietReturn ==
  ASSUME OffsetInv, PauseInv, InCommit, UNCHANGED <<stop, done>>, NEW s, Alike(c, s), Return(s),
         Gated(c) \/ stop \/ ~Blocked
  PROVE  PauseInv'
  <1> DEFINE t == PutBack(s)
  <1>1. /\ Duty(c, done, stop, Closing, Blocked) /\ (c.deferred => stop)
        /\ (frame.cont = "stop" => stop) /\ stop \in BOOLEAN
    BY CommitIs
  <1>2. Duty(c, done, stop, Closing, FALSE)
    <2>1. CASE Gated(c) \/ stop
      BY <1>1, <2>1 DEF Duty
    <2>2. CASE ~Blocked
      BY <1>1, <2>2 DEF Duty, Held, HeldAt
    <2> QED BY <2>1, <2>2
  <1>3. Alike(c, t)
    BY PutBackAlike, AlikeTwice DEF Alike
  <1>4. Duty(t, done, stop, Closing, FALSE) /\ t.deferred = c.deferred
    BY <1>2, <1>3, DutyAlike DEF Alike, Posted
  <1>5. c' = t /\ pc' = frame.cont /\ frame' = Calling("top", frame.tp, frame.offset)
    BY DEF Return
  <1> HIDE DEF t
  <1> QED BY <1>1, <1>4, <1>5, ReturnPause

LEMMA QuietEnd ==
  ASSUME OffsetInv, PauseInv, InCommit, done' = done, stop => stop', NEW s, Alike(c, s),
         NEW k, Ends(PutBack(s), k)
  PROVE  PauseInv'
  <1> DEFINE t == PutBack(s)
  <1>1. Duty(c, done, stop, Closing, Blocked) /\ (c.deferred => stop)
    BY CommitIs
  <1>3. Alike(c, t)
    BY PutBackAlike, AlikeTwice DEF Alike
  <1>4. Duty(t, done, stop, Closing, Blocked) /\ t.deferred = c.deferred
    BY <1>1, <1>3, DutyAlike DEF Alike, Posted
  <1> HIDE DEF t
  <1>5. Ends(t, k) /\ Place(t) /\ Crew(t, done') /\ (t.deferred => stop')
    BY <1>1, <1>4 DEF Duty, t
  <1> QED BY <1>5, EndsPause

LEMMA VoidPause ==
  ASSUME OffsetInv, PauseInv, CommitVoid
  PROVE  PauseInv'
  <1> DEFINE u == ClearProgress(c)
             s == IF CommittableOffsets(c) = NoOffsets THEN c ELSE PublishCommitSnapshot(u)
  <1>1. InCommit /\ UNCHANGED <<stop, done>> /\ Return(s) /\ (CommittableOffsets(c) = NoOffsets \/ c.lost)
    BY DEF CommitVoid, InCommit, caller
  <1>2. DOMAIN c = Fields /\ Alike(c, c)
    BY <1>1, CommitIs DEF Alike, Posted
  <1>3. Alike(c, u)
    BY <1>2, AlikeReset
  <1>4. Alike(c, PublishCommitSnapshot(u))
    <2>1. DOMAIN u = Fields
      BY <1>3 DEF Alike
    <2> HIDE DEF u
    <2> QED BY <1>3, <2>1, AlikeSnapshot, AlikeTwice
  <1>5. Alike(c, s)
    BY <1>2, <1>4
  <1>6. Gated(c) \/ stop \/ ~Blocked
    BY <1>1 DEF PauseInv, Gated
  <1> HIDE DEF s
  <1> QED BY <1>1, <1>5, <1>6, QuietReturn

(* A failure that was retried until it went through: its rows go.          *)
LEMMA DutyCleared ==
  ASSUME NEW s, NEW D, NEW st, NEW X, NEW b, Duty(s, D, st, X, b)
  PROVE  LET t == ClearCommitBlocked(s) IN
         Duty(t, D, st, X, FALSE) /\ t.deferred = s.deferred
  <1> DEFINE u == DropRows(s, Partitions, {"commit"})
             t == Resume(u, Unblocked(u, u.assignment))
  <1>1. /\ DOMAIN u = Fields /\ Posted(s, u) /\ u.rows = s.rows \ (Partitions \X {"commit"})
        /\ u.paused = s.paused /\ u.retries = s.retries /\ u.pending = s.pending
        /\ u.admission = s.admission /\ u.workers = s.workers
    BY DEF DropRows, Duty, Fit, Posted, Fields
  <1> HIDE DEF u
  <1>2. /\ DOMAIN t = Fields /\ Posted(s, t) /\ t.rows = u.rows
        /\ t.paused = s.paused \ Unblocked(u, s.assignment)
        /\ t.retries = s.retries /\ t.pending = s.pending /\ t.admission = s.admission
        /\ t.workers = s.workers
    BY <1>1 DEF Resume, Posted, Fields
  <1> HIDE DEF t
  <1>3. Fit(t)
    BY <1>1, <1>2 DEF Duty, Fit, Posted
  <1>4. Place(t) /\ Crew(t, D) /\ (Gated(t) <=> Gated(s))
    BY <1>2, <1>3, DutySame DEF Duty
  <1>5. ASSUME ~Gated(s), Held(s, X, b) PROVE Held(t, X, FALSE)
    <2> SUFFICES ASSUME NEW q \in s.assigned PROVE HeldAt(t, q, X, FALSE)
      BY <1>2 DEF Held, Posted
    <2>1. HeldAt(s, q, X, b) /\ q \in Partitions /\ q \in s.assignment
      BY <1>5 DEF Held, Duty, Fit, Place, Gated, HasRebalance
    <2>2. ASSUME q \in t.paused PROVE \E r \in Reasons : <<q, r>> \in t.rows
      <3>1. PICK row \in u.rows : row[1] = q
        BY <1>2, <2>1, <2>2 DEF Unblocked
      <3>2. row \in Partitions \X Reasons
        BY <1>1, <3>1 DEF Duty, Fit
      <3>3. row = <<q, row[2]>> /\ row[2] \in Reasons
        BY <3>1, <3>2
      <3> QED BY <1>2, <3>1, <3>3
    <2>3. \A r : <<q, r>> \in t.rows => <<q, r>> \in s.rows /\ r # "commit"
      BY <1>1, <1>2, <2>1
    <2> QED BY <1>2, <2>1, <2>2, <2>3 DEF HeldAt
  <1>6. Duty(t, D, st, X, FALSE) /\ t.deferred = s.deferred
    BY <1>2, <1>3, <1>4, <1>5 DEF Duty, Posted
  <1>7. ClearCommitBlocked(s) = t
    BY DEF ClearCommitBlocked, t, u
  <1> QED BY <1>6, <1>7

LEMMA AcceptedPause ==
  ASSUME OffsetInv, PauseInv, CommitAccepted
  PROVE  PauseInv'
  <1> DEFINE at == CommittableOffsets(c)
             named == {p \in Partitions : at[p] # Nowhere}
             Lower(p) == IF at[p] = Nowhere THEN frame.discarded[p]
                         ELSE IF frame.discarded[p] = Nowhere THEN at[p]
                         ELSE Min({at[p], frame.discarded[p]})
             a == ConfirmCommitted(c, at)
             s == PublishCommitSnapshot(a)
             n == [p \in Partitions |-> Lower(p)]
             u == Rewind(s, n)
             t == ClearCommitBlocked(u)
  <1>1. InCommit /\ UNCHANGED <<stop, done>>
    BY DEF CommitAccepted, InCommit, caller
  <1>2. IF ~frame.blocked THEN Return(s)
        ELSE IF ~(named \subseteq c.assigned) THEN Ends(PutBack(s), "crash")
        ELSE /\ c' = t /\ pc' = frame.cont /\ frame' = Calling("top", frame.tp, frame.offset)
    BY DEF CommitAccepted
  <1>3. /\ Duty(c, done, stop, Closing, Blocked) /\ (c.deferred => stop) /\ DOMAIN c = Fields
        /\ (frame.cont = "stop" => stop)
    BY <1>1, CommitIs
  <1> HIDE DEF at, named, n
  <1>4. Alike(c, a)
    BY <1>3, AlikeConfirm
  <1>5. DOMAIN a = Fields
    BY <1>4 DEF Alike
  <1> HIDE DEF a
  <1>6. Alike(c, s)
    BY <1>4, <1>5, AlikeSnapshot, AlikeTwice
  <1>7. DOMAIN s = Fields
    BY <1>6 DEF Alike
  <1> HIDE DEF s
  <1>8. CASE ~frame.blocked
    BY <1>1, <1>2, <1>6, <1>8, QuietReturn DEF Blocked
  <1>9. CASE frame.blocked /\ ~(named \subseteq c.assigned)
    BY <1>1, <1>2, <1>6, <1>9, QuietEnd
  <1>10. CASE frame.blocked /\ named \subseteq c.assigned
    <2>1. Alike(c, u)
      BY <1>6, <1>7, AlikeRewind, AlikeTwice
    <2> HIDE DEF u
    <2>2. Duty(u, done, stop, Closing, Blocked) /\ u.deferred = c.deferred
      BY <1>3, <2>1, DutyAlike DEF Alike, Posted
    <2>3. Duty(t, done, stop, Closing, FALSE) /\ t.deferred = u.deferred
      BY <2>2, DutyCleared
    <2> HIDE DEF t
    <2> QED BY <1>1, <1>2, <1>3, <1>10, <2>2, <2>3, ReturnPause
  <1> QED BY <1>8, <1>9, <1>10

LEMMA RefusedPause ==
  ASSUME OffsetInv, PauseInv, CommitRefused
  PROVE  PauseInv'
  <1> DEFINE b0 == AddPauseReason(Pause(c, c.assigned), c.assigned, "commit")
             s == IF frame.blocked THEN c ELSE b0
  <1>1. InCommit /\ done' = done /\ CommittableOffsets(c) # NoOffsets /\ ~c.lost
    BY DEF CommitRefused, InCommit
  <1>2. \/ /\ stop' = TRUE
           /\ Return([s EXCEPT !.deferred = TRUE]) \/ Ends(PutBack(s), "stop")
        \/ /\ stop' = stop
           /\ IF HasRebalance(s) THEN Return(PublishCommitSnapshot(ClearProgress(s)))
              ELSE c' = s /\ pc' = "wait" /\ frame' = [frame EXCEPT !.blocked = TRUE]
    BY DEF CommitRefused, caller
  <1>3. /\ Duty(c, done, stop, Closing, Blocked) /\ (c.deferred => stop) /\ Fit(c)
        /\ (frame.cont = "stop" => stop) /\ stop \in BOOLEAN
    BY <1>1, CommitIs
  <1>4. c.assigned \in SUBSET Partitions /\ "commit" \in Reasons
    BY <1>3 DEF Fit, Reasons
  <1>5. /\ Fit(b0) /\ Posted(c, b0) /\ b0.rows = c.rows \cup (c.assigned \X {"commit"})
        /\ b0.paused = c.paused \cup c.assigned
        /\ b0.retries = c.retries /\ b0.pending = c.pending /\ b0.admission = c.admission
        /\ b0.workers = c.workers
    BY <1>3, <1>4, PauseIs
  <1>6. b0.progress = c.progress
    BY <1>3 DEF AddPauseReason, Pause, Fit, Fields
  <1> HIDE DEF b0
  <1>7. Place(b0) /\ Crew(b0, done) /\ (Gated(b0) <=> Gated(c))
    BY <1>3, <1>5, DutySame DEF Duty
  <1>8. Held(c, Closing, Blocked) => Held(b0, Closing, TRUE)
    <2> SUFFICES ASSUME Held(c, Closing, Blocked), NEW q \in c.assigned PROVE HeldAt(b0, q, Closing, TRUE)
      BY <1>5 DEF Held, Posted
    <2>1. \A r : <<q, r>> \in b0.rows <=> <<q, r>> \in c.rows \/ r = "commit"
      BY <1>5
    <2>2. <<q, "commit">> \in b0.rows /\ HeldAt(c, q, Closing, Blocked)
      BY <1>5 DEF Held
    <2> QED BY <1>4, <1>5, <2>1, <2>2 DEF HeldAt
  <1>9. Duty(s, done, stop, Closing, TRUE) /\ s.deferred = c.deferred /\ s.progress = c.progress
    <2>1. CASE frame.blocked
      BY <1>1, <1>3, <2>1 DEF Duty, Held, HeldAt, Blocked
    <2>2. CASE ~frame.blocked
      BY <1>3, <1>5, <1>6, <1>7, <1>8, <2>2 DEF Duty, Posted
    <2> QED BY <2>1, <2>2
  <1> HIDE DEF s
  <1>10. Fit(s) /\ DOMAIN s = Fields
    BY <1>9 DEF Duty, Fit
  <1>11. CASE stop' = TRUE /\ Return([s EXCEPT !.deferred = TRUE])
    <2> DEFINE d == [s EXCEPT !.deferred = TRUE]
               t == PutBack(d)
    <2>1. Duty(d, done, TRUE, {}, FALSE)
      BY <1>9, DutyStop, DutyDefer
    <2> HIDE DEF d
    <2>2. Alike(d, t)
      BY <2>1, PutBackAlike DEF Duty, Fit
    <2>3. c' = t /\ pc' = frame.cont /\ frame' = Calling("top", frame.tp, frame.offset)
      BY <1>11 DEF Return, d
    <2> HIDE DEF t
    <2>4. Duty(t, done', stop', Closing, FALSE)
      BY <1>1, <1>11, <2>1, <2>2, DutyAlike, DutyStop
    <2> QED BY <1>1, <1>11, <2>3, <2>4, ReturnPause
  <1>12. CASE stop' = TRUE /\ Ends(PutBack(s), "stop")
    <2> DEFINE t == PutBack(s)
    <2>1. Alike(s, t)
      BY <1>10, PutBackAlike
    <2>2. Duty(t, done, stop, Closing, TRUE)
      BY <1>9, <2>1, DutyAlike
    <2> HIDE DEF t
    <2>3. Ends(t, "stop") /\ Place(t) /\ Crew(t, done')
      BY <1>1, <1>12, <2>2 DEF Duty, t
    <2> QED BY <1>12, <2>3, EndsPause
  <1>13. CASE stop' = stop /\ HasRebalance(s) /\ Return(PublishCommitSnapshot(ClearProgress(s)))
    <2> DEFINE d == ClearProgress(s)
               e == PublishCommitSnapshot(d)
               t == PutBack(e)
    <2>1. Alike(s, d)
      BY <1>10, AlikeReset
    <2>2. DOMAIN d = Fields
      BY <2>1 DEF Alike
    <2> HIDE DEF d
    <2>3. Alike(s, e)
      BY <2>1, <2>2, AlikeSnapshot, AlikeTwice
    <2>4. DOMAIN e = Fields
      BY <2>3 DEF Alike
    <2> HIDE DEF e
    <2>5. Alike(s, t)
      BY <2>3, <2>4, PutBackAlike, AlikeTwice
    <2>6. c' = t /\ pc' = frame.cont /\ frame' = Calling("top", frame.tp, frame.offset)
      BY <1>13 DEF Return, d, e
    <2> HIDE DEF t
    <2>7. Duty(t, done, stop, Closing, TRUE) /\ Gated(t) /\ t.deferred = c.deferred
      BY <1>9, <1>13, <2>5, DutyAlike DEF Alike, Posted, Gated, HasRebalance
    <2>8. Duty(t, done', stop', Closing, FALSE)
      BY <1>1, <1>13, <2>7, DutyGated
    <2> QED BY <1>1, <1>3, <1>13, <2>6, <2>7, <2>8, ReturnPause
  <1>14. CASE stop' = stop /\ c' = s /\ pc' = "wait" /\ frame' = [frame EXCEPT !.blocked = TRUE]
    <2>1. frame \in FrameType
      BY RestIs
    <2>2. frame'.blocked = TRUE /\ frame'.cont = frame.cont /\ frame'.tp = frame.tp
      BY <1>14, <2>1 DEF FrameType
    <2>3. InCommit' /\ Closing' = Closing /\ Blocked' = TRUE
      BY <1>1, <1>14, <2>2 DEF InCommit, Closing, Doing, Blocked
    <2>4. CommittableOffsets(c') = CommittableOffsets(c)
      BY <1>9, <1>14 DEF CommittableOffsets
    <2> QED BY <1>1, <1>3, <1>9, <1>14, <2>2, <2>3, <2>4 DEF PauseInv, StopInv, Duty
  <1> QED BY <1>2, <1>11, <1>12, <1>13, <1>14

LEMMA WaitPause ==
  ASSUME OffsetInv, PauseInv, WaitNone \/ \E p \in Partitions : WaitMessage(p)
  PROVE  PauseInv'
  <1>1. pc = "wait" /\ pc' = "commit" /\ UNCHANGED <<stop, done>> /\ DOMAIN c = Fields /\ frame \in FrameType
    BY RestIs, FitIs DEF WaitNone, WaitMessage, caller, Fit
  <1>2. c' = c \/ \E p \in Partitions : c' = [c EXCEPT !.pos[p] = @ + 1]
    BY DEF WaitNone, WaitMessage
  <1>3. Alike(c, c') /\ c'.progress = c.progress
    BY <1>1, <1>2 DEF Alike, Posted, Fields
  <1>4. frame'.blocked = frame.blocked /\ frame'.cont = frame.cont /\ frame'.tp = frame.tp
    BY <1>1 DEF WaitNone, WaitMessage, FrameType
  <1>5. InCommit /\ InCommit' /\ Closing' = Closing /\ (Blocked' <=> Blocked)
    BY <1>1, <1>4 DEF InCommit, Closing, Doing, Blocked
  <1>6. CommittableOffsets(c') = CommittableOffsets(c) /\ (Gated(c') <=> Gated(c)) /\ c'.deferred = c.deferred
    BY <1>3 DEF CommittableOffsets, Alike, Posted, Gated, HasRebalance
  <1>7. Duty(c', done', stop', Closing, Blocked)
    BY <1>1, <1>3, <1>5, CommitIs, DutyAlike
  <1>8. Held(c', Closing, Blocked) => Held(c', Closing', Blocked')
    BY <1>5 DEF Held, HeldAt
  <1>9. StopInv'
    BY <1>1, <1>4, <1>5, <1>6 DEF PauseInv, StopInv
  <1>10. ~Gated(c') /\ ~stop' => (Blocked' => CommittableOffsets(c') # NoOffsets)
    BY <1>1, <1>5, <1>6 DEF PauseInv
  <1> QED BY <1>1, <1>7, <1>8, <1>9, <1>10 DEF PauseInv, Duty

LEMMA FailsPause ==
  ASSUME OffsetInv, PauseInv, NEW kind, WaitFails(kind) \/ PollFails(kind) \/ MaintainFails(kind)
  PROVE  PauseInv'
  <1>1. UNCHANGED <<stop, done>>
    BY DEF WaitFails, PollFails, MaintainFails, caller
  <1>2. CASE WaitFails(kind)
    <2>1. InCommit /\ Ends(PutBack(c), kind)
      BY <1>2 DEF WaitFails, InCommit
    <2>2. Alike(c, c)
      BY RestIs, FitIs DEF Alike, Posted, Fit
    <2> QED BY <1>1, <2>1, <2>2, QuietEnd
  <1>3. CASE Ends(c, kind)
    BY <1>1, <1>3, EndsPause DEF PauseInv, StopInv
  <1> QED BY <1>2, <1>3 DEF PollFails, MaintainFails

LEMMA MaintainPause ==
  ASSUME OffsetInv, PauseInv, MaintainNone \/ \E p \in Partitions : MaintainMessage(p)
  PROVE  PauseInv'
  <1>1. pc = "maintain" /\ UNCHANGED <<stop, done>>
    BY DEF MaintainNone, MaintainMessage, caller
  <1>2. Duty(c, done, stop, {}, FALSE) /\ (c.deferred => stop) /\ DOMAIN c = Fields
    BY <1>1, FreeIs
  <1>3. CASE MaintainNone
    <2>1. Goto(c, "top")
      BY <1>3 DEF MaintainNone
    <2> QED BY <1>1, <1>2, <2>1, GotoPause
  <1>4. CASE \E p \in Partitions : MaintainMessage(p)
    <2>1. PICK p \in Partitions : Goto([c EXCEPT !.pos[p] = @ + 1], "top")
      BY <1>4 DEF MaintainMessage
    <2> DEFINE t == [c EXCEPT !.pos[p] = @ + 1]
    <2>2. Alike(c, t)
      BY <1>2, AlikePos
    <2>3. Goto(t, "top")
      BY <2>1
    <2> HIDE DEF t
    <2>4. Duty(t, done, stop, {}, FALSE) /\ t.deferred = c.deferred
      BY <1>2, <2>2, DutyAlike DEF Alike, Posted
    <2> QED BY <1>1, <1>2, <2>3, <2>4, GotoPause
  <1> QED BY <1>3, <1>4

(* What follows the commit.                                                *)
LEMMA HaltPause ==
  ASSUME NEW s, NEW p \in Partitions, Duty(s, done', stop', {}, FALSE), s.deferred => stop',
         Goto(HaltPartition(s, p), "top")
  PROVE  PauseInv'
  <1> DEFINE t == HaltPartition(s, p)
  <1>1. Duty(s, done', stop', {p}, FALSE)
    BY DutyMore
  <1>2. Duty(t, done', stop', {}, FALSE) /\ t.deferred = s.deferred
    BY <1>1, DutyHalt
  <1>3. Goto(t, "top")
    OBVIOUS
  <1> HIDE DEF t
  <1> QED BY <1>2, <1>3, GotoPause

LEMMA SkipPause ==
  ASSUME NEW s, NEW p \in Partitions, NEW o, Duty(s, done', stop', {}, FALSE), s.deferred => stop',
         AvailabilitySkip(s, p, o)
  PROVE  PauseInv'
  <1>1. CASE Goto(HaltPartition(s, p), "top")
    BY <1>1, HaltPause
  <1>2. CASE Call(PublishCommitSnapshot(Observe(s, p, o, TRUE)), "top", p, o)
    <2> DEFINE u == Observe(s, p, o, TRUE)
               t == PublishCommitSnapshot(u)
    <2>1. DOMAIN s = Fields
      BY DEF Duty, Fit
    <2>2. Alike(s, u)
      BY <2>1, AlikeObserve
    <2>3. DOMAIN u = Fields
      BY <2>2 DEF Alike
    <2>4. Call(t, "top", p, o)
      BY <1>2
    <2> HIDE DEF u
    <2>5. Alike(s, t)
      BY <2>2, <2>3, AlikeSnapshot, AlikeTwice
    <2> HIDE DEF t
    <2>6. Duty(t, done', stop', {}, FALSE) /\ t.deferred = s.deferred
      BY <2>5, DutyAlike DEF Alike, Posted
    <2> QED BY <2>4, <2>6, CallPause
  <1> QED BY <1>1, <1>2 DEF AvailabilitySkip

(* A dead letter whose seek fails leaves its row on a partition that the   *)
(* client does not hold.                                                   *)
LEMMA DutyHalf ==
  ASSUME NEW s, NEW D, NEW st, Duty(s, D, st, {}, FALSE), NEW p \in Partitions, NEW o,
         ScheduleFails(s, p)
  PROVE  Duty(HalfScheduled(s, p, o), D, st, {}, FALSE) /\ HalfScheduled(s, p, o).deferred = s.deferred
  <1> DEFINE u == Remember(s, p, o)
             t == AddPauseReason(Pause(u, {p}), {p}, "dlt")
  <1>1. Alike(s, u)
    BY AlikeRemember DEF Duty, Fit
  <1>2. HalfScheduled(s, p, o) = IF p \in Jobs(s.pending) \cup Jobs(s.admission) THEN u ELSE t
    BY DEF HalfScheduled
  <1> HIDE DEF u
  <1>3. Duty(u, D, st, {}, FALSE) /\ u.deferred = s.deferred /\ u.assigned = s.assigned
    BY <1>1, DutyAlike DEF Alike, Posted
  <1>4. CASE p \in Jobs(s.pending) \cup Jobs(s.admission)
    BY <1>2, <1>3, <1>4
  <1>5. CASE p \notin Jobs(s.pending) \cup Jobs(s.admission)
    <2>1. p \notin s.assigned
      BY <1>5 DEF ScheduleFails
    <2>2. Fit(u) /\ {p} \in SUBSET Partitions /\ "dlt" \in Reasons
      BY <1>3 DEF Duty, Reasons
    <2>3. /\ Fit(t) /\ Posted(u, t) /\ t.rows = u.rows \cup ({p} \X {"dlt"}) /\ t.paused = u.paused \cup {p}
          /\ t.retries = u.retries /\ t.pending = u.pending /\ t.admission = u.admission
          /\ t.workers = u.workers
      BY <2>2, PauseIs
    <2> HIDE DEF t
    <2>4. Place(t) /\ Crew(t, D) /\ (Gated(t) <=> Gated(u))
      BY <1>3, <2>3, DutySame DEF Duty
    <2>5. Held(u, {}, FALSE) => Held(t, {}, FALSE)
      <3> SUFFICES ASSUME Held(u, {}, FALSE), NEW q \in u.assigned PROVE HeldAt(t, q, {}, FALSE)
        BY <2>3 DEF Held, Posted
      <3>1. q # p
        BY <1>3, <2>1
      <3>2. \A r : <<q, r>> \in t.rows <=> <<q, r>> \in u.rows
        BY <2>3, <3>1
      <3> QED BY <2>3, <3>1, <3>2 DEF Held, HeldAt
    <2>6. Duty(t, D, st, {}, FALSE) /\ t.deferred = s.deferred
      BY <1>3, <2>3, <2>4, <2>5 DEF Duty, Posted
    <2> QED BY <1>2, <1>5, <2>6
  <1> QED BY <1>4, <1>5

(* A dead letter that is scheduled: its row, and its task or its place in  *)
(* the queue for an envelope.                                              *)
LEMMA DutySchedule ==
  ASSUME NEW s, NEW D, D \subseteq DoneType, NEW st, Duty(s, D, st, {}, FALSE), NEW p \in Partitions,
         NEW o \in Nat, ~ScheduleFails(s, p)
  PROVE  /\ Duty(ScheduleSingleDlt(s, p, o), D, st, {}, FALSE)
         /\ ScheduleSingleDlt(s, p, o).deferred = s.deferred
  <1> DEFINE a == Remember(s, p, o)
             h == AddPauseReason(Pause(a, {p}), {p}, "dlt")
             t == Seek(h, p, o)
             job == [offset |-> o, epoch |-> s.epoch]
             w == Task(s, p, o)
             x == [t EXCEPT !.workers = @ \cup {w}, !.pending[p] = job]
             y == [AddPauseReason(t, {p}, "envelope") EXCEPT !.admission[p] = job]
  <1>1. p \notin Jobs(s.pending) /\ p \notin Jobs(s.admission) /\ Fit(s) /\ Place(s) /\ Crew(s, D)
    BY DEF ScheduleFails, Duty
  <1>2. ScheduleSingleDlt(s, p, o) = IF Cardinality(s.workers) < Envelopes THEN x ELSE y
    BY <1>1 DEF ScheduleSingleDlt, HalfScheduled
  <1>3. job \in JobType /\ w \in WorkerType /\ w.tp = p /\ w.epoch = s.epoch /\ JobOf(w) = job /\ w.live
    <2>1. s.epoch \in Nat
      BY <1>1 DEF Fit
    <2> QED BY <2>1 DEF JobType, Task, WorkerType, JobOf
  <1> HIDE DEF job, w
  <1>4. Alike(s, a)
    BY <1>1, AlikeRemember DEF Fit
  <1> HIDE DEF a
  <1>5. Fit(a) /\ {p} \in SUBSET Partitions /\ "dlt" \in Reasons
    BY <1>1, <1>4, DutyAlike DEF Alike, Posted, Fit, Reasons
  <1>6. /\ Fit(h) /\ Posted(a, h) /\ h.rows = a.rows \cup ({p} \X {"dlt"}) /\ h.paused = a.paused \cup {p}
        /\ h.retries = a.retries /\ h.pending = a.pending /\ h.admission = a.admission
        /\ h.workers = a.workers
    BY <1>5, PauseIs
  <1> HIDE DEF h
  <1>7. Alike(h, t)
    BY <1>6, AlikeSeek DEF Fit
  <1> HIDE DEF t
  <1>8. /\ DOMAIN t = Fields /\ Posted(s, t) /\ t.rows = s.rows \cup ({p} \X {"dlt"})
        /\ t.paused = s.paused \cup {p} /\ t.retries = s.retries /\ t.pending = s.pending
        /\ t.admission = s.admission /\ t.workers = s.workers
    BY <1>4, <1>6, <1>7 DEF Alike, Posted
  <1>9. /\ s.pending \in [Partitions -> JobType] /\ s.admission \in [Partitions -> JobType]
        /\ s.workers \subseteq WorkerType
    BY <1>1 DEF Fit
  <1>10. \A q \in s.assigned \ {p} : \A r : <<q, r>> \in t.rows <=> <<q, r>> \in s.rows
    BY <1>8
  <1>11. job.offset = o /\ o # Nowhere /\ job.epoch = s.epoch
    BY Named DEF job
  <1>12. CASE Cardinality(s.workers) < Envelopes
    <2> DEFINE v == [s.pending EXCEPT ![p] = job]
    <2>1. /\ DOMAIN x = Fields /\ Posted(s, x) /\ x.rows = t.rows /\ x.paused = t.paused
          /\ x.retries = s.retries /\ x.pending = v /\ x.admission = s.admission
          /\ x.workers = s.workers \cup {w}
      BY <1>8 DEF Posted, Fields
    <2>2. /\ v \in [Partitions -> JobType] /\ v[p] = job /\ Jobs(v) = Jobs(s.pending) \cup {p}
          /\ \A q \in Partitions : q # p => v[q] = s.pending[q]
      BY <1>3, <1>9, <1>11 DEF Jobs
    <2> HIDE DEF x, v
    <2>3. Fit(x)
      BY <1>1, <1>3, <1>8, <2>1, <2>2 DEF Fit, Posted, Reasons
    <2>4. Place(x) /\ (Gated(x) <=> Gated(s))
      BY <1>1, <2>1 DEF Place, Posted, Gated, HasRebalance
    <2>5. /\ \A z \in Present(s) : z.tp # p /\ z.tp \in Partitions
          /\ \A d \in Sent(s, D) : d.tp # p /\ d.tp \in Partitions
      <3>1. \A z \in Present(s) : z.tp \in Partitions /\ z.offset # Nowhere
                                  /\ s.pending[z.tp].offset = z.offset
        <4> SUFFICES ASSUME NEW z \in Present(s)
                     PROVE  /\ z.tp \in Partitions /\ z.offset # Nowhere
                            /\ s.pending[z.tp].offset = z.offset
          OBVIOUS
        <4>1. z \in WorkerType /\ s.pending[z.tp] = JobOf(z)
          BY <1>1, <1>9 DEF Crew, Present
        <4>2. z.tp \in Partitions /\ z.offset \in Nat
          BY <4>1 DEF WorkerType
        <4> QED BY <4>1, <4>2, Named DEF JobOf
      <3>2. \A d \in Sent(s, D) : d.tp \in Partitions /\ d.offset # Nowhere
                                  /\ s.pending[d.tp].offset = d.offset
        <4> SUFFICES ASSUME NEW d \in Sent(s, D)
                     PROVE  /\ d.tp \in Partitions /\ d.offset # Nowhere
                            /\ s.pending[d.tp].offset = d.offset
          OBVIOUS
        <4>1. d \in DoneType /\ s.pending[d.tp] = JobOf(d)
          BY <1>1 DEF Crew, Sent
        <4>2. d.tp \in Partitions /\ d.offset \in Nat
          BY <4>1 DEF DoneType
        <4> QED BY <4>1, <4>2, Named DEF JobOf
      <3> QED BY <1>1, <3>1, <3>2 DEF Jobs
    <2>6. Present(x) = Present(s) \cup {w} /\ Sent(x, D) = Sent(s, D)
      BY <1>3, <2>1 DEF Present, Sent, Posted
    <2>7. /\ \A q \in Jobs(x.pending) : x.pending[q].epoch = x.epoch
          /\ \A z \in x.workers : z.live => z.epoch <= x.epoch
          /\ \A d \in D : d.epoch <= x.epoch
      <3>1. \A q \in Jobs(x.pending) : x.pending[q].epoch = x.epoch
        BY <1>1, <1>11, <2>1, <2>2 DEF Crew, Posted, Jobs
      <3>2. \A z \in x.workers : z.live => z.epoch <= x.epoch
        BY <1>1, <1>3, <2>1 DEF Crew, Posted, Fit
      <3> QED BY <1>1, <2>1, <3>1, <3>2 DEF Crew, Posted
    <2>8. /\ \A z \in Present(x) : x.pending[z.tp] = JobOf(z)
          /\ \A d \in Sent(x, D) : x.pending[d.tp] = JobOf(d)
      BY <1>1, <1>3, <2>1, <2>2, <2>5, <2>6 DEF Crew
    <2>9. /\ \A z \in Present(x), d \in Sent(x, D) : z.tp # d.tp
          /\ \A z \in Present(x), u \in Present(x) : z.tp = u.tp => z = u
          /\ \A d \in Sent(x, D), e \in Sent(x, D) : d.tp = e.tp => d = e
      BY <1>1, <1>3, <2>5, <2>6 DEF Crew
    <2>10. Crew(x, D)
      BY <2>7, <2>8, <2>9 DEF Crew
    <2>11. Held(s, {}, FALSE) => Held(x, {}, FALSE)
      <3> SUFFICES ASSUME Held(s, {}, FALSE), NEW q \in s.assigned PROVE HeldAt(x, q, {}, FALSE)
        BY <2>1 DEF Held, Posted
      <3>0. HeldAt(s, q, {}, FALSE)
        BY DEF Held
      <3>1. CASE q = p
        <4>1. \A r : <<p, r>> \in x.rows <=> <<p, r>> \in s.rows \/ r = "dlt"
          BY <1>8, <2>1
        <4> QED BY <2>1, <2>2, <3>0, <3>1, <4>1 DEF HeldAt, Reasons
      <3>2. CASE q # p
        BY <1>8, <1>10, <2>1, <2>2, <3>0, <3>2 DEF HeldAt
      <3> QED BY <3>1, <3>2
    <2>12. Duty(x, D, st, {}, FALSE) /\ x.deferred = s.deferred
      BY <2>1, <2>3, <2>4, <2>10, <2>11 DEF Duty, Posted
    <2> QED BY <1>2, <1>12, <2>12
  <1>13. CASE ~(Cardinality(s.workers) < Envelopes)
    <2> DEFINE v == [s.admission EXCEPT ![p] = job]
    <2>1. /\ DOMAIN y = Fields /\ Posted(s, y) /\ y.rows = t.rows \cup ({p} \X {"envelope"})
          /\ y.paused = t.paused /\ y.retries = s.retries /\ y.pending = s.pending
          /\ y.admission = v /\ y.workers = s.workers
      BY <1>8 DEF AddPauseReason, Posted, Fields
    <2>2. v \in [Partitions -> JobType] /\ Jobs(v) = Jobs(s.admission) \cup {p}
      BY <1>3, <1>9, <1>11 DEF Jobs
    <2> HIDE DEF y, v
    <2>3. Fit(y)
      BY <1>1, <1>8, <2>1, <2>2 DEF Fit, Posted, Reasons
    <2>4. Place(y) /\ Crew(y, D) /\ (Gated(y) <=> Gated(s))
      BY <1>1, <2>1, <2>3, DutySame
    <2>5. Held(s, {}, FALSE) => Held(y, {}, FALSE)
      <3> SUFFICES ASSUME Held(s, {}, FALSE), NEW q \in s.assigned PROVE HeldAt(y, q, {}, FALSE)
        BY <2>1 DEF Held, Posted
      <3>0. HeldAt(s, q, {}, FALSE)
        BY DEF Held
      <3>1. CASE q = p
        <4>1. \A r : <<p, r>> \in y.rows <=> <<p, r>> \in s.rows \/ r \in {"dlt", "envelope"}
          BY <1>8, <2>1
        <4> QED BY <2>1, <2>2, <3>0, <3>1, <4>1 DEF HeldAt, Reasons
      <3>2. CASE q # p
        <4>1. \A r : <<q, r>> \in y.rows <=> <<q, r>> \in s.rows
          BY <1>10, <2>1, <3>2
        <4> QED BY <1>8, <2>1, <2>2, <3>0, <3>2, <4>1 DEF HeldAt
      <3> QED BY <3>1, <3>2
    <2>6. Duty(y, D, st, {}, FALSE) /\ y.deferred = s.deferred
      BY <2>1, <2>3, <2>4, <2>5 DEF Duty, Posted
    <2> QED BY <1>2, <1>13, <2>6
  <1> QED BY <1>12, <1>13

LEMMA DeadLetterPause ==
  ASSUME NEW s, NEW p \in Partitions, NEW o \in Nat, done' \subseteq DoneType,
         Duty(s, done', stop', {}, FALSE), s.deferred => stop', DeadLetter(s, p, o)
  PROVE  PauseInv'
  <1>1. CASE ~ScheduleFails(s, p)
    <2> DEFINE t == ScheduleSingleDlt(s, p, o)
    <2>1. Goto(t, "top")
      BY <1>1 DEF DeadLetter
    <2>2. Duty(t, done', stop', {}, FALSE) /\ t.deferred = s.deferred
      BY <1>1, DutySchedule
    <2> HIDE DEF t
    <2> QED BY <2>1, <2>2, GotoPause
  <1>2. CASE ScheduleFails(s, p)
    <2> DEFINE t == HalfScheduled(s, p, o)
    <2>1. Goto(HaltPartition(t, p), "top") \/ AvailabilitySkip(t, p, o)
      BY <1>2 DEF DeadLetter
    <2>2. Duty(t, done', stop', {}, FALSE) /\ t.deferred = s.deferred
      BY <1>2, DutyHalf
    <2> HIDE DEF t
    <2> QED BY <2>1, <2>2, HaltPause, SkipPause
  <1> QED BY <1>1, <1>2

LEMMA DutyRetry ==
  ASSUME NEW s, NEW D, NEW st, Duty(s, D, st, {}, FALSE), NEW p \in Partitions, NEW o \in Nat,
         p \in s.assigned
  PROVE  LET t == SchedulePartitionRetry(s, p, o) IN
         Duty(t, D, st, {}, FALSE) /\ t.deferred = s.deferred
  <1> DEFINE a == Seek(s, p, o)
             h == AddPauseReason(Pause(a, {p}), {p}, "retry")
             n == [from |-> o, due |-> FALSE]
             v == [h.retries EXCEPT ![p] = n]
             t == [h EXCEPT !.retries = v]
  <1>1. SchedulePartitionRetry(s, p, o) = t
    BY DEF SchedulePartitionRetry
  <1>2. Fit(s) /\ Place(s) /\ Crew(s, D)
    BY DEF Duty
  <1>3. Alike(s, a)
    BY <1>2, AlikeSeek DEF Fit
  <1> HIDE DEF a
  <1>4. Fit(a) /\ {p} \in SUBSET Partitions /\ "retry" \in Reasons
    BY <1>2, <1>3 DEF Alike, Posted, Fit, Reasons
  <1>5. /\ Fit(h) /\ Posted(a, h) /\ h.rows = a.rows \cup ({p} \X {"retry"}) /\ h.paused = a.paused \cup {p}
        /\ h.retries = a.retries /\ h.pending = a.pending /\ h.admission = a.admission
        /\ h.workers = a.workers
    BY <1>4, PauseIs
  <1> HIDE DEF h
  <1>6. /\ v \in [Partitions -> [from : Int, due : BOOLEAN]] /\ v[p].from # Nowhere
        /\ \A q \in Partitions : q # p => v[q] = s.retries[q]
    <2>1. n \in [from : Int, due : BOOLEAN] /\ n.from = o /\ o # Nowhere
      BY Named
    <2>2. h.retries = s.retries /\ s.retries \in [Partitions -> [from : Int, due : BOOLEAN]]
      BY <1>2, <1>3, <1>5 DEF Alike, Fit
    <2> HIDE DEF n
    <2> QED BY <2>1, <2>2
  <1> HIDE DEF v
  <1>7. /\ DOMAIN t = Fields /\ Posted(s, t) /\ t.rows = s.rows \cup ({p} \X {"retry"})
        /\ t.paused = s.paused \cup {p} /\ t.retries = v /\ t.pending = s.pending
        /\ t.admission = s.admission /\ t.workers = s.workers
    BY <1>3, <1>5 DEF Alike, Posted, Fit, Fields
  <1> HIDE DEF t
  <1>8. Fit(t)
    BY <1>2, <1>6, <1>7 DEF Fit, Posted, Reasons
  <1>9. Place(t) /\ Crew(t, D) /\ (Gated(t) <=> Gated(s))
    BY <1>2, <1>7, <1>8, DutySame
  <1>10. Held(s, {}, FALSE) => Held(t, {}, FALSE)
    <2> SUFFICES ASSUME Held(s, {}, FALSE), NEW q \in s.assigned PROVE HeldAt(t, q, {}, FALSE)
      BY <1>7 DEF Held, Posted
    <2>0. HeldAt(s, q, {}, FALSE) /\ q \in Partitions
      BY <1>2 DEF Held, Fit
    <2>1. CASE q = p
      <3>1. \A r : <<p, r>> \in t.rows <=> <<p, r>> \in s.rows \/ r = "retry"
        BY <1>7
      <3> QED BY <1>6, <1>7, <2>0, <2>1, <3>1 DEF HeldAt, Reasons
    <2>2. CASE q # p
      <3>1. \A r : <<q, r>> \in t.rows <=> <<q, r>> \in s.rows
        BY <1>7, <2>2
      <3> QED BY <1>6, <1>7, <2>0, <2>2, <3>1 DEF HeldAt
    <2> QED BY <2>1, <2>2
  <1>11. Duty(t, D, st, {}, FALSE) /\ t.deferred = s.deferred
    BY <1>7, <1>8, <1>9, <1>10 DEF Duty, Posted
  <1> QED BY <1>1, <1>11

(* Back from a commit with a record to retry or to bury.                   *)
LEMMA BackIs ==
  ASSUME OffsetInv, PauseInv, pc \in {"retry", "dead"}, UNCHANGED <<stop, done>>
  PROVE  LET s == PublishCommitSnapshot(ResetPartitions(c, {frame.tp})) IN
         /\ DOMAIN s = Fields /\ Duty(s, done', stop', {}, FALSE) /\ (s.deferred => stop')
         /\ frame.tp \in Partitions /\ frame.offset \in Nat /\ done' \subseteq DoneType
  <1> DEFINE u == ResetPartitions(c, {frame.tp})
             s == PublishCommitSnapshot(u)
  <1>1. Duty(c, done, stop, {}, FALSE) /\ (c.deferred => stop) /\ DOMAIN c = Fields
    BY FreeIs
  <1>2. Alike(c, u)
    BY <1>1, AlikeReset
  <1>3. DOMAIN u = Fields
    BY <1>2 DEF Alike
  <1> HIDE DEF u
  <1>4. Alike(c, s)
    BY <1>2, <1>3, AlikeSnapshot, AlikeTwice
  <1>5. Duty(s, done, stop, {}, FALSE) /\ s.deferred = c.deferred /\ DOMAIN s = Fields
    BY <1>1, <1>4, DutyAlike DEF Alike, Posted
  <1>6. frame.tp \in Partitions /\ frame.offset \in Nat /\ done \subseteq DoneType
    BY RestIs DEF OffsetInv, FrameInv, Doing, Reached, Rest
  <1> HIDE DEF s
  <1>7. /\ DOMAIN s = Fields /\ Duty(s, done', stop', {}, FALSE) /\ (s.deferred => stop')
        /\ frame.tp \in Partitions /\ frame.offset \in Nat /\ done' \subseteq DoneType
    BY <1>1, <1>5, <1>6
  <1> QED BY <1>7 DEF s, u

LEMMA AfterDeadPause ==
  ASSUME OffsetInv, PauseInv, AfterDead
  PROVE  PauseInv'
  <1> DEFINE s == PublishCommitSnapshot(ResetPartitions(c, {frame.tp}))
  <1>1. pc = "dead" /\ UNCHANGED <<stop, done>> /\ DeadLetter(s, frame.tp, frame.offset)
    BY DEF AfterDead, caller
  <1>2. /\ Duty(s, done', stop', {}, FALSE) /\ (s.deferred => stop')
        /\ frame.tp \in Partitions /\ frame.offset \in Nat /\ done' \subseteq DoneType
    BY <1>1, BackIs
  <1> HIDE DEF s
  <1> QED BY <1>1, <1>2, DeadLetterPause

LEMMA AfterRetryPause ==
  ASSUME OffsetInv, PauseInv, AfterRetry
  PROVE  PauseInv'
  <1> DEFINE p == frame.tp
             o == frame.offset
             n == Min({c.attempts[p][o] + 1, MaxAttempts})
             a == PublishCommitSnapshot(ResetPartitions(c, {p}))
             s == [a EXCEPT !.attempts[p][o] = n]
             t == SchedulePartitionRetry(s, p, o)
  <1>1. /\ pc = "retry" /\ UNCHANGED <<stop, done>>
        /\ DeadLetter(s, p, o) \/ Goto(t, "top")
    BY DEF AfterRetry, caller
  <1>2. /\ Duty(a, done', stop', {}, FALSE) /\ (a.deferred => stop') /\ DOMAIN a = Fields
        /\ p \in Partitions /\ o \in Nat /\ done' \subseteq DoneType
    BY <1>1, BackIs
  <1> HIDE DEF a, p, o, n
  <1>3. Alike(a, s)
    BY <1>2, AlikeAttempt
  <1> HIDE DEF s
  <1>4. Duty(s, done', stop', {}, FALSE) /\ (s.deferred => stop')
    BY <1>2, <1>3, DutyAlike DEF Alike, Posted
  <1>5. CASE DeadLetter(s, p, o)
    BY <1>2, <1>4, <1>5, DeadLetterPause
  <1>6. CASE Goto(t, "top") /\ p \in s.assigned
    <2>1. Duty(t, done', stop', {}, FALSE) /\ t.deferred = s.deferred
      BY <1>2, <1>4, <1>6, DutyRetry
    <2> HIDE DEF t
    <2> QED BY <1>4, <1>6, <2>1, GotoPause
  <1>7. CASE Goto(t, "top") /\ p \notin s.assigned
    <2>1. Goto(HaltPartition(s, p), "top")
      BY <1>7 DEF SchedulePartitionRetry
    <2> QED BY <1>2, <1>4, <2>1, HaltPause
  <1> QED BY <1>1, <1>5, <1>6, <1>7

(* The completion is committed: its rows go, or the partition is halted.   *)
LEMMA AfterDltPause ==
  ASSUME OffsetInv, PauseInv, AfterDlt
  PROVE  PauseInv'
  <1> DEFINE p == frame.tp
             next == frame.offset + 1
             s == [c EXCEPT !.expect[p] = NextDeadLetter(c, p, next)]
             k == Seek(s, p, next)
             x == [k EXCEPT !.attempts[p][frame.offset] = 0]
             y == ClearAndResume(x, {p}, {"dlt", "degraded"})
             z == HaltPartition(s, p)
  <1>1. /\ pc = "dlt" /\ UNCHANGED <<stop, done>>
        /\ Goto(IF p \in c.assigned THEN y ELSE z, "top")
    BY DEF AfterDlt, caller
  <1>2. Closing = {p} /\ Blocked = FALSE /\ p \in Partitions
    BY <1>1 DEF Closing, Blocked, Doing, InCommit, OffsetInv, FrameInv
  <1> HIDE DEF p, next
  <1>3. Duty(c, done, stop, {p}, FALSE) /\ (c.deferred => stop) /\ DOMAIN c = Fields
    BY <1>1, <1>2, DutyIs DEF Duty, Fit
  <1>4. Alike(c, s)
    BY <1>3, AlikeExpectAt
  <1>5. DOMAIN s = Fields
    BY <1>4 DEF Alike
  <1> HIDE DEF s
  <1>6. Duty(s, done', stop', {p}, FALSE) /\ s.deferred = c.deferred
    BY <1>1, <1>3, <1>4, DutyAlike DEF Alike, Posted
  <1>7. Alike(s, k)
    BY <1>5, AlikeSeek
  <1>8. DOMAIN k = Fields
    BY <1>7 DEF Alike
  <1> HIDE DEF k
  <1>9. Alike(s, x)
    BY <1>7, <1>8, AlikeAttempt, AlikeTwice
  <1> HIDE DEF x
  <1>10. Duty(x, done', stop', {p}, FALSE) /\ x.deferred = c.deferred
    BY <1>6, <1>9, DutyAlike DEF Alike, Posted
  <1>11. Duty(y, done', stop', {}, FALSE) /\ y.deferred = x.deferred
    BY ZenonT(60), <1>2, <1>10, DutyClear
  <1>12. Duty(z, done', stop', {}, FALSE) /\ z.deferred = s.deferred
    BY <1>2, <1>6, DutyHalt
  <1> HIDE DEF y, z
  <1>13. CASE p \in c.assigned
    <2>1. Goto(y, "top")
      BY <1>1, <1>13
    <2> QED BY <1>1, <1>3, <1>10, <1>11, <2>1, GotoPause
  <1>14. CASE p \notin c.assigned
    <2>1. Goto(z, "top")
      BY <1>1, <1>14
    <2> QED BY <1>1, <1>3, <1>6, <1>12, <2>1, GotoPause
  <1> QED BY <1>13, <1>14

(* apply_rebalance sets the pauses and the rows anew, or leaves nothing    *)
(* assigned; every task and every completion is now of an earlier          *)
(* assignment.                                                             *)
LEMMA DutyApply ==
  ASSUME NEW W, WorldPassed(W), NEW s \in ClientType, Tables(W, s), HasRebalance(s), MailOK(s),
         NEW D, D \subseteq DoneType, NEW st, Place(s), Crew(s, D)
  PROVE  LET t == ApplyRebalance(s) IN
         DOMAIN t = Fields /\ Duty(t, D, st, {}, FALSE) /\ t.deferred = s.deferred
  <1> DEFINE t == ApplyRebalance(s)
  <1>1. Fit(s) /\ s.epoch \in Nat /\ s.epochs \in Nat /\ s.mailbox \in EventType
    BY FitIs DEF ClientType, Fit
  <1>2. Safe(W, W, s, Partitions)
    BY <1>1 DEF Safe, Standing, Fit
  <1>3. s.mailbox.kind \in {"Assigned", "Revoked", "Error"} /\ s.mailbox.epoch \in Nat
    BY <1>1 DEF HasRebalance, EventType
  <1>4. /\ t \in ClientType
        /\ t.mailbox = NoEvent /\ t.assigned = s.assigned /\ t.deferred = s.deferred
        /\ t.lost = s.lost /\ t.epochs = s.epochs
        /\ \/ /\ s.mailbox.kind = "Error"
              /\ t.epoch = s.epoch /\ Tab(t) = Tab(s) /\ t.workers = s.workers
           \/ /\ t.epoch = s.mailbox.epoch /\ Unsent(t) /\ SameTasks(t.workers, s.workers)
        /\ s.mailbox.kind = "Assigned" =>
             /\ t.rows = HaltedRows(s, s.assigned) \cup (Waiting(t) \X {"retry"})
             /\ \A p \in t.assigned \cap t.paused : \E row \in t.rows : row[1] = p
             /\ t.assignment = s.assigned
    BY <1>2, <1>3, ApplyDoes DEF MailOK, Safe
  <1> HIDE DEF t
  <1>5. Fit(t) /\ NoEvent.kind = "none"
    BY <1>4, FitIs DEF NoEvent
  <1>6. Place(t)
    BY <1>1, <1>3, <1>4, <1>5 DEF Place
  <1>7. Crew(t, D)
    <2>1. CASE t.epoch = s.epoch /\ Tab(t) = Tab(s) /\ t.workers = s.workers
      <3>1. t.pending = s.pending
        BY <2>1 DEF Tab
      <3> QED BY <2>1, <3>1 DEF Crew, Present, Sent
    <2>2. CASE t.epoch = s.mailbox.epoch /\ Unsent(t) /\ SameTasks(t.workers, s.workers)
      <3>1. s.epoch < t.epoch /\ t.epoch \in Nat
        BY <1>3, <2>2 DEF Place
      <3>2. \A w \in t.workers : w.live => w.epoch <= s.epoch /\ w.epoch \in Nat
        <4>1. PICK r \in ClientType : t.workers = {Cancelled(r, w) : w \in s.workers} /\ r.workers = s.workers
          BY <2>2 DEF SameTasks
        <4> SUFFICES ASSUME NEW w \in s.workers, Cancelled(r, w).live
                     PROVE  Cancelled(r, w).epoch <= s.epoch /\ Cancelled(r, w).epoch \in Nat
          BY <4>1
        <4>2. Cancelled(r, w).live = w.live /\ Cancelled(r, w).epoch = w.epoch
          BY <4>1, CancelledIs
        <4>3. w.epoch \in Nat
          BY <1>1 DEF Fit, WorkerType
        <4> QED BY <4>2, <4>3 DEF Crew
      <3>3. \A d \in D : d.epoch <= s.epoch /\ d.epoch \in Nat
        BY DEF Crew, DoneType
      <3>4. Present(t) = {} /\ Sent(t, D) = {}
        BY <1>1, <3>1, <3>2, <3>3 DEF Present, Sent
      <3>5. Jobs(t.pending) = {}
        BY <2>2, Named DEF Unsent, Jobs, NoJob
      <3>6. /\ \A w \in t.workers : w.live => w.epoch <= t.epoch
            /\ \A d \in D : d.epoch <= t.epoch
        BY <1>1, <3>1, <3>2, <3>3
      <3> QED BY <3>4, <3>5, <3>6 DEF Crew
    <2> QED BY <1>4, <2>1, <2>2
  <1>8. Held(t, {}, FALSE)
    <2>1. CASE s.mailbox.kind = "Assigned"
      <3> SUFFICES ASSUME NEW p \in t.assigned PROVE HeldAt(t, p, {}, FALSE)
        BY DEF Held
      <3>1. ASSUME NEW r, <<p, r>> \in t.rows PROVE r = "halt" \/ (r = "retry" /\ p \in Waiting(t))
        BY <1>4, <2>1, <3>1 DEF HaltedRows
      <3>2. ASSUME p \in t.paused PROVE \E r \in Reasons : <<p, r>> \in t.rows
        <4>1. PICK row \in t.rows : row[1] = p
          BY <1>4, <2>1, <3>2
        <4>2. row \in Partitions \X Reasons
          BY <1>5, <4>1 DEF Fit
        <4>3. row = <<p, row[2]>> /\ row[2] \in Reasons
          BY <4>1, <4>2
        <4> QED BY <4>1, <4>3
      <3>3. <<p, "retry">> \in t.rows => t.retries[p].from # Nowhere
        BY <3>1 DEF Waiting
      <3>4. \A r \in {"dlt", "degraded", "envelope", "commit"} : <<p, r>> \notin t.rows
        BY <3>1
      <3> QED BY <3>2, <3>3, <3>4 DEF HeldAt
    <2>2. CASE s.mailbox.kind # "Assigned"
      BY <1>3, <1>4, <2>2 DEF Place, Held
    <2> QED BY <2>1, <2>2
  <1>9. Duty(t, D, st, {}, FALSE) /\ t.deferred = s.deferred /\ DOMAIN t = Fields
    BY <1>4, <1>5, <1>6, <1>7, <1>8 DEF Duty, Fit
  <1> QED BY <1>9 DEF t

(* The polls of the loop.                                                  *)
LEMMA ProcessPause ==
  ASSUME NEW s, NEW p \in Partitions, NEW o, NEW answer, Duty(s, done', stop', {}, FALSE),
         s.deferred => stop', Process(s, p, o, answer)
  PROVE  PauseInv'
  <1> DEFINE t == Observe(s, p, o, answer = "safe")
             x == PublishCommitSnapshot(t)
             u == [x EXCEPT !.attempts[p][o] = 0]
  <1>1. \/ Goto(HaltPartition(s, p), "top") \/ Call(x, "retry", p, o) \/ Call(t, "dead", p, o)
        \/ Call(u, "top", p, o) \/ Goto(u, "top")
    BY DEF Process
  <1>2. DOMAIN s = Fields
    BY DEF Duty, Fit
  <1>3. Alike(s, t)
    BY <1>2, AlikeObserve
  <1>4. DOMAIN t = Fields
    BY <1>3 DEF Alike
  <1> HIDE DEF t
  <1>5. Alike(s, x)
    BY <1>3, <1>4, AlikeSnapshot, AlikeTwice
  <1>6. DOMAIN x = Fields
    BY <1>5 DEF Alike
  <1> HIDE DEF x
  <1>7. Alike(s, u)
    BY <1>5, <1>6, AlikeAttempt, AlikeTwice
  <1> HIDE DEF u
  <1>8. \A v \in {t, x, u} : Duty(v, done', stop', {}, FALSE) /\ (v.deferred => stop')
    <2> SUFFICES ASSUME NEW v, Alike(s, v) PROVE Duty(v, done', stop', {}, FALSE) /\ (v.deferred => stop')
      BY <1>3, <1>5, <1>7
    <2> QED BY DutyAlike DEF Alike, Posted
  <1>9. /\ Duty(t, done', stop', {}, FALSE) /\ (t.deferred => stop')
        /\ Duty(x, done', stop', {}, FALSE) /\ (x.deferred => stop')
        /\ Duty(u, done', stop', {}, FALSE) /\ (u.deferred => stop')
    BY <1>8
  <1>10. CASE Goto(HaltPartition(s, p), "top")
    BY <1>10, HaltPause
  <1>11. CASE Call(x, "retry", p, o)
    BY <1>9, <1>11, CallPause
  <1>12. CASE Call(t, "dead", p, o)
    BY <1>9, <1>12, CallPause
  <1>13. CASE Call(u, "top", p, o)
    BY <1>9, <1>13, CallPause
  <1>14. CASE Goto(u, "top")
    BY <1>9, <1>14, GotoPause
  <1> QED BY <1>1, <1>10, <1>11, <1>12, <1>13, <1>14

LEMMA ExpectedPause ==
  ASSUME NEW s, NEW p \in Partitions, NEW o, NEW answer, Duty(s, done', stop', {}, FALSE),
         s.deferred => stop', Expected(s, p, o, answer)
  PROVE  PauseInv'
  <1> DEFINE t == [s EXCEPT !.expect[p] = Nowhere]
  <1>1. Process(t, p, o, answer) \/ Goto(HaltPartition(s, p), "top")
    BY DEF Expected
  <1>2. Alike(s, t)
    BY AlikeExpectAt DEF Duty, Fit
  <1> HIDE DEF t
  <1>3. Duty(t, done', stop', {}, FALSE) /\ (t.deferred => stop')
    BY <1>2, DutyAlike DEF Alike, Posted
  <1> QED BY <1>1, <1>3, ProcessPause, HaltPause

LEMMA PollMessagePause ==
  ASSUME OffsetInv, PauseInv, NEW p \in Partitions, NEW answer, PollMessage(p, answer)
  PROVE  PauseInv'
  <1> DEFINE o == c.pos[p]
             taken == [c EXCEPT !.pos[p] = @ + 1]
             s == PublishReady(taken)
             t == ApplyRebalance(taken)
             k == Seek(t, p, o)
  <1>1. pc = "poll" /\ Deliverable(p) /\ UNCHANGED <<stop, done>>
    BY DEF PollMessage, caller
  <1>2. \/ HasRebalance(c) /\ (Goto(t, "top") \/ Goto(k, "top"))
        \/ ~HasRebalance(c) /\ \E a : Expected(s, p, o, a)
    BY DEF PollMessage
  <1>3. Duty(c, done, stop, {}, FALSE) /\ (c.deferred => stop) /\ DOMAIN c = Fields
    BY <1>1, FreeIs
  <1>4. /\ WorldPassed(World) /\ c \in ClientType /\ Tables(World, c) /\ MailOK(c) /\ done \subseteq DoneType
    BY RestIs DEF Rest
  <1>5. taken \in ClientType /\ Tables(World, taken)
    BY <1>1, <1>4, TakeDoes, TakeTables DEF Deliverable
  <1>6. Alike(c, taken)
    BY <1>3, AlikePos
  <1> HIDE DEF taken, o
  <1>7. Duty(taken, done, stop, {}, FALSE) /\ taken.deferred = c.deferred /\ DOMAIN taken = Fields
        /\ MailOK(taken) /\ (HasRebalance(taken) <=> HasRebalance(c))
    BY <1>3, <1>4, <1>6, DutyAlike DEF Alike, Posted, MailOK, HasRebalance
  <1>8. CASE HasRebalance(c) /\ (Goto(t, "top") \/ Goto(k, "top"))
    <2>0. Place(taken) /\ Crew(taken, done) /\ HasRebalance(taken)
      BY <1>7, <1>8 DEF Duty
    <2>1. DOMAIN t = Fields /\ Duty(t, done, stop, {}, FALSE) /\ t.deferred = taken.deferred
      BY <1>4, <1>5, <1>7, <2>0, DutyApply
    <2> HIDE DEF t
    <2>2. Alike(t, k)
      BY <2>1, AlikeSeek
    <2> HIDE DEF k
    <2>3. Duty(k, done, stop, {}, FALSE) /\ k.deferred = t.deferred
      BY <2>1, <2>2, DutyAlike DEF Alike, Posted
    <2>4. CASE Goto(t, "top")
      BY <1>1, <1>3, <1>7, <2>1, <2>4, GotoPause
    <2>5. CASE Goto(k, "top")
      BY <1>1, <1>3, <1>7, <2>1, <2>3, <2>5, GotoPause
    <2> QED BY <1>8, <2>4, <2>5
  <1>9. ASSUME NEW a, Expected(s, p, o, a) PROVE PauseInv'
    <2>1. Alike(taken, s)
      BY <1>7, AlikeReady
    <2> HIDE DEF s
    <2>2. Duty(s, done', stop', {}, FALSE) /\ (s.deferred => stop')
      BY <1>1, <1>3, <1>7, <2>1, DutyAlike DEF Alike, Posted
    <2> QED BY <1>9, <2>2, ExpectedPause
  <1> QED BY <1>2, <1>8, <1>9

LEMMA PollNonePause ==
  ASSUME OffsetInv, PauseInv, NEW elapsed, PollNone(elapsed)
  PROVE  PauseInv'
  <1> DEFINE t == ApplyRebalance(c)
             r == PublishReady(c)
             s == IF HasRebalance(c) THEN t ELSE r
  <1>1. pc = "poll" /\ UNCHANGED <<stop, done>> /\ (Call(s, "top", "none", Nowhere) \/ Goto(s, "top"))
    BY DEF PollNone, caller
  <1>2. Duty(c, done, stop, {}, FALSE) /\ (c.deferred => stop) /\ DOMAIN c = Fields
    BY <1>1, FreeIs
  <1>3. /\ WorldPassed(World) /\ c \in ClientType /\ Tables(World, c) /\ MailOK(c) /\ done \subseteq DoneType
        /\ Place(c) /\ Crew(c, done)
    BY <1>2, RestIs DEF Rest, Duty
  <1>4. Duty(s, done, stop, {}, FALSE) /\ s.deferred = c.deferred
    <2>1. CASE HasRebalance(c)
      <3>1. Duty(t, done, stop, {}, FALSE) /\ t.deferred = c.deferred
        BY <1>3, <2>1, DutyApply
      <3> HIDE DEF t
      <3> QED BY <2>1, <3>1
    <2>2. CASE ~HasRebalance(c)
      <3>1. Alike(c, r)
        BY <1>2, AlikeReady
      <3> HIDE DEF r
      <3>2. Duty(r, done, stop, {}, FALSE) /\ r.deferred = c.deferred
        BY <1>2, <3>1, DutyAlike DEF Alike, Posted
      <3> QED BY <2>2, <3>2
    <2> QED BY <2>1, <2>2
  <1> HIDE DEF s
  <1>5. CASE Call(s, "top", "none", Nowhere)
    BY <1>1, <1>2, <1>4, <1>5, CallPause
  <1>6. CASE Goto(s, "top")
    BY <1>1, <1>2, <1>4, <1>6, GotoPause
  <1> QED BY <1>1, <1>5, <1>6

-----------------------------------------------------------------------------
(* The invariant of the pauses holds at first, and every step keeps it.    *)
LEMMA InitPause ==
  ASSUME Init
  PROVE  PauseInv
  <1>1. c = Session({}, NoAttempts, {}) /\ pc = "top" /\ done = {}
    BY DEF Init
  <1>2. /\ c.assigned = {} /\ c.mailbox = NoEvent /\ c.epoch = 0 /\ c.epochs = 0 /\ c.deferred = FALSE
        /\ c.workers = {} /\ c.pending = [p \in Partitions |-> NoJob]
    BY <1>1 DEF Session
  <1>3. NoEvent.kind = "none" /\ Jobs(c.pending) = {}
    BY <1>2, Named DEF NoEvent, NoJob, Jobs
  <1>4. Place(c) /\ \A X, b : Held(c, X, b)
    BY <1>2, <1>3 DEF Place, Held
  <1>5. Crew(c, done)
    BY <1>1, <1>2, <1>3 DEF Crew, Present, Sent
  <1>6. ~InCommit /\ ~Blocked
    BY <1>1 DEF InCommit, Blocked
  <1> QED BY <1>1, <1>2, <1>4, <1>5, <1>6 DEF PauseInv, StopInv

LEMMA OwnerStepPause ==
  ASSUME OffsetInv, PauseInv, OwnerStep
  PROVE  PauseInv'
  <1>1. CASE \E d \in done : Drain(d)
    BY <1>1, DrainPause
  <1>2. CASE Drained
    BY <1>2, DrainedPause
  <1>3. CASE TurnFinishes \/ Turn \/ TurnStops \/ AfterStop
    BY <1>3, TurnsPause
  <1>4. CASE CommitVoid \/ CommitAccepted \/ CommitRefused
    BY <1>4, VoidPause, AcceptedPause, RefusedPause
  <1>5. CASE WaitNone \/ \E p \in Partitions : WaitMessage(p)
    BY <1>5, WaitPause
  <1>6. CASE AfterRetry \/ AfterDead \/ AfterDlt
    BY <1>6, AfterRetryPause, AfterDeadPause, AfterDltPause
  <1>7. CASE MaintainNone \/ \E p \in Partitions : MaintainMessage(p)
    BY <1>7, MaintainPause
  <1>8. CASE \E p \in Partitions, a \in Outcomes \cup {"safe"} : PollMessage(p, a)
    BY <1>8, PollMessagePause
  <1>9. CASE \E elapsed \in BOOLEAN : PollNone(elapsed)
    BY <1>9, PollNonePause
  <1>10. CASE \E kind \in Failures : WaitFails(kind) \/ PollFails(kind) \/ MaintainFails(kind)
    BY <1>10, FailsPause
  <1>11. CASE \E accepted \in BOOLEAN : Exit(accepted)
    BY <1>11, ExitPause
  <1>12. CASE Restart(FALSE) \/ StopWhileDown
    BY <1>12, RestartPause, StopDownPause
  <1> QED BY <1>1, <1>2, <1>3, <1>4, <1>5, <1>6, <1>7, <1>8, <1>9, <1>10, <1>11, <1>12 DEF OwnerStep

LEMMA EnvironmentPause ==
  ASSUME ~Cooperative, OffsetInv, PauseInv, Environment
  PROVE  PauseInv'
  <1>1. CASE \E S \in SUBSET Partitions, lingers \in BOOLEAN : OnAssign(S, lingers)
    BY <1>1, OnAssignPause
  <1>2. CASE OnRevoke \/ OnRevokeLost
    BY <1>2, RevokePause DEF OnRevoke, OnRevokeLost
  <1>3. CASE LoseAssignment \/ OnError
    BY <1>3, LosePause, OnErrorPause
  <1>4. CASE (\E lands \in BOOLEAN : LateCommit(lands)) \/ (\E p \in Partitions : OtherRuns(p))
    BY <1>4, LatePause
  <1>5. CASE \E p \in Partitions : RetryDue(p)
    BY <1>5, RetryDuePause
  <1>6. CASE \E w \in c.workers : WorkerStep(w)
    BY <1>6, WorkerPause
  <1>7. CASE RequestStop \/ Restart(TRUE)
    BY <1>7, RequestPause, RestartPause
  <1> QED BY <1>1, <1>2, <1>3, <1>4, <1>5, <1>6, <1>7 DEF Environment

LEMMA SamePause ==
  ASSUME PauseInv, UNCHANGED vars
  PROVE  PauseInv'
  <1>1. UNCHANGED <<c, pc, frame, done, stop>>
    BY DEF vars, caller
  <1>2. (InCommit' <=> InCommit) /\ Closing' = Closing /\ (Blocked' <=> Blocked) /\ StopInv'
    BY <1>1 DEF InCommit, Closing, Doing, Blocked, StopInv, PauseInv
  <1>3. Held(c, Closing, Blocked) => Held(c', Closing', Blocked')
    BY <1>1, <1>2 DEF Held, HeldAt
  <1> QED BY <1>1, <1>2, <1>3 DEF PauseInv

(* No partition stalls in silence, with eager rebalances: when the loop is *)
(* about to poll and its authority is not in doubt, a paused partition has *)
(* a row that says why, and every row has somebody left who will lift it,  *)
(* for any number of partitions, records, envelopes, attempts and          *)
(* disturbances (cancel_retry_states, drain_dlt_completions,               *)
(* clear_commit_blocked, apply_rebalance).                                 *)
THEOREM PauseHolds == ASSUME ~Cooperative PROVE Spec => []PauseOwned
  <1>1. Init => PauseInv
    BY InitPause
  <1>2. OwnerInv /\ PauseInv /\ [Next]_vars => PauseInv'
    <2> SUFFICES ASSUME OwnerInv, PauseInv, [Next]_vars PROVE PauseInv'
      OBVIOUS
    <2>0. OffsetInv
      BY DEF OwnerInv
    <2>1. CASE OwnerStep
      BY <2>0, <2>1, OwnerStepPause
    <2>2. CASE Environment
      BY <2>0, <2>2, EnvironmentPause
    <2>3. CASE UNCHANGED vars
      BY <2>3, SamePause
    <2> QED BY <2>1, <2>2, <2>3 DEF Next, Terminated
  <1>3. OwnerInv /\ PauseInv => PauseOwned
    <2> SUFFICES ASSUME OffsetInv, PauseInv, pc = "poll", ~Gated(c), ~stop
                 PROVE  /\ \A p \in c.assigned \cap c.paused : \E row \in c.rows : row[1] = p
                        /\ \A row \in c.rows : row[1] \in c.assigned => Owned(row[1], row[2])
      BY DEF OwnerInv, PauseOwned
    <2>1. Held(c, {}, FALSE) /\ Fit(c)
      BY FreeIs DEF Duty
    <2>2. \A p \in c.assigned \cap c.paused : \E row \in c.rows : row[1] = p
      BY <2>1 DEF Held, HeldAt
    <2>3. ASSUME NEW row \in c.rows, row[1] \in c.assigned PROVE Owned(row[1], row[2])
      <3> DEFINE p == row[1]
                 r == row[2]
      <3>1. row \in Partitions \X Reasons
        BY <2>1 DEF Fit
      <3>2. <<p, r>> \in c.rows /\ r \in Reasons
        BY <3>1
      <3>3. HeldAt(c, p, {}, FALSE)
        BY <2>1, <2>3 DEF Held
      <3> HIDE DEF p, r
      <3>4. Owned(p, r)
        BY <3>2, <3>3 DEF HeldAt, Owned, Reasons
      <3> QED BY <3>4 DEF p, r
    <2> QED BY <2>2, <2>3
  <1> QED BY <1>1, <1>2, <1>3, OwnerInvHolds, PTL DEF Spec
=============================================================================
