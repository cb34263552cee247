--------------------------- MODULE SequencedQueue ---------------------------
(***************************************************************************)
(* The multi-producer, single-consumer queue of napart (queue.rs).  A      *)
(* producer first takes a sequence number that is never used again, then   *)
(* publishes a value or a poison in the slot of that number.  The consumer *)
(* advances one number at a time and stops at a slot that is reserved but  *)
(* not yet published.                                                      *)
(*                                                                         *)
(* Every action is one access to shared memory (an atomic load, store or   *)
(* read-modify-write, or a critical section of the segment map's mutex),   *)
(* so producers, closers and the consumer interleave as threads do.        *)
(***************************************************************************)
EXTENDS Integers, FiniteSets, Sequences

CONSTANTS
  Producers,      \* owners of one SequencedSender handle each
  SegmentLen,     \* SEGMENT_LEN
  SequenceLimit,  \* stands for u64::MAX: the sequence number never issued
  MaxOffers       \* bound: reservations one producer attempts

ASSUME QueueAssumption ==
  /\ IsFiniteSet(Producers)
  /\ SegmentLen \in Nat \ {0}
  /\ SequenceLimit \in Nat \ {0}
  /\ MaxOffers \in Nat

VARIABLES
  \* QueueCore
  nextSeq, accepting, inflight, reservations, senders, failed, tail, segments,
  slot,      \* slot[s]: state of the slot of sequence s
  value,     \* value[s]: the payload in that slot, or NoValue
  \* producer threads
  pc, seq, offers,
  \* the receiver: its program counter, its next_sequence, and its locals
  cpc, cursor, seen, tailSeen, result,
  \* history: what was handed out, how often a segment was created, and
  \* whether a drain has returned Ok
  delivered, created, drained

coreVars == <<nextSeq, accepting, inflight, reservations, senders, failed,
              tail, segments, slot, value>>
producerVars == <<pc, seq, offers>>
receiverVars == <<cpc, cursor, seen, tailSeen, result>>
historyVars == <<delivered, created, drained>>
vars == <<coreVars, producerVars, receiverVars, historyVars>>

-----------------------------------------------------------------------------
NoValue == <<>>
Sequence == 0 .. (SequenceLimit - 1)
Base(s) == (s \div SegmentLen) * SegmentLen

SlotState == {"EMPTY", "RESERVED", "WRITING", "PUBLISHED", "POISONED", "TAKEN"}

(* Between enter_producer's increment and the drop of its guard.           *)
SectionPc == {"recheck", "alloc", "cas", "exhausted", "segment", "segmap",
              "mark", "register", "leave", "abort"}
(* A Reservation that has not yet given its responsibility back.           *)
ReservationPc == {"reserved", "writing", "finish"}
ProducerPc == {"unborn", "idle", "entering", "dropping", "gone"}
                \cup SectionPc \cup ReservationPc
ReceiverPc == {"idle", "load", "empty", "closing", "poll", "head",
               "drainload", "drainbound", "drainstep", "drainhead", "gone"}

(* ConsumerPoll and the outcomes of drain_after_producers_stop.            *)
Outcome == {"None", "Empty", "Reserved", "Item", "Poisoned", "Closed",
            "Failed", "Drained", "ProducersActive"}

InSection == {p \in Producers : pc[p] \in SectionPc}

(* Types of the queue, its producers and its receiver; the counters of the *)
(* section and of the reservations (enter_producer, finish_reservation)    *)
(* never go below zero.                                                    *)
TypeOK ==
  /\ nextSeq \in 0 .. SequenceLimit
  /\ accepting \in BOOLEAN /\ failed \in BOOLEAN /\ drained \in BOOLEAN
  /\ inflight \in Nat /\ reservations \in Nat /\ senders \in Nat
  /\ tail \in Nat /\ segments \subseteq Nat
  /\ slot \in [Sequence -> SlotState]
  /\ value \in [Sequence -> {NoValue} \cup (Producers \X Nat)]
  /\ pc \in [Producers -> ProducerPc]
  /\ seq \in [Producers -> Sequence]
  /\ offers \in [Producers -> Nat]
  /\ cpc \in ReceiverPc
  /\ cursor \in 0 .. SequenceLimit /\ seen \in 0 .. SequenceLimit
  /\ tailSeen \in Nat
  /\ result \in Outcome
  /\ delivered \in Seq(Sequence \X (Producers \X Nat))
  /\ created \in [Sequence -> Nat]

(* channel(): one sender, one receiver, the first segment, sequence zero.  *)
Init ==
  /\ nextSeq = 0 /\ accepting = TRUE /\ failed = FALSE
  /\ inflight = 0 /\ reservations = 0 /\ senders = 1
  /\ tail = 0 /\ segments = {0}
  /\ slot = [s \in Sequence |-> "EMPTY"]
  /\ value = [s \in Sequence |-> NoValue]
  /\ \E p \in Producers :
       pc = [q \in Producers |-> IF q = p THEN "idle" ELSE "unborn"]
  /\ seq = [p \in Producers |-> 0]
  /\ offers = [p \in Producers |-> 0]
  /\ cpc = "idle" /\ cursor = 0 /\ seen = 0 /\ tailSeen = 0 /\ result = "None"
  /\ delivered = <<>>
  /\ created = [s \in Sequence |-> IF s = 0 THEN 1 ELSE 0]
  /\ drained = FALSE

Goto(p, from, to) ==
  /\ pc[p] = from
  /\ pc' = [pc EXCEPT ![p] = to]

(* QueueCore::fail, called where an internal check does not hold.          *)
FailUnless(ok) ==
  /\ failed' = (failed \/ ~ok)
  /\ accepting' = (accepting /\ ok)

-----------------------------------------------------------------------------
(* Sender handles.                                                         *)

(* SequencedSender::clone                                                  *)
CloneSender(p, q) ==
  /\ pc[p] = "idle"
  /\ Goto(q, "unborn", "idle")
  /\ senders' = senders + 1
  /\ UNCHANGED <<nextSeq, accepting, inflight, reservations, failed, tail,
                 segments, slot, value, seq, offers, receiverVars, historyVars>>

(* SequencedSender::drop: the last sender to leave closes the queue, in a  *)
(* second atomic store.                                                    *)
DropSender(p) ==
  /\ Goto(p, "idle", IF senders = 1 THEN "dropping" ELSE "gone")
  /\ senders' = senders - 1
  /\ UNCHANGED <<nextSeq, accepting, inflight, reservations, failed, tail,
                 segments, slot, value, seq, offers, receiverVars, historyVars>>

DropLastSender(p) ==
  /\ Goto(p, "dropping", "gone")
  /\ accepting' = FALSE
  /\ UNCHANGED <<nextSeq, inflight, reservations, senders, failed, tail,
                 segments, slot, value, seq, offers, receiverVars, historyVars>>

(* SequencedSender::close and SequencedReceiver::close                     *)
Close ==
  /\ \/ \E p \in Producers : pc[p] = "idle"
     \/ cpc = "idle"
  /\ accepting' = FALSE
  /\ UNCHANGED <<nextSeq, inflight, reservations, senders, failed, tail,
                 segments, slot, value, producerVars, receiverVars, historyVars>>

-----------------------------------------------------------------------------
(* SequencedSender::reserve, with QueueCore::enter_producer,               *)
(* allocate_sequence, segment_for_producer and register_reservation.       *)

(* The first check of accepting.  A refusal leaves no trace.               *)
Enter(p) ==
  /\ offers[p] < MaxOffers
  /\ accepting
  /\ Goto(p, "idle", "entering")
  /\ offers' = [offers EXCEPT ![p] = @ + 1]
  /\ UNCHANGED <<coreVars, seq, receiverVars, historyVars>>

EnterCount(p) ==
  /\ Goto(p, "entering", "recheck")
  /\ inflight' = inflight + 1
  /\ UNCHANGED <<nextSeq, accepting, reservations, senders, failed, tail,
                 segments, slot, value, seq, offers, receiverVars, historyVars>>

(* Mutant: the refusal gives the count back and drops a section guard too. *)
EnterRecheckTwice(p) ==
  /\ Goto(p, "recheck", IF accepting THEN "alloc" ELSE "abort")
  /\ inflight' = IF accepting THEN inflight ELSE inflight - 1
  /\ UNCHANGED <<nextSeq, accepting, reservations, senders, failed, tail,
                 segments, slot, value, seq, offers, receiverVars, historyVars>>

EnterRecheck(p) ==
  /\ Goto(p, "recheck", IF accepting THEN "alloc" ELSE "abort")
  /\ UNCHANGED <<coreVars, seq, offers, receiverVars, historyVars>>

AllocCheck(p) ==
  /\ Goto(p, "alloc", IF failed \/ ~accepting THEN "abort" ELSE "cas")
  /\ UNCHANGED <<coreVars, seq, offers, receiverVars, historyVars>>

(* The compare-and-swap that lost its race, or failed spuriously.          *)
AllocRetry(p) ==
  /\ Goto(p, "cas", "alloc")
  /\ UNCHANGED <<coreVars, seq, offers, receiverVars, historyVars>>

AllocExhausted(p) ==
  /\ nextSeq = SequenceLimit
  /\ Goto(p, "cas", "exhausted")
  /\ failed' = TRUE
  /\ UNCHANGED <<nextSeq, accepting, inflight, reservations, senders, tail,
                 segments, slot, value, seq, offers, receiverVars, historyVars>>

AllocExhaustedClose(p) ==
  /\ Goto(p, "exhausted", "abort")
  /\ accepting' = FALSE
  /\ UNCHANGED <<nextSeq, inflight, reservations, senders, failed, tail,
                 segments, slot, value, seq, offers, receiverVars, historyVars>>

AllocCas(p) ==
  /\ nextSeq < SequenceLimit
  /\ Goto(p, "cas", "segment")
  /\ seq' = [seq EXCEPT ![p] = nextSeq]
  /\ nextSeq' = nextSeq + 1
  /\ UNCHANGED <<accepting, inflight, reservations, senders, failed, tail,
                 segments, slot, value, offers, receiverVars, historyVars>>

SegmentTail(p) ==
  /\ Goto(p, "segment", IF tail = Base(seq[p]) THEN "mark" ELSE "segmap")
  /\ UNCHANGED <<coreVars, seq, offers, receiverVars, historyVars>>

SegmentMap(p) ==
  LET base == Base(seq[p]) IN
  /\ Goto(p, "segmap", "mark")
  /\ IF base \in segments
     THEN UNCHANGED <<segments, tail, created>>
     ELSE /\ segments' = segments \cup {base}
          /\ tail' = IF base > tail THEN base ELSE tail
          /\ created' = [created EXCEPT ![base] = @ + 1]
  /\ UNCHANGED <<nextSeq, accepting, inflight, reservations, senders, failed,
                 slot, value, seq, offers, receiverVars, delivered, drained>>

MarkReserved(p) ==
  LET ok == slot[seq[p]] = "EMPTY" IN
  /\ Goto(p, "mark", IF ok THEN "register" ELSE "abort")
  /\ slot' = IF ok THEN [slot EXCEPT ![seq[p]] = "RESERVED"] ELSE slot
  /\ FailUnless(ok)
  /\ UNCHANGED <<nextSeq, inflight, reservations, senders, tail, segments,
                 value, seq, offers, receiverVars, historyVars>>

RegisterReservation(p) ==
  /\ Goto(p, "register", "leave")
  /\ reservations' = reservations + 1
  /\ UNCHANGED <<nextSeq, accepting, inflight, senders, failed, tail, segments,
                 slot, value, seq, offers, receiverVars, historyVars>>

(* ProducerSection::drop, on success and on every early return.            *)
LeaveSection(p) ==
  /\ \/ Goto(p, "leave", "reserved")
     \/ Goto(p, "abort", "idle")
  /\ inflight' = inflight - 1
  /\ UNCHANGED <<nextSeq, accepting, reservations, senders, failed, tail,
                 segments, slot, value, seq, offers, receiverVars, historyVars>>

-----------------------------------------------------------------------------
(* Reservation::publish and Reservation::drop.                             *)

(* Mutant: the reservation is given back before the value is published.    *)
PublishReleasesFirst(p) ==
  /\ Goto(p, "reserved", "writing")
  /\ slot' = [slot EXCEPT ![seq[p]] = "WRITING"]
  /\ reservations' = reservations - 1
  /\ UNCHANGED <<nextSeq, accepting, inflight, senders, failed, tail, segments,
                 value, seq, offers, receiverVars, historyVars>>

PublishBegin(p) ==
  LET ok == slot[seq[p]] = "RESERVED" IN
  /\ Goto(p, "reserved", IF ok THEN "writing" ELSE "finish")
  /\ slot' = IF ok THEN [slot EXCEPT ![seq[p]] = "WRITING"] ELSE slot
  /\ FailUnless(ok)
  /\ UNCHANGED <<nextSeq, inflight, reservations, senders, tail, segments,
                 value, seq, offers, receiverVars, historyVars>>

PublishEnd(p) ==
  /\ Goto(p, "writing", "finish")
  /\ value' = [value EXCEPT ![seq[p]] = <<p, offers[p]>>]
  /\ slot' = [slot EXCEPT ![seq[p]] = "PUBLISHED"]
  /\ UNCHANGED <<nextSeq, accepting, inflight, reservations, senders, failed,
                 tail, segments, seq, offers, receiverVars, historyVars>>

(* Mutant: an abandoned reservation leaves its slot reserved.              *)
DropForgetsPoison(p) ==
  /\ Goto(p, "reserved", "finish")
  /\ UNCHANGED <<coreVars, seq, offers, receiverVars, historyVars>>

DropReservation(p) ==
  LET ok == slot[seq[p]] = "RESERVED" IN
  /\ Goto(p, "reserved", "finish")
  /\ slot' = IF ok THEN [slot EXCEPT ![seq[p]] = "POISONED"] ELSE slot
  /\ FailUnless(ok)
  /\ UNCHANGED <<nextSeq, inflight, reservations, senders, tail, segments,
                 value, seq, offers, receiverVars, historyVars>>

(* finish_reservation: a count that is already zero fails the queue.       *)
FinishReservation(p) ==
  LET ok == reservations > 0 IN
  /\ Goto(p, "finish", "idle")
  /\ reservations' = IF ok THEN reservations - 1 ELSE reservations
  /\ FailUnless(ok)
  /\ UNCHANGED <<nextSeq, inflight, senders, tail, segments, slot, value, seq,
                 offers, receiverVars, historyVars>>

-----------------------------------------------------------------------------
(* SequencedReceiver::try_recv                                             *)

ReceiverGoto(from, to) == cpc = from /\ cpc' = to

PollBegin ==
  /\ ReceiverGoto("idle", IF failed THEN "idle" ELSE "load")
  /\ result' = IF failed THEN "Failed" ELSE "None"
  /\ UNCHANGED <<coreVars, producerVars, cursor, seen, tailSeen, historyVars>>

PollLoad ==
  /\ ReceiverGoto("load", IF cursor >= nextSeq THEN "empty" ELSE "poll")
  /\ seen' = nextSeq
  /\ UNCHANGED <<coreVars, producerVars, cursor, tailSeen, result, historyVars>>

PollEmpty ==
  /\ ReceiverGoto("empty", IF accepting THEN "idle" ELSE "closing")
  /\ result' = IF accepting THEN "Empty" ELSE result
  /\ UNCHANGED <<coreVars, producerVars, cursor, seen, tailSeen, historyVars>>

PollClosing ==
  /\ ReceiverGoto("closing", "idle")
  /\ result' = IF inflight > 0 THEN "Reserved" ELSE "Closed"
  /\ UNCHANGED <<coreVars, producerVars, cursor, seen, tailSeen, historyVars>>

(* reclaim_before loads the tail, then retains under the mutex.            *)
ReclaimLoad ==
  /\ \/ ReceiverGoto("poll", "head")
     \/ cursor < seen /\ ReceiverGoto("drainstep", "drainhead")
  /\ tailSeen' = tail
  /\ UNCHANGED <<coreVars, producerVars, cursor, seen, result, historyVars>>

(* reclaim_before(sequence), its tail loaded as t.                         *)
\* Mutant: reclaims up to the number behind the one about to be read.
ReclaimedAtHead(t) ==
  IF (cursor + 1) % SegmentLen # 0
  THEN segments
  ELSE {b \in segments : b >= cursor + 1 \/ b = t}

Reclaimed(t) ==
  IF cursor = 0 \/ cursor % SegmentLen # 0
  THEN segments
  ELSE {b \in segments : b >= cursor \/ b = t}

SegmentVisible == tail = Base(cursor) \/ Base(cursor) \in Reclaimed(tailSeen)

(* The match on the state of the head slot, the same in try_recv and in    *)
(* the drain loop.                                                         *)
\* Mutant: the consumer steps over a slot that is not yet published.
MatchHeadSkipping ==
  LET state == IF SegmentVisible THEN slot[cursor] ELSE "EMPTY"
      item == state = "PUBLISHED"
  IN
  /\ segments' = Reclaimed(tailSeen)
  /\ delivered' = IF item THEN Append(delivered, <<cursor, value[cursor]>>)
                          ELSE delivered
  /\ value' = IF item THEN [value EXCEPT ![cursor] = NoValue] ELSE value
  /\ slot' = IF item THEN [slot EXCEPT ![cursor] = "TAKEN"] ELSE slot
  /\ cursor' = cursor + 1
  /\ result' = IF item THEN "Item" ELSE "Poisoned"
  /\ UNCHANGED <<failed, accepting>>

MatchHead ==
  LET state == IF SegmentVisible THEN slot[cursor] ELSE "EMPTY"
      item == state = "PUBLISHED" /\ value[cursor] # NoValue
      taken == item \/ state = "POISONED"
      reserved == state \in {"EMPTY", "RESERVED", "WRITING"}
  IN
  /\ segments' = Reclaimed(tailSeen)
  /\ delivered' = IF item THEN Append(delivered, <<cursor, value[cursor]>>)
                          ELSE delivered
  /\ value' = IF item THEN [value EXCEPT ![cursor] = NoValue] ELSE value
  /\ slot' = IF taken THEN [slot EXCEPT ![cursor] = "TAKEN"] ELSE slot
  /\ cursor' = IF taken THEN cursor + 1 ELSE cursor
  /\ result' = CASE item -> "Item"
                 [] state = "POISONED" -> "Poisoned"
                 [] reserved -> "Reserved"
                 [] OTHER -> "Failed"
  /\ FailUnless(taken \/ reserved)

PollHead ==
  /\ ReceiverGoto("head", "idle")
  /\ MatchHead
  /\ UNCHANGED <<nextSeq, inflight, reservations, senders, tail, producerVars,
                 seen, tailSeen, created, drained>>

-----------------------------------------------------------------------------
(* SequencedReceiver::drain_after_producers_stop                           *)

DrainBegin ==
  /\ ReceiverGoto("idle", "drainload")
  /\ accepting' = FALSE
  /\ result' = "None"
  /\ UNCHANGED <<nextSeq, inflight, reservations, senders, failed, tail,
                 segments, slot, value, producerVars, cursor, seen, tailSeen,
                 historyVars>>

(* Mutant: the drain waits for reservations and not for the section.       *)
DrainLoadReservations ==
  LET ok == reservations = 0 IN
  /\ ReceiverGoto("drainload", IF ok THEN "drainbound" ELSE "idle")
  /\ result' = IF ok THEN result ELSE "ProducersActive"
  /\ UNCHANGED <<coreVars, producerVars, cursor, seen, tailSeen, historyVars>>

DrainLoad ==
  LET ok == inflight = 0 IN
  /\ ReceiverGoto("drainload", IF ok THEN "drainbound" ELSE "idle")
  /\ result' = IF ok THEN result ELSE "ProducersActive"
  /\ UNCHANGED <<coreVars, producerVars, cursor, seen, tailSeen, historyVars>>

DrainBoundary ==
  /\ ReceiverGoto("drainbound", "drainstep")
  /\ seen' = nextSeq
  /\ UNCHANGED <<coreVars, producerVars, cursor, tailSeen, result, historyVars>>

DrainHead ==
  /\ cpc = "drainhead"
  /\ MatchHead
  /\ ReceiverGoto("drainhead",
                  IF result' \in {"Item", "Poisoned"} THEN "drainstep" ELSE "idle")
  /\ UNCHANGED <<nextSeq, inflight, reservations, senders, tail, producerVars,
                 seen, tailSeen, created, drained>>

(* The loop ends at the boundary; the last reclaim is part of the return.  *)
DrainDone ==
  /\ cursor >= seen
  /\ ReceiverGoto("drainstep", "idle")
  /\ segments' = Reclaimed(tail)
  /\ result' = "Drained"
  /\ drained' = TRUE
  /\ UNCHANGED <<nextSeq, accepting, inflight, reservations, senders, failed,
                 tail, slot, value, producerVars, cursor, seen, tailSeen,
                 delivered, created>>

(* SequencedReceiver::drop                                                 *)
DropReceiver ==
  /\ ReceiverGoto("idle", "gone")
  /\ accepting' = FALSE
  /\ UNCHANGED <<nextSeq, inflight, reservations, senders, failed, tail,
                 segments, slot, value, producerVars, cursor, seen, tailSeen,
                 result, historyVars>>

-----------------------------------------------------------------------------
ReserveStep(p) ==
  \/ EnterCount(p) \/ EnterRecheck(p) \/ AllocCheck(p) \/ AllocRetry(p)
  \/ AllocExhausted(p) \/ AllocExhaustedClose(p) \/ AllocCas(p)
  \/ SegmentTail(p) \/ SegmentMap(p) \/ MarkReserved(p) \/ RegisterReservation(p)
  \/ LeaveSection(p)

PublishStep(p) ==
  PublishBegin(p) \/ PublishEnd(p) \/ DropReservation(p) \/ FinishReservation(p)

ProducerStep(p) ==
  \/ Enter(p) \/ ReserveStep(p) \/ PublishStep(p)
  \/ DropSender(p) \/ DropLastSender(p)
  \/ \E q \in Producers : CloneSender(p, q)

PollStep == PollBegin \/ PollLoad \/ PollEmpty \/ PollClosing \/ PollHead
DrainStep == DrainBegin \/ DrainLoad \/ DrainBoundary \/ DrainHead \/ DrainDone
ReceiverStep == PollStep \/ ReclaimLoad \/ DrainStep \/ DropReceiver

Next == (\E p \in Producers : ProducerStep(p)) \/ Close \/ ReceiverStep

Spec == Init /\ [][Next]_vars

(* Straight-line code of a reservation runs to its end, a reservation is    *)
(* published or dropped (RAII), and the worker keeps polling its queue.     *)
FairSpec ==
  /\ Spec
  /\ \A p \in Producers : WF_vars(ReserveStep(p)) /\ WF_vars(PublishStep(p))
  /\ WF_vars(ReceiverStep)

-----------------------------------------------------------------------------
(* Items come out in sequence order, each once, and two items of one       *)
(* producer in the order it offered them; the consumer passes no slot whose *)
(* producer has not published or poisoned it (try_recv stops at a reserved *)
(* head).                                                                  *)
FifoExactlyOnce ==
  /\ \A i, j \in DOMAIN delivered :
       i < j => /\ delivered[i][1] < delivered[j][1]
                /\ delivered[i][2][1] = delivered[j][2][1] =>
                     delivered[i][2][2] < delivered[j][2][2]
  /\ \A s \in Sequence : (s < cursor) <=> (slot[s] = "TAKEN")

(* Once drain_after_producers_stop has returned Ok, nothing is left in the *)
(* queue and nothing ever enters it: a producer that was past the first    *)
(* check of enter_producer when the door closed is either counted by       *)
(* producer_inflight or turned away by the second check.                   *)
DrainIsFinal == drained => cursor = nextSeq

(* What the tunnels rely on when they freeze a boundary: on a closed queue *)
(* with no producer in the section and no reservation outstanding, every   *)
(* issued number is published, poisoned or consumed.                       *)
StoppedMeansSettled ==
  (~accepting /\ inflight = 0 /\ reservations = 0) =>
    \A s \in Sequence :
      s < nextSeq => slot[s] \in {"PUBLISHED", "POISONED", "TAKEN"}

(* reclaim_before never drops a segment a producer or the consumer still    *)
(* needs: no base is ever created twice (a second segment would split its  *)
(* slots), and the segment of a slot that was reserved and not yet taken   *)
(* can be found.                                                           *)
SegmentsIntact ==
  \A s \in Sequence :
    /\ created[s] <= 1
    /\ slot[s] \notin {"EMPTY", "TAKEN"} =>
         Base(s) = tail \/ Base(s) \in segments

(* The comment on ConsumerPoll::Closed: the queue is closed and every      *)
(* reserved number has been handled.                                       *)
ClosedMeansConsumed == result = "Closed" => cursor = nextSeq

(* Once closed, the queue is emptied: every number issued before the door   *)
(* closed reaches the consumer, unless the receiver itself goes away.      *)
ClosedQueueEmpties == ~accepting ~> (cursor = nextSeq \/ failed \/ cpc = "gone")
=============================================================================
