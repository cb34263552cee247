----------------------------- MODULE PollOwner -----------------------------
(***************************************************************************)
(* The owner thread of a Kafka consumer slot (nafka), for a group of       *)
(* passthrough routes that subscribes to its topics: one loop that drains  *)
(* dead-letter completions, wakes partitions from their backoff, takes     *)
(* commands, admits dead letters, polls, runs the handler on one record    *)
(* and commits the safe prefix.                                            *)
(*                                                                         *)
(* The loop is sequential.  Around it run: the rebalance callbacks, which  *)
(* librdkafka calls from within a poll, wherever that poll is; the tasks   *)
(* that deliver dead letters; other members of the group, which take over  *)
(* what this one loses; a revoke commit that timed out and lands later;    *)
(* and the caller who stops the group.                                     *)
(*                                                                         *)
(* The loop's tables and the client's state are one record, c, because a   *)
(* handler is a chain of changes to both.  pc names the point of the loop; *)
(* commit_until_resolved is a subroutine, and frame says what its caller   *)
(* does next.                                                              *)
(*                                                                         *)
(* Abstractions.                                                           *)
(*  - The capacities of the input ledger, of the retry table and of the    *)
(*    progress table are above what the records here can fill; the         *)
(*    envelopes of the dead-letter dispatcher are not.                     *)
(*  - A seek fails exactly when the client does not hold the partition; a  *)
(*    pause or a resume never fails.  A pause may outlive the assignment.  *)
(*  - The broker accepts a commit from any member whose assignment is not  *)
(*    lost, whatever partition it names.                                   *)
(*  - Stop is the only command.  The group's state is its exit: crash,     *)
(*    transient or stop.                                                   *)
(***************************************************************************)
EXTENDS Integers, Sequences, FiniteSets, FiniteSetsExt

CONSTANTS
    Partitions,    \* the partitions of the subscribed topics
    Records,       \* how many records each partition holds, from offset 0 on
    CommitBatch,   \* behavior.commit_batch_records
    MaxAttempts,   \* behavior.max_consume_attempts
    Envelopes,     \* the dispatcher's job capacity
    Requirements,  \* the values of behavior.dead_letter_required
    Outcomes,      \* what a handler may answer
    Kinds,         \* what may disturb the loop: failing commits, sends and polls,
                   \* revokes, lost assignments, rebalance errors, a Stop
    Cooperative,   \* a callback may take or give a part of the assignment
    Disturbances   \* bound: how often something disturbs the loop

ASSUME PollOwnerAssumption ==
    /\ Records \in [Partitions -> Nat]
    /\ {CommitBatch, MaxAttempts, Envelopes} \subseteq Nat \ {0}
    /\ Disturbances \in Nat
    /\ Requirements \subseteq BOOLEAN
    /\ Outcomes \subseteq {"safe", "retry", "dead", "halt"}
    /\ Kinds \subseteq {"commit", "send", "poll", "Revoked", "lost", "Error", "Stop"}
    /\ Cooperative \in BOOLEAN

VARIABLES
    c,          \* the client and the loop's tables
    pc,         \* where the loop is
    frame,      \* the open call of commit_until_resolved, or how the session ends
    committed,  \* broker: the group's next offset of each partition
    settled,    \* world: records handled, or accepted by the dead-letter topic
    waived,     \* world: records skipped in availability-first mode
    done,       \* completions of dead letters, not yet drained
    command,    \* the caller's Stop
    stop,       \* stop_requested
    required,   \* behavior.dead_letter_required
    left        \* how many disturbances are still to come

world == <<committed, settled, waived>>
caller == <<command, stop>>
vars == <<c, pc, frame, world, done, caller, required, left>>

Offsets == UNION {0 .. Records[p] - 1 : p \in Partitions}

Nowhere == -1

NoOffsets == [p \in Partitions |-> Nowhere]

NoEvent == [kind |-> "none", parts |-> {}, epoch |-> 0, committed |-> NoOffsets]

NoJob == [offset |-> Nowhere, epoch |-> 0]

NoRetry == [from |-> Nowhere, due |-> FALSE]

NoFrame == [cont |-> "top", tp |-> "none", offset |-> Nowhere,
            blocked |-> FALSE, discarded |-> NoOffsets]

Calling(k, p, o) == [NoFrame EXCEPT !.cont = k, !.tp = p, !.offset = o]

\* run_owner_session: a fresh client and fresh tables.  The pause rows of the
\* health snapshot, the attempts and the tasks outlive a session.
FreshPartition == [base |-> Nowhere, epoch |-> 0, seen |-> <<>>]

Session(rows, attempts, workers) ==
    [assigned |-> {}, paused |-> {}, pos |-> [p \in Partitions |-> 0], lost |-> FALSE,
     snapshot |-> NoOffsets, mailbox |-> NoEvent, epochs |-> 0,
     late |-> NoOffsets, busy |-> FALSE,
     assignment |-> {}, epoch |-> 0, ready |-> "no",
     progress |-> [p \in Partitions |-> FreshPartition], rows |-> rows,
     attempts |-> attempts, retries |-> [p \in Partitions |-> NoRetry],
     pending |-> [p \in Partitions |-> NoJob], admission |-> [p \in Partitions |-> NoJob],
     intent |-> {}, expect |-> NoOffsets, deferred |-> FALSE, workers |-> workers]

NoAttempts == [p \in Partitions |-> [o \in Offsets |-> 0]]

Init ==
    /\ c = Session({}, NoAttempts, {}) /\ pc = "top" /\ frame = NoFrame
    /\ committed = [p \in Partitions |-> 0] /\ settled = {} /\ waived = {}
    /\ done = {} /\ command = "none" /\ stop = FALSE
    /\ required \in Requirements
    /\ left = Disturbances

Disturb(kind) == kind \in Kinds /\ left > 0 /\ left' = left - 1

(***************************************************************************)
(* GroupOffsetState.  base is the confirmed next offset, or the first      *)
(* offset seen where none is confirmed; Nowhere: the partition has no      *)
(* entry.                                                                  *)
(***************************************************************************)
\* Mutant of FrontierOf: the frontier passes a record that is not safe.
FrontierLast(seen) == seen[Len(seen)].offset + 1

FrontierOf(seen) ==
    LET unsafe == {i \in DOMAIN seen : ~seen[i].safe}
    IN  IF unsafe = {} THEN seen[Len(seen)].offset + 1 ELSE seen[Min(unsafe)].offset

CommittableNext(e) ==
    IF e.seen = <<>> \/ FrontierOf(e.seen) <= e.base THEN Nowhere ELSE FrontierOf(e.seen)

CommittableOffsets(s) == [p \in Partitions |-> CommittableNext(s.progress[p])]

ObservedTotal(s) == MapThenSumSet(LAMBDA p : Len(s.progress[p].seen), Partitions)

\* observe: another epoch, or an offset that does not increase, is refused.
ObserveFails(s, p, o) ==
    LET e == s.progress[p]
    IN  e.seen # <<>> /\ (e.epoch # s.epoch \/ o <= e.seen[Len(e.seen)].offset)

Observe(s, p, o, safe) ==
    [s EXCEPT !.progress[p] = [base |-> IF @.base = Nowhere THEN o ELSE @.base,
                               epoch |-> s.epoch,
                               seen |-> Append(@.seen, [offset |-> o, safe |-> safe])]]

\* confirm_committed: all partitions or none.  Offsets increase along seen, so
\* what retain leaves of it is a suffix.
Retained(seen, n) ==
    LET kept == {i \in DOMAIN seen : seen[i].offset >= n}
    IN  IF kept = {} THEN <<>> ELSE SubSeq(seen, Min(kept), Len(seen))

ConfirmCommitted(s, at) ==
    LET named == {p \in Partitions : at[p] # Nowhere}
        Confirmed(e, n) == [e EXCEPT !.base = n, !.seen = Retained(@, n)]
    IN  IF \A p \in named : CommittableNext(s.progress[p]) = at[p]
        THEN [s EXCEPT !.progress = [p \in Partitions |->
                 IF p \in named THEN Confirmed(@[p], at[p]) ELSE @[p]]]
        ELSE s

ResetPartitions(s, S) ==
    [s EXCEPT !.progress = [p \in Partitions |->
        IF p \in S THEN [@[p] EXCEPT !.seen = <<>>, !.epoch = 0] ELSE @[p]]]

ResetForAssignment(s, S) ==
    [ResetPartitions(s, S) EXCEPT !.progress = [p \in Partitions |->
        IF p \in S THEN @[p] ELSE FreshPartition]]

ClearProgress(s) == [s EXCEPT !.progress = [p \in Partitions |-> FreshPartition]]

PublishCommitSnapshot(s) == [s EXCEPT !.snapshot = CommittableOffsets(s)]

(***************************************************************************)
(* The client, and the pause rows of the health snapshot.                  *)
(***************************************************************************)
HasRebalance(s) == s.mailbox.kind # "none"

Gated(s) == HasRebalance(s) \/ s.lost

Pause(s, S) == [s EXCEPT !.paused = @ \cup S]

Resume(s, S) == [s EXCEPT !.paused = @ \ S]

\* rewind_offsets: every partition that the client holds.
Rewind(s, at) ==
    [s EXCEPT !.pos = [p \in Partitions |->
        IF p \in s.assigned /\ at[p] # Nowhere THEN at[p] ELSE @[p]]]

Seek(s, p, o) == Rewind(s, [NoOffsets EXCEPT ![p] = o])

AddPauseReason(s, S, r) == [s EXCEPT !.rows = @ \cup (S \X {r})]

DropRows(s, S, rs) == [s EXCEPT !.rows = @ \ (S \X rs)]

Unblocked(s, S) == {p \in S : \A row \in s.rows : row[1] # p}

\* clear_pause_reason, and the resume of what no row holds any more.
ClearAndResume(s, S, rs) ==
    LET t == DropRows(s, S, rs) IN Resume(t, Unblocked(t, S))

HaltPartition(s, p) ==
    [Pause(s, {p}) EXCEPT !.rows = {row \in @ : row[1] # p} \cup {<<p, "halt">>}]

\* RecordLedger::clear: intents and expected positions.
ClearRecords(s, S) ==
    [s EXCEPT !.intent = {x \in @ : x[1] \notin S},
              !.expect = [p \in Partitions |-> IF p \in S THEN Nowhere ELSE @[p]]]

Jobs(f) == {p \in Partitions : f[p].offset # Nowhere}

Outstanding(s) == Jobs(s.pending) \cup Jobs(s.admission) # {}

CancelPending(s) ==
    [s EXCEPT !.workers = {[w EXCEPT !.cancel = @ \/ /\ w.live
                                                     /\ s.pending[w.tp].offset = w.offset
                                                     /\ s.pending[w.tp].epoch = w.epoch]
                           : w \in @},
              !.pending = [p \in Partitions |-> NoJob]]

(***************************************************************************)
(* Rebalance callbacks, within a poll.  The mailbox holds one event: a     *)
(* later callback overwrites an earlier one.                               *)
(***************************************************************************)
Polling == pc \in {"poll", "maintain", "wait"}

Publish(s, kind, parts, at) ==
    [s EXCEPT !.epochs = @ + 1,
              !.mailbox = [kind |-> kind, parts |-> parts, epoch |-> s.epochs + 1,
                           committed |-> at]]

\* The client starts at the committed offsets and may keep old pauses
\* (external); the event names the whole assignment.
OnAssign(S, lingers) ==
    /\ Polling /\ S # {} /\ S \cap c.assigned = {} /\ ~c.lost
    /\ Cooperative \/ c.assigned = {}
    /\ LET t == [c EXCEPT !.assigned = @ \cup S, !.late = NoOffsets,
                           !.paused = IF lingers THEN @ ELSE @ \ S]
       IN  c' = Publish(Rewind(t, [p \in Partitions |-> IF p \in S THEN committed[p] ELSE Nowhere]),
                        "Assigned", t.assigned, NoOffsets)
    /\ UNCHANGED <<pc, frame, world, done, caller, left, required>>

\* select_revoke_offsets: nothing, when the assignment is already lost.
RevokeOffsets(R) ==
    [p \in Partitions |-> IF p \in R /\ ~c.lost THEN c.snapshot[p] ELSE Nowhere]

\* pre_rebalance and post_rebalance of a revoke.  The commit is accepted,
\* fails, or outlives its budget; one that is still out makes the next fail.
Revoke(R, outcome) ==
    LET at == RevokeOffsets(R)
        sent == at # NoOffsets /\ ~c.busy
    IN  /\ Polling /\ R # {} /\ R \subseteq c.assigned
        /\ Cooperative \/ R = c.assigned
        /\ outcome # "failed" => sent
        /\ committed' = IF outcome = "committed"
                        THEN [p \in Partitions |-> IF at[p] = Nowhere THEN committed[p] ELSE at[p]]
                        ELSE committed
        /\ c' = Publish([c EXCEPT !.assigned = @ \ R, !.lost = FALSE,
                                  !.late = IF outcome = "late" THEN at ELSE @,
                                  !.busy = @ \/ outcome = "late"],
                        "Revoked", R, IF outcome = "committed" THEN at ELSE NoOffsets)
        /\ UNCHANGED <<pc, frame, settled, waived, done, caller, required>>

OnRevoke ==
    /\ ~c.lost /\ Disturb("Revoked")
    /\ \E R \in SUBSET c.assigned, outcome \in {"committed", "failed", "late"} : Revoke(R, outcome)

\* The heartbeat thread finds the membership gone; a revoke follows.
LoseAssignment ==
    /\ c.assigned # {} /\ ~c.lost /\ Disturb("lost")
    /\ c' = [c EXCEPT !.lost = TRUE]
    /\ UNCHANGED <<pc, frame, world, done, caller, required>>

OnRevokeLost == c.lost /\ Revoke(c.assigned, "failed") /\ UNCHANGED left

\* The client drops its whole assignment on a rebalance error (external).
OnError ==
    /\ Polling /\ c.assigned # {} /\ ~c.lost /\ Disturb("Error")
    /\ c' = Publish([c EXCEPT !.assigned = {}], "Error", {}, NoOffsets)
    /\ UNCHANGED <<pc, frame, world, done, caller, required>>

\* A revoke commit that outlived its budget ends: it reaches the broker while
\* that still knows its generation, or is refused.
LateCommit(lands) ==
    /\ c.busy /\ (lands => c.late # NoOffsets)
    /\ committed' = IF lands
                    THEN [p \in Partitions |-> IF c.late[p] = Nowhere THEN committed[p] ELSE c.late[p]]
                    ELSE committed
    /\ c' = [c EXCEPT !.late = NoOffsets, !.busy = FALSE]
    /\ UNCHANGED <<pc, frame, settled, waived, done, caller, left, required>>

\* Another member, in a generation of its own, handles and commits a record of
\* a partition this one lost.
OtherRuns(p) ==
    /\ c.epochs > 0 /\ (p \notin c.assigned \/ c.lost) /\ committed[p] < Records[p]
    /\ settled' = settled \cup {<<p, committed[p]>>}
    /\ committed' = [committed EXCEPT ![p] = @ + 1]
    /\ c' = [c EXCEPT !.late = NoOffsets]
    /\ UNCHANGED <<pc, frame, waived, done, caller, left, required>>

(***************************************************************************)
(* apply_rebalance.                                                        *)
(***************************************************************************)
Keep(f, S, none) == [p \in Partitions |-> IF p \in S THEN f[p] ELSE none]

Waiting(s) == {p \in Partitions : s.retries[p].from # Nowhere}

\* Positions back to committed, old pauses lifted and the lasting ones put
\* back, every dead letter of an older epoch cancelled, retries re-armed.
Assigned(s, event) ==
    LET S == event.parts
        primed == Rewind([s EXCEPT !.assignment = S, !.epoch = event.epoch, !.ready = "due"],
                         [p \in Partitions |-> IF p \in S THEN committed[p] ELSE Nowhere])
        fresh == PublishCommitSnapshot(ClearRecords(ResetForAssignment(primed, S), Partitions))
        halted == {row \in fresh.rows : row[1] \in S /\ row[2] = "halt"}
        rowed == Pause([Resume(fresh, S) EXCEPT !.rows = halted], {row[1] : row \in halted})
        kept == [CancelPending(rowed) EXCEPT
                    !.attempts = Keep(@, S, [o \in Offsets |-> 0]),
                    !.retries = Keep(@, S, NoRetry),
                    !.admission = [p \in Partitions |-> NoJob]]
        backing == Waiting(kept)
    IN  AddPauseReason(Rewind(Pause(kept, backing), [p \in Partitions |-> kept.retries[p].from]),
                       backing, "retry")

\* What is kept loses its dead letters too, and goes back to their records.
Revoked(s, event) ==
    LET R == event.parts
        kept0 == ConfirmCommitted([s EXCEPT !.assignment = @ \ R], event.committed)
        fresh == PublishCommitSnapshot(ClearRecords(ResetPartitions(kept0, R), R))
        kept == [fresh EXCEPT !.attempts = Keep(@, Partitions \ R, [o \in Offsets |-> 0]),
                              !.retries = Keep(@, Partitions \ R, NoRetry)]
        First(p) == IF kept.pending[p].offset # Nowhere THEN kept.pending[p].offset
                                                        ELSE kept.admission[p].offset
        back == [p \in Partitions |-> IF p \in R THEN Nowhere ELSE First(p)]
        expected == [kept EXCEPT !.expect = [p \in Partitions |->
                        IF <<p, back[p]>> \in kept.intent THEN back[p] ELSE @[p]]]
        rewound == Rewind([CancelPending(expected) EXCEPT
                              !.admission = [p \in Partitions |-> NoJob]], back)
        open == ClearAndResume(rewound, rewound.assignment, {"dlt", "degraded", "envelope"})
        clear == ClearAndResume(open, {p \in open.assignment : <<p, "commit">> \in open.rows},
                                {"commit"})
    IN  [clear EXCEPT !.rows = {row \in @ : row[1] \notin R \/ row[2] = "halt"},
                      !.epoch = event.epoch,
                      !.ready = IF clear.assignment = {} THEN "no" ELSE "due"]

ApplyRebalance(s) ==
    LET t == [s EXCEPT !.mailbox = NoEvent]
    IN  CASE s.mailbox.kind = "Assigned" -> Assigned(t, s.mailbox)
          [] s.mailbox.kind = "Revoked" -> Revoked(t, s.mailbox)
          [] s.mailbox.kind = "Error" -> [t EXCEPT !.ready = IF @ = "due" THEN "no" ELSE @]

(***************************************************************************)
(* Dead letters.  A task holds an envelope until it ends.                  *)
(***************************************************************************)
Remember(s, p, o) == [s EXCEPT !.intent = @ \cup {<<p, o>>}]

\* schedule_single_dlt fails: a responsibility of the partition is still open,
\* or the seek fails; by then the pause and its row are in place.
ScheduleFails(s, p) == p \in Jobs(s.pending) \cup Jobs(s.admission) \/ p \notin s.assigned

HalfScheduled(s, p, o) ==
    IF p \in Jobs(s.pending) \cup Jobs(s.admission)
    THEN Remember(s, p, o)
    ELSE AddPauseReason(Pause(Remember(s, p, o), {p}), {p}, "dlt")

Task(s, p, o) == [tp |-> p, offset |-> o, epoch |-> s.epoch, phase |-> "waiting",
                  cancel |-> FALSE, live |-> TRUE, ready |-> s.ready = "yes"]

\* With an envelope the task starts; without one the partition waits for one.
ScheduleSingleDlt(s, p, o) ==
    LET t == Seek(HalfScheduled(s, p, o), p, o)
        job == [offset |-> o, epoch |-> s.epoch]
    IN  IF Cardinality(s.workers) < Envelopes
        THEN [t EXCEPT !.workers = @ \cup {Task(s, p, o)}, !.pending[p] = job]
        ELSE [AddPauseReason(t, {p}, "envelope") EXCEPT !.admission[p] = job]

WorkerStopped(w) == w.cancel \/ stop

\* The envelope is returned, then the completion sent; nobody receives the
\* completion of an ended session.
WorkerEnds(w, ok) ==
    /\ c' = [c EXCEPT !.workers = @ \ {w}]
    /\ done' = IF w.live THEN done \cup {[tp |-> w.tp, offset |-> w.offset,
                                         epoch |-> w.epoch, ok |-> ok]}
                         ELSE done

WorkerSends(w) ==
    /\ w.phase = "waiting" /\ ~WorkerStopped(w)
    /\ c' = [c EXCEPT !.workers = (@ \ {w}) \cup {[w EXCEPT !.phase = "sent"]}]
    /\ UNCHANGED <<pc, frame, world, done, caller, left, required>>

\* Before the send a stop or a cancellation ends the task.
WorkerStops(w) ==
    /\ w.phase = "waiting" /\ WorkerStopped(w) /\ WorkerEnds(w, FALSE)
    /\ UNCHANGED <<pc, frame, world, caller, left, required>>

WorkerAcked(w) ==
    /\ w.phase = "sent" /\ WorkerEnds(w, TRUE)
    /\ settled' = settled \cup {<<w.tp, w.offset>>}
    /\ UNCHANGED <<pc, frame, committed, waived, caller, left, required>>

\* mark_dlt_degraded, on the first failure: only for the assignment the task
\* was started under.
Degraded(s, w) ==
    IF w.ready /\ w.live /\ s.ready = "yes" /\ w.epoch = s.epoch /\ ~s.deferred
       /\ pc \notin {"exit", "down", "crashed", "stopped"} /\ <<w.tp, "dlt">> \in s.rows
    THEN AddPauseReason(s, {w.tp}, "degraded")
    ELSE s

WorkerFails(w) ==
    /\ Disturb("send") /\ (w.phase = "sent" \/ ~WorkerStopped(w))
    /\ IF WorkerStopped(w) \/ ~required
       THEN WorkerEnds(w, FALSE)
       ELSE /\ c' = Degraded([c EXCEPT !.workers = (@ \ {w}) \cup {[w EXCEPT !.phase = "waiting"]}], w)
            /\ UNCHANGED done
    /\ UNCHANGED <<pc, frame, world, caller, required>>

(***************************************************************************)
(* The loop, before a poll.                                                *)
(***************************************************************************)
Goto(s, at) == c' = s /\ pc' = at /\ frame' = NoFrame

Ends(s, kind) == c' = s /\ pc' = "exit" /\ frame' = [NoFrame EXCEPT !.cont = kind]

Call(s, k, p, o) == c' = s /\ pc' = "commit" /\ frame' = Calling(k, p, o)

\* prune_committed of the ledger.
Pruned(s) == [s EXCEPT !.intent = {x \in @ : x[2] >= s.progress[x[1]].base}]

\* A completion counts for the job it was started for.
Matches(s, d) == s.pending[d.tp] = [offset |-> d.offset, epoch |-> d.epoch]

\* Mutant of Drain: a dead letter given up for a stop stays outstanding.
DrainKeepsPending(d) ==
    LET s == [Pruned(c) EXCEPT !.pending[d.tp] = NoJob]
    IN  /\ pc = "top" /\ ~Gated(c) /\ d \in done
        /\ done' = done \ {d}
        /\ IF ~Matches(c, d) THEN Goto(Pruned(c), "top") /\ UNCHANGED waived
           ELSE IF d.epoch # c.epoch \/ (~d.ok /\ stop) THEN Goto(Pruned(c), "top") /\ UNCHANGED waived
           ELSE IF (~d.ok /\ required) \/ ObserveFails(s, d.tp, d.offset)
                THEN Goto(HaltPartition(s, d.tp), "top") /\ UNCHANGED waived
           ELSE /\ Call(PublishCommitSnapshot(Observe(s, d.tp, d.offset, TRUE)), "dlt", d.tp, d.offset)
                /\ waived' = IF d.ok THEN waived ELSE waived \cup {<<d.tp, d.offset>>}
        /\ UNCHANGED <<committed, settled, caller, left, required>>

\* drain_dlt_completions, one completion; not while authority is in doubt.
Drain(d) ==
    LET s == [Pruned(c) EXCEPT !.pending[d.tp] = NoJob]
    IN  /\ pc = "top" /\ ~Gated(c) /\ d \in done
        /\ done' = done \ {d}
        /\ IF ~Matches(c, d) THEN Goto(Pruned(c), "top") /\ UNCHANGED waived
           ELSE IF d.epoch # c.epoch \/ (~d.ok /\ stop) THEN Goto(s, "top") /\ UNCHANGED waived
           ELSE IF (~d.ok /\ required) \/ ObserveFails(s, d.tp, d.offset)
                THEN Goto(HaltPartition(s, d.tp), "top") /\ UNCHANGED waived
           ELSE /\ Call(PublishCommitSnapshot(Observe(s, d.tp, d.offset, TRUE)), "dlt", d.tp, d.offset)
                /\ waived' = IF d.ok THEN waived ELSE waived \cup {<<d.tp, d.offset>>}
        /\ UNCHANGED <<committed, settled, caller, left, required>>

Drained ==
    /\ pc = "top" /\ (Gated(c) \/ done = {})
    /\ Goto(Pruned(c), "turn")
    /\ UNCHANGED <<world, done, caller, left, required>>

\* Mutant of ActivateDueRetries: the row goes, the pause stays.
ActivateUnresumed(s) ==
    LET due == {p \in Waiting(s) : s.retries[p].due}
        open == due \cap s.assigned
        t == [Rewind(s, [p \in Partitions |-> IF p \in open THEN s.retries[p].from ELSE Nowhere])
                EXCEPT !.retries = [p \in Partitions |->
                          IF p \in open THEN NoRetry ELSE [@[p] EXCEPT !.due = FALSE]]]
    IN  DropRows(t, open, {"retry"})

\* activate_due_retries: seek again and lift the row; where the seek fails the
\* backoff starts again.
ActivateDueRetries(s) ==
    LET due == {p \in Waiting(s) : s.retries[p].due}
        open == due \cap s.assigned
        t == [Rewind(s, [p \in Partitions |-> IF p \in open THEN s.retries[p].from ELSE Nowhere])
                EXCEPT !.retries = [p \in Partitions |->
                          IF p \in open THEN NoRetry ELSE [@[p] EXCEPT !.due = FALSE]]]
    IN  ClearAndResume(t, open, {"retry"})

RetryDue(p) ==
    /\ c.retries[p].from # Nowhere /\ ~c.retries[p].due
    /\ c' = [c EXCEPT !.retries[p].due = TRUE]
    /\ UNCHANGED <<pc, frame, world, done, caller, left, required>>

\* service_dlt_admission: with an envelope free, every waiting partition goes
\* back to its record; on a stop it is let go.
ServiceDltAdmission(s, stopping) ==
    LET T == {p \in Jobs(s.admission) : \/ stopping \/ s.admission[p].epoch # s.epoch
                                        \/ Cardinality(s.workers) < Envelopes}
        again == {p \in T : ~stopping /\ s.admission[p].epoch = s.epoch}
        at == [p \in Partitions |-> IF p \in again THEN s.admission[p].offset ELSE Nowhere]
        t == [Rewind(s, at) EXCEPT
                 !.admission = [p \in Partitions |-> IF p \in T THEN NoJob ELSE @[p]],
                 !.expect = [p \in Partitions |-> IF p \in again THEN at[p] ELSE @[p]]]
    IN  IF Gated(s) THEN s
        ELSE IF stopping THEN DropRows(t, T, {"envelope", "dlt"})
        ELSE ClearAndResume(t, T, {"envelope", "dlt"})

ToPoll(s, stopping) ==
    Goto(ServiceDltAdmission(s, stopping), IF s.deferred THEN "maintain" ELSE "poll")

\* cancel_retry_states, for every partition.
CancelRetries(s) ==
    ClearAndResume([s EXCEPT !.retries = [p \in Partitions |-> NoRetry]], Waiting(s), {"retry"})

\* A Stop waits for the dead letters; without any it is answered at once.
StopOrDefer(s) ==
    LET t == CancelRetries(s)
    IN  IF Outstanding(t)
        THEN command' = "executing" /\ ToPoll([t EXCEPT !.deferred = TRUE], TRUE)
        ELSE command' = "answered" /\ Ends(ClearProgress(t), "stop")

\* The rest of a turn: a deferred Stop that has nothing left to wait for;
\* retries; a command; dead letters that wait for an envelope.
TurnFinishes ==
    /\ pc = "turn" /\ c.deferred /\ ~Outstanding(c)
    /\ command' = "answered" /\ Ends([c EXCEPT !.deferred = FALSE], "stop")
    /\ UNCHANGED <<world, done, stop, left, required>>

Turn ==
    /\ pc = "turn" /\ (c.deferred => Outstanding(c)) /\ command # "queued"
    /\ ToPoll(ActivateDueRetries(c), stop)
    /\ UNCHANGED <<world, done, caller, left, required>>

TurnStops ==
    /\ pc = "turn" /\ command = "queued" /\ stop' = TRUE
    /\ LET s == ActivateDueRetries(c)
       IN  IF ObservedTotal(s) # 0
           THEN Call(s, "stop", "none", Nowhere) /\ command' = "executing"
           ELSE StopOrDefer(s)
    /\ UNCHANGED <<world, done, left, required>>

AfterStop ==
    /\ pc = "stop" /\ StopOrDefer(c) /\ UNCHANGED <<world, done, stop, left, required>>

RequestStop ==
    /\ command = "none" /\ pc # "stopped" /\ Disturb("Stop") /\ command' = "queued"
    /\ UNCHANGED <<c, pc, frame, world, done, stop, required>>

(***************************************************************************)
(* commit_until_resolved: commit the safe prefix of every partition until  *)
(* it succeeds, is void, or is given up for a stop or a rebalance; records *)
(* its own polls take are put back on every way out.                       *)
(***************************************************************************)
PutBack(s) == Rewind(s, frame.discarded)

Return(s) == c' = PutBack(s) /\ pc' = frame.cont
             /\ frame' = Calling("top", frame.tp, frame.offset)

CommitVoid ==
    /\ pc = "commit" /\ (CommittableOffsets(c) = NoOffsets \/ c.lost)
    /\ Return(IF CommittableOffsets(c) = NoOffsets
              THEN c ELSE PublishCommitSnapshot(ClearProgress(c)))
    /\ UNCHANGED <<world, done, caller, left, required>>

Accept(at) ==
    committed' = [p \in Partitions |-> IF at[p] = Nowhere THEN committed[p] ELSE at[p]]

\* clear_commit_blocked.
ClearCommitBlocked(s) ==
    LET t == DropRows(s, Partitions, {"commit"}) IN Resume(t, Unblocked(t, t.assignment))

\* After a failure the positions go back to the new frontier, and a partition
\* that cannot be sought ends the session.
CommitAccepted ==
    LET at == CommittableOffsets(c)
        named == {p \in Partitions : at[p] # Nowhere}
        s == PublishCommitSnapshot(ConfirmCommitted(c, at))
        Lower(p) == IF at[p] = Nowhere THEN frame.discarded[p]
                    ELSE IF frame.discarded[p] = Nowhere THEN at[p]
                    ELSE Min({at[p], frame.discarded[p]})
    IN  /\ pc = "commit" /\ named # {} /\ ~c.lost /\ Accept(at)
        /\ IF ~frame.blocked THEN Return(s)
           ELSE IF ~(named \subseteq c.assigned) THEN Ends(PutBack(s), "crash")
           ELSE /\ c' = ClearCommitBlocked(Rewind(s, [p \in Partitions |-> Lower(p)]))
                /\ pc' = frame.cont /\ frame' = Calling("top", frame.tp, frame.offset)
        /\ UNCHANGED <<settled, waived, done, caller, left, required>>

\* The failure pauses everything; then a Stop, then a rebalance, then a wait.
CommitRefused ==
    LET s == IF frame.blocked THEN c ELSE AddPauseReason(Pause(c, c.assigned), c.assigned, "commit")
    IN  /\ pc = "commit" /\ CommittableOffsets(c) # NoOffsets /\ ~c.lost /\ Disturb("commit")
        /\ \/ /\ command = "queued" /\ stop' = TRUE
              /\ IF Outstanding(s)
                 THEN command' = "executing" /\ Return([s EXCEPT !.deferred = TRUE])
                 ELSE command' = "answered" /\ Ends(PutBack(s), "stop")
           \/ /\ command # "queued" /\ UNCHANGED caller
              /\ IF HasRebalance(s) THEN Return(PublishCommitSnapshot(ClearProgress(s)))
                 ELSE c' = s /\ pc' = "wait" /\ frame' = [frame EXCEPT !.blocked = TRUE]
        /\ UNCHANGED <<world, done, required>>

WaitNone ==
    /\ pc = "wait" /\ pc' = "commit"
    /\ UNCHANGED <<c, frame, world, done, caller, left, required>>

Deliverable(p) == p \in c.assigned \ c.paused /\ c.pos[p] < Records[p]

WaitMessage(p) ==
    /\ pc = "wait" /\ Deliverable(p) /\ pc' = "commit"
    /\ frame' = [frame EXCEPT !.discarded[p] = IF @ = Nowhere THEN c.pos[p] ELSE Min({@, c.pos[p]})]
    /\ c' = [c EXCEPT !.pos[p] = @ + 1]
    /\ UNCHANGED <<world, done, caller, left, required>>

WaitFails(kind) ==
    /\ pc = "wait" /\ Disturb("poll") /\ Ends(PutBack(c), kind)
    /\ UNCHANGED <<world, done, caller, required>>

(***************************************************************************)
(* What follows the commit, by caller.                                     *)
(***************************************************************************)
\* apply_availability_skip.
AvailabilitySkip(s, p, o) ==
    IF ObserveFails(s, p, o) THEN Goto(HaltPartition(s, p), "top") /\ UNCHANGED waived
    ELSE /\ Call(PublishCommitSnapshot(Observe(s, p, o, TRUE)), "top", p, o)
         /\ waived' = waived \cup {<<p, o>>}

DeadLetter(s, p, o) ==
    IF ~ScheduleFails(s, p) THEN Goto(ScheduleSingleDlt(s, p, o), "top") /\ UNCHANGED waived
    ELSE IF required THEN Goto(HaltPartition(HalfScheduled(s, p, o), p), "top") /\ UNCHANGED waived
    ELSE AvailabilitySkip(HalfScheduled(s, p, o), p, o)

SchedulePartitionRetry(s, p, o) ==
    IF p \in s.assigned
    THEN [AddPauseReason(Pause(Seek(s, p, o), {p}), {p}, "retry") EXCEPT
             !.retries[p] = [from |-> o, due |-> FALSE]]
    ELSE HaltPartition(s, p)

AfterRetry ==
    LET p == frame.tp
        o == frame.offset
        n == Min({c.attempts[p][o] + 1, MaxAttempts})
        s == [PublishCommitSnapshot(ResetPartitions(c, {p})) EXCEPT !.attempts[p][o] = n]
    IN  /\ pc = "retry"
        /\ \/ n = MaxAttempts /\ DeadLetter(s, p, o)
           \/ n < MaxAttempts /\ Goto(SchedulePartitionRetry(s, p, o), "top") /\ UNCHANGED waived
        /\ UNCHANGED <<committed, settled, done, caller, left, required>>

AfterDead ==
    /\ pc = "dead"
    /\ DeadLetter(PublishCommitSnapshot(ResetPartitions(c, {frame.tp})), frame.tp, frame.offset)
    /\ UNCHANGED <<committed, settled, done, caller, left, required>>

\* next_dead_letter: the partition's next record already marked for the topic.
NextDeadLetter(s, p, from) ==
    LET later == {o \in Offsets : <<p, o>> \in s.intent /\ o >= from}
    IN  IF later = {} THEN s.expect[p] ELSE Min(later)

\* Mutant of AfterDlt: the warning of a slow dead letter outlives it.
AfterDltDegraded ==
    LET p == frame.tp
        next == frame.offset + 1
        s == [c EXCEPT !.expect[p] = NextDeadLetter(c, p, next)]
    IN  /\ pc = "dlt"
        /\ Goto(IF p \in c.assigned
                THEN ClearAndResume([Seek(s, p, next) EXCEPT !.attempts[p][frame.offset] = 0],
                                    {p}, {"dlt"})
                ELSE HaltPartition(s, p), "top")
        /\ UNCHANGED <<world, done, caller, left, required>>

\* The completion is committed, or its commit was given up: go on behind it.
AfterDlt ==
    LET p == frame.tp
        next == frame.offset + 1
        s == [c EXCEPT !.expect[p] = NextDeadLetter(c, p, next)]
    IN  /\ pc = "dlt"
        /\ Goto(IF p \in c.assigned
                THEN ClearAndResume([Seek(s, p, next) EXCEPT !.attempts[p][frame.offset] = 0],
                                    {p}, {"dlt", "degraded"})
                ELSE HaltPartition(s, p), "top")
        /\ UNCHANGED <<world, done, caller, left, required>>

(***************************************************************************)
(* The polls of the loop.                                                  *)
(***************************************************************************)
PublishReady(s) == [s EXCEPT !.ready = IF @ = "due" THEN "yes" ELSE @]

\* apply_process_action, for one answer of the handler.
Process(s, p, o, answer) ==
    LET t == Observe(s, p, o, answer = "safe")
    IN  IF answer = "halt" \/ ObserveFails(s, p, o) THEN Goto(HaltPartition(s, p), "top")
        ELSE IF answer = "retry" THEN Call(PublishCommitSnapshot(t), "retry", p, o)
        ELSE IF answer = "dead" THEN Call(t, "dead", p, o)
        ELSE LET u == [PublishCommitSnapshot(t) EXCEPT !.attempts[p][o] = 0]
             IN  IF ObservedTotal(u) >= CommitBatch THEN Call(u, "top", p, o) ELSE Goto(u, "top")

\* RecordLedger::accept: the record must be the one the partition went back to.
Expected(s, p, o, answer) ==
    IF s.expect[p] \in {Nowhere, o} THEN Process([s EXCEPT !.expect[p] = Nowhere], p, o, answer)
                                    ELSE Goto(HaltPartition(s, p), "top")

\* A record that arrives with a rebalance event belongs to the old
\* generation: it is put back, unless the event has set the positions.
PollMessage(p, answer) ==
    LET o == c.pos[p]
        taken == [c EXCEPT !.pos[p] = @ + 1]
        s == PublishReady(taken)
    IN  /\ pc = "poll" /\ Deliverable(p)
        /\ \/ /\ HasRebalance(c) /\ answer = "safe" /\ UNCHANGED settled
              /\ Goto(IF c.mailbox.kind = "Assigned" THEN ApplyRebalance(taken)
                      ELSE Seek(ApplyRebalance(taken), p, o), "top")
           \/ /\ ~HasRebalance(c) /\ <<p, o>> \in c.intent /\ answer = "safe"
              /\ Expected(s, p, o, "dead") /\ UNCHANGED settled
           \/ /\ ~HasRebalance(c) /\ <<p, o>> \notin c.intent /\ answer \in Outcomes
              /\ Expected(s, p, o, answer)
              /\ settled' = IF answer = "safe" /\ c.expect[p] \in {Nowhere, o}
                            THEN settled \cup {<<p, o>>} ELSE settled
        /\ UNCHANGED <<committed, waived, done, caller, left, required>>

PollNone(elapsed) ==
    LET s == IF HasRebalance(c) THEN ApplyRebalance(c) ELSE PublishReady(c)
    IN  /\ pc = "poll"
        /\ IF elapsed /\ ObservedTotal(s) # 0 THEN Call(s, "top", "none", Nowhere) ELSE Goto(s, "top")
        /\ UNCHANGED <<world, done, caller, left, required>>

\* The poll fails, or the positions of a new assignment cannot be read.
PollFails(kind) ==
    /\ pc = "poll" /\ Disturb("poll") /\ Ends(c, kind)
    /\ UNCHANGED <<world, done, caller, required>>

\* While a Stop is deferred the loop polls for its callbacks alone: a record
\* is dropped, and the mailbox is left as it is.
MaintainNone == pc = "maintain" /\ Goto(c, "top") /\ UNCHANGED <<world, done, caller, left, required>>

MaintainMessage(p) ==
    /\ pc = "maintain" /\ Deliverable(p) /\ Goto([c EXCEPT !.pos[p] = @ + 1], "top")
    /\ UNCHANGED <<world, done, caller, left, required>>

MaintainFails(kind) ==
    /\ pc = "maintain" /\ Disturb("poll") /\ Ends(c, kind)
    /\ UNCHANGED <<world, done, caller, required>>

(***************************************************************************)
(* The end of a session, and run_owner's decision about the next.          *)
(***************************************************************************)
\* A claimed Stop that is not deferred is dropped without an answer.
Unanswered == IF c.deferred THEN "answered" ELSE IF command = "executing" THEN "dropped" ELSE command

Exit(accepted) ==
    LET at == IF c.lost THEN NoOffsets ELSE CommittableOffsets(c)
    IN  /\ pc = "exit"
        /\ \/ accepted /\ Accept(at) /\ UNCHANGED left
           \/ ~accepted /\ at # NoOffsets /\ Disturb("commit") /\ UNCHANGED committed
        /\ command' = Unanswered /\ done' = {} /\ frame' = NoFrame
        /\ c' = Session(c.rows, c.attempts,
                        {[w EXCEPT !.cancel = TRUE, !.live = FALSE] : w \in c.workers})
        /\ pc' \in IF stop \/ frame.cont = "stop" THEN {"stopped"}
                   ELSE IF frame.cont = "crash" THEN {"crashed"} ELSE {"down", "crashed"}
        /\ UNCHANGED <<settled, waived, stop, required>>

\* The backoff elapses, or a Restart command clears the attempts.
Restart(clear) ==
    /\ pc = "down" \/ (pc = "crashed" /\ clear)
    /\ Goto([c EXCEPT !.attempts = IF clear THEN NoAttempts ELSE @], "top")
    /\ UNCHANGED <<world, done, caller, left, required>>

StopWhileDown ==
    /\ pc \in {"down", "crashed"} /\ command = "queued"
    /\ command' = "answered" /\ stop' = TRUE /\ Goto(c, "stopped")
    /\ UNCHANGED <<world, done, left, required>>

Terminated == pc = "stopped" /\ UNCHANGED vars

(***************************************************************************)
(* The specification.                                                      *)
(***************************************************************************)
Failures == {"transient", "crash"}

OwnerStep ==
    \/ \E d \in done : Drain(d)
    \/ Drained \/ TurnFinishes \/ Turn \/ TurnStops \/ AfterStop
    \/ CommitVoid \/ CommitAccepted \/ CommitRefused \/ WaitNone
    \/ AfterRetry \/ AfterDead \/ AfterDlt
    \/ \E p \in Partitions : WaitMessage(p) \/ MaintainMessage(p)
    \/ \E p \in Partitions, a \in Outcomes \cup {"safe"} : PollMessage(p, a)
    \/ \E elapsed \in BOOLEAN : PollNone(elapsed)
    \/ \E kind \in Failures : WaitFails(kind) \/ PollFails(kind) \/ MaintainFails(kind)
    \/ MaintainNone
    \/ \E accepted \in BOOLEAN : Exit(accepted)
    \/ Restart(FALSE) \/ StopWhileDown

WorkerStep(w) == WorkerSends(w) \/ WorkerStops(w) \/ WorkerAcked(w) \/ WorkerFails(w)

Environment ==
    \/ \E S \in SUBSET Partitions, lingers \in BOOLEAN : OnAssign(S, lingers)
    \/ OnRevoke \/ LoseAssignment \/ OnRevokeLost \/ OnError
    \/ \E lands \in BOOLEAN : LateCommit(lands)
    \/ \E p \in Partitions : OtherRuns(p) \/ RetryDue(p)
    \/ \E w \in c.workers : WorkerStep(w)
    \/ RequestStop \/ Restart(TRUE)

Next == OwnerStep \/ Environment \/ Terminated

Spec == Init /\ [][Next]_vars

\* The thread runs; tasks are polled, timers fire, and an announced loss is
\* followed by its revoke.  A partition with records gets its share of the
\* polls, and an idle group's commit interval elapses.
Fairness ==
    /\ WF_vars(OwnerStep)
    /\ SF_vars(OnRevokeLost)
    /\ SF_vars(PollNone(TRUE))
    /\ \A p \in Partitions :
          /\ SF_vars(\E a \in Outcomes : PollMessage(p, a))
          /\ WF_vars(RetryDue(p))
          /\ WF_vars(\E w \in c.workers : w.tp = p /\ WorkerStep(w))

LiveSpec == Spec /\ Fairness

(***************************************************************************)
(* Properties.                                                             *)
(***************************************************************************)
TypeOK ==
    /\ pc \in {"top", "turn", "poll", "maintain", "commit", "wait", "retry", "dead", "dlt",
               "stop", "exit", "down", "crashed", "stopped"}
    /\ c.assigned \subseteq Partitions /\ c.assignment \subseteq Partitions
    /\ c.rows \subseteq Partitions \X {"halt", "retry", "dlt", "envelope", "degraded", "commit"}
    /\ \A p \in Partitions : {c.pos[p], committed[p]} \subseteq 0 .. Records[p]
    /\ Cardinality(c.workers) <= Envelopes
    /\ command \in {"none", "queued", "executing", "answered", "dropped"}

\* At-least-once (offset_state.rs): the group's offset at the broker never
\* passes a record that no member has handled and whose dead letter the topic
\* has not accepted, through retries, dead letters, failed and late commits,
\* rebalances and rebuilt sessions.  Only availability-first mode may skip one.
AtLeastOnce ==
    /\ \A p \in Partitions : \A o \in 0 .. committed[p] - 1 : <<p, o>> \in settled \cup waived
    /\ required => waived = {}

Owned(p, reason) ==
    CASE reason = "halt" -> TRUE
      [] reason = "retry" -> c.retries[p].from # Nowhere
      [] reason = "dlt" -> p \in Jobs(c.pending) \cup Jobs(c.admission)
      [] reason = "degraded" -> p \in Jobs(c.pending)
      [] reason = "envelope" -> p \in Jobs(c.admission)
      [] reason = "commit" -> FALSE

\* No partition stalls in silence (cancel_retry_states, drain_dlt_completions):
\* when the loop is about to poll and its authority is not in doubt, a paused
\* partition has a row that says why, and every row has somebody left who
\* will lift it.
PauseOwned ==
    pc = "poll" /\ ~Gated(c) /\ ~stop =>
        /\ \A p \in c.assigned \cap c.paused : \E row \in c.rows : row[1] = p
        /\ \A row \in c.rows : row[1] \in c.assigned => Owned(row[1], row[2])

\* Every record of a partition this member keeps is committed in the end,
\* unless the partition is halted, the group crashed or it is being stopped.
EveryRecordSettles ==
    \A p \in Partitions :
        <>[](p \in c.assigned /\ ~stop)
            => <>[](committed[p] = Records[p] \/ <<p, "halt">> \in c.rows)

\* The Stop that a rebalance has overtaken: its completions are never drained.
Deaf == c.deferred /\ HasRebalance(c)

\* A stop ends the owner (run_owner): once asked for, it is never lost, whether
\* the loop is in a turn, in a failing commit, down or crashed, and waits only
\* for dead letters that are really under way.
StopEnds == command = "queued" ~> (pc = "stopped" \/ Deaf)

\* Every Stop gets a definite result (the comment at the end of
\* run_owner_session).
StopIsAnswered == command = "queued" ~> pc = "stopped"
=============================================================================
