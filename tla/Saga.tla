-------------------------------- MODULE Saga --------------------------------
(***************************************************************************)
(* One saga: the orchestrator (nasaga-runtime-core, orchestrator.rs, on    *)
(* the journal of nasaga-mysql / nasaga-pgsql), a participant per step     *)
(* (SagaParticipant), and the delivery of commands and results between     *)
(* them.                                                                   *)
(*                                                                         *)
(* Every entry of the orchestrator is one database transaction over the    *)
(* instance row, the step journal, the attempt journal, the command outbox *)
(* and the timers.  The variable db is that database; a handler is an      *)
(* operator from db to db built from the same primitives as the code       *)
(* (Patch, Advance, Issue, Escalate ...).  The field ok turns FALSE where  *)
(* the code returns an error: such a transaction rolls back, and what      *)
(* triggered it is delivered again.                                        *)
(*                                                                         *)
(* Abstractions.                                                           *)
(*  - db.cmds[s] is the attempt journal of step s and its command outbox   *)
(*    at once: issue_command writes both in one transaction.  results[s]   *)
(*    maps the commands the participant of s has claimed in its inbox to   *)
(*    the result event it committed (or NoResult); applied[s] are those    *)
(*    the orchestrator claimed in its own.  All of them only grow: a       *)
(*    message stays deliverable for ever, so loss, delay and redelivery    *)
(*    need no action of their own, and an inbox hit changes nothing.       *)
(*  - A phase timeout acts only when the instance still has the version it *)
(*    was scheduled at, and every Advance raises the version; so only the  *)
(*    timeout scheduled since the last Advance counts: db.timer.  The      *)
(*    claim of a due timer is fenced and completed inside the handler's    *)
(*    transaction, hence one atomic step here; time is left open, so any   *)
(*    pending timer may fire.                                              *)
(*  - A command's result event has an identity derived from the command,   *)
(*    and the participant's inbox lets one transaction answer a command:   *)
(*    the branch for two different outcomes of one attempt cannot be       *)
(*    reached and has no counterpart.                                      *)
(*  - The resolution mode is Poll: Callback and Manual wait in the same    *)
(*    status and issue no query.                                           *)
(***************************************************************************)
EXTENDS SagaParticipant

CONSTANTS
    N,             \* steps are 1 .. N, in definition order
    Mode,          \* step -> "Local", "Cancellable" or "ResolveOnly"
    LatePolicy,    \* step -> "Accept" or "Compensate": TimeoutPolicy of a late success
    Pivot,         \* the non-compensable steps
    CancelMax, CompensateMax, ResolveMax,   \* OrchestratorConfig attempt budgets
    Deadline,      \* TRUE when the request carries an instance deadline
    Ops,           \* bound: management operations in a behaviour
    InOrder,       \* TRUE: each step's commands and results keep their order
    MayDie,        \* TRUE: a participant may die between an external call and its commit
    StaleAnswers   \* TRUE: a forward query's answer may arrive once compensation began

Steps == 1 .. N

\* WorkflowDefinition::validate_step: a pivot is the last step and never asks
\* for the compensation of its own late success.
ASSUME DefinitionAssumption ==
    /\ N \in Nat \ {0}
    /\ Mode \in [Steps -> {"Local", "Cancellable", "ResolveOnly"}]
    /\ LatePolicy \in [Steps -> {"Accept", "Compensate"}]
    /\ Pivot \subseteq {N}
    /\ \A s \in Pivot : LatePolicy[s] = "Accept"

ASSUME BoundAssumption ==
    /\ {CancelMax, CompensateMax, ResolveMax} \subseteq Nat \ {0}
    /\ Ops \in Nat
    /\ {Deadline, InOrder, MayDie, StaleAnswers} \subseteq BOOLEAN

VARIABLES
    db,        \* the orchestrator's database
    gate,      \* step -> the participant's gate row
    world,     \* step -> the business effect outside
    results,   \* step -> position of a handled command -> the outcome it committed
    applied,   \* step -> positions whose result the orchestrator's inbox has claimed
    ops        \* management operations so far

vars == <<db, gate, world, results, applied, ops>>

Phases == {"Execute", "Cancel", "Compensate", "Resolve"}

Automatic == {"Running", "Cancelling", "WaitingResolution", "Compensating"}

Terminal == {"Completed", "Compensated", "ManuallyClosed"}

Manual == "ManualIntervention"

NoTimer == [s |-> 0, ph |-> "None", n |-> 0]

(***************************************************************************)
(* Transaction primitives.                                                 *)
(***************************************************************************)

\* SagaStatus::can_transition_to, without Manual -> Running, which no entry of
\* the orchestrator asks for.
Edges ==
    {<<a, a>> : a \in Automatic} \cup {<<a, Manual>> : a \in Automatic}
      \cup ({"Running"} \X {"Completed", "Compensating", "Cancelling", "WaitingResolution"})
      \cup ({"Cancelling"} \X {"WaitingResolution", "Running", "Completed", "Compensating"})
      \cup ({"WaitingResolution"} \X {"Running", "Completed", "Compensating"})
      \cup ({"Compensating"} \X {"WaitingResolution", "Compensated"})
      \cup ({Manual} \X {"Compensating", "WaitingResolution", "ManuallyClosed"})

\* The CAS on the instance row: it needs a legal edge and an ACTIVE control
\* state, and the new version makes the pending phase timeout stale.
Advance(d, to, dir, cur) ==
    [d EXCEPT !.ok = @ /\ ~d.paused /\ <<d.status, to>> \in Edges,
              !.status = to, !.dir = dir, !.cur = cur, !.timer = NoTimer]

Escalate(d) == Advance(d, Manual, d.dir, d.cur)

\* The row r with the columns of the patch p written.
Written(r, p) == [f \in DOMAIN r |-> IF f \in DOMAIN p THEN p[f] ELSE r[f]]

Patch(d, s, p) == [d EXCEPT !.row[s] = Written(@, p)]

Attempts(d, s, ph) == {i \in DOMAIN d.cmds[s] : d.cmds[s][i].ph = ph}

NextAttempt(d, s, ph) == Cardinality(Attempts(d, s, ph)) + 1

\* Resolve attempts of the current direction: those issued before the step's
\* first compensate command belong to the forward budget, the rest to the other.
ResolutionAttempts(d, s) ==
    LET comp == Attempts(d, s, "Compensate")
        forward == {i \in Attempts(d, s, "Resolve") : \A c \in comp : i < c}
    IN Cardinality(IF d.dir = "Forward" THEN forward
                   ELSE Attempts(d, s, "Resolve") \ forward)

\* Attempt journal, command outbox and phase timeout in one transaction.
Issue(d, s, ph, rec) ==
    LET n == NextAttempt(d, s, ph)
    IN [d EXCEPT !.cmds[s] = Append(@, [ph |-> ph, n |-> n, rec |-> rec]),
                 !.timer = [s |-> s, ph |-> ph, n |-> n]]

CancelTimer(d, s, ph) ==
    IF d.timer.s = s /\ d.timer.ph = ph THEN [d EXCEPT !.timer = NoTimer] ELSE d

\* A timer is identified by step, kind and attempt: scheduling one that exists
\* is absorbed, even when the existing one has fired or was cancelled.
ScheduleBudget(d, s, dir, n) ==
    LET id == [s |-> s, dir |-> dir, n |-> n]
    IN IF id \in d.budgets THEN d
       ELSE [d EXCEPT !.budgets = @ \cup {id}, !.budget = @ \cup {id}]

CancelResolutionTimers(d, s) ==
    CancelTimer([d EXCEPT !.budget = {b \in @ : b.s # s}], s, "Resolve")

(***************************************************************************)
(* Monotone projection of a result on the step journal.                    *)
(***************************************************************************)

\* Column values a later fact may replace, and values too weak to replace one.
Open == [fwd |-> {"Pending", "Unknown", "TimedOut"}, cancel |-> {"None", "ResolutionPending"},
         comp |-> {"None", "Pending", "Unknown"}, res |-> {"None", "Pending"}]

Weak == [fwd |-> {"Unknown", "TimedOut"}, cancel |-> {"ResolutionPending"},
         comp |-> {"Pending", "Unknown"}, res |-> {"Pending"}]

Clash(r, p) ==
    \E f \in DOMAIN p : r[f] # p[f] /\ r[f] \notin Open[f] /\ p[f] \notin Weak[f]

Merge(r, p) == [f \in DOMAIN p |-> IF r[f] \in Open[f] THEN p[f] ELSE r[f]]

\* A resolution that denies a compensation the journal holds as succeeded.
DeniesCompensation(d, r, p) ==
    /\ d.dir = "Compensating"
    /\ "res" \in DOMAIN p /\ p.res = "Rejected"
    /\ r.comp = "Succeeded"

\* apply_monotonic_projection: a conflict is kept as evidence and freezes a saga
\* that is still automatic; otherwise the merged patch is written.
Conflicts(d, s, p) == DeniesCompensation(d, d.row[s], p) \/ Clash(d.row[s], p)

Conflicted(d) == IF d.status \in Automatic THEN Escalate(d) ELSE d

Projected(d, s, p) == Patch(d, s, Merge(d.row[s], p))

(***************************************************************************)
(* The frozen compensation plan: succeeded steps in reverse order.         *)
(***************************************************************************)
Succeeded(d) == {s \in Steps : d.row[s].fwd = "Succeeded"}

\* Mutant of PlanOf: the plan runs in definition order.
PlanInOrder(d) ==
    [i \in 1 .. Cardinality(Succeeded(d)) |->
        CHOOSE s \in Succeeded(d) : Cardinality({t \in Succeeded(d) : t < s}) = i - 1]

PlanOf(d) ==
    [i \in 1 .. Cardinality(Succeeded(d)) |->
        CHOOSE s \in Succeeded(d) : Cardinality({t \in Succeeded(d) : s < t}) = i - 1]

Freezable(d) ==
    \A s \in Steps : /\ d.row[s].fwd \in {"Pending", "Succeeded", "Rejected", "Cancelled"}
                     /\ d.row[s].fwd = "Succeeded" => s \notin Pivot

PlanHolds(d) == d.frozen /\ Freezable(d) /\ PlanOf(d) = d.plan

\* Plan positions not yet compensated; the plan runs front to back.
Uncompensated(d) == {i \in DOMAIN d.plan : d.row[d.plan[i]].comp # "Succeeded"}

\* next_pending_compensation: a succeeded prefix, then pending steps; recovery
\* by an operator may start at a halted one.
PlanInStep(d, recovery) ==
    /\ PlanHolds(d)
    /\ LET rest == Uncompensated(d)
       IN \A i \in rest :
            /\ \A j \in i .. Len(d.plan) : j \in rest
            /\ \/ d.row[d.plan[i]].comp = "Pending"
               \/ /\ recovery
                  /\ d.row[d.plan[i]].comp = "Halted"
                  /\ \A j \in rest : i <= j

NextCompensation(d) ==
    LET rest == Uncompensated(d) IN d.plan[CHOOSE i \in rest : \A j \in rest : i <= j]

\* converge_compensated: COMPENSATED only on proof that every member succeeded.
Converge(d) ==
    LET c == Advance(d, "Compensated", "Compensating", 0)
    IN [c EXCEPT !.ok = @ /\ PlanHolds(d) /\ Uncompensated(d) = {}, !.deadline = FALSE]

\* mark_compensation_plan
MarkPlan(d, plan) ==
    [d EXCEPT !.frozen = TRUE, !.plan = plan,
              !.row = [s \in Steps |->
                         IF \E i \in DOMAIN plan : plan[i] = s /\ @[s].comp = "None"
                         THEN [@[s] EXCEPT !.comp = "Pending"] ELSE @[s]]]

EnterCompensation(d) ==
    LET plan == PlanOf(d)
    IN IF ~Freezable(d) THEN Escalate(d)
       ELSE IF plan = <<>>
       THEN Converge(MarkPlan(Advance(d, "Compensating", "Compensating", 0), plan))
       ELSE Issue(MarkPlan(Advance(d, "Compensating", "Compensating", plan[1]), plan),
                  plan[1], "Compensate", FALSE)

\* Mutant of ContinueCompensation: the saga keeps the finished step as its current
\* one, so the timeout of the command just issued is judged stale.
ContinueBehind(d) ==
    IF ~PlanInStep(d, FALSE) THEN Escalate(d)
    ELSE IF Uncompensated(d) = {}
    THEN Converge(Advance(d, "Compensating", "Compensating", 0))
    ELSE Issue(Advance(d, "Compensating", "Compensating", d.cur),
               NextCompensation(d), "Compensate", FALSE)

ContinueCompensation(d) ==
    IF ~PlanInStep(d, FALSE) THEN Escalate(d)
    ELSE IF Uncompensated(d) = {}
    THEN Converge(Advance(d, "Compensating", "Compensating", 0))
    ELSE LET s == NextCompensation(d)
         IN Issue(Advance(d, "Compensating", "Compensating", s), s, "Compensate", FALSE)

(***************************************************************************)
(* Forward progress and the resolution channel.                            *)
(***************************************************************************)

\* next_pending_forward refuses a journal that is not a succeeded prefix and a
\* pending suffix: the transaction rolls back.
ForwardInStep(d) ==
    \E k \in 0 .. N : \A s \in Steps :
        d.row[s].fwd = IF s <= k THEN "Succeeded" ELSE "Pending"

ProceedForward(d) ==
    LET pending == {s \in Steps : d.row[s].fwd = "Pending"}
        next == CHOOSE s \in pending : \A t \in pending : s <= t
    IN IF ~ForwardInStep(d) THEN [d EXCEPT !.ok = FALSE]
       ELSE IF pending = {}
       THEN [Advance(d, "Completed", "Forward", 0) EXCEPT !.deadline = FALSE]
       ELSE Issue(Advance(d, "Running", "Forward", next), next, "Execute", FALSE)

\* A late success follows the step's timeout policy.
LateSuccess(d, s) ==
    IF LatePolicy[s] = "Accept" THEN ProceedForward(d) ELSE EnterCompensation(d)

\* WAITING_RESOLUTION with its budget timer and the first query.
AskResolution(d, s, dir, n, rec) ==
    Issue(ScheduleBudget(Advance(d, "WaitingResolution", dir, s), s, dir, n),
          s, "Resolve", rec)

\* ph and n are the phase and the attempt of the result that left the effect open.
EnterWaiting(d, s, dir, ph, n) ==
    LET e == IF ph = "Execute" THEN Patch(d, s, [fwd |-> "Unknown"]) ELSE d
    IN IF ~External(Mode[s]) THEN Escalate(e)
       ELSE AskResolution(CancelTimer(Patch(e, s, [res |-> "Pending"]), s, "Execute"),
                          s, dir, n, FALSE)

ReissueResolve(d, s) ==
    IF ResolutionAttempts(d, s) >= ResolveMax THEN Escalate(d)
    ELSE Issue(Advance(d, "WaitingResolution", d.dir, s), s, "Resolve", FALSE)

(***************************************************************************)
(* Results.  Each phase has a hot path (the saga waits for this phase of   *)
(* this step) and otherwise projects the fact without moving the saga.     *)
(***************************************************************************)
DeferredPatch(d, ph, o) ==
    CASE ph = "Execute" -> [fwd |-> o]
      [] ph = "Cancel" ->
            IF o = "Confirmed" THEN [fwd |-> "Cancelled", cancel |-> "Confirmed"]
            ELSE IF o = "ResolutionPending" THEN [cancel |-> o]
            ELSE [fwd |-> CHOOSE f \in LateFacts : Late[f] = o, cancel |-> "AlreadyTerminal"]
      [] ph = "Compensate" -> [comp |-> o]
      [] ph = "Resolve" ->
            LET res == IF o = "Unknown" THEN "Pending" ELSE o
            IN IF d.dir = "Forward" THEN [res |-> res, fwd |-> o]
               ELSE [res |-> res, comp |-> IF o = "Rejected" THEN "Pending" ELSE o]

\* project_deferred_result: only the newest attempt of the phase is projected.
Defer(d, s, r) ==
    LET p == DeferredPatch(d, r.ph, r.out)
    IN IF r.n # NextAttempt(d, s, r.ph) - 1 THEN d
       ELSE IF Conflicts(d, s, p) THEN Conflicted(d)
       ELSE CancelTimer(Projected(d, s, p), s, r.ph)

OnExecute(d, s, r) ==
    LET e == CancelTimer(Patch(d, s, [fwd |-> r.out]), s, "Execute")
    IN CASE r.out = "Succeeded" -> ProceedForward(e)
         [] r.out = "Rejected" -> EnterCompensation(e)
         [] r.out = "Unknown" -> EnterWaiting(d, s, "Forward", "Execute", r.n)
         [] r.out = "Halted" -> Escalate(e)

OnCancel(d, s, r) ==
    LET p == DeferredPatch(d, "Cancel", r.out)
        Adjudicate(e) ==
            CASE r.out \in {"Confirmed", "LateRejected"} -> EnterCompensation(e)
              [] r.out = "LateSucceeded" -> LateSuccess(e, s)
              [] r.out = "LateHalted" -> Escalate(e)
              [] r.out = "ResolutionPending" -> EnterWaiting(e, s, "Forward", "Cancel", r.n)
    IN IF Conflicts(d, s, p) THEN Conflicted(d)
       ELSE Adjudicate(CancelTimer(Projected(d, s, p), s, "Cancel"))

OnCompensate(d, s, r) ==
    LET e == Patch(CancelTimer(d, s, "Compensate"), s, [comp |-> r.out])
    IN CASE r.out = "Succeeded" -> ContinueCompensation(e)
         [] r.out = "Unknown" -> EnterWaiting(e, s, "Compensating", "Compensate", r.n)
         [] r.out = "Halted" -> Escalate(e)

\* A success the journal already holds outranks an older query's answer.
CommittedSuccess(d, s) ==
    IF d.dir = "Forward" THEN d.row[s].fwd = "Succeeded" ELSE d.row[s].comp = "Succeeded"

SettleCommitted(d, s) ==
    LET p == IF d.dir = "Forward" THEN [res |-> "Succeeded", fwd |-> "Succeeded"]
             ELSE [res |-> "Succeeded", comp |-> "Succeeded"]
        Go(e) == IF d.dir = "Forward" THEN LateSuccess(e, s) ELSE ContinueCompensation(e)
    IN IF Conflicts(d, s, p) THEN Conflicted(d)
       ELSE Go(CancelResolutionTimers(Projected(d, s, p), s))

\* A denied compensation is issued again, within its attempt budget.
RetryDenied(d, s) ==
    IF NextAttempt(d, s, "Compensate") > CompensateMax THEN Escalate(d)
    ELSE Issue(Advance(d, "Compensating", "Compensating", s), s, "Compensate", FALSE)

OnResolve(d, s, r) ==
    LET p == IF r.out = "Halted" THEN [res |-> "Halted"]
             ELSE DeferredPatch(d, "Resolve", r.out)
        Go(e) == CASE d.dir = "Forward" /\ r.out = "Succeeded" -> ProceedForward(e)
                   [] d.dir = "Forward" /\ r.out = "Rejected" -> EnterCompensation(e)
                   [] d.dir = "Compensating" /\ r.out = "Succeeded" -> ContinueCompensation(e)
                   [] d.dir = "Compensating" /\ r.out = "Rejected" -> RetryDenied(e, s)
    IN IF CommittedSuccess(d, s) THEN SettleCommitted(d, s)
       ELSE IF r.out = "Unknown" THEN ReissueResolve(d, s)
       ELSE IF Conflicts(d, s, p) THEN Conflicted(d)
       ELSE IF r.out = "Halted" THEN Escalate(Projected(d, s, p))
       ELSE Go(CancelResolutionTimers(Projected(d, s, p), s))

Awaits == [Execute |-> "Running", Cancel |-> "Cancelling",
           Compensate |-> "Compensating", Resolve |-> "WaitingResolution"]

HandleResult(d, s, r) ==
    IF d.status # Awaits[r.ph] \/ d.cur # s THEN Defer(d, s, r)
    ELSE CASE r.ph = "Execute" -> OnExecute(d, s, r)
           [] r.ph = "Cancel" -> OnCancel(d, s, r)
           [] r.ph = "Compensate" -> OnCompensate(d, s, r)
           [] r.ph = "Resolve" -> OnResolve(d, s, r)

(***************************************************************************)
(* Timers.                                                                 *)
(***************************************************************************)
\* Mutant of OnStepTimeout: a timeout is taken for a failure, without a barrier.
OnStepTimeoutAsRejection(d, s, n) == EnterCompensation(Patch(d, s, [fwd |-> "Rejected"]))

OnStepTimeout(d, s, n) ==
    IF Mode[s] = "ResolveOnly"
    THEN AskResolution(Patch(d, s, [fwd |-> "Unknown", res |-> "Pending"]), s, "Forward", n, FALSE)
    ELSE Issue(Advance(Patch(d, s, [fwd |-> "TimedOut"]), "Cancelling", "Forward", s),
               s, "Cancel", FALSE)

PhaseMax == [Cancel |-> CancelMax, Compensate |-> CompensateMax, Resolve |-> ResolveMax]

Exhausted(d, s, ph) ==
    IF ph = "Resolve" THEN ResolutionAttempts(d, s) >= PhaseMax[ph]
    ELSE NextAttempt(d, s, ph) > PhaseMax[ph]

\* Mutant of OnPhaseRetry: an exhausted budget stops the retries and nothing else.
OnPhaseRetrySilent(d, s, ph) ==
    IF Exhausted(d, s, ph) THEN d
    ELSE Issue(Advance(d, d.status, d.dir, s), s, ph, FALSE)

OnPhaseRetry(d, s, ph) ==
    IF Exhausted(d, s, ph) THEN Escalate(d)
    ELSE Issue(Advance(d, d.status, d.dir, s), s, ph, FALSE)

\* The handler of the phase timeout, which its own transaction consumed.
OnPhaseTimeout(d, t) ==
    IF d.status # Awaits[t.ph] \/ d.cur # t.s THEN d
    ELSE IF t.ph = "Execute" THEN OnStepTimeout(d, t.s, t.n)
    ELSE OnPhaseRetry(d, t.s, t.ph)

OnBudget(d) == IF d.status = "WaitingResolution" THEN Escalate(d) ELSE d

OnDeadline(d) ==
    IF d.status = "Running" THEN OnStepTimeout(d, d.cur, 1)
    ELSE IF d.status \in Automatic THEN Escalate(d) ELSE d

(***************************************************************************)
(* Management operations, each with its audit row in the transaction.      *)
(***************************************************************************)
ReopenCompensation(d, s) ==
    IF d.row[s].comp = "Halted" THEN Patch(d, s, [comp |-> "Pending", res |-> "None"]) ELSE d

OnRetryCompensation(d) ==
    IF Uncompensated(d) = {} THEN Converge(Advance(d, "Compensating", "Compensating", 0))
    ELSE LET s == NextCompensation(d)
         IN Issue(Advance(ReopenCompensation(d, s), "Compensating", "Compensating", s),
                  s, "Compensate", TRUE)

UnknownEffect(d, s) ==
    /\ IF d.dir = "Forward" THEN d.row[s].fwd = "Unknown" ELSE d.row[s].comp = "Unknown"
    /\ d.row[s].res \in {"Pending", "Halted"}

OnRetryResolution(d) ==
    AskResolution(Patch(d, d.cur, [res |-> "Pending"]), d.cur, d.dir,
                  NextAttempt(d, d.cur, "Resolve"), TRUE)

OnManualClose(d) == [Advance(d, "ManuallyClosed", d.dir, 0) EXCEPT !.deadline = FALSE]

(***************************************************************************)
(* The specification.                                                      *)
(***************************************************************************)

\* start_saga commits the instance, the step rows, the first command and the
\* instance deadline together; the saga exists from then on.
Started ==
    LET empty == [status |-> "Running", dir |-> "Forward", cur |-> 1, paused |-> FALSE,
                  frozen |-> FALSE, plan |-> <<>>,
                  row |-> [s \in Steps |-> [fwd |-> "Pending", cancel |-> "None",
                                            comp |-> "None", res |-> "None"]],
                  cmds |-> [s \in Steps |-> <<>>], timer |-> NoTimer,
                  budgets |-> {}, budget |-> {}, deadline |-> Deadline, ok |-> TRUE]
    IN Issue(empty, 1, "Execute", FALSE)

Init ==
    /\ db = Started
    /\ gate = [s \in Steps |-> NoGate]
    /\ world = [s \in Steps |-> NoWorld]
    /\ results = [s \in Steps |-> <<>>]
    /\ applied = [s \in Steps |-> {}]
    /\ ops = 0

\* A transaction of the orchestrator commits d, or rolls back.
Commits(d) == d.ok /\ db' = d

\* Commands of a step in issue order, unless the broker reorders them.
Deliverable(s, i) ==
    /\ i \notin DOMAIN results[s]
    /\ InOrder => \A j \in 1 .. i - 1 : j \in DOMAIN results[s]

\* The inbox f of a participant with the command at position i answered.
Answered(f, i, o) == [j \in DOMAIN f \cup {i} |-> IF j = i THEN o ELSE f[j]]

ParticipantHandles(s, i) ==
    /\ Deliverable(s, i)
    /\ \E c \in Handle(Mode[s], db.cmds[s][i], gate[s], world[s]) :
          /\ gate' = [gate EXCEPT ![s] = c.gate]
          /\ world' = [world EXCEPT ![s] = c.world]
          /\ results' = [results EXCEPT ![s] = Answered(@, i, c.out)]
    /\ UNCHANGED <<db, applied, ops>>

\* The participant dies after the external call: nothing of its own survives.
ParticipantDies(s, i) ==
    /\ MayDie
    /\ Deliverable(s, i)
    /\ \E w \in Interrupted(Mode[s], db.cmds[s][i], gate[s], world[s]) :
          world' = [world EXCEPT ![s] = w]
    /\ UNCHANGED <<db, gate, results, applied, ops>>

\* Results nobody will deliver: a suppressed command has none, and without
\* StaleAnswers neither has a query about the forward effect (one issued before
\* the step's first compensate command) once the saga compensates.
Withheld(s) ==
    {i \in DOMAIN results[s] :
        \/ results[s][i] = NoResult
        \/ /\ ~StaleAnswers
           /\ db.dir = "Compensating"
           /\ db.cmds[s][i].ph = "Resolve"
           /\ \A c \in Attempts(db, s, "Compensate") : i < c}

\* handle_verified_result: a paused saga refuses, and the result comes again.
ResultArrives(s, i) ==
    /\ i \notin applied[s] \cup Withheld(s)
    /\ InOrder => \A j \in 1 .. i - 1 : j \in applied[s] \cup Withheld(s)
    /\ ~db.paused
    /\ Commits(HandleResult(db, s, [ph |-> db.cmds[s][i].ph, n |-> db.cmds[s][i].n,
                                    out |-> results[s][i]]))
    /\ applied' = [applied EXCEPT ![s] = @ \cup {i}]
    /\ UNCHANGED <<gate, world, results, ops>>

OrchestratorOnly == UNCHANGED <<gate, world, results, applied>>

PhaseTimeout ==
    /\ db.timer # NoTimer
    /\ ~db.paused
    /\ Commits(OnPhaseTimeout([db EXCEPT !.timer = NoTimer], db.timer))
    /\ OrchestratorOnly /\ UNCHANGED ops

BudgetTimeout ==
    /\ ~db.paused
    /\ \E b \in db.budget : Commits(OnBudget([db EXCEPT !.budget = @ \ {b}]))
    /\ OrchestratorOnly /\ UNCHANGED ops

DeadlineTimeout ==
    /\ db.deadline
    /\ ~db.paused
    /\ Commits(OnDeadline([db EXCEPT !.deadline = FALSE]))
    /\ OrchestratorOnly /\ UNCHANGED ops

\* A new operation of an operator; the bound Ops is the model's.
Operate(guard, d) ==
    /\ ops < Ops
    /\ guard
    /\ Commits(d)
    /\ ops' = ops + 1
    /\ OrchestratorOnly

Pause == Operate(~db.paused, [db EXCEPT !.paused = TRUE])

\* Resume clears the back-off of the timers; their due times stay.  It belongs
\* to the pause it ends and takes nothing from the bound.
Resume ==
    /\ db.paused
    /\ db' = [db EXCEPT !.paused = FALSE]
    /\ OrchestratorOnly /\ UNCHANGED ops

Managed == db.status = Manual /\ ~db.paused

RetryCompensation ==
    Managed /\ PlanInStep(db, TRUE) /\ Operate(TRUE, OnRetryCompensation(db))

RetryResolution ==
    /\ Managed
    /\ db.cur \in Steps
    /\ External(Mode[db.cur])
    /\ UnknownEffect(db, db.cur)
    /\ Operate(TRUE, OnRetryResolution(db))

ManualClose == Managed /\ Operate(TRUE, OnManualClose(db))

Next ==
    \/ \E s \in Steps : \E i \in DOMAIN db.cmds[s] : ParticipantHandles(s, i)
    \/ \E s \in Steps : \E i \in DOMAIN db.cmds[s] : ParticipantDies(s, i)
    \/ \E s \in Steps : \E i \in DOMAIN results[s] : ResultArrives(s, i)
    \/ PhaseTimeout
    \/ BudgetTimeout
    \/ DeadlineTimeout
    \/ Pause
    \/ Resume
    \/ RetryCompensation
    \/ RetryResolution
    \/ ManualClose

Spec == Init /\ [][Next]_vars

\* run_due_timers polls for ever: a due timer of a saga that is not paused is
\* claimed in the end.  Nothing is assumed of participants or of the broker.
LiveSpec == Spec /\ WF_vars(PhaseTimeout)

(***************************************************************************)
(* Properties.                                                             *)
(***************************************************************************)

\* The database, the gates and the world have the shape of their tables.
TypeOK ==
    /\ db.status \in Automatic \cup Terminal \cup {Manual}
    /\ db.dir \in {"Forward", "Compensating"}
    /\ db.cur \in 0 .. N
    /\ db.ok
    /\ {db.paused, db.frozen, db.deadline} \subseteq BOOLEAN
    /\ \A s \in Steps :
          /\ db.row[s].fwd \in {"Pending", "Succeeded", "Rejected", "Cancelled",
                                "Unknown", "TimedOut", "Halted"}
          /\ db.row[s].cancel \in {"None", "Confirmed", "AlreadyTerminal", "ResolutionPending"}
          /\ db.row[s].comp \in {"None", "Pending", "Succeeded", "Unknown", "Halted"}
          /\ db.row[s].res \in {"None", "Pending", "Succeeded", "Rejected", "Halted"}
          /\ DOMAIN results[s] \subseteq DOMAIN db.cmds[s]
          /\ applied[s] \subseteq DOMAIN results[s]
    /\ db.budget \subseteq db.budgets
    /\ ops \in 0 .. Ops

\* COMPLETED and COMPENSATED are true of the world: a completed saga has every
\* effect and reversed none, a compensated saga has no effect left standing.
TerminalIsTrue ==
    /\ db.status = "Completed" => \A s \in Steps : world[s].done /\ ~world[s].undone
    /\ db.status = "Compensated" => \A s \in Steps : world[s].done => world[s].undone

\* What the step journal holds as certain happened as it says, whatever path
\* (result, cancellation barrier, query, late projection) wrote it.
JournalIsTrue ==
    \A s \in Steps :
        /\ db.row[s].fwd = "Succeeded" => world[s].done
        /\ db.row[s].fwd \in {"Rejected", "Cancelled"} => ~world[s].done
        /\ db.row[s].comp = "Succeeded" => world[s].undone

\* Effects appear in definition order and are reversed in the opposite order: no
\* step acts before its predecessors, none is reversed before its successors.
EffectOrder ==
    \A s, t \in Steps : s < t =>
        /\ world[t].done => world[s].done
        /\ world[s].undone /\ world[t].done => world[t].undone

\* The frozen plan is the set of effects that stand when it is frozen: once it
\* exists no further effect appears (the late execute behind a barrier), and
\* only its members are ever reversed.
PlanIsTheEffects ==
    /\ db.frozen => {db.plan[i] : i \in DOMAIN db.plan} = {s \in Steps : world[s].done}
    /\ \A s \in Steps : world[s].undone => db.frozen /\ world[s].done

\* Every automatic state is watched: the timeout scheduled at the instance's
\* current version is for the step and the phase the saga waits for.
AlwaysTimed ==
    db.status \in Automatic =>
        /\ db.timer # NoTimer
        /\ db.timer.s = db.cur
        /\ Awaits[db.timer.ph] = db.status
        /\ db.timer.n = NextAttempt(db, db.cur, db.timer.ph) - 1

\* A saga that is not left paused for ever comes to rest in a terminal status or
\* with an operator, although no participant need ever answer.
ComesToRest == (<>[]db.paused) \/ <>[](db.status \notin Automatic)
=============================================================================
