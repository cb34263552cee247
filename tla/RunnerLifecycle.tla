--------------------------- MODULE RunnerLifecycle ---------------------------
(***************************************************************************)
(* One generation of a partition runner from start to the shutdown report: *)
(* submitters, slot workers that park and are woken, business tasks, the   *)
(* supervisor that joins them, and the calls that stop the runner          *)
(* (napart: runner.rs, slot.rs, lifecycle.rs).                             *)
(*                                                                         *)
(* Every task has a non-strict type whose route is local: the routes and   *)
(* tunnels of strict types are module StrictRoute's, the authority of one  *)
(* task is TaskEntry's, and a main queue, which is SequencedQueue's, is    *)
(* here the sequence of its unconsumed positions.                          *)
(*                                                                         *)
(* Abstractions.                                                           *)
(*  - submit_now and submit_admitted enter the same producer section one   *)
(*    inside the other; here it is entered once.                           *)
(*  - drain_batch is 1, and a turn that resumes the deferred task polls in *)
(*    the next one.  Control requests and delayed tasks are left out.      *)
(*  - The timer and the observer are one child: both end by the stop.      *)
(*  - tokio's Notify is a permit and at most one waiter; a parked worker   *)
(*    is that waiter (external).                                           *)
(*  - start_children is one step, and so are the mode and close_admission: *)
(*    every slot closes before a submitter that is past the phase check    *)
(*    looks at its slot, or after.                                         *)
(*  - The first call of a stop claims the operation, captures the baseline *)
(*    and sets the phase in one step.                                      *)
(*  - The supervisor's round is one step between two waits.                *)
(***************************************************************************)
EXTENDS Naturals, Sequences, FiniteSets

CONSTANTS
    Slots,          \* the slots of the generation
    MaxTasks,       \* bound: tasks submitted
    Home,           \* task -> its slot, by the hash of its key
    Controllers,    \* which of "stop", "force" and "failure" may end the generation
    StopInStart     \* may a controller act before start has returned?

ASSUME LifecycleAssumption ==
    /\ Slots # {} /\ IsFiniteSet(Slots)
    /\ MaxTasks \in Nat /\ Home \in [1 .. MaxTasks -> Slots]
    /\ Controllers \subseteq {"stop", "force", "failure"}
    /\ StopInStart \in BOOLEAN

VARIABLES
    phase,      \* RunnerInner::phase
    mode,       \* LifecycleCore::mode
    failure,    \* RunnerInner::failure is set
    op,         \* StopOperation: started, baseline, report
    starter,    \* how far start has come
    task,       \* task -> its stage
    producers,  \* RunnerInner::producers
    main,       \* slot -> unconsumed positions of the main queue
    accepting,  \* slot -> PartitionSlot::accepting
    worker,     \* slot -> its worker
    permit,     \* slot -> the wake-up permit of PartitionSlot::wake
    helper,     \* the timer and the observer
    timerOpen,  \* RunnerTimer is not closed
    sup,        \* where the supervisor is in its loop
    ctl         \* controller -> how far its call has come

submission == <<task, producers, main>>
waking == <<worker, permit>>
stopping == <<phase, mode, failure, op, accepting, timerOpen, ctl>>
vars == <<stopping, starter, submission, waking, helper, sup>>

Tasks == 1 .. MaxTasks

Settled == {"done", "frozen", "aborted"}

\* A "dropped" task was aborted before its first poll: nobody settles it.
Over == Settled \cup {"dropped"}

Accepted == {"reserved", "queued", "deferred", "spawned", "running"} \cup Over

In(stage) == {t \in Tasks : task[t] = stage}

\* The metrics a report is made of.
Counts == [drained |-> Cardinality(In("done")), frozen |-> Cardinality(In("frozen")),
           aborted |-> Cardinality(In("aborted"))]

NoReport == [drained |-> 0, frozen |-> 0, aborted |-> 0]

Init ==
    /\ phase = "Starting" /\ mode = "Running" /\ failure = FALSE
    /\ op = [started |-> FALSE, baseline |-> NoReport, report |-> NoReport, finished |-> FALSE]
    /\ starter = "children"
    /\ task = [t \in Tasks |-> "new"]
    /\ producers = 0
    /\ main = [s \in Slots |-> <<>>]
    /\ accepting = [s \in Slots |-> TRUE]
    /\ worker = [s \in Slots |-> [pc |-> "unborn", progressed |-> FALSE, tick |-> FALSE, deferred |-> 0]]
    /\ permit = [s \in Slots |-> FALSE]
    /\ helper = "unborn"
    /\ timerOpen = TRUE
    /\ sup = "round"
    /\ ctl = [c \in Controllers |-> "idle"]

Stage(t, stage) == task' = [task EXCEPT ![t] = stage]

(***************************************************************************)
(* Waking.                                                                 *)
(***************************************************************************)
Unparked(w) == [w EXCEPT !.pc = "turn", !.progressed = FALSE, !.tick = FALSE]

Exited(s) == worker[s].pc = "exited"

\* Notify::notify_one; a permit at a slot whose worker has left is nobody's.
NotifyOne(s) ==
    IF worker[s].pc = "parked"
    THEN worker' = [worker EXCEPT ![s] = Unparked(@)] /\ UNCHANGED permit
    ELSE permit' = [permit EXCEPT ![s] = ~Exited(s)] /\ UNCHANGED worker

\* notify_waiters, then notify_one, at every slot.
NotifyAll ==
    /\ worker' = [s \in Slots |-> IF worker[s].pc = "parked" THEN Unparked(worker[s]) ELSE worker[s]]
    /\ permit' = [s \in Slots |-> ~Exited(s)]

\* signal_change: a supervisor that waits for the revision to move looks again.
Signal == sup' = IF sup = "wait" THEN "round" ELSE sup

(***************************************************************************)
(* start: children are registered one by one, then the runner opens.       *)
(***************************************************************************)
StartChildren ==
    /\ starter = "children"
    /\ worker' = [s \in Slots |-> Unparked(worker[s])]
    /\ helper' = "running"
    /\ starter' = "open"
    /\ Signal
    /\ UNCHANGED <<stopping, submission, permit>>

\* The phase is stored whatever it has become in the meantime.
Open ==
    /\ starter = "open"
    /\ starter' = "done"
    /\ phase' = "Accepting"
    /\ Signal
    /\ UNCHANGED <<mode, failure, op, accepting, timerOpen, ctl, submission, waking, helper>>

(***************************************************************************)
(* A submission: ProducerGuard::enter, reserve, publish, leave.            *)
(***************************************************************************)
\* The phase is read, then the producer counted; the first look only saves work.
Submit(t) ==
    /\ task[t] = "new"
    /\ \A u \in 1 .. t - 1 : task[u] # "new"
    /\ phase = "Accepting"
    /\ Stage(t, "counted")
    /\ producers' = producers + 1
    /\ UNCHANGED <<stopping, starter, main, waking, helper, sup>>

Recheck(t) ==
    /\ task[t] = "counted"
    /\ \/ phase = "Accepting" /\ Stage(t, "entered") /\ UNCHANGED producers
       \/ phase # "Accepting" /\ Stage(t, "refused") /\ producers' = producers - 1
    /\ UNCHANGED <<stopping, starter, main, waking, helper, sup>>

\* reserve_main: the position is counted and the worker woken before the
\* payload is there.
Reserve(t) ==
    LET s == Home[t]
    IN /\ task[t] = "entered"
       /\ \/ /\ accepting[s]
             /\ main' = [main EXCEPT ![s] = Append(@, t)]
             /\ Stage(t, "reserved")
             /\ NotifyOne(s)
             /\ UNCHANGED <<producers, sup>>
          \/ /\ ~accepting[s]
             /\ Stage(t, "refused")
             /\ producers' = producers - 1
             /\ Signal
             /\ UNCHANGED <<main, waking>>
       /\ UNCHANGED <<stopping, starter, helper>>

Publish(t) ==
    /\ task[t] = "reserved"
    /\ Stage(t, "queued")
    /\ NotifyOne(Home[t])
    /\ producers' = producers - 1
    /\ Signal
    /\ UNCHANGED <<stopping, starter, main, helper>>

(***************************************************************************)
(* The slot worker.                                                        *)
(***************************************************************************)
ExecutionAvailable(s) ==
    \A t \in Tasks : Home[t] = s => task[t] \notin {"spawned", "running"}

\* dispatch_business
Dispatch(t) == Stage(t, IF mode = "Force" THEN "frozen" ELSE "spawned")

\* try_recv: the head is there once it is published.
HasItem(s) == main[s] # <<>> /\ task[Head(main[s])] # "reserved"

\* A forced stop freezes the deferred task, an execution permit lets it go.
Resume(s) ==
    LET t == worker[s].deferred
    IN /\ mode = "Force" \/ ExecutionAvailable(s)
       /\ Dispatch(t)
       /\ worker' = [worker EXCEPT ![s].pc = "check", ![s].progressed = TRUE, ![s].deferred = 0]
       /\ Signal
       /\ UNCHANGED main

\* consume_main: without an execution permit the task is kept.
Consume(s) ==
    LET t == Head(main[s])
        w == [worker EXCEPT ![s].pc = "check", ![s].progressed = TRUE]
    IN /\ HasItem(s)
       /\ main' = [main EXCEPT ![s] = Tail(@)]
       /\ \/ ExecutionAvailable(s) /\ Dispatch(t) /\ worker' = w /\ Signal
          \/ /\ ~ExecutionAvailable(s)
             /\ Stage(t, "deferred") /\ worker' = [w EXCEPT ![s].deferred = t]
             /\ UNCHANGED sup

\* Nothing to resume and nothing to poll; a reserved head is waited for.
NoProgress(s) ==
    /\ IF worker[s].deferred = 0 THEN ~HasItem(s) ELSE mode # "Force" /\ ~ExecutionAvailable(s)
    /\ worker' = [worker EXCEPT ![s].pc = "check"]
    /\ UNCHANGED <<task, main, sup>>

WorkerTurn(s) ==
    /\ worker[s].pc = "turn"
    /\ \/ worker[s].deferred # 0 /\ Resume(s)
       \/ worker[s].deferred = 0 /\ Consume(s)
       \/ NoProgress(s)
    /\ UNCHANGED <<stopping, starter, producers, permit, helper>>

\* Mutant of WorkerShouldExit: a worker looks at its own queue only.
WorkerShouldExitAlone(s) == phase \in {"Stopping", "Stopped", "Failed"} /\ main[s] = <<>>

\* worker_should_exit and queues_empty: of all slots, no matter which one asks.
WorkerShouldExit(s) ==
    /\ phase \in {"Stopping", "Stopped", "Failed"}
    /\ producers = 0
    /\ \A r \in Slots : main[r] = <<>>

WorkerCheck(s) ==
    LET leaves == WorkerShouldExit(s) /\ worker[s].deferred = 0
    IN /\ worker[s].pc = "check"
       /\ \/ /\ leaves
             /\ worker' = [worker EXCEPT ![s].pc = "exited", ![s].progressed = FALSE]
             /\ permit' = [permit EXCEPT ![s] = FALSE]
             /\ Signal
          \/ /\ ~leaves
             /\ worker' = [worker EXCEPT ![s] = IF @.progressed THEN Unparked(@) ELSE [@ EXCEPT !.pc = "idle"]]
             /\ UNCHANGED <<permit, sup>>
       /\ UNCHANGED <<stopping, starter, submission, helper>>

\* A permit is consumed; otherwise the worker parks, with a tick if it has
\* anything in its queue (needs_control_tick).
WorkerPark(s) ==
    /\ worker[s].pc = "idle"
    /\ \/ permit[s] /\ permit' = [permit EXCEPT ![s] = FALSE] /\ worker' = [worker EXCEPT ![s] = Unparked(@)]
       \/ /\ ~permit[s] /\ UNCHANGED permit
          /\ worker' = [worker EXCEPT ![s].pc = "parked", ![s].tick = main[s] # <<>>]
    /\ UNCHANGED <<stopping, starter, submission, helper, sup>>

WorkerTick(s) ==
    /\ worker[s].pc = "parked"
    /\ worker[s].tick
    /\ worker' = [worker EXCEPT ![s] = Unparked(@)]
    /\ UNCHANGED <<stopping, starter, submission, permit, helper, sup>>

(***************************************************************************)
(* Business tasks and helpers.                                             *)
(***************************************************************************)
BusinessStarts(t) ==
    /\ task[t] = "spawned"
    /\ Stage(t, "running")
    /\ UNCHANGED <<stopping, starter, producers, main, waking, helper, sup>>

\* Mutant of BusinessEnds: the permit goes back without a wake-up.
BusinessEndsQuietly(t) ==
    /\ task[t] = "running"
    /\ Stage(t, "done")
    /\ Signal
    /\ UNCHANGED <<stopping, starter, producers, main, waking, helper>>

\* run_business settles the task, gives the permit back and wakes its worker.
BusinessEnds(t) ==
    /\ task[t] = "running"
    /\ Stage(t, "done")
    /\ NotifyOne(Home[t])
    /\ Signal
    /\ UNCHANGED <<stopping, starter, producers, main, helper>>

\* abort_kind(Business) took effect: BusinessBackstop settles a task that was
\* polled; one that never was has no backstop yet.
BusinessAborted(t) ==
    /\ sup # "gone" /\ mode = "Force" /\ phase = "Stopping"
    /\ \/ task[t] = "running" /\ Stage(t, "aborted") /\ NotifyOne(Home[t]) /\ Signal
       \/ task[t] = "spawned" /\ Stage(t, "dropped") /\ UNCHANGED <<waking, sup>>
    /\ UNCHANGED <<stopping, starter, producers, main, helper>>

HelperExits ==
    /\ helper = "running"
    /\ ~timerOpen /\ mode # "Running"
    /\ helper' = "ended"
    /\ Signal
    /\ UNCHANGED <<stopping, starter, submission, waking>>

(***************************************************************************)
(* The supervisor.                                                         *)
(***************************************************************************)

\* Mutant of AllJoined: children that are still running do not hold the report back.
AllJoinedSoon == producers = 0

\* The children that have ended are joined in the round that looks.
AllJoined ==
    /\ producers = 0
    /\ \A s \in Slots : worker[s].pc \in {"unborn", "exited"}
    /\ In("spawned") \cup In("running") = {}
    /\ helper \notin {"running", "failing"}

\* Mutant of ForceWakes: close has woken the workers already.
ForceWakesNobody == UNCHANGED waking

\* In a forced stop every round wakes every worker.
ForceWakes == IF mode = "Force" /\ phase = "Stopping" THEN NotifyAll ELSE UNCHANGED waking

Report == [c \in DOMAIN NoReport |-> Counts[c] - op.baseline[c]]

\* supervise: join what has ended, then publish the report or wait.
Supervise ==
    /\ sup = "round"
    /\ ForceWakes
    /\ \/ /\ phase = "Stopping" /\ AllJoined
          /\ phase' = IF failure THEN "Failed" ELSE "Stopped"
          /\ op' = [op EXCEPT !.report = Report, !.finished = TRUE]
          /\ sup' = "gone"
       \/ /\ ~(phase = "Stopping" /\ AllJoined)
          /\ sup' = "rest"
          /\ UNCHANGED <<phase, op>>
    /\ UNCHANGED <<mode, failure, accepting, timerOpen, ctl, starter, submission, helper>>

\* The revision is read, then the need of a tick.
SupervisorRests ==
    /\ sup = "rest"
    /\ sup' = IF phase = "Stopping" THEN "tick" ELSE "wait"
    /\ UNCHANGED <<stopping, starter, submission, waking, helper>>

SupervisorTick ==
    /\ sup = "tick"
    /\ sup' = "round"
    /\ UNCHANGED <<stopping, starter, submission, waking, helper>>

(***************************************************************************)
(* Stopping.  "stop" is request_graceful_stop, "force" request_force_stop, *)
(* and "failure" fail_control_plane, called by a child of the generation.  *)
(***************************************************************************)
Goes(c, pc) == ctl' = [ctl EXCEPT ![c] = pc]

MayStop == StopInStart \/ starter = "done"

\* spawn_registered: the timer or the observer panicked, and its task goes on to
\* fail the generation.  The phase is stored before the forced stop is asked for.
FailControlPlane ==
    /\ "failure" \in Controllers
    /\ ctl["failure"] = "idle"
    /\ helper = "running"
    /\ helper' = "failing"
    /\ MayStop
    /\ failure' = TRUE
    /\ phase' = "Stopping"
    /\ Goes("failure", "claim")
    /\ UNCHANGED <<mode, op, accepting, timerOpen, starter, submission, waking, sup>>

Calls(c) == IF c = "failure" THEN ctl[c] = "claim" ELSE ctl[c] = "idle" /\ MayStop

\* The first call owns the operation: it captures the baseline and sets the
\* phase.  A later stop has nothing left to do.
Claim(c) ==
    /\ Calls(c)
    /\ \/ /\ ~op.started
          /\ op' = [op EXCEPT !.started = TRUE, !.baseline = Counts]
          /\ phase' = "Stopping"
          /\ Goes(c, "close")
       \/ /\ op.started
          /\ Goes(c, IF c = "stop" THEN "waiting" ELSE "close")
          /\ UNCHANGED <<op, phase>>
    /\ UNCHANGED <<mode, failure, accepting, timerOpen, starter, submission, waking, helper, sup>>

\* The mode only grows; close_admission wakes everybody.
Close(c) ==
    /\ ctl[c] = "close"
    /\ mode' = IF c # "stop" THEN "Force" ELSE IF mode = "Running" THEN "Graceful" ELSE mode
    /\ accepting' = [s \in Slots |-> FALSE]
    /\ timerOpen' = FALSE
    /\ NotifyAll
    /\ Goes(c, "waiting")
    /\ helper' = IF c = "failure" THEN "ended" ELSE helper
    /\ Signal
    /\ UNCHANGED <<phase, failure, op, starter, submission>>

(***************************************************************************)
(* The specification.                                                      *)
(***************************************************************************)
Start == StartChildren \/ Open
Producer(t) == Recheck(t) \/ Reserve(t) \/ Publish(t)
WorkerStep(s) == WorkerTurn(s) \/ WorkerCheck(s) \/ WorkerPark(s) \/ WorkerTick(s)
BusinessStep(t) == BusinessStarts(t) \/ BusinessEnds(t) \/ BusinessAborted(t)
SupervisorStep == Supervise \/ SupervisorRests \/ SupervisorTick

Next ==
    \/ Start
    \/ \E t \in Tasks : Submit(t) \/ Producer(t) \/ BusinessStep(t)
    \/ \E s \in Slots : WorkerStep(s)
    \/ HelperExits
    \/ SupervisorStep
    \/ FailControlPlane
    \/ \E c \in Controllers : Claim(c) \/ Close(c)

Spec == Init /\ [][Next]_vars

\* Work that cannot go on for ever: fairness of the whole is fairness of each.
FiniteWork ==
    \/ Start
    \/ \E t \in Tasks : Producer(t) \/ BusinessStep(t)
    \/ HelperExits
    \/ \E c \in Controllers : (c = "failure" /\ Claim(c)) \/ Close(c)

\* The runtime polls every ready task, timers fire, and business futures end.
\* Nobody need submit or stop.
FairSpec ==
    /\ Spec
    /\ WF_vars(FiniteWork)
    /\ \A s \in Slots : WF_vars(WorkerStep(s))
    /\ WF_vars(SupervisorStep)

(***************************************************************************)
(* Properties.                                                             *)
(***************************************************************************)

\* Every variable keeps its type, the producer count included
\* (RunnerInner, runner.rs).
TypeOK ==
    /\ phase \in {"Starting", "Accepting", "Stopping", "Stopped", "Failed"}
    /\ mode \in {"Running", "Graceful", "Force"}
    /\ \A t \in Tasks : task[t] \in {"new", "counted", "entered", "refused"} \cup Accepted
    /\ producers = Cardinality({t \in Tasks : task[t] \in {"counted", "entered", "reserved"}})
    /\ \A s \in Slots :
          /\ main[s] \in Seq(Tasks)
          /\ worker[s].pc \in {"unborn", "turn", "check", "idle", "parked", "exited"}
          /\ worker[s].deferred \in {0} \cup In("deferred")
    /\ helper \in {"unborn", "running", "failing", "ended"}

\* A worker that has left has left nothing behind, and nothing comes after it:
\* its queue stays empty whatever submitters were under way when the runner
\* closed (worker_should_exit, ProducerGuard::enter, runner.rs).
ExitIsFinal ==
    \A s \in Slots : Exited(s) => main[s] = <<>> /\ worker[s].deferred = 0

\* When the report is out the generation is over: every worker has left, no accepted
\* task is still in a queue, kept, or running, and the report tells the tasks
\* settled since the stop began, in figures that never move again (supervise,
\* build_shutdown_report, runner.rs).
ReportIsFinal ==
    op.finished =>
        /\ \A t \in Tasks : task[t] \in Accepted => task[t] \in Over
        /\ \A s \in Slots : Exited(s)
        /\ op.report = Report

\* Once the runner is stopping it never opens again (start_now, request_graceful_stop,
\* runner.rs).
NeverReopens == [][phase = "Stopping" => phase' # "Accepting"]_phase

\* Every accepted task comes to its end, stopped or not: no wake-up is lost
\* between a worker that parks and whoever has work for it (slot.rs run, Notify).
EveryTaskEnds == \A t \in Tasks : task[t] \in {"queued", "deferred", "spawned"} ~> task[t] \in Over

\* No task ends without a terminal state for its handle (BusinessBackstop, runner.rs).
EveryEndIsSettled == In("dropped") = {}

\* A forced stop comes to its report (supervise, runner.rs).
ForceConverges == (mode = "Force") ~> op.finished

\* A stop without loss comes to its report, by the supervisor alone
\* (request_stop, stop, runner.rs).
StopConverges == op.started ~> op.finished
=============================================================================
