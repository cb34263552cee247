----------------------------- MODULE TaskEntry -----------------------------
(***************************************************************************)
(* The life of one task of napart: the TaskEntry that is the only judge of *)
(* its state, owner, physical retention and move (entry/task.rs), the      *)
(* public Submission (entry.rs), and the threads of the runner that race   *)
(* for it (runner.rs): the submitter or the delay timer that publishes it, *)
(* callers of cancel, the workers of its home slot and of a second slot    *)
(* that may steal it, the business task that runs it, the supervisor that  *)
(* audits moves, and the shutdown path.                                    *)
(*                                                                         *)
(* An action is one access to shared memory: an atomic operation or a      *)
(* critical section of one of the entry's mutexes.  Queues are abstracted  *)
(* to the slot whose queue holds the envelope (SequencedQueue shows that a *)
(* published item is delivered once and that publishing cannot fail).      *)
(***************************************************************************)
EXTENDS Integers, FiniteSets

CONSTANTS
  Callers,    \* threads that call Submission::cancel once each
  Delayed,    \* TRUE: submit_delayed, FALSE: submit_now
  MayExpire,  \* may a move outlive transition_timeout?
  MayForce    \* may the owner ask for a forced stop?

ASSUME EntryAssumption ==
  /\ IsFiniteSet(Callers)
  /\ Callers \cap {"home", "away", "publisher", "cleanup", "business", "auditor", "closer"} = {}
  /\ Delayed \in BOOLEAN /\ MayExpire \in BOOLEAN /\ MayForce \in BOOLEAN

VARIABLES
  entry,       \* the fields of TaskEntry
  at,          \* the slot whose queue holds the envelope, or "nowhere"
  bound,       \* EnvelopeBinding is set
  timer,       \* the id is in RunnerInner.delayed
  moving,      \* the id is in RunnerInner.moving
  forceStop,   \* LifecycleMode::ForceStop
  typeFailed, controlFailed,   \* TypeState::fail, fail_control_plane
  accounts,    \* the projections settled when the task ends
  pc, local,   \* threads
  runs,        \* history: executions begun
  answer       \* history: what each call of cancel returned

shared == <<at, bound, timer, moving, forceStop, typeFailed, controlFailed>>
history == <<runs, answer>>
vars == <<entry, shared, accounts, pc, local, history>>

-----------------------------------------------------------------------------
Slots == {"home", "away"}
Threads == Slots \cup Callers \cup {"publisher", "cleanup", "business", "auditor", "closer"}

Terminal == {"Completed", "Cancelled", "Rejected", "Failed"}
EntryState == {"Enqueueing", "Delayed", "Queued", "Moving", "Running", "Terminating"}
                \cup Terminal
(* Owner: a slot, or the sentinel of the terminal state.                   *)
Owner == Slots \cup Terminal
PhysicalRetention == {"Detached", "Container", "Handling"}
None == "None"
NoMove == [target |-> None, epoch |-> 0]

(* Results of finalize_termination_with_accounting.                        *)
Result == {"Ok", "InvalidState", "SettlementOwned", "SettlementConflict",
           "RetentionMismatch", "OwnerMismatch"}

(* publisher holds the logical_owner mutex                                 *)
LogicalHeld == pc["publisher"] \in {"setowner", "setretention", "setqueued",
                                    "undoretention", "undoowner"}

Label == {"off", "idle", "done", "timer", "expire", "admit", "unbound", "permit",
          "install", "bind", "place", "prepare", "setlogical", "setowner",
          "setretention", "setqueued", "undoretention", "undoowner", "uncount",
          "publish", "unplaced", "rejectbound", "settle", "dropped",
          "cancel", "terminate", "defer", "retire", "bindcheck", "envelope", "returned",
          "received", "claim", "claimretention", "claimed", "handling",
          "mprepare", "mdescribe", "mregister", "mensure", "mactivate", "mabandon",
          "mcheckowner", "mowner", "mcheckretention", "mretention",
          "mchecklogical", "mlogical", "mcheckpublish", "mpublish", "mcancel", "mbegin", "mcomplete",
          "menqueue", "mclear", "munregister", "muncount", "mfail", "mfailclear",
          "audit", "auditretention", "auditabandon",
          "waiting", "granted", "take", "running", "finish", "backstop", "backstopfail",
          "failrun", "failqueued", "authfail", "authfailfrom",
          "final", "finalpending", "finalretention", "finalowner", "finalterminal",
          "finalmove", "finalclaim", "finaldetach", "finallogical", "finalaccount",
          "finalpermits", "finalrecord", "finalunpend", "finalpublish",
          "helped", "cancelled", "cleaned"}

(* Types of the entry, the runner's projections and the threads; no count  *)
(* (type, container) goes below zero (decrement_container, runner.rs).     *)
TypeOK ==
  /\ entry \in [state : EntryState, owner : Owner, cancelRequested : BOOLEAN,
                terminal : Terminal \cup {None}, pending : Terminal \cup {None},
                payload : BOOLEAN, logical : Slots \cup {None},
                retention : PhysicalRetention,
                move : [target : Slots \cup {None}, epoch : Nat], epoch : Nat,
                queuedPermit : BOOLEAN, globalPermit : BOOLEAN]
  /\ at \in Slots \cup {"nowhere"}
  /\ bound \in BOOLEAN /\ timer \in BOOLEAN /\ moving \in BOOLEAN
  /\ forceStop \in BOOLEAN /\ typeFailed \in BOOLEAN /\ controlFailed \in BOOLEAN
  /\ accounts \in [queued : BOOLEAN, logical : Nat, container : [Slots -> Nat],
                   settlements : Nat, strictSettled : BOOLEAN]
  /\ pc \in [Threads -> Label]
  /\ local \in [Threads -> [state : EntryState, owner : Owner, record : Terminal \cup {None},
                            epoch : Nat, slot : Slots, envelope : BOOLEAN,
                            cont : Label, result : Result]]
  /\ runs \in Nat
  /\ answer \in [Callers -> {"none", "accepted", "deferred", "refused"}]

(* submit_now has its permits and the binding and is about to place the    *)
(* task; submit_delayed has registered it with the timer.                  *)
Init ==
  /\ entry = [state |-> IF Delayed THEN "Delayed" ELSE "Enqueueing", owner |-> "home",
              cancelRequested |-> FALSE, terminal |-> None, pending |-> None,
              payload |-> TRUE, logical |-> None, retention |-> "Detached",
              move |-> NoMove, epoch |-> 0,
              queuedPermit |-> ~Delayed, globalPermit |-> TRUE]
  /\ at = "nowhere" /\ bound = ~Delayed /\ timer = Delayed /\ moving = FALSE
  /\ forceStop = FALSE /\ typeFailed = FALSE /\ controlFailed = FALSE
  /\ accounts = [queued |-> ~Delayed, logical |-> 0, container |-> [s \in Slots |-> 0],
                 settlements |-> 0, strictSettled |-> FALSE]
  /\ pc = [t \in Threads |->
             CASE t = "publisher" -> IF Delayed THEN "timer" ELSE "place"
               [] t \in {"cleanup", "business"} -> "off"
               [] OTHER -> "idle"]
  /\ local = [t \in Threads |->
               [state |-> "Delayed", owner |-> "home", record |-> None, epoch |-> 0,
                slot |-> "home", envelope |-> FALSE,
                cont |-> "done", result |-> "Ok"]]
  /\ runs = 0
  /\ answer = [c \in Callers |-> "none"]

-----------------------------------------------------------------------------
Goto(t, to) == pc' = [pc EXCEPT ![t] = to]
At(t, from, to) == pc[t] = from /\ Goto(t, to)

(* begin_termination(expected, terminal): the pending record and the state *)
(* change together under the mutex of pending_terminal.                    *)
CanTerminate(expected) == entry.pending = None /\ entry.state = expected
Terminated(terminal) == [entry EXCEPT !.state = "Terminating", !.pending = terminal]

(* Where a thread goes on when a failed or cancelled task has been settled *)
(* or left to another settler.                                             *)
After(t) ==
  CASE t \in Slots -> "idle"
    [] t = "auditor" -> "idle"
    [] t \in Callers -> "returned"
    [] t = "publisher" /\ Delayed -> "settle"
    [] OTHER -> "done"

(* Begin finalize_termination_with_accounting; the result is handled at    *)
(* cont: "helped" in finalize_terminal, "cancelled" in Submission::cancel,  *)
(* "cleaned" in settle_delayed_cancel, elsewhere it is ignored.            *)
Finalize(t, cont) ==
  /\ Goto(t, "final")
  /\ local' = [local EXCEPT ![t].cont = cont]

-----------------------------------------------------------------------------
(* finalize_termination_with_accounting                                    *)

Return(t, result) ==
  /\ Goto(t, local[t].cont)
  /\ local' = [local EXCEPT ![t].result = result]

(* Whether the caller's closures see an envelope to settle.                *)
Settles(t) ==
  CASE local[t].cont = "helped" -> TRUE
    [] local[t].cont = "cancelled" -> local[t].envelope
    [] local[t].cont = "cleaned" -> bound
    [] OTHER -> FALSE

FinalizeState(t) ==
  /\ pc[t] = "final"
  /\ IF entry.state = "Terminating"
     THEN Goto(t, "finalpending") /\ UNCHANGED local
     ELSE Return(t, IF entry.state \in Terminal THEN "SettlementOwned" ELSE "InvalidState")
  /\ UNCHANGED <<entry, shared, accounts, history>>

FinalizePending(t) ==
  /\ pc[t] = "finalpending"
  /\ IF entry.pending # None
     THEN /\ Goto(t, "finalretention")
          /\ local' = [local EXCEPT ![t].record = entry.pending]
     ELSE Return(t, IF \/ entry.state \in Terminal
                       \/ entry.owner \in Terminal
                       \/ entry.terminal # None
                    THEN "SettlementOwned" ELSE "SettlementConflict")
  /\ UNCHANGED <<entry, shared, accounts, history>>

FinalizeRetention(t) ==
  /\ pc[t] = "finalretention"
  /\ IF entry.retention # "Container"
     THEN Goto(t, "finalowner") /\ UNCHANGED local
     ELSE Return(t, "RetentionMismatch")
  /\ UNCHANGED <<entry, shared, accounts, history>>

FinalizeOwner(t) ==
  /\ pc[t] = "finalowner"
  /\ IF entry.owner \notin Terminal
     THEN /\ Goto(t, "finalterminal")
          /\ local' = [local EXCEPT ![t].owner = entry.owner]
     ELSE Return(t, "SettlementOwned")
  /\ UNCHANGED <<entry, shared, accounts, history>>

FinalizeTerminal(t) ==
  /\ pc[t] = "finalterminal"
  /\ IF entry.terminal = None
     THEN Goto(t, "finalmove") /\ UNCHANGED local
     ELSE Return(t, "SettlementOwned")
  /\ UNCHANGED <<entry, shared, accounts, history>>

FinalizeMove(t) ==
  /\ pc[t] = "finalmove"
  /\ IF entry.move = NoMove
     THEN Goto(t, "finalclaim") /\ UNCHANGED local
     ELSE Return(t, "SettlementConflict")
  /\ UNCHANGED <<entry, shared, accounts, history>>

\* Mutant: the sentinel is stored and not swapped in.
FinalizeClaimBlind(t) ==
  /\ At(t, "finalclaim", "finaldetach")
  /\ entry' = [entry EXCEPT !.owner = local[t].record]
  /\ UNCHANGED <<shared, accounts, local, history>>

(* The owner sentinel gives one thread the right to settle.                *)
FinalizeClaim(t) ==
  /\ pc[t] = "finalclaim"
  /\ IF entry.owner = local[t].owner
     THEN /\ entry' = [entry EXCEPT !.owner = local[t].record]
          /\ Goto(t, "finaldetach") /\ UNCHANGED local
     ELSE /\ Return(t, IF entry.owner \in Terminal THEN "SettlementOwned"
                                                    ELSE "OwnerMismatch")
          /\ UNCHANGED entry
  /\ UNCHANGED <<shared, accounts, history>>

\* Mutant: the stable state is visible before the permits are returned.
FinalizeDetachPublishes(t) ==
  /\ At(t, "finaldetach", "finallogical")
  /\ entry' = [entry EXCEPT !.retention = "Detached", !.state = local[t].record]
  /\ UNCHANGED <<shared, accounts, local, history>>

FinalizeDetach(t) ==
  /\ At(t, "finaldetach", "finallogical")
  /\ entry' = [entry EXCEPT !.retention = "Detached"]
  /\ UNCHANGED <<shared, accounts, local, history>>

(* The logical owner is taken under its mutex; commit_logical returns its  *)
(* counts.                                                                 *)
FinalizeLogical(t) ==
  /\ ~LogicalHeld
  /\ At(t, "finallogical", "finalaccount")
  /\ entry' = [entry EXCEPT !.logical = None]
  /\ accounts' = IF entry.logical # None /\ Settles(t)
                 THEN [accounts EXCEPT !.logical = @ - 1,
                                       !.container[entry.logical] = @ - 1]
                 ELSE accounts
  /\ UNCHANGED <<shared, local, history>>

(* commit_accounting comes before the permits are released.                *)
FinalizeAccount(t) ==
  /\ At(t, "finalaccount", "finalpermits")
  /\ accounts' = [accounts EXCEPT !.settlements = @ + 1,
                                  !.queued = @ /\ ~Settles(t)]
  /\ UNCHANGED <<entry, shared, local, history>>

FinalizePermits(t) ==
  /\ At(t, "finalpermits", "finalrecord")
  /\ entry' = [entry EXCEPT !.payload = FALSE, !.queuedPermit = FALSE,
                            !.globalPermit = FALSE]
  /\ UNCHANGED <<shared, accounts, local, history>>

FinalizeRecord(t) ==
  /\ pc[t] = "finalrecord"
  /\ IF entry.terminal = None
     THEN /\ entry' = [entry EXCEPT !.terminal = local[t].record]
          /\ Goto(t, "finalunpend") /\ UNCHANGED local
     ELSE Return(t, "SettlementConflict") /\ UNCHANGED entry
  /\ UNCHANGED <<shared, accounts, history>>

FinalizeUnpend(t) ==
  /\ At(t, "finalunpend", "finalpublish")
  /\ entry' = [entry EXCEPT !.pending = None]
  /\ UNCHANGED <<shared, accounts, local, history>>

FinalizePublish(t) ==
  /\ pc[t] = "finalpublish"
  /\ entry' = [entry EXCEPT !.state = local[t].record]
  /\ Return(t, "Ok")
  /\ UNCHANGED <<shared, accounts, history>>

FinalizeStep(t) ==
  \/ FinalizeState(t) \/ FinalizePending(t) \/ FinalizeRetention(t)
  \/ FinalizeOwner(t) \/ FinalizeTerminal(t) \/ FinalizeMove(t)
  \/ FinalizeClaim(t) \/ FinalizeDetach(t) \/ FinalizeLogical(t)
  \/ FinalizeAccount(t) \/ FinalizePermits(t) \/ FinalizeRecord(t)
  \/ FinalizeUnpend(t) \/ FinalizePublish(t)

-----------------------------------------------------------------------------
(* RunnerInner::finalize_terminal, after the entry has answered.           *)
Helped(t) ==
  /\ At(t, "helped", After(t))
  /\ accounts' = [accounts EXCEPT !.strictSettled = @ \/ local[t].result = "Ok"]
  /\ typeFailed' = (typeFailed \/ local[t].result \notin {"Ok", "SettlementOwned"})
  /\ UNCHANGED <<entry, at, bound, timer, moving, forceStop, controlFailed, local, history>>

(* RunnerInner::fail_before_running                                        *)
FailBeforeRunning(t) ==
  /\ pc[t] = "failrun"
  /\ CASE entry.state = "Terminating" -> Finalize(t, "helped")
       [] entry.state \in Terminal -> Goto(t, After(t)) /\ UNCHANGED local
       [] OTHER -> Goto(t, "failqueued") /\ UNCHANGED local
  /\ UNCHANGED <<entry, shared, accounts, history>>

FailQueued(t) ==
  /\ pc[t] = "failqueued"
  /\ IF CanTerminate("Queued")
     THEN entry' = Terminated("Failed") /\ Finalize(t, "helped")
     ELSE Goto(t, After(t)) /\ UNCHANGED <<entry, local>>
  /\ UNCHANGED <<shared, accounts, history>>

(* RunnerInner::record_authority_failure                                   *)
AuthorityFailure(t) ==
  /\ pc[t] = "authfail"
  /\ CASE entry.state \in Terminal ->
            Goto(t, After(t)) /\ UNCHANGED <<local, typeFailed>>
       [] entry.state = "Terminating" ->
            Finalize(t, "helped") /\ UNCHANGED typeFailed
       [] entry.state \in {"Enqueueing", "Delayed", "Queued"} ->
            /\ Goto(t, "authfailfrom")
            /\ local' = [local EXCEPT ![t].state = entry.state]
            /\ UNCHANGED typeFailed
       [] OTHER ->
            Goto(t, After(t)) /\ typeFailed' = TRUE /\ UNCHANGED local
  /\ UNCHANGED <<entry, at, bound, timer, moving, forceStop, controlFailed, accounts, history>>

AuthorityFailFrom(t) ==
  /\ pc[t] = "authfailfrom"
  /\ IF CanTerminate(local[t].state)
     THEN /\ entry' = Terminated("Failed")
          /\ Finalize(t, "helped") /\ UNCHANGED typeFailed
     ELSE /\ Goto(t, After(t))
          /\ typeFailed' = TRUE /\ UNCHANGED <<entry, local>>
  /\ UNCHANGED <<at, bound, timer, moving, forceStop, controlFailed, accounts, history>>

HelperStep(t) ==
  \/ FinalizeStep(t) \/ Helped(t) \/ FailBeforeRunning(t) \/ FailQueued(t)
  \/ AuthorityFailure(t) \/ AuthorityFailFrom(t)

-----------------------------------------------------------------------------
(* The timer: expire_delayed.  Its first steps only exist for a delayed    *)
(* task; submit_admitted begins at "place".                                *)

ExpireRemove ==
  /\ At("publisher", "timer", IF timer THEN "expire" ELSE "done")
  /\ timer' = FALSE
  /\ UNCHANGED <<entry, at, bound, moving, forceStop, typeFailed, controlFailed,
                 accounts, local, history>>

ClaimExpired ==
  LET ok == entry.state = "Delayed" IN
  /\ At("publisher", "expire", IF ok THEN "admit" ELSE "done")
  /\ entry' = IF ok THEN [entry EXCEPT !.state = "Enqueueing"] ELSE entry
  /\ UNCHANGED <<shared, accounts, local, history>>

(* The phase, the type registry and the queued budget admit or refuse.     *)
AdmitExpired ==
  /\ \/ At("publisher", "admit", "permit")
     \/ At("publisher", "admit", "unbound")
  /\ UNCHANGED <<entry, shared, accounts, local, history>>

(* reject_unbound_delayed                                                  *)
RejectUnbound ==
  /\ pc["publisher"] = "unbound"
  /\ IF CanTerminate("Enqueueing")
     THEN entry' = Terminated("Rejected") /\ Finalize("publisher", "done")
     ELSE Goto("publisher", "done") /\ UNCHANGED <<entry, local>>
  /\ UNCHANGED <<shared, accounts, history>>

(* install_queued_permit checks the state, then stores the permit.         *)
InstallCheck ==
  /\ At("publisher", "permit", IF entry.state = "Enqueueing" THEN "install" ELSE "unbound")
  /\ UNCHANGED <<entry, shared, accounts, local, history>>

Install ==
  /\ At("publisher", "install", "bind")
  /\ entry' = [entry EXCEPT !.queuedPermit = TRUE]
  /\ UNCHANGED <<shared, accounts, local, history>>

(* TaskEnvelope::new counts the task as queued; the binding is set.        *)
Bind ==
  /\ At("publisher", "bind", "place")
  /\ bound' = TRUE
  /\ accounts' = [accounts EXCEPT !.queued = TRUE]
  /\ UNCHANGED <<entry, at, timer, moving, forceStop, typeFailed, controlFailed, local, history>>

-----------------------------------------------------------------------------
(* publish_initial, with prepare_initial_queue                             *)

(* reserve_placement chooses the home queue or a tunnel, or refuses; the   *)
(* task is counted at its place before it is visible there.                *)
Place(s) ==
  /\ At("publisher", "place", "prepare")
  /\ local' = [local EXCEPT !["publisher"].slot = s]
  /\ accounts' = [accounts EXCEPT !.logical = @ + 1, !.container[s] = @ + 1]
  /\ UNCHANGED <<entry, shared, history>>

PlacementRefused ==
  /\ At("publisher", "place", "unplaced")
  /\ UNCHANGED <<entry, shared, accounts, local, history>>

PrepareCheck ==
  /\ At("publisher", "prepare",
        IF entry.state = "Enqueueing" THEN "setlogical" ELSE "uncount")
  /\ UNCHANGED <<entry, shared, accounts, local, history>>

PrepareLogical ==
  /\ At("publisher", "setlogical", "setowner")
  /\ entry' = [entry EXCEPT !.logical = local["publisher"].slot]
  /\ UNCHANGED <<shared, accounts, local, history>>

PrepareOwner ==
  LET ok == entry.owner = "home" IN
  /\ At("publisher", "setowner", IF ok THEN "setretention" ELSE "uncount")
  /\ entry' = IF ok THEN [entry EXCEPT !.owner = local["publisher"].slot]
                    ELSE [entry EXCEPT !.logical = None]
  /\ UNCHANGED <<shared, accounts, local, history>>

PrepareRetention ==
  LET ok == entry.retention = "Detached" IN
  /\ At("publisher", "setretention", IF ok THEN "setqueued" ELSE "undoowner")
  /\ entry' = IF ok THEN [entry EXCEPT !.retention = "Container"] ELSE entry
  /\ UNCHANGED <<shared, accounts, local, history>>

PrepareQueued ==
  LET ok == entry.state = "Enqueueing" IN
  /\ At("publisher", "setqueued", IF ok THEN "publish" ELSE "undoretention")
  /\ entry' = IF ok THEN [entry EXCEPT !.state = "Queued"] ELSE entry
  /\ UNCHANGED <<shared, accounts, local, history>>

UndoRetention ==
  /\ At("publisher", "undoretention", "undoowner")
  /\ entry' = [entry EXCEPT !.retention = "Detached"]
  /\ UNCHANGED <<shared, accounts, local, history>>

UndoOwner ==
  /\ At("publisher", "undoowner", "uncount")
  /\ entry' = [entry EXCEPT !.owner = "home", !.logical = None]
  /\ UNCHANGED <<shared, accounts, local, history>>

Uncount ==
  /\ At("publisher", "uncount", "unplaced")
  /\ accounts' = [accounts EXCEPT !.logical = @ - 1,
                                  !.container[local["publisher"].slot] = @ - 1]
  /\ UNCHANGED <<entry, shared, local, history>>

PublishInitial ==
  /\ At("publisher", "publish", "done")
  /\ at' = local["publisher"].slot
  /\ UNCHANGED <<entry, bound, timer, moving, forceStop, typeFailed, controlFailed,
                 accounts, local, history>>

(* submit_admitted settles the projections and drops the entry, which no   *)
(* other thread has seen.                                                  *)
DropUnplaced ==
  /\ ~Delayed
  /\ At("publisher", "unplaced", "dropped")
  /\ accounts' = [accounts EXCEPT !.queued = FALSE, !.strictSettled = TRUE]
  /\ entry' = [entry EXCEPT !.payload = FALSE, !.queuedPermit = FALSE,
                            !.globalPermit = FALSE]
  /\ UNCHANGED <<shared, local, history>>

\* Mutant: a cancellation that came first is taken to be settled already.
UnplacedIgnoresCancel ==
  /\ Delayed
  /\ pc["publisher"] = "unplaced"
  /\ IF entry.state = "Enqueueing"
     THEN Goto("publisher", "rejectbound")
     ELSE Goto("publisher", "settle")
  /\ UNCHANGED <<entry, shared, accounts, local, history>>

(* expire_delayed looks at the state to find who ends the task.            *)
Unplaced ==
  /\ Delayed
  /\ pc["publisher"] = "unplaced"
  /\ CASE entry.state = "Enqueueing" -> Goto("publisher", "rejectbound") /\ UNCHANGED local
       [] entry.state = "Terminating" -> Finalize("publisher", "helped")
       [] entry.state \in Terminal -> Goto("publisher", "settle") /\ UNCHANGED local
       [] OTHER -> Goto("publisher", "authfail") /\ UNCHANGED local
  /\ UNCHANGED <<entry, shared, accounts, history>>

RejectBound ==
  /\ pc["publisher"] = "rejectbound"
  /\ IF CanTerminate("Enqueueing")
     THEN entry' = Terminated("Rejected") /\ Finalize("publisher", "helped")
     ELSE Goto("publisher", "authfail") /\ UNCHANGED <<entry, local>>
  /\ UNCHANGED <<shared, accounts, history>>

(* The queued projection and the strict sequence of a failed publication.  *)
SettleUnplaced ==
  /\ At("publisher", "settle", "done")
  /\ accounts' = [accounts EXCEPT !.queued = FALSE, !.strictSettled = TRUE]
  /\ UNCHANGED <<entry, shared, local, history>>

PublisherStep ==
  \/ ExpireRemove \/ ClaimExpired \/ AdmitExpired \/ RejectUnbound \/ InstallCheck
  \/ Install \/ Bind \/ (\E s \in Slots : Place(s)) \/ PlacementRefused
  \/ PrepareCheck \/ PrepareLogical \/ PrepareOwner \/ PrepareRetention \/ PrepareQueued
  \/ UndoRetention \/ UndoOwner \/ Uncount \/ PublishInitial \/ DropUnplaced
  \/ Unplaced \/ RejectBound \/ SettleUnplaced \/ HelperStep("publisher")

-----------------------------------------------------------------------------
(* Submission::cancel and TaskEntry::request_cancel                        *)

Answer(c, a) == answer' = [answer EXCEPT ![c] = a]

CancelCall(c) ==
  /\ Delayed \/ pc["publisher"] = "done"
  /\ At(c, "idle", "cancel")
  /\ UNCHANGED <<entry, shared, accounts, local, history>>

CancelRead(c) ==
  /\ pc[c] = "cancel"
  /\ local' = [local EXCEPT ![c].state = entry.state]
  /\ CASE entry.state \in {"Enqueueing", "Delayed", "Queued"} ->
            Goto(c, "terminate") /\ UNCHANGED answer
       [] entry.state = "Moving" -> Goto(c, "defer") /\ UNCHANGED answer
       [] OTHER -> Goto(c, "returned") /\ Answer(c, "refused")
  /\ UNCHANGED <<entry, shared, accounts, runs>>

CancelTerminate(c) ==
  /\ pc[c] = "terminate"
  /\ IF CanTerminate(local[c].state)
     THEN /\ entry' = Terminated("Cancelled")
          /\ Goto(c, IF Delayed THEN "retire" ELSE "envelope") /\ UNCHANGED answer
     ELSE /\ IF entry.pending # None
             THEN Goto(c, "returned") /\ Answer(c, "refused")
             ELSE Goto(c, "cancel") /\ UNCHANGED answer
          /\ UNCHANGED entry
  /\ UNCHANGED <<shared, accounts, local, runs>>

(* The intent is left to the thread that moves the task.                   *)
CancelDefer(c) ==
  /\ At(c, "defer", "returned")
  /\ entry' = [entry EXCEPT !.cancelRequested = TRUE]
  /\ Answer(c, IF entry.cancelRequested THEN "refused" ELSE "deferred")
  /\ UNCHANGED <<shared, accounts, local, runs>>

RetireDelayed(c) ==
  /\ At(c, "retire", "bindcheck")
  /\ timer' = FALSE
  /\ UNCHANGED <<entry, at, bound, moving, forceStop, typeFailed, controlFailed,
                 accounts, local, history>>

(* schedule_delayed_cancel hands an unbound task to a cleanup task.        *)
ScheduleCleanup(c) ==
  /\ pc[c] = "bindcheck" /\ ~bound
  /\ pc' = [pc EXCEPT ![c] = "returned", !["cleanup"] = "final"]
  /\ local' = [local EXCEPT !["cleanup"].cont = "cleaned"]
  /\ Answer(c, "accepted")
  /\ UNCHANGED <<entry, shared, accounts, runs>>

(* The task is bound, or the lifecycle no longer registers children.       *)
BindChecked(c) ==
  /\ At(c, "bindcheck", "envelope")
  /\ UNCHANGED <<entry, shared, accounts, local, history>>

CancelFinalize(c) ==
  /\ pc[c] = "envelope"
  /\ Goto(c, "final")
  /\ local' = [local EXCEPT ![c].cont = "cancelled", ![c].envelope = bound]
  /\ UNCHANGED <<entry, shared, accounts, history>>

(* A task in a queue, or one another thread settles, is left to it.        *)
LeftToOther(result) ==
  /\ result \in {"RetentionMismatch", "SettlementOwned"}
  /\ entry.state \in {"Terminating"} \cup Terminal

CancelSettled(c) ==
  LET ok == local[c].result = "Ok" \/ LeftToOther(local[c].result) IN
  /\ At(c, "cancelled", IF ~ok /\ local[c].envelope THEN "authfail" ELSE "returned")
  /\ Answer(c, IF ok THEN "accepted" ELSE "refused")
  /\ accounts' = [accounts EXCEPT !.strictSettled =
                    @ \/ (local[c].result = "Ok" /\ local[c].envelope)]
  /\ controlFailed' = (controlFailed \/ (~ok /\ ~local[c].envelope))
  /\ UNCHANGED <<entry, at, bound, timer, moving, forceStop, typeFailed, local, runs>>

CallerStep(c) ==
  \/ CancelRead(c) \/ CancelTerminate(c) \/ CancelDefer(c) \/ RetireDelayed(c)
  \/ ScheduleCleanup(c) \/ BindChecked(c) \/ CancelFinalize(c) \/ CancelSettled(c)
  \/ HelperStep(c)

(* settle_delayed_cancel, after the entry has answered.                    *)
Cleaned ==
  LET r == local["cleanup"].result
      ok == r \in {"Ok", "SettlementOwned"} \/ LeftToOther(r)
  IN
  /\ At("cleanup", "cleaned", IF ~ok /\ bound THEN "authfail" ELSE "done")
  /\ accounts' = [accounts EXCEPT !.strictSettled = @ \/ (r = "Ok" /\ bound)]
  /\ controlFailed' = (controlFailed \/ (~ok /\ ~bound))
  /\ UNCHANGED <<entry, at, bound, timer, moving, forceStop, typeFailed, local, history>>

(* close_admission: reject_delayed_shutdown                                *)
CloseDelayed ==
  /\ Delayed /\ timer
  /\ At("closer", "idle", "timer")
  /\ timer' = FALSE
  /\ UNCHANGED <<entry, at, bound, moving, forceStop, typeFailed, controlFailed,
                 accounts, local, history>>

RejectDelayed ==
  /\ pc["closer"] = "timer"
  /\ IF CanTerminate("Delayed")
     THEN entry' = Terminated("Rejected") /\ Finalize("closer", "done")
     ELSE Goto("closer", "done") /\ UNCHANGED <<entry, local>>
  /\ UNCHANGED <<shared, accounts, history>>

ForceStop ==
  /\ MayForce /\ ~forceStop
  /\ forceStop' = TRUE
  /\ UNCHANGED <<entry, at, bound, timer, moving, typeFailed, controlFailed, accounts,
                 pc, local, history>>

-----------------------------------------------------------------------------
(* The worker of slot w: consume_main and consume_tunnel, with              *)
(* claim_container.                                                        *)

Receive(w) ==
  /\ at = w
  /\ At(w, "idle", "received")
  /\ at' = "nowhere"
  /\ UNCHANGED <<entry, bound, timer, moving, forceStop, typeFailed, controlFailed,
                 accounts, local, history>>

Received(w) ==
  /\ At(w, "received", IF entry.state \in Terminal THEN "idle" ELSE "claim")
  /\ UNCHANGED <<entry, shared, accounts, local, history>>

(* clear_published_move_at_container: the consumer of the target queue     *)
(* ends a move whose publisher has not cleared it yet.                     *)
ClaimMove(w) ==
  LET ok == entry.move = NoMove \/ (/\ entry.state \in {"Queued", "Terminating"}
                                    /\ entry.retention = "Container"
                                    /\ entry.owner = w
                                    /\ entry.move.target = w)
  IN
  /\ At(w, "claim", IF ok THEN "claimretention" ELSE "authfail")
  /\ entry' = IF ok THEN [entry EXCEPT !.move = NoMove] ELSE entry
  /\ UNCHANGED <<shared, accounts, local, history>>

ClaimRetention(w) ==
  LET ok == entry.owner = w /\ entry.retention = "Container" IN
  /\ At(w, "claimretention", IF ok THEN "claimed" ELSE "authfail")
  /\ entry' = IF ok THEN [entry EXCEPT !.retention = "Handling"] ELSE entry
  /\ UNCHANGED <<shared, accounts, local, history>>

Claimed(w) ==
  /\ pc[w] = "claimed"
  /\ IF entry.state = "Terminating"
     THEN Finalize(w, "helped")
     ELSE Goto(w, "handling") /\ UNCHANGED local
  /\ UNCHANGED <<entry, shared, accounts, history>>

(* dispatch_business, at once or when a deferred envelope is resumed.      *)
Dispatch(w) ==
  /\ pc[w] = "handling"
  /\ CASE entry.state = "Terminating" -> Finalize(w, "helped")
       [] entry.state \in Terminal -> Goto(w, "idle") /\ UNCHANGED local
       [] OTHER ->
            IF forceStop
            THEN Goto(w, "failrun") /\ UNCHANGED local
            ELSE /\ pc' = [pc EXCEPT ![w] = "idle", !["business"] = "waiting"]
                 /\ local' = [local EXCEPT !["business"].slot = w]
  /\ UNCHANGED <<entry, shared, accounts, history>>

-----------------------------------------------------------------------------
(* move_entry: the worker of w moves the task it handles to the queue of   *)
(* the other slot.                                                         *)

Other(w) == IF w = "home" THEN "away" ELSE "home"
Ticket(t) == entry.move # NoMove /\ entry.move.epoch = local[t].epoch
ActiveMove(t) == entry.state = "Moving" /\ Ticket(t)

(* Only a task that its submitter placed in the tunnel is ever returned to *)
(* its home, and the type is stolen anew only after the worker that        *)
(* returned it has ended the route's return.                               *)
MayMove(w) ==
  IF w = "home" THEN pc["away"] = "idle" ELSE entry.epoch = 0

(* prepare_move checks, then installs the descriptor.                      *)
MoveBegin(w) ==
  LET ok == entry.state = "Queued" /\ entry.owner = w /\ entry.retention = "Handling" IN
  /\ MayMove(w)
  /\ At(w, "handling", IF ok THEN "mdescribe" ELSE "mprepare")
  /\ UNCHANGED <<entry, shared, accounts, local, history>>

(* prepare_move has refused.                                               *)
MoveRefused(w) ==
  /\ pc[w] = "mprepare"
  /\ CASE entry.state = "Terminating" -> Finalize(w, "helped")
       [] entry.state \in Terminal -> Goto(w, "idle") /\ UNCHANGED local
       [] OTHER -> Goto(w, "authfail") /\ UNCHANGED local
  /\ UNCHANGED <<entry, shared, accounts, history>>

MoveDescribe(w) ==
  LET ok == entry.move = NoMove IN
  /\ At(w, "mdescribe", IF ok THEN "mregister" ELSE "mprepare")
  /\ entry' = [entry EXCEPT !.epoch = @ + 1,
                            !.move = IF ok THEN [target |-> Other(w), epoch |-> entry.epoch + 1]
                                           ELSE @]
  /\ local' = [local EXCEPT ![w].epoch = entry.epoch + 1, ![w].slot = Other(w)]
  /\ UNCHANGED <<shared, accounts, history>>

MoveRegister(w) ==
  /\ At(w, "mregister", "mensure")
  /\ moving' = TRUE
  /\ UNCHANGED <<entry, at, bound, timer, forceStop, typeFailed, controlFailed, accounts,
                 local, history>>

(* activate_move checks the ticket, then moves the state.                  *)
MoveEnsure(w) ==
  /\ At(w, "mensure", IF Ticket(w) THEN "mactivate" ELSE "mabandon")
  /\ UNCHANGED <<entry, shared, accounts, local, history>>

\* Mutant: the target is not counted before the task leaves its old place.
MoveActivateUncounted(w) ==
  LET ok == entry.state = "Queued" IN
  /\ At(w, "mactivate", IF ok THEN "mcheckowner" ELSE "mabandon")
  /\ entry' = IF ok THEN [entry EXCEPT !.state = "Moving"] ELSE entry
  /\ UNCHANGED <<shared, accounts, local, history>>

(* Queued -> Moving; move_entry then counts the task at its target.        *)
MoveActivate(w) ==
  LET ok == entry.state = "Queued" IN
  /\ At(w, "mactivate", IF ok THEN "mcheckowner" ELSE "mabandon")
  /\ entry' = IF ok THEN [entry EXCEPT !.state = "Moving"] ELSE entry
  /\ accounts' = IF ok THEN [accounts EXCEPT !.container[local[w].slot] = @ + 1] ELSE accounts
  /\ UNCHANGED <<shared, local, history>>

(* A cancellation came first: withdraw the descriptor, settle the task.    *)
MoveAbandon(w) ==
  LET abandoned == entry.state # "Moving" /\ Ticket(w) IN
  /\ pc[w] = "mabandon"
  /\ entry' = IF abandoned THEN [entry EXCEPT !.move = NoMove] ELSE entry
  /\ moving' = FALSE
  /\ CASE abandoned /\ entry.state = "Terminating" -> Finalize(w, "helped")
       [] entry.state \in Terminal -> Goto(w, "idle") /\ UNCHANGED local
       [] OTHER -> Goto(w, "authfail") /\ UNCHANGED local
  /\ UNCHANGED <<at, bound, timer, forceStop, typeFailed, controlFailed, accounts, history>>

(* active_move, checked again before each of the steps of the move.        *)
MoveCheck(w) ==
  \/ At(w, "mcheckowner", IF ActiveMove(w) THEN "mowner" ELSE "muncount")
  \/ At(w, "mcheckretention", IF ActiveMove(w) THEN "mretention" ELSE "muncount")
  \/ At(w, "mchecklogical",
        IF ActiveMove(w) /\ entry.retention = "Container" THEN "mlogical" ELSE "muncount")
  \/ At(w, "mcheckpublish",
        IF ActiveMove(w) /\ entry.retention = "Container" /\ entry.owner = local[w].slot
        THEN "mpublish" ELSE "mfail")

MoveChecked(w) ==
  /\ MoveCheck(w)
  /\ UNCHANGED <<entry, shared, accounts, local, history>>

(* transfer_move_owner                                                     *)
MoveOwner(w) ==
  LET ok == entry.owner = w IN
  /\ At(w, "mowner", IF ok THEN "mcheckretention" ELSE "muncount")
  /\ entry' = IF ok THEN [entry EXCEPT !.owner = local[w].slot] ELSE entry
  /\ UNCHANGED <<shared, accounts, local, history>>

(* prepare_move_container                                                  *)
MoveRetention(w) ==
  LET ok == entry.retention = "Handling" IN
  /\ At(w, "mretention", IF ok THEN "mchecklogical" ELSE "muncount")
  /\ entry' = IF ok THEN [entry EXCEPT !.retention = "Container"] ELSE entry
  /\ UNCHANGED <<shared, accounts, local, history>>

(* replace_logical_owner; only then is the old place decremented.          *)
MoveLogical(w) ==
  LET ok == entry.logical # None IN
  /\ At(w, "mlogical", IF ok THEN "mcheckpublish" ELSE "muncount")
  /\ entry' = IF ok THEN [entry EXCEPT !.logical = local[w].slot] ELSE entry
  /\ accounts' = IF ok THEN [accounts EXCEPT !.container[entry.logical] = @ - 1] ELSE accounts
  /\ UNCHANGED <<shared, local, history>>

(* publish_move: back to Queued, then a cancellation left meanwhile is     *)
(* taken over.                                                             *)
MovePublish(w) ==
  LET ok == entry.state = "Moving" IN
  /\ At(w, "mpublish", IF ok THEN "mcancel" ELSE "mfail")
  /\ entry' = IF ok THEN [entry EXCEPT !.state = "Queued"] ELSE entry
  /\ UNCHANGED <<shared, accounts, local, history>>

MoveCancel(w) ==
  /\ At(w, "mcancel", IF entry.cancelRequested THEN "mbegin" ELSE "mcomplete")
  /\ entry' = [entry EXCEPT !.cancelRequested = FALSE]
  /\ UNCHANGED <<shared, accounts, local, history>>

MoveTerminate(w) ==
  LET ok == CanTerminate("Queued") IN
  /\ At(w, "mbegin", IF ok \/ entry.state = "Terminating" THEN "mcomplete" ELSE "mfail")
  /\ entry' = IF ok THEN Terminated("Cancelled") ELSE [entry EXCEPT !.cancelRequested = TRUE]
  /\ UNCHANGED <<shared, accounts, local, history>>

(* move_completion                                                         *)
MoveComplete(w) ==
  LET ok == \/ entry.state = "Queued"
            \/ entry.state = "Terminating" /\ entry.pending = "Cancelled"
  IN
  /\ At(w, "mcomplete", IF ok THEN "menqueue" ELSE "mfail")
  /\ UNCHANGED <<entry, shared, accounts, local, history>>

(* Reservation::publish makes the task visible in the target queue.        *)
MoveEnqueue(w) ==
  /\ At(w, "menqueue", "mclear")
  /\ at' = local[w].slot
  /\ UNCHANGED <<entry, bound, timer, moving, forceStop, typeFailed, controlFailed,
                 accounts, local, history>>

(* clear_completed_move                                                    *)
MoveCleared(t) ==
  IF entry.state # "Moving" /\ Ticket(t) THEN [entry EXCEPT !.move = NoMove] ELSE entry

MoveClear(w) ==
  /\ At(w, "mclear", "munregister")
  /\ entry' = MoveCleared(w)
  /\ UNCHANGED <<shared, accounts, local, history>>

(* finish_moving                                                           *)
MoveUnregister(w) ==
  /\ At(w, "munregister", "idle")
  /\ moving' = FALSE
  /\ UNCHANGED <<entry, at, bound, timer, forceStop, typeFailed, controlFailed, accounts,
                 local, history>>

\* Mutant: a failed move leaves the target counted.
MoveUncountForgotten(w) ==
  /\ At(w, "muncount", "mfail")
  /\ UNCHANGED <<entry, shared, accounts, local, history>>

MoveUncount(w) ==
  /\ At(w, "muncount", "mfail")
  /\ accounts' = [accounts EXCEPT !.container[local[w].slot] = @ - 1]
  /\ UNCHANGED <<entry, shared, local, history>>

(* fail_active_move, by the worker or by the auditor.                      *)
MoveFail(t) ==
  /\ At(t, "mfail", "mfailclear")
  /\ entry' = IF ActiveMove(t) /\ CanTerminate("Moving") THEN Terminated("Failed") ELSE entry
  /\ UNCHANGED <<shared, accounts, local, history>>

MoveFailClear(t) ==
  /\ pc[t] = "mfailclear"
  /\ entry' = MoveCleared(t)
  /\ moving' = FALSE
  /\ typeFailed' = TRUE
  /\ Finalize(t, "helped")
  /\ UNCHANGED <<at, bound, timer, forceStop, controlFailed, accounts, history>>

MoveStep(w) ==
  \/ MoveRefused(w) \/ MoveDescribe(w) \/ MoveRegister(w) \/ MoveEnsure(w) \/ MoveActivate(w)
  \/ MoveAbandon(w) \/ MoveChecked(w) \/ MoveOwner(w) \/ MoveRetention(w) \/ MoveLogical(w)
  \/ MovePublish(w) \/ MoveCancel(w) \/ MoveTerminate(w) \/ MoveComplete(w)
  \/ MoveEnqueue(w) \/ MoveClear(w) \/ MoveUnregister(w) \/ MoveUncount(w)
  \/ MoveFail(w) \/ MoveFailClear(w)

WorkerStep(w) ==
  \/ Receive(w) \/ Received(w) \/ ClaimMove(w) \/ ClaimRetention(w)
  \/ Claimed(w) \/ Dispatch(w) \/ MoveStep(w) \/ HelperStep(w)

-----------------------------------------------------------------------------
(* audit_moves, for an entry of the moving table whose time is up.         *)

AuditSnapshot ==
  /\ MayExpire /\ moving
  /\ At("auditor", "idle", IF entry.move = NoMove THEN "idle" ELSE "audit")
  /\ moving' = (entry.move # NoMove)
  /\ local' = [local EXCEPT !["auditor"].epoch = entry.move.epoch]
  /\ UNCHANGED <<entry, at, bound, timer, forceStop, typeFailed, controlFailed, accounts,
                 history>>

AuditState ==
  /\ pc["auditor"] = "audit"
  /\ CASE entry.state = "Moving" ->
            Goto("auditor", "mfail") /\ UNCHANGED <<entry, moving>>
       [] entry.state \in {"Queued", "Terminating"} ->
            Goto("auditor", "auditretention") /\ UNCHANGED <<entry, moving>>
       [] OTHER ->
            Goto("auditor", "idle") /\ entry' = MoveCleared("auditor") /\ moving' = FALSE
  /\ UNCHANGED <<at, bound, timer, forceStop, typeFailed, controlFailed, accounts, local,
                 history>>

AuditRetention ==
  /\ pc["auditor"] = "auditretention"
  /\ IF entry.retention = "Container"
     THEN Goto("auditor", "idle") /\ entry' = MoveCleared("auditor") /\ moving' = FALSE
     ELSE Goto("auditor", "auditabandon") /\ UNCHANGED <<entry, moving>>
  /\ local' = [local EXCEPT !["auditor"].cont =
                 IF entry.retention = "Handling" THEN "failrun" ELSE "authfail"]
  /\ UNCHANGED <<at, bound, timer, forceStop, typeFailed, controlFailed, accounts, history>>

AuditAbandon ==
  LET cleared == MoveCleared("auditor") IN
  /\ pc["auditor"] = "auditabandon"
  /\ entry' = cleared
  /\ moving' = FALSE
  /\ IF local["auditor"].cont = "failrun" /\ cleared # entry /\ entry.state = "Terminating"
     THEN Finalize("auditor", "helped")
     ELSE Goto("auditor", local["auditor"].cont) /\ UNCHANGED local
  /\ UNCHANGED <<at, bound, timer, forceStop, typeFailed, controlFailed, accounts, history>>

AuditorStep ==
  \/ AuditSnapshot \/ AuditState \/ AuditRetention \/ AuditAbandon
  \/ MoveFail("auditor") \/ MoveFailClear("auditor") \/ HelperStep("auditor")

-----------------------------------------------------------------------------
(* run_business and BusinessBackstop                                       *)

(* The turn of the strict order and the execution permits have come.       *)
BusinessGranted ==
  /\ At("business", "waiting", IF entry.state \in Terminal THEN "done" ELSE "granted")
  /\ UNCHANGED <<entry, shared, accounts, local, history>>

(* ForceStop closes the execution gates.                                   *)
BusinessGateClosed ==
  /\ forceStop
  /\ At("business", "waiting", "failrun")
  /\ UNCHANGED <<entry, shared, accounts, local, history>>

BusinessCheck ==
  /\ pc["business"] = "granted"
  /\ IF entry.state = "Terminating"
     THEN Finalize("business", "helped")
     ELSE Goto("business", "take") /\ UNCHANGED local
  /\ UNCHANGED <<entry, shared, accounts, history>>

(* take_for_running                                                        *)
\* Mutant: the job is taken without the Queued -> Running exchange.
TakeUnchecked ==
  /\ At("business", "take", "running")
  /\ entry' = [entry EXCEPT !.state = "Running", !.payload = FALSE, !.queuedPermit = FALSE]
  /\ accounts' = [accounts EXCEPT !.queued = FALSE]
  /\ runs' = runs + 1
  /\ UNCHANGED <<shared, local, answer>>

\* Mutant: the successor in the strict order is let go when the job starts.
TakeOpensGate ==
  LET ok == /\ entry.owner = local["business"].slot
            /\ entry.retention = "Handling"
            /\ entry.state = "Queued"
  IN
  /\ At("business", "take", IF ok THEN "running" ELSE "authfail")
  /\ entry' = IF ok THEN [entry EXCEPT !.state = "Running", !.payload = FALSE,
                                       !.queuedPermit = FALSE]
                    ELSE entry
  /\ accounts' = IF ok THEN [accounts EXCEPT !.queued = FALSE, !.strictSettled = TRUE]
                       ELSE accounts
  /\ runs' = IF ok THEN runs + 1 ELSE runs
  /\ UNCHANGED <<shared, local, answer>>

TakeForRunning ==
  LET ok == /\ entry.owner = local["business"].slot
            /\ entry.retention = "Handling"
            /\ entry.state = "Queued"
  IN
  /\ At("business", "take", IF ok THEN "running" ELSE "authfail")
  /\ entry' = IF ok THEN [entry EXCEPT !.state = "Running", !.payload = FALSE,
                                       !.queuedPermit = FALSE]
                    ELSE entry
  /\ accounts' = IF ok THEN [accounts EXCEPT !.queued = FALSE] ELSE accounts
  /\ runs' = IF ok THEN runs + 1 ELSE runs
  /\ UNCHANGED <<shared, local, answer>>

(* The job returns or panics; finish_running                               *)
JobEnds(terminal) ==
  /\ pc["business"] = "running"
  /\ terminal \in {"Completed", "Failed"}
  /\ entry' = IF CanTerminate("Running") THEN Terminated(terminal) ELSE entry
  /\ Finalize("business", "helped")
  /\ UNCHANGED <<shared, accounts, history>>

(* The future is dropped at an await point.                                *)
BusinessAborted ==
  /\ forceStop
  /\ \/ pc["business"] = "waiting" /\ local' = [local EXCEPT !["business"].state = "Queued"]
     \/ pc["business"] = "running" /\ local' = [local EXCEPT !["business"].state = "Running"]
  /\ Goto("business", "backstop")
  /\ UNCHANGED <<entry, shared, accounts, history>>

Backstop ==
  /\ pc["business"] = "backstop"
  /\ IF entry.state = "Terminating"
     THEN Finalize("business", "helped")
     ELSE Goto("business", "backstopfail") /\ UNCHANGED local
  /\ UNCHANGED <<entry, shared, accounts, history>>

BackstopFail ==
  /\ pc["business"] = "backstopfail"
  /\ IF CanTerminate(local["business"].state)
     THEN entry' = Terminated("Failed") /\ Finalize("business", "helped")
     ELSE Goto("business", "done") /\ UNCHANGED <<entry, local>>
  /\ UNCHANGED <<shared, accounts, history>>

BusinessStep ==
  \/ BusinessGranted \/ BusinessGateClosed \/ BusinessCheck \/ TakeForRunning
  \/ (\E terminal \in {"Completed", "Failed"} : JobEnds(terminal))
  \/ BusinessAborted \/ Backstop \/ BackstopFail \/ HelperStep("business")

-----------------------------------------------------------------------------
CleanupStep == Cleaned \/ HelperStep("cleanup")
CloserStep == RejectDelayed \/ HelperStep("closer")

(* Nothing is left to do: the runner waits for other tasks.                *)
Quiet ==
  /\ at = "nowhere"
  /\ \A t \in Threads : pc[t] \in {"off", "idle", "done", "dropped", "returned"}
Rest == Quiet /\ UNCHANGED vars

Next ==
  \/ PublisherStep
  \/ \E c \in Callers : CancelCall(c) \/ CallerStep(c)
  \/ CleanupStep \/ CloseDelayed \/ CloserStep \/ ForceStop
  \/ \E w \in Slots : WorkerStep(w) \/ MoveBegin(w)
  \/ AuditorStep \/ BusinessStep
  \/ Rest

Spec == Init /\ [][Next]_vars

FairSpec ==
  /\ Spec
  /\ WF_vars(PublisherStep) /\ WF_vars(CleanupStep) /\ WF_vars(CloserStep)
  /\ WF_vars(BusinessStep) /\ WF_vars(AuditorStep)
  /\ \A c \in Callers : WF_vars(CallerStep(c))
  /\ \A w \in Slots : WF_vars(WorkerStep(w))

-----------------------------------------------------------------------------
(* However many threads help to end a task, one of them settles it: the    *)
(* terminal counters are committed at most once (the owner sentinel of     *)
(* finalize_termination_with_accounting).                                  *)
SettledOnce == accounts.settlements <= 1

(* The comment before the last store of finalize_termination: a stable     *)
(* terminal state is visible only when payload, permits and physical       *)
(* reference have been given back.                                         *)
TerminalIsClean ==
  entry.state \in Terminal =>
    /\ ~entry.queuedPermit /\ ~entry.globalPermit /\ ~entry.payload
    /\ entry.retention = "Detached" /\ entry.owner = entry.state

(* The comment in move_entry: at no moment does an admitted task drop out  *)
(* of every container's count, so low-load and exit decisions that read    *)
(* the counts never miss it.                                               *)
AlwaysCounted ==
  entry.state \in {"Queued", "Moving", "Running"} =>
    /\ accounts.logical = 1
    /\ entry.logical # None /\ accounts.container[entry.logical] >= 1

(* When a task is over and every thread has left it, all of its traces are *)
(* gone: logical and container counts, queued projection, moving table,    *)
(* descriptor, and its sequence no longer holds back its successors in the *)
(* strict order.                                                           *)
QuietMeansBalanced ==
  (Quiet /\ (entry.state \in Terminal \/ pc["publisher"] = "dropped")) =>
    /\ accounts.logical = 0 /\ \A s \in Slots : accounts.container[s] = 0
    /\ ~accounts.queued /\ ~moving /\ entry.move = NoMove
    /\ bound => accounts.strictSettled

(* settle_strict never lets the next task of a strict type go while this   *)
(* one still runs or could run.                                            *)
GateNotEarly ==
  accounts.strictSettled => entry.state \notin {"Delayed", "Queued", "Moving", "Running"}

(* The comment in audit_moves: a move is in the moving table before the    *)
(* state says Moving, so neither the audit nor worker_should_exit can      *)
(* overlook a task that is in no queue.                                    *)
MovingRegistered == entry.state = "Moving" => moving

(* Once cancel has answered that it took the task, the job never starts,   *)
(* whichever worker, mover or business task still holds the envelope.      *)
AcceptedNeverRuns == [][(\E c \in Callers : answer[c] = "accepted") => runs' = runs]_vars

(* The comments in move_entry and record_authority_failure: a legal        *)
(* cancellation race is not raised to a failure of the type.               *)
NoStrayFailure == ~typeFailed /\ ~controlFailed

(* The documentation of Submission::cancel: an intent registered during a  *)
(* move is brought to its end by the move's publisher.                     *)
DeferredMeansCancelled ==
  \A c \in Callers :
    (answer[c] = "deferred" /\ entry.state \in Terminal) => entry.state = "Cancelled"

(* Every accepted task comes to an end: no thread leaves it to another     *)
(* that never comes.                                                       *)
Ends == <>(entry.state \in Terminal \/ pc["publisher"] = "dropped")

(* napart's README on transition_timeout: the upper bound of the time a    *)
(* single physical move may remain Moving.                                 *)
MoveEnds == entry.state = "Moving" ~> entry.state # "Moving"
=============================================================================
