---------------------------- MODULE StrictRoute ----------------------------
(***************************************************************************)
(* The route of one strict task type: its tasks are placed in the main      *)
(* queue of the home ("source") slot, a steal installs a tunnel to an idle  *)
(* ("target") slot, the source worker moves the stock of the main queue     *)
(* into it, the target executes, and when the load falls the tunnel is      *)
(* given back: target -> staging -> main.                                   *)
(*                                                                          *)
(* Actors: submitters (one per task), the two slot workers (slot.rs, run),  *)
(* the business futures (runner.rs, run_business), the stopping caller and  *)
(* the other task types of the two slots, which occupy the only execution   *)
(* permit of a slot.  A queue is the FIFO that SequencedQueue promises:     *)
(* cells get their place when they are reserved and are published or        *)
(* poisoned later.  The task itself is the one of TaskEntry: here it is     *)
(* just queued, in a worker's hand, in a business future, or settled.       *)
(***************************************************************************)
EXTENDS Naturals, Sequences, FiniteSets

CONSTANTS
  MaxTasks,            \* bound: tasks submitted to the type
  MaxSteals,           \* bound: tunnels opened for the type
  Threshold,           \* PartitionConfig::idle_task_threshold
  ReturnObservations,  \* PartitionConfig::return_observations
  Contended,           \* slots on which other types compete for the permit
  MayCancel,           \* may a caller cancel a task?
  Stops,               \* kinds of stop the owner may ask for
  MayFail,             \* may a queue of the tunnel fail?
  Overlaps             \* may the target run between register and install?

ASSUME RouteAssumption ==
  /\ MaxTasks \in Nat \ {0} /\ MaxSteals \in Nat \ {0}
  /\ Threshold \in Nat \ {0} /\ ReturnObservations \in Nat \ {0}
  /\ Contended \subseteq {"source", "target"}
  /\ Stops \subseteq {"graceful", "force"}
  /\ MayCancel \in BOOLEAN /\ MayFail \in BOOLEAN /\ Overlaps \in BOOLEAN

VARIABLES
  next_issue,  \* StrictOrder.next_issue
  order,       \* StrictOrderState: next_run, settled_ahead
  at,          \* task -> how far it has come
  where,       \* task -> FIFO of its reservation, or slot of its business
  fifo,        \* FIFO -> cells, depth, closed
  route,       \* StrictRoute: state, tunnel
  tunnel,      \* StrictTunnel flags and the frozen source boundary
  opened,      \* tunnels created so far (next_tunnel_id)
  registered,  \* PartitionSlot.inbound_strict of the target
  load,        \* low_load_observations, and: no commit since the last one
  source,      \* worker of the home slot: pc, hand, tunnel
  target,      \* worker of the target slot: pc, hand, tunnel
  other,       \* slot -> a business of another type holds its permit
  mode,        \* LifecycleMode
  shut,        \* slots whose close() has run
  failed       \* TypeState.failed

tasks == <<next_issue, order, at, where>>
routing == <<route, tunnel, opened, registered, load>>
workers == <<source, target>>
control == <<other, mode, shut, failed>>
vars == <<tasks, fifo, routing, workers, control>>

-----------------------------------------------------------------------------
(* Places, cells and counters.                                              *)

Tasks == 1..MaxTasks
Tunnels == 1..MaxSteals
Slots == {"source", "target"}
None == 0

Main == <<None, "main">>
On(s) == <<None, s>>      \* where a business future of slot s is
Stock(k) == <<k, "stock">>
Incremental(k) == <<k, "incremental">>
Staging(k) == <<k, "staging">>
QueuesOf(k) == {Stock(k), Incremental(k), Staging(k)}
Places == {Main} \cup UNION {QueuesOf(k) : k \in Tunnels}

Cell == [task : Tasks, state : {"reserved", "published", "poisoned"}]
EmptyFifo == [cells |-> <<>>, depth |-> 0, closed |-> FALSE]

RouteState == {"Local", "Migrating", "Stolen", "ReturnPrepare", "Returning",
               "LocalCatchup", "StolenCatchup", "Failed"}

Unplaced == {"issued", "entered", "reserved"}
InBusiness == {"waiting", "leased", "running", "ending", "void"}
Holding == {"leased", "running", "ending"}
Terminal == {"settled", "refused"}
Phase == {"new", "queued"} \cup Unplaced \cup InBusiness \cup Terminal

Cells(p) == fifo[p].cells
Head1(p) == Cells(p)[1]
Outstanding(p) == \E i \in DOMAIN Cells(p) : Cells(p)[i].state = "reserved"

(* The number is taken and the cell waits for its payload. *)
WithReserved(f, t) ==
  [f EXCEPT !.cells = Append(@, [task |-> t, state |-> "reserved"])]
(* The depth is counted after the number is taken, before the payload. *)
WithDepth(f) == [f EXCEPT !.depth = @ + 1]
WithState(f, t, s) ==
  [f EXCEPT !.cells = [i \in DOMAIN @ |->
     IF @[i].task = t /\ @[i].state = "reserved"
     THEN [@[i] EXCEPT !.state = s] ELSE @[i]]]
(* A poll that yields an item or a poison frees the cell and the depth. *)
WithoutHead(f) == [f EXCEPT !.cells = Tail(@), !.depth = @ - 1]
WithClosed(f) == [f EXCEPT !.closed = TRUE]

(* What a poll of the FIFO sees. *)
Poll(p) == IF Cells(p) = <<>> THEN "empty" ELSE Head1(p).state

LogicalCount == Cardinality({t \in Tasks :
  at[t] \in {"reserved", "queued", "waiting", "leased", "running"}})

(* strict_handling = 0 and no strict execution lease. *)
ExecutionIdle == \A t \in Tasks : at[t] \notin InBusiness

ExecutionAvailable(s) ==
  /\ ~other[s]
  /\ \A t \in Tasks : at[t] \in {"running", "ending"} => where[t] # On(s)

DirectProducersStopped(k) == ~Outstanding(Stock(k)) /\ ~Outstanding(Incremental(k))
StagingProducersStopped(k) == ~Outstanding(Staging(k))

(* Mutant of SettledWith: a number settled out of turn opens the gate. *)
SettledJumps(o, t) ==
  IF t < o.next_run THEN o
  ELSE [next_run |-> t + 1, settled_ahead |-> {}]

(* StrictOrder::settle: numbers settled out of turn wait in settled_ahead.  *)
SettledWith(o, t) ==
  IF t < o.next_run \/ t \in o.settled_ahead THEN o
  ELSE LET ahead == o.settled_ahead \cup {t}
           next == CHOOSE n \in o.next_run..(MaxTasks + 1) :
                     n \notin ahead /\ \A m \in o.next_run..(n - 1) : m \in ahead
       IN [next_run |-> next, settled_ahead |-> {m \in ahead : m > next}]

TurnReady(t) == order.next_run >= t

(* The task reaches phase p with its number settled. *)
SettleAs(t, p) ==
  /\ at' = [at EXCEPT ![t] = p]
  /\ order' = SettledWith(order, t)
  /\ UNCHANGED <<next_issue, where>>

TaskTo(t, p) == at' = [at EXCEPT ![t] = p] /\ UNCHANGED <<next_issue, order, where>>

SourceTo(pc, t, k) == source' = [pc |-> pc, hand |-> t, tunnel |-> k] /\ UNCHANGED target
TargetTo(pc, t) ==
  target' = [target EXCEPT !.pc = pc, !.hand = t] /\ UNCHANGED source

(* with_strict_route keeps the lock from the choice of the queue until the  *)
(* reservation is counted; every other look at the route takes the lock.    *)
RouteUnlocked == \A t \in Tasks : at[t] # "entered"

RouteTo(s, k) == RouteUnlocked /\ route' = [state |-> s, tunnel |-> k]

NewTunnel == [accepting |-> TRUE, target_execution |-> TRUE,
              source_boundary |-> None, frozen |-> FALSE,
              migration_complete |-> FALSE]

Init ==
  /\ next_issue = 1
  /\ order = [next_run |-> 1, settled_ahead |-> {}]
  /\ at = [t \in Tasks |-> "new"]
  /\ where = [t \in Tasks |-> Main]
  /\ fifo = [p \in Places |-> EmptyFifo]
  /\ route = [state |-> "Local", tunnel |-> None]
  /\ tunnel = [k \in Tunnels |-> NewTunnel]
  /\ opened = 0
  /\ registered = {}
  /\ load = [observations |-> 0, quiet |-> TRUE]
  /\ source = [pc |-> "loop", hand |-> None, tunnel |-> None]
  /\ target = [pc |-> "loop", hand |-> None, tunnel |-> None]
  /\ other = [s \in Slots |-> FALSE]
  /\ mode = "running"
  /\ shut = {}
  /\ failed = FALSE

-----------------------------------------------------------------------------
(* Submitters: number, place, payload.                                      *)

(* submit_admitted: the type is healthy and the runner accepts. *)
Issue ==
  /\ next_issue <= MaxTasks
  /\ mode = "running" /\ ~failed
  /\ next_issue' = next_issue + 1
  /\ at' = [at EXCEPT ![next_issue] = "issued"]
  /\ UNCHANGED <<order, where, fifo, routing, workers, control>>

(* Where reserve_placement sends a task, by the state of the route. *)
Destination ==
  CASE route.state \in {"Local", "LocalCatchup"} -> Main
    [] route.state \in {"Migrating", "Stolen", "StolenCatchup"} -> Incremental(route.tunnel)
    [] OTHER -> Staging(route.tunnel)

(* PartitionSlot::reserve_main, StrictTunnel::reserve. *)
Open(p) ==
  IF p = Main THEN "source" \notin shut
  ELSE ~fifo[p].closed /\ (p = Staging(p[1]) \/ tunnel[p[1]].accepting)

PlacementRefused ==
  failed \/ route.state = "Failed" \/ ~Open(Destination)

(* reserve_placement holds the route lock while it takes the number. *)
Reserve(t) ==
  /\ at[t] = "issued"
  /\ RouteUnlocked
  /\ ~PlacementRefused
  /\ fifo' = [fifo EXCEPT ![Destination] = WithReserved(@, t)]
  /\ at' = [at EXCEPT ![t] = "entered"]
  /\ where' = [where EXCEPT ![t] = Destination]
  /\ UNCHANGED <<next_issue, order, routing, workers, control>>

(* The error path of submit_admitted settles the number. *)
Refuse(t) ==
  /\ at[t] = "issued"
  /\ RouteUnlocked
  /\ PlacementRefused
  /\ SettleAs(t, "refused")
  /\ UNCHANGED <<fifo, routing, workers, control>>

(* The depth of the FIFO, and the logical count of the type. *)
Count(t) ==
  /\ at[t] = "entered"
  /\ fifo' = [fifo EXCEPT ![where[t]] = WithDepth(@)]
  /\ TaskTo(t, "reserved")
  /\ UNCHANGED <<routing, workers, control>>

(* Placement::publish; commit_reserved bumps the tunnel's activity epoch. *)
Publish(t) ==
  /\ at[t] = "reserved"
  /\ fifo' = [fifo EXCEPT ![where[t]] = WithState(@, t, "published")]
  /\ load' = [load EXCEPT !.quiet = @ /\ where[t] = Main]
  /\ TaskTo(t, "queued")
  /\ UNCHANGED <<route, tunnel, opened, registered, workers, control>>

(* A delayed task cancelled before it is placed: the reservation is dropped. *)
Withdraw(t) ==
  /\ MayCancel
  /\ at[t] = "reserved"
  /\ fifo' = [fifo EXCEPT ![where[t]] = WithState(@, t, "poisoned")]
  /\ SettleAs(t, "settled")
  /\ UNCHANGED <<routing, workers, control>>

(* A caller cancels a queued task; its cell stays until a worker meets it. *)
CancelQueued(t) ==
  /\ MayCancel
  /\ at[t] = "queued" /\ t \notin {source.hand, target.hand}
  /\ SettleAs(t, "settled")
  /\ UNCHANGED <<fifo, routing, workers, control>>

(* ... or one whose business future still waits for its turn. *)
CancelWaiting(t) ==
  /\ MayCancel
  /\ at[t] = "waiting"
  /\ SettleAs(t, "void")
  /\ UNCHANGED <<fifo, routing, workers, control>>

-----------------------------------------------------------------------------
(* Business futures: turn, strict execution lease, slot permit, job.        *)

(* Mutant of Lease: the strict execution lease is not exclusive. *)
LeaseShared(t) ==
  /\ at[t] = "waiting"
  /\ TaskTo(t, "leased")
  /\ UNCHANGED <<fifo, routing, workers, control>>

Lease(t) ==
  /\ at[t] = "waiting" /\ TurnReady(t)
  /\ \A u \in Tasks : at[u] \notin Holding
  /\ TaskTo(t, "leased")
  /\ UNCHANGED <<fifo, routing, workers, control>>

(* acquire_strict_execution gives up when the type has failed. *)
LeaseRefused(t) ==
  /\ at[t] = "waiting" /\ TurnReady(t) /\ failed
  /\ SettleAs(t, "settled")
  /\ UNCHANGED <<fifo, routing, workers, control>>

(* A cancelled future finds the terminal state once its turn comes. *)
VoidEnds(t) ==
  /\ at[t] = "void" /\ TurnReady(t)
  /\ TaskTo(t, "settled")
  /\ UNCHANGED <<fifo, routing, workers, control>>

Run(t) ==
  /\ at[t] = "leased"
  /\ \E s \in Slots : where[t] = On(s) /\ ExecutionAvailable(s)
  /\ TaskTo(t, "running")
  /\ UNCHANGED <<fifo, routing, workers, control>>

(* finish_running, finalize_terminal: the number is settled first ... *)
Finish(t) ==
  /\ at[t] = "running"
  /\ SettleAs(t, "ending")
  /\ UNCHANGED <<fifo, routing, workers, control>>

(* ... then the permit, the lease and the handling share are dropped. *)
Release(t) ==
  /\ at[t] = "ending"
  /\ TaskTo(t, "settled")
  /\ UNCHANGED <<fifo, routing, workers, control>>

(* The supervisor aborts business futures in a forced stop. *)
Abort(t) ==
  /\ mode = "force" /\ at[t] \in {"waiting", "leased", "running", "void"}
  /\ SettleAs(t, "settled")
  /\ UNCHANGED <<fifo, routing, workers, control>>

(* A business of another type takes and frees the permit of a slot. *)
OtherStarts(s) ==
  /\ s \in Contended /\ mode = "running" /\ ExecutionAvailable(s)
  /\ other' = [other EXCEPT ![s] = TRUE]
  /\ UNCHANGED <<tasks, fifo, routing, workers, mode, shut, failed>>

OtherEnds(s) ==
  /\ other[s]
  /\ other' = [other EXCEPT ![s] = FALSE]
  /\ UNCHANGED <<tasks, fifo, routing, workers, mode, shut, failed>>

-----------------------------------------------------------------------------
(* The worker of the home slot.                                             *)

(* dispatch_business, for the task in the worker's hand: a forced stop      *)
(* fails it, otherwise its business future is spawned on slot s.            *)
Dispatched(t, s) ==
  IF mode = "force" THEN SettleAs(t, "settled")
  ELSE /\ at' = [at EXCEPT ![t] = "waiting"]
       /\ where' = [where EXCEPT ![t] = On(s)]
       /\ UNCHANGED <<next_issue, order>>

(* handle_steal_request: a local hotspot at a task boundary.  The target    *)
(* registers the tunnel first ...                                           *)
StealRegister ==
  /\ source.pc = "loop"
  /\ opened < MaxSteals
  /\ "target" \notin shut
  /\ RouteUnlocked /\ route.state = "Local" /\ ~failed
  /\ LogicalCount >= Threshold
  /\ ExecutionIdle
  /\ opened' = opened + 1
  /\ registered' = registered \cup {opened + 1}
  /\ SourceTo("install", source.hand, opened + 1)
  /\ UNCHANGED <<tasks, fifo, route, tunnel, load, control>>

(* ... then install_strict_tunnel publishes the route.  The epoch observed  *)
(* on an earlier tunnel may or may not equal that of the new one.           *)
StealInstall ==
  /\ source.pc = "install"
  /\ RouteTo("Migrating", source.tunnel)
  /\ \E same \in BOOLEAN : load' = [load EXCEPT !.quiet = same]
  /\ SourceTo("serve", source.hand, None)
  /\ UNCHANGED <<tasks, fifo, tunnel, opened, registered, control>>

Deferred == source.hand # None

(* A deferred task is resumed before the main queue is polled. *)
SourceResume ==
  /\ source.pc \in {"loop", "serve"} /\ Deferred
  /\ IF mode = "force"
     THEN SettleAs(source.hand, "settled") /\ SourceTo("migrate", None, None)
     ELSE UNCHANGED tasks /\ SourceTo("route", source.hand, None)
  /\ UNCHANGED <<fifo, routing, control>>

(* Cells before the frozen boundary that are still to be consumed. *)
BoundaryConsumed ==
  tunnel' = [k \in Tunnels |->
    [tunnel[k] EXCEPT !.source_boundary = IF @ > 0 THEN @ - 1 ELSE @]]

(* SequencedReceiver::try_recv on the main queue, then consume_main. *)
SourceTake ==
  /\ source.pc \in {"loop", "serve"} /\ ~Deferred
  /\ Poll(Main) \in {"published", "poisoned"}
  /\ LET t == Head1(Main).task
         live == Poll(Main) = "published" /\ at[t] = "queued"
     IN IF live THEN SourceTo("route", t, None) ELSE SourceTo("migrate", None, None)
  /\ fifo' = [fifo EXCEPT ![Main] = WithoutHead(@)]
  /\ BoundaryConsumed
  /\ UNCHANGED <<tasks, route, opened, registered, load, control>>

SourceIdle ==
  /\ source.pc \in {"loop", "serve"} /\ ~Deferred
  /\ Poll(Main) \in {"empty", "reserved"}
  /\ SourceTo("migrate", None, None)
  /\ UNCHANGED <<tasks, fifo, routing, control>>

(* consume_main and resume_main_handling read the route without its lock. *)
SourceRoute ==
  /\ source.pc = "route"
  /\ RouteUnlocked
  /\ IF route.state \in {"Migrating", "Stolen"}
     THEN SourceTo("stock", source.hand, route.tunnel)
     ELSE SourceTo("dispatch", source.hand, None)
  /\ UNCHANGED <<tasks, fifo, routing, control>>

(* move_to_strict: a closed tunnel leaves the task to the home slot. *)
SourceStock ==
  /\ source.pc = "stock"
  /\ LET p == Stock(source.tunnel)
     IN IF Open(p)
        THEN /\ fifo' = [fifo EXCEPT ![p] = WithReserved(@, source.hand)]
             /\ SourceTo("count", source.hand, source.tunnel)
        ELSE UNCHANGED fifo /\ SourceTo("dispatch", source.hand, None)
  /\ UNCHANGED <<tasks, routing, control>>

SourceCount ==
  /\ source.pc = "count"
  /\ fifo' = [fifo EXCEPT ![Stock(source.tunnel)] = WithDepth(@)]
  /\ SourceTo("publish", source.hand, source.tunnel)
  /\ UNCHANGED <<tasks, routing, control>>

SourcePublish ==
  /\ source.pc = "publish"
  /\ fifo' = [fifo EXCEPT ![Stock(source.tunnel)] =
                WithState(@, source.hand, "published")]
  /\ load' = [load EXCEPT !.quiet = FALSE]
  /\ SourceTo("migrate", None, None)
  /\ UNCHANGED <<tasks, route, tunnel, opened, registered, control>>

(* Without the permit of the slot the task stays deferred in the hand. *)
SourceDispatch ==
  /\ source.pc = "dispatch"
  /\ IF ExecutionAvailable("source")
     THEN Dispatched(source.hand, "source") /\ SourceTo("migrate", None, None)
     ELSE UNCHANGED tasks /\ SourceTo("migrate", source.hand, None)
  /\ UNCHANGED <<fifo, routing, control>>

(* progress_migrations: freeze the boundary of the main queue, and publish  *)
(* the completion once the consumer has reached it.                         *)
SourceMigrate ==
  /\ source.pc = "migrate"
  /\ RouteUnlocked
  /\ IF route.state = "Migrating"
     THEN LET k == route.tunnel
              ahead == IF tunnel[k].frozen THEN tunnel[k].source_boundary
                       ELSE Len(Cells(Main))
          IN /\ tunnel' = [tunnel EXCEPT ![k].frozen = TRUE,
                                        ![k].source_boundary = ahead,
                                        ![k].migration_complete = (ahead = 0)]
             /\ IF ahead = 0 THEN SourceTo("finish", source.hand, k)
                ELSE SourceTo("loop", source.hand, None)
     ELSE UNCHANGED tunnel /\ SourceTo("loop", source.hand, None)
  /\ UNCHANGED <<tasks, fifo, route, opened, registered, load, control>>

(* finish_strict_migration; a failed route stays failed. *)
SourceFinish ==
  /\ source.pc = "finish"
  /\ RouteUnlocked
  /\ IF route.state = "Migrating" THEN RouteTo("Stolen", source.tunnel)
     ELSE UNCHANGED route
  /\ SourceTo("loop", source.hand, None)
  /\ UNCHANGED <<tasks, fifo, tunnel, opened, registered, load, control>>

-----------------------------------------------------------------------------
(* The worker of the target slot, on one registered tunnel at a time.       *)

(* StrictTunnel::close_all. *)
AllClosed(k) ==
  /\ fifo' = [p \in Places |-> IF p \in QueuesOf(k) THEN WithClosed(fifo[p]) ELSE fifo[p]]
  /\ tunnel' = [tunnel EXCEPT ![k].accepting = FALSE]

(* A polled item goes to the hand for step pc; a poison, or a task already  *)
(* settled, is dropped.                                                     *)
TargetTakes(p, pc, otherwise) ==
  /\ fifo' = [fifo EXCEPT ![p] = WithoutHead(@)]
  /\ IF Poll(p) = "published" /\ at[Head1(p).task] = "queued"
     THEN TargetTo(pc, Head1(p).task)
     ELSE TargetTo(otherwise, None)

(* The worker turns to a tunnel; without the permit it executes nothing. *)
TargetTurn(k) ==
  /\ target.pc = "loop" /\ k \in registered
  /\ LET mayExecute == mode = "force" \/ ExecutionAvailable("target")
     IN target' = [pc |-> IF mayExecute /\ tunnel[k].target_execution
                          THEN "stock" ELSE "returns",
                   hand |-> None, tunnel |-> k]
  /\ UNCHANGED <<tasks, fifo, routing, source, control>>

(* poll_executable: the stock first ... *)
TargetStock ==
  /\ target.pc = "stock"
  /\ LET p == Stock(target.tunnel)
     IN CASE Poll(p) = "empty" -> TargetTo("incremental", None) /\ UNCHANGED fifo
          [] Poll(p) = "reserved" -> TargetTo("returns", None) /\ UNCHANGED fifo
          [] OTHER -> TargetTakes(p, "dispatch", "returns")
  /\ UNCHANGED <<tasks, routing, control>>

(* ... and only after a complete migration the incremental queue.  The flag *)
(* is read after the stock was seen empty.                                  *)
TargetIncremental ==
  /\ target.pc = "incremental"
  /\ LET p == Incremental(target.tunnel)
     IN IF tunnel[target.tunnel].migration_complete /\ Poll(p) \in {"published", "poisoned"}
        THEN TargetTakes(p, "dispatch", "returns")
        ELSE TargetTo("returns", None) /\ UNCHANGED fifo
  /\ UNCHANGED <<tasks, routing, control>>

(* consume_tunnel and the catch-up of staged tasks. *)
TargetDispatch ==
  /\ target.pc = "dispatch"
  /\ Dispatched(target.hand, "target")
  /\ TargetTo("returns", None)
  /\ UNCHANGED <<fifo, routing, control>>

(* A poll reports a failed queue: fail_strict_tunnel closes the tunnel ...  *)
TargetFails ==
  /\ MayFail
  /\ target.pc = "stock"
  /\ AllClosed(target.tunnel)
  /\ TargetTo("fail", None)
  /\ UNCHANGED <<tasks, route, opened, registered, load, control>>

(* ... then fail_strict_route freezes the route and the type. *)
TargetFailRoute ==
  /\ target.pc = "fail"
  /\ RouteUnlocked
  /\ IF route.tunnel = target.tunnel
     THEN RouteTo("Failed", route.tunnel) /\ failed' = TRUE
     ELSE UNCHANGED <<route, failed>>
  /\ TargetTo("returns", None)
  /\ UNCHANGED <<tasks, fifo, tunnel, opened, registered, load, other, mode, shut>>

(* progress_returns, for the tunnel of this turn, with the route in state s. *)
OnRoute(s) ==
  /\ target.pc = "returns"
  /\ RouteUnlocked
  /\ mode # "force"
  /\ route = [state |-> s, tunnel |-> target.tunnel]

ReturnWaits ==
  /\ OnRoute("Migrating")
  /\ TargetTo("loop", None)
  /\ UNCHANGED <<tasks, fifo, routing, control>>

(* Mutant of LowLoad: off by one at the threshold. *)
LowLoadStrict(k) ==
  /\ ExecutionAvailable("target") /\ ExecutionIdle
  /\ fifo[Stock(k)].depth = 0 /\ fifo[Incremental(k)].depth = 0
  /\ LogicalCount + 1 < Threshold

LowLoad(k) ==
  /\ ExecutionAvailable("target") /\ ExecutionIdle
  /\ fifo[Stock(k)].depth = 0 /\ fifo[Incremental(k)].depth = 0
  /\ LogicalCount < Threshold

(* observe_return_candidate counts quiet observations of a low load. *)
ReturnObserve ==
  /\ OnRoute("Stolen")
  /\ LET seen == IF LowLoad(target.tunnel) /\ load.quiet THEN load.observations + 1 ELSE 0
     IN /\ load' = [observations |-> seen, quiet |-> TRUE]
        /\ TargetTo(IF seen >= ReturnObservations THEN "prepare" ELSE "loop", None)
  /\ UNCHANGED <<tasks, fifo, route, tunnel, opened, registered, control>>

(* begin_strict_return, then begin_return_prepare. *)
ReturnBegin ==
  /\ target.pc = "prepare"
  /\ RouteTo("ReturnPrepare", target.tunnel)
  /\ tunnel' = [tunnel EXCEPT ![target.tunnel].target_execution = FALSE]
  /\ TargetTo("loop", None)
  /\ UNCHANGED <<tasks, fifo, opened, registered, load, control>>

(* cancel_strict_return: staged work, or a stop, takes the return back. *)
ReturnCancelled(k) == fifo[Staging(k)].depth > 0 \/ mode # "running"

ReturnCancel ==
  /\ OnRoute("ReturnPrepare")
  /\ ReturnCancelled(target.tunnel)
  /\ RouteTo("StolenCatchup", target.tunnel)
  /\ TargetTo("loop", None)
  /\ UNCHANGED <<tasks, fifo, tunnel, opened, registered, load, control>>

ReturnReady ==
  /\ OnRoute("ReturnPrepare")
  /\ ~ReturnCancelled(target.tunnel)
  /\ TargetTo(IF DirectProducersStopped(target.tunnel) /\ ExecutionIdle
              THEN "close" ELSE "loop", None)
  /\ UNCHANGED <<tasks, fifo, routing, control>>

(* Mutant of ReturnClose: staging is closed while the route still names it. *)
ReturnCloseAll ==
  /\ target.pc = "close"
  /\ AllClosed(target.tunnel)
  /\ TargetTo("mark", None)
  /\ UNCHANGED <<tasks, route, opened, registered, load, control>>

(* begin_return: from here on the return cannot be taken back. *)
ReturnClose ==
  /\ target.pc = "close"
  /\ LET k == target.tunnel
     IN /\ fifo' = [fifo EXCEPT ![Stock(k)] = WithClosed(@), ![Incremental(k)] = WithClosed(@)]
        /\ tunnel' = [tunnel EXCEPT ![k].accepting = FALSE]
  /\ TargetTo("mark", None)
  /\ UNCHANGED <<tasks, route, opened, registered, load, control>>

ReturnMark ==
  /\ target.pc = "mark"
  /\ RouteTo("Returning", target.tunnel)
  /\ TargetTo("loop", None)
  /\ UNCHANGED <<tasks, fifo, tunnel, opened, registered, load, control>>

(* Returning: what is left in the incremental queue goes back to main. *)
ReturnDirect ==
  /\ OnRoute("Returning")
  /\ LET k == target.tunnel  p == Incremental(k)
     IN CASE Poll(p) = "empty" /\ DirectProducersStopped(k) ->
               /\ RouteTo("LocalCatchup", k)
               /\ TargetTo("closeStaging", None)
               /\ UNCHANGED fifo
          [] Poll(p) \in {"published", "poisoned"} ->
               TargetTakes(p, "back", "loop") /\ UNCHANGED route
          [] OTHER -> TargetTo("loop", None) /\ UNCHANGED <<fifo, route>>
  /\ UNCHANGED <<tasks, tunnel, opened, registered, load, control>>

(* The route has left staging before begin_staging_drain closes it. *)
ReturnCloseStaging ==
  /\ target.pc = "closeStaging"
  /\ fifo' = [fifo EXCEPT ![Staging(target.tunnel)] = WithClosed(@)]
  /\ TargetTo("loop", None)
  /\ UNCHANGED <<tasks, routing, control>>

(* Mutant of ReturnStaging: a staged task that is still being published is  *)
(* taken for the end of the queue.                                          *)
ReturnStagingPending ==
  /\ OnRoute("LocalCatchup")
  /\ LET p == Staging(target.tunnel)
     IN CASE Poll(p) \in {"empty", "reserved"} ->
               /\ RouteTo("Local", None)
               /\ load' = [load EXCEPT !.observations = 0]
               /\ TargetTo("unregister", None)
               /\ UNCHANGED fifo
          [] OTHER -> TargetTakes(p, "back", "loop") /\ UNCHANGED <<route, load>>
  /\ UNCHANGED <<tasks, tunnel, opened, registered, control>>

(* LocalCatchup: the staged tasks go back to main, then the route is Local. *)
ReturnStaging ==
  /\ OnRoute("LocalCatchup")
  /\ LET p == Staging(target.tunnel)
     IN CASE Outstanding(p) ->
               TargetTo("loop", None) /\ UNCHANGED <<fifo, route, load>>
          [] Cells(p) = <<>> ->
               /\ RouteTo("Local", None)
               /\ load' = [load EXCEPT !.observations = 0]
               /\ TargetTo("unregister", None)
               /\ UNCHANGED fifo
          [] OTHER -> TargetTakes(p, "back", "loop") /\ UNCHANGED <<route, load>>
  /\ UNCHANGED <<tasks, tunnel, opened, registered, control>>

ReturnUnregister ==
  /\ target.pc = "unregister"
  /\ AllClosed(target.tunnel)
  /\ registered' = registered \ {target.tunnel}
  /\ TargetTo("loop", None)
  /\ UNCHANGED <<tasks, route, opened, load, control>>

(* Mutant of ReturnCatchup: the execution of the target is not resumed. *)
ReturnCatchupAsleep ==
  /\ OnRoute("StolenCatchup")
  /\ LET k == target.tunnel  p == Staging(k)
     IN CASE Outstanding(p) \/ ~ExecutionAvailable("target") ->
               TargetTo("loop", None) /\ UNCHANGED <<fifo, route, tunnel, load>>
          [] ~Outstanding(p) /\ ExecutionAvailable("target") /\ Cells(p) = <<>> ->
               /\ RouteTo("Stolen", k)
               /\ load' = [load EXCEPT !.observations = 0]
               /\ TargetTo("loop", None)
               /\ UNCHANGED <<fifo, tunnel>>
          [] OTHER -> /\ TargetTakes(p, "dispatch", "loop")
                      /\ UNCHANGED <<route, tunnel, load>>
  /\ UNCHANGED <<tasks, opened, registered, control>>

(* StolenCatchup: the target executes what was staged, then resumes. *)
ReturnCatchup ==
  /\ OnRoute("StolenCatchup")
  /\ LET k == target.tunnel  p == Staging(k)
     IN CASE Outstanding(p) \/ ~ExecutionAvailable("target") ->
               TargetTo("loop", None) /\ UNCHANGED <<fifo, route, tunnel, load>>
          [] ~Outstanding(p) /\ ExecutionAvailable("target") /\ Cells(p) = <<>> ->
               /\ RouteTo("Stolen", k)
               /\ load' = [load EXCEPT !.observations = 0]
               /\ tunnel' = [tunnel EXCEPT ![k].target_execution = TRUE]
               /\ TargetTo("loop", None)
               /\ UNCHANGED fifo
          [] OTHER -> /\ TargetTakes(p, "dispatch", "loop")
                      /\ UNCHANGED <<route, tunnel, load>>
  /\ UNCHANGED <<tasks, opened, registered, control>>

(* move_to_main: reserve_main_transfer takes a number even in a stop. *)
BackReserve ==
  /\ target.pc = "back"
  /\ fifo' = [fifo EXCEPT ![Main] = WithReserved(@, target.hand)]
  /\ TargetTo("backCount", target.hand)
  /\ UNCHANGED <<tasks, routing, control>>

BackCount ==
  /\ target.pc = "backCount"
  /\ fifo' = [fifo EXCEPT ![Main] = WithDepth(@)]
  /\ TargetTo("backPublish", target.hand)
  /\ UNCHANGED <<tasks, routing, control>>

BackPublish ==
  /\ target.pc = "backPublish"
  /\ fifo' = [fifo EXCEPT ![Main] = WithState(@, target.hand, "published")]
  /\ TargetTo("loop", None)
  /\ UNCHANGED <<tasks, routing, control>>

-----------------------------------------------------------------------------
(* drain_failed_strict: a tunnel that is not the route's, or a failed or    *)
(* forcibly stopped one.                                                    *)

DrainChosen ==
  /\ target.pc = "returns"
  /\ RouteUnlocked
  /\ \/ route.tunnel # target.tunnel /\ (Overlaps \/ source.pc # "install")
     \/ mode = "force"
     \/ route.state = "Failed"
  /\ TargetTo("drainClose", None)
  /\ UNCHANGED <<tasks, fifo, routing, control>>

DrainClose ==
  /\ target.pc = "drainClose"
  /\ AllClosed(target.tunnel)
  /\ TargetTo("drain", None)
  /\ UNCHANGED <<tasks, route, opened, registered, load, control>>

(* poll_failure: the first of the three FIFOs that holds a cell. *)
FailurePoll(k) ==
  CASE Cells(Stock(k)) # <<>> -> Stock(k)
    [] Cells(Stock(k)) = <<>> /\ Cells(Incremental(k)) # <<>> -> Incremental(k)
    [] OTHER -> Staging(k)

DrainItem ==
  /\ target.pc = "drain"
  /\ LET p == FailurePoll(target.tunnel)
     IN /\ Poll(p) \in {"published", "poisoned"}
        /\ fifo' = [fifo EXCEPT ![p] = WithoutHead(@)]
        /\ IF Poll(p) = "published" /\ at[Head1(p).task] = "queued"
           THEN SettleAs(Head1(p).task, "settled") ELSE UNCHANGED tasks
  /\ UNCHANGED <<routing, workers, control>>

DrainStops ==
  /\ target.pc = "drain"
  /\ Poll(FailurePoll(target.tunnel)) \in {"empty", "reserved"}
  /\ TargetTo("drainDepth", None)
  /\ UNCHANGED <<tasks, fifo, routing, control>>

(* The depth is read first, the producers afterwards. *)
DrainDepth ==
  /\ target.pc = "drainDepth"
  /\ TargetTo(IF \A p \in QueuesOf(target.tunnel) : fifo[p].depth = 0
              THEN "drainProducers" ELSE "loop", None)
  /\ UNCHANGED <<tasks, fifo, routing, control>>

DrainProducers ==
  /\ target.pc = "drainProducers"
  /\ IF DirectProducersStopped(target.tunnel) /\ StagingProducersStopped(target.tunnel)
     THEN registered' = registered \ {target.tunnel} ELSE UNCHANGED registered
  /\ TargetTo("loop", None)
  /\ UNCHANGED <<tasks, fifo, route, tunnel, opened, load, control>>

-----------------------------------------------------------------------------
(* Stopping.                                                                *)

(* request_graceful_stop, request_force_stop: the mode first ... *)
Stop(m) ==
  /\ m \in Stops
  /\ mode = "running" \/ (mode = "graceful" /\ m = "force")
  /\ mode' = m
  /\ UNCHANGED <<tasks, fifo, routing, workers, other, shut, failed>>

(* ... then close_admission closes each slot and the tunnels it receives. *)
Shut(s) ==
  /\ mode # "running" /\ s \notin shut
  /\ shut' = shut \cup {s}
  /\ LET inbound == IF s = "target" THEN registered ELSE {}
     IN /\ fifo' = [p \in Places |-> IF p[1] \in inbound THEN WithClosed(fifo[p]) ELSE fifo[p]]
        /\ tunnel' = [k \in Tunnels |->
             [tunnel[k] EXCEPT !.accepting = @ /\ k \notin inbound]]
  /\ UNCHANGED <<tasks, route, opened, registered, load, workers, other, mode, failed>>

(* worker_should_exit: no producer, and every queue that a slot can see is  *)
(* empty: main, and the tunnels registered at the target.                   *)
QueuesEmpty ==
  \A p \in {Main} \cup UNION {QueuesOf(k) : k \in registered} :
     fifo[p].depth = 0 /\ ~Outstanding(p)

MayExit ==
  /\ mode # "running"
  /\ \A t \in Tasks : at[t] \notin Unplaced
  /\ QueuesEmpty

SourceExit ==
  /\ source.pc = "loop" /\ ~Deferred /\ MayExit
  /\ SourceTo("exited", None, None)
  /\ UNCHANGED <<tasks, fifo, routing, control>>

TargetExit ==
  /\ target.pc = "loop" /\ MayExit
  /\ TargetTo("exited", None)
  /\ UNCHANGED <<tasks, fifo, routing, control>>

-----------------------------------------------------------------------------

Submission(t) == Reserve(t) \/ Refuse(t) \/ Count(t) \/ Publish(t)
Business(t) ==
  \/ Lease(t) \/ LeaseRefused(t) \/ VoidEnds(t) \/ Run(t) \/ Finish(t)
  \/ Release(t) \/ Abort(t)
Caller(t) == Withdraw(t) \/ CancelQueued(t) \/ CancelWaiting(t)

SourceWorker ==
  \/ StealInstall \/ SourceResume \/ SourceTake \/ SourceIdle \/ SourceRoute
  \/ SourceStock \/ SourceCount \/ SourcePublish \/ SourceDispatch
  \/ SourceMigrate \/ SourceFinish \/ SourceExit

TargetWorker ==
  \/ \E k \in Tunnels : TargetTurn(k)
  \/ TargetStock \/ TargetIncremental \/ TargetDispatch \/ TargetFailRoute
  \/ ReturnWaits \/ ReturnObserve \/ ReturnBegin \/ ReturnCancel
  \/ ReturnReady \/ ReturnClose \/ ReturnMark \/ ReturnDirect
  \/ ReturnCloseStaging \/ ReturnStaging \/ ReturnUnregister \/ ReturnCatchup
  \/ BackReserve \/ BackCount \/ BackPublish
  \/ DrainChosen \/ DrainClose \/ DrainItem \/ DrainStops \/ DrainDepth \/ DrainProducers
  \/ TargetExit

Next ==
  \/ Issue
  \/ \E t \in Tasks : Submission(t) \/ Business(t) \/ Caller(t)
  \/ StealRegister \/ SourceWorker \/ TargetFails \/ TargetWorker
  \/ \E s \in Slots : OtherStarts(s) \/ OtherEnds(s) \/ Shut(s)
  \/ \E m \in Stops : Stop(m)

Spec == Init /\ [][Next]_vars

(* Every actor that has work goes on: futures and submitters are polled by  *)
(* the runtime, workers are woken by a control tick while a queue or a      *)
(* tunnel is not empty, and the two gates are fair (semaphore, Notify).     *)
(* Callers, the observer that asks for a steal and failures owe nothing.    *)
FairSpec ==
  /\ Spec
  /\ \A t \in Tasks : WF_vars(Submission(t)) /\ WF_vars(Business(t))
  /\ WF_vars(SourceWorker) /\ WF_vars(TargetWorker)
  /\ \A s \in Slots : WF_vars(OtherEnds(s)) /\ WF_vars(Shut(s))

-----------------------------------------------------------------------------
(* Properties.                                                              *)

Pcs(s) ==
  IF s = "source"
  THEN {"loop", "install", "serve", "route", "stock", "count", "publish",
        "dispatch", "migrate", "finish", "exited"}
  ELSE {"loop", "stock", "incremental", "dispatch", "fail", "returns", "prepare",
        "close", "mark", "closeStaging", "unregister", "back", "backCount",
        "backPublish", "drainClose", "drain", "drainDepth", "drainProducers", "exited"}

WorkerType(s) ==
  [pc : Pcs(s), hand : Tasks \cup {None}, tunnel : Tunnels \cup {None}]

FifoType ==
  [cells : UNION {[1..n -> Cell] : n \in 0..MaxTasks},
   depth : 0..MaxTasks, closed : BOOLEAN]

(* Types of the state; the depth of a FIFO (tunnel/strict.rs, fetch_add at  *)
(* the reservation, checked_sub at the poll) never underflows.              *)
TypeOK ==
  /\ next_issue \in 1..(MaxTasks + 1)
  /\ order.next_run \in 1..(MaxTasks + 1) /\ order.settled_ahead \subseteq Tasks
  /\ at \in [Tasks -> Phase]
  /\ where \in [Tasks -> Places \cup {On(s) : s \in Slots}]
  /\ \A p \in Places : fifo[p] \in FifoType
  /\ route \in [state : RouteState, tunnel : Tunnels \cup {None}]
  /\ tunnel \in [Tunnels ->
       [accepting : BOOLEAN, target_execution : BOOLEAN,
        source_boundary : 0..MaxTasks, frozen : BOOLEAN,
        migration_complete : BOOLEAN]]
  /\ opened \in 0..MaxSteals /\ registered \subseteq 1..opened
  /\ load \in [observations : 0..ReturnObservations, quiet : BOOLEAN]
  /\ source \in WorkerType("source") /\ target \in WorkerType("target")
  /\ other \in [Slots -> BOOLEAN]
  /\ mode \in {"running", "graceful", "force"}
  /\ shut \subseteq Slots /\ failed \in BOOLEAN

Lane == INSTANCE StrictLane WITH lane <- [t \in Tasks |->
  CASE at[t] = "new" -> "unborn"
    [] at[t] \in Unplaced \cup {"queued", "waiting", "leased"} -> "pending"
    [] at[t] = "running" -> "running"
    [] OTHER -> "settled"]

(* However the tasks travel through main, stock, incremental and staging,   *)
(* and whichever are cancelled on the way, the type behaves like one strict *)
(* lane: one at a time, in the order of the numbers (route.rs, StrictOrder; *)
(* runner.rs, run_business).                                                *)
ImplementsLane == Lane!Spec

InCells(t, p) ==
  \E i \in DOMAIN Cells(p) : Cells(p)[i].task = t /\ Cells(p)[i].state = "published"

(* An accepted task is always where some worker will still look for it: in  *)
(* a worker's hand, in main, or in a FIFO of a registered tunnel that its   *)
(* route still drains (progress_returns never polls the stock again once    *)
(* the return is irrevocable, nor incremental after LocalCatchup).          *)
NothingStranded ==
  /\ \A t \in Tasks : at[t] = "queued" =>
       \/ t \in {source.hand, target.hand}
       \/ \E p \in {Main} \cup UNION {QueuesOf(k) : k \in registered} : InCells(t, p)
  /\ route.state \in {"Returning", "LocalCatchup"} => Cells(Stock(route.tunnel)) = <<>>
  /\ route.state = "LocalCatchup" => Cells(Incremental(route.tunnel)) = <<>>

(* A healthy, running type never turns a task away: whatever state the      *)
(* route is in, the queue it names is open (reserve_placement).             *)
NoRefusal ==
  (\E t \in Tasks : at[t] = "refused") => failed \/ mode # "running"

(* The target takes nothing from the incremental queue before the prefix in *)
(* the stock (poll_executable, tunnel/strict.rs).                           *)
StockFirst ==
  [][target.pc = "incremental" /\ target'.hand # None
     => Cells(Stock(target.tunnel)) = <<>>]_vars

(* A worker that has left for good has left nothing in its main queue       *)
(* (worker_should_exit, runner.rs).                                         *)
ExitedMeansDrained == source.pc = "exited" => Cells(Main) = <<>>

(* Every number that was handed out is settled in the end.                  *)
EverySettles ==
  \A t \in Tasks : at[t] = "issued" ~> at[t] \in Terminal

(* A tunnel is given back once the load is gone.                            *)
TunnelReturns == registered # {} ~> route.state = "Local" /\ registered = {}
=============================================================================
