----------------------------- MODULE StrictLane -----------------------------
(***************************************************************************)
(* What napart promises the caller of a strict task type, with every queue, *)
(* tunnel and worker hidden: the tasks of one type get their numbers in the *)
(* order in which they are accepted, at most one of them runs at a time,    *)
(* and a task starts only once every smaller number is settled (completed,  *)
(* failed, cancelled or refused).                                           *)
(***************************************************************************)
EXTENDS Naturals

CONSTANT MaxTasks

VARIABLE lane

Tasks == 1..MaxTasks
Status == {"unborn", "pending", "running", "settled"}

Earlier(t) == 1..(t - 1)

Init == lane = [t \in Tasks |-> "unborn"]

(* The next number is handed out (StrictOrder::issue). *)
Issue(t) ==
  /\ lane[t] = "unborn"
  /\ \A u \in Earlier(t) : lane[u] # "unborn"
  /\ lane' = [lane EXCEPT ![t] = "pending"]

(* The turn of t has come and nobody else runs (StrictOrder::turn_ready and *)
(* the strict execution lease).                                             *)
Start(t) ==
  /\ lane[t] = "pending"
  /\ \A u \in Earlier(t) : lane[u] = "settled"
  /\ \A u \in Tasks : lane[u] # "running"
  /\ lane' = [lane EXCEPT ![t] = "running"]

(* The number is settled, whatever the outcome (StrictOrder::settle). *)
Settle(t) ==
  /\ lane[t] \in {"pending", "running"}
  /\ lane' = [lane EXCEPT ![t] = "settled"]

Next == \E t \in Tasks : Issue(t) \/ Start(t) \/ Settle(t)

Spec == Init /\ [][Next]_lane

-----------------------------------------------------------------------------

(* Every task has one of the four statuses (StrictOrder, route.rs). *)
TypeOK == lane \in [Tasks -> Status]

(* Two tasks of the type never run together, and the one that runs has only *)
(* settled numbers before it: no queue, migration or return can let a later *)
(* number overtake an earlier one (StrictOrder::wait_turn, route.rs).       *)
SerialInOrder ==
  \A t \in Tasks : lane[t] = "running" =>
     /\ \A u \in Earlier(t) : lane[u] = "settled"
     /\ \A u \in Tasks : lane[u] = "running" => u = t
=============================================================================
