-------------------------- MODULE StrictLaneProofs --------------------------
(* The lane that the strict route implements runs its tasks one at a time   *)
(* and in the order of their numbers, for every number of tasks.            *)
EXTENDS StrictLane, TLAPS

(* The status of a task is one of the four of the lane, whatever number of  *)
(* tasks the type receives (StrictOrder, route.rs).                         *)
THEOREM LaneTyped == Spec => []TypeOK
<1>1. Init => TypeOK
  BY DEF Init, TypeOK, Status
<1>2. TypeOK /\ [Next]_lane => TypeOK'
  BY DEF TypeOK, Next, Issue, Start, Settle, Status
<1> QED
  BY <1>1, <1>2, PTL DEF Spec

(* A settled number stays settled and a pending one has issued numbers only *)
(* before it: what keeps the running task the first unsettled one.          *)
LEMMA StepKeepsOrder ==
  ASSUME MaxTasks \in Nat, TypeOK, SerialInOrder, [Next]_lane
  PROVE  SerialInOrder'
<1>1. CASE UNCHANGED lane
  BY <1>1 DEF SerialInOrder
<1>2. ASSUME NEW t \in Tasks, Issue(t) PROVE SerialInOrder'
  BY <1>2 DEF SerialInOrder, TypeOK, Issue, Tasks, Earlier, Status
<1>3. ASSUME NEW t \in Tasks, Start(t) PROVE SerialInOrder'
  BY <1>3 DEF SerialInOrder, TypeOK, Start, Tasks, Earlier, Status
<1>4. ASSUME NEW t \in Tasks, Settle(t) PROVE SerialInOrder'
  BY <1>4 DEF SerialInOrder, TypeOK, Settle, Tasks, Earlier, Status
<1> QED
  BY <1>1, <1>2, <1>3, <1>4 DEF Next

(* However many tasks a strict type receives, two of them never run         *)
(* together, and none runs before every smaller number is settled           *)
(* (StrictOrder::wait_turn and acquire_strict_execution, route.rs).         *)
THEOREM LaneSerial ==
  ASSUME MaxTasks \in Nat
  PROVE  Spec => []SerialInOrder
<1>1. Init => SerialInOrder
  BY DEF Init, SerialInOrder, Tasks
<1>2. TypeOK /\ SerialInOrder /\ [Next]_lane => SerialInOrder'
  BY StepKeepsOrder
<1> QED
  BY <1>1, <1>2, LaneTyped, PTL DEF Spec
=============================================================================
