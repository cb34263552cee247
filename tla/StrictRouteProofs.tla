-------------------------- MODULE StrictRouteProofs --------------------------
(***************************************************************************)
(* Proofs about StrictRoute, for any number of tasks and tunnels and any   *)
(* thresholds.                                                             *)
(*                                                                         *)
(* LaneInv: types, the order gate and the place of every task; it makes    *)
(* the route implement the lane, whatever fails, stops or overlaps.        *)
(* StoreInv: a queued task has a cell, and the depth of a stock counts its *)
(* cells; also unconditional.                                              *)
(* Calm: which tunnel is whose, what each step of a migration and a return *)
(* has emptied; up to a forced stop, when no queue fails and the target    *)
(* does not run between the registration and the installation of a tunnel. *)
(* Doors: the queue that the route names is open until the runner stops.   *)
(***************************************************************************)
EXTENDS StrictRoute, Integers, SequenceTheorems, FiniteSetTheorems, TLAPS

Fifo == [cells : Seq(Cell), depth : Int, closed : BOOLEAN]

TunnelType ==
  [accepting : BOOLEAN, target_execution : BOOLEAN, source_boundary : Int,
   frozen : BOOLEAN, migration_complete : BOOLEAN]

Types ==
  /\ next_issue \in 1..(MaxTasks + 1)
  /\ order \in [next_run : Nat, settled_ahead : SUBSET Tasks]
  /\ at \in [Tasks -> Phase]
  /\ fifo \in [Places -> Fifo]
  /\ route \in [state : RouteState, tunnel : Tunnels \cup {None}]
  /\ tunnel \in [Tunnels -> TunnelType]
  /\ opened \in 0..MaxSteals /\ registered \subseteq Tunnels
  /\ source \in WorkerType("source") /\ target \in WorkerType("target")

SourceHandPc == {"route", "stock", "count", "publish", "dispatch"}
SourceTunnelPc == {"install", "stock", "count", "publish", "finish"}
TargetHandPc == {"dispatch", "back", "backCount", "backPublish"}

(* What a worker at work has in its hand, and where a placement points.    *)
ShapeInv ==
  /\ DOMAIN where = Tasks
  /\ source.pc \in SourceHandPc => source.hand \in Tasks
  /\ source.pc \in SourceTunnelPc => source.tunnel \in Tunnels
  /\ target.pc \in TargetHandPc => target.hand \in Tasks
  /\ target.pc \notin TargetHandPc => target.hand = None
  /\ target.pc \notin {"loop", "exited"} => target.tunnel \in Tunnels
  /\ route.state # "Local" => route.tunnel \in Tunnels
  /\ \A t \in Tasks : at[t] \in {"entered", "reserved"} => where[t] \in Places

-----------------------------------------------------------------------------
LEMMA Names ==
  /\ None \notin Tasks /\ None \notin Tunnels /\ Main \in Places
  /\ \A k \in Tunnels : /\ Stock(k) \in Places /\ Incremental(k) \in Places /\ Staging(k) \in Places
                        /\ Stock(k) # Main /\ Incremental(k) # Main /\ Staging(k) # Main
                        /\ Stock(k) # Incremental(k) /\ Stock(k) # Staging(k)
                        /\ Incremental(k) # Staging(k)
  /\ \A k, j \in Tunnels : /\ Stock(k) = Stock(j) => k = j
                           /\ Incremental(k) = Incremental(j) => k = j
                           /\ Staging(k) = Staging(j) => k = j
                           /\ Stock(k) # Incremental(j) /\ Stock(k) # Staging(j)
                           /\ Incremental(k) # Staging(j)
  /\ MaxTasks \in Nat /\ MaxSteals \in Nat
  <1>1. MaxTasks \in Nat /\ MaxSteals \in Nat
    BY RouteAssumption
  <1>2. None \notin Tasks /\ None \notin Tunnels
    BY <1>1 DEF None, Tasks, Tunnels
  <1>3. Main \in Places
    BY DEF Places
  <1>4. ASSUME NEW k \in Tunnels
        PROVE  Stock(k) \in Places /\ Incremental(k) \in Places /\ Staging(k) \in Places
    BY DEF Places, QueuesOf
  <1>5. ASSUME NEW k \in Tunnels, NEW j \in Tunnels
        PROVE  /\ Stock(k) # Main /\ Incremental(k) # Main /\ Staging(k) # Main
               /\ Stock(k) = Stock(j) => k = j
               /\ Incremental(k) = Incremental(j) => k = j
               /\ Staging(k) = Staging(j) => k = j
               /\ Stock(k) # Incremental(j) /\ Stock(k) # Staging(j)
               /\ Incremental(k) # Staging(j)
    BY DEF Stock, Incremental, Staging, Main
  <1> QED BY <1>1, <1>2, <1>3, <1>4, <1>5

(* The places are the main queue and the three queues of each tunnel.      *)
LEMMA PlaceIs ==
  ASSUME NEW p \in Places
  PROVE  p = Main \/ \E k \in Tunnels : p \in {Stock(k), Incremental(k), Staging(k)}
  BY DEF Places, QueuesOf

-----------------------------------------------------------------------------
(* What the operations on a FIFO do to its cells.                          *)
SameCells == \A p \in Places : fifo'[p].cells = fifo[p].cells

Others(p) == \A q \in Places \ {p} : fifo'[q].cells = fifo[q].cells

Appends(p, t) ==
  /\ Others(p)
  /\ Len(fifo'[p].cells) = Len(fifo[p].cells) + 1
  /\ \A i \in 1 .. Len(fifo[p].cells) : fifo'[p].cells[i] = fifo[p].cells[i]
  /\ fifo'[p].cells[Len(fifo[p].cells) + 1] = [task |-> t, state |-> "reserved"]

Marks(p, t, s) ==
  /\ Others(p)
  /\ Len(fifo'[p].cells) = Len(fifo[p].cells)
  /\ \A i \in 1 .. Len(fifo[p].cells) :
       fifo'[p].cells[i] = IF fifo[p].cells[i].task = t /\ fifo[p].cells[i].state = "reserved"
                           THEN [task |-> t, state |-> s] ELSE fifo[p].cells[i]

Drops(p) ==
  /\ Others(p)
  /\ Len(fifo'[p].cells) = Len(fifo[p].cells) - 1
  /\ \A i \in 1 .. (Len(fifo[p].cells) - 1) : fifo'[p].cells[i] = fifo[p].cells[i + 1]

LEMMA CellsOf ==
  ASSUME Types, NEW p \in Places
  PROVE  /\ fifo[p] \in Fifo /\ fifo[p].cells \in Seq(Cell) /\ fifo[p].depth \in Int
         /\ Len(fifo[p].cells) \in Nat /\ DOMAIN fifo[p].cells = 1 .. Len(fifo[p].cells)
         /\ \A i \in 1 .. Len(fifo[p].cells) :
              /\ fifo[p].cells[i].task \in Tasks
              /\ fifo[p].cells[i].state \in {"reserved", "published", "poisoned"}
  <1>1. fifo[p] \in Fifo
    BY DEF Types
  <1>2. fifo[p].cells \in Seq(Cell) /\ fifo[p].depth \in Int
    BY <1>1 DEF Fifo
  <1>3. /\ Len(fifo[p].cells) \in Nat /\ DOMAIN fifo[p].cells = 1 .. Len(fifo[p].cells)
        /\ \A i \in 1 .. Len(fifo[p].cells) : fifo[p].cells[i] \in Cell
    BY <1>2, LenProperties, ElementOfSeq
  <1> QED BY <1>1, <1>2, <1>3 DEF Cell

LEMMA HeadOf ==
  ASSUME Types, NEW p \in Places, fifo[p].cells # <<>>
  PROVE  /\ 1 \in 1 .. Len(fifo[p].cells) /\ 1 \in DOMAIN fifo[p].cells
         /\ Head1(p) = fifo[p].cells[1] /\ fifo[p].cells[1].task \in Tasks
         /\ fifo[p].cells[1].state \in {"reserved", "published", "poisoned"}
  <1>1. /\ fifo[p].cells \in Seq(Cell) /\ Len(fifo[p].cells) \in Nat
        /\ DOMAIN fifo[p].cells = 1 .. Len(fifo[p].cells)
    BY CellsOf
  <1>2. Len(fifo[p].cells) # 0
    BY <1>1, EmptySeq
  <1>3. 1 \in 1 .. Len(fifo[p].cells)
    BY <1>1, <1>2
  <1>4. /\ fifo[p].cells[1].task \in Tasks
        /\ fifo[p].cells[1].state \in {"reserved", "published", "poisoned"}
    BY <1>3, CellsOf
  <1> QED BY <1>1, <1>3, <1>4 DEF Head1, Cells

LEMMA ReservedDoes ==
  ASSUME Types, NEW p \in Places, NEW t \in Tasks,
         fifo' = [fifo EXCEPT ![p] = WithReserved(@, t)]
  PROVE  /\ fifo' \in [Places -> Fifo] /\ Appends(p, t)
         /\ \A q \in Places : fifo'[q].depth = fifo[q].depth /\ fifo'[q].closed = fifo[q].closed
  <1> DEFINE c == [task |-> t, state |-> "reserved"]
  <1>1. c \in Cell
    BY DEF Cell
  <1>2. fifo[p] \in Fifo /\ fifo[p].cells \in Seq(Cell) /\ Len(fifo[p].cells) \in Nat
    BY CellsOf
  <1>3. WithReserved(fifo[p], t) = [fifo[p] EXCEPT !.cells = Append(@, c)]
    BY DEF WithReserved
  <1>4. Append(fifo[p].cells, c) \in Seq(Cell)
    BY <1>1, <1>2, AppendProperties
  <1>5. /\ Len(Append(fifo[p].cells, c)) = Len(fifo[p].cells) + 1
        /\ \A i \in 1 .. Len(fifo[p].cells) : Append(fifo[p].cells, c)[i] = fifo[p].cells[i]
        /\ Append(fifo[p].cells, c)[Len(fifo[p].cells) + 1] = c
    BY <1>1, <1>2, AppendProperties
  <1> HIDE DEF c
  <1>6. /\ fifo'[p] = [fifo[p] EXCEPT !.cells = Append(@, c)]
        /\ \A q \in Places \ {p} : fifo'[q] = fifo[q]
        /\ DOMAIN fifo' = Places
    BY <1>3 DEF Types
  <1>7. /\ fifo'[p].cells = Append(fifo[p].cells, c) /\ fifo'[p].depth = fifo[p].depth
        /\ fifo'[p].closed = fifo[p].closed /\ fifo'[p] \in Fifo
    BY <1>2, <1>4, <1>6 DEF Fifo
  <1>8. \A q \in Places : fifo'[q] \in Fifo
    BY <1>6, <1>7 DEF Types
  <1>9. fifo' = [q \in Places |-> fifo'[q]]
    BY DEF Types
  <1>10. fifo' \in [Places -> Fifo]
    BY <1>8, <1>9
  <1>11. Appends(p, t)
    BY <1>5, <1>6, <1>7 DEF Appends, Others, c
  <1> QED BY <1>6, <1>7, <1>10, <1>11

LEMMA MarkedDoes ==
  ASSUME Types, NEW p \in Places, NEW t \in Tasks, NEW s \in {"published", "poisoned"},
         fifo' = [fifo EXCEPT ![p] = WithState(@, t, s)]
  PROVE  /\ fifo' \in [Places -> Fifo] /\ Marks(p, t, s)
         /\ \A q \in Places : fifo'[q].depth = fifo[q].depth /\ fifo'[q].closed = fifo[q].closed
  <1> DEFINE old == fifo[p].cells
             new == [i \in DOMAIN old |->
                       IF old[i].task = t /\ old[i].state = "reserved"
                       THEN [old[i] EXCEPT !.state = s] ELSE old[i]]
  <1>1. /\ fifo[p] \in Fifo /\ old \in Seq(Cell) /\ Len(old) \in Nat /\ DOMAIN old = 1 .. Len(old)
        /\ \A i \in 1 .. Len(old) : old[i] \in Cell
    BY CellsOf, ElementOfSeq
  <1>2. WithState(fifo[p], t, s) = [fifo[p] EXCEPT !.cells = new]
    BY <1>1 DEF WithState, Fifo
  <1>3. \A i \in 1 .. Len(old) : /\ new[i] \in Cell
                                 /\ new[i] = IF old[i].task = t /\ old[i].state = "reserved"
                                             THEN [task |-> t, state |-> s] ELSE old[i]
    BY <1>1 DEF Cell
  <1>4. new = [i \in 1 .. Len(old) |-> new[i]]
    BY <1>1
  <1> HIDE DEF new
  <1>5. new \in Seq(Cell) /\ Len(new) = Len(old)
    <2>1. new \in [1 .. Len(old) -> Cell]
      BY <1>3, <1>4
    <2> QED BY <1>1, <2>1, IsASeq, LenProperties
  <1>6. /\ fifo'[p] = [fifo[p] EXCEPT !.cells = new]
        /\ \A q \in Places \ {p} : fifo'[q] = fifo[q]
        /\ DOMAIN fifo' = Places
    BY <1>2 DEF Types
  <1>7. /\ fifo'[p].cells = new /\ fifo'[p].depth = fifo[p].depth
        /\ fifo'[p].closed = fifo[p].closed /\ fifo'[p] \in Fifo
    BY <1>1, <1>5, <1>6 DEF Fifo
  <1>8. \A q \in Places : fifo'[q] \in Fifo
    BY <1>6, <1>7 DEF Types
  <1>9. fifo' = [q \in Places |-> fifo'[q]]
    BY DEF Types
  <1>10. fifo' \in [Places -> Fifo]
    BY <1>8, <1>9
  <1>11. Marks(p, t, s)
    BY <1>3, <1>5, <1>6, <1>7 DEF Marks, Others
  <1> QED BY <1>6, <1>7, <1>10, <1>11

LEMMA DroppedDoes ==
  ASSUME Types, NEW p \in Places, fifo[p].cells # <<>>,
         fifo' = [fifo EXCEPT ![p] = WithoutHead(@)]
  PROVE  /\ fifo' \in [Places -> Fifo] /\ Drops(p)
         /\ fifo'[p].depth = fifo[p].depth - 1
         /\ \A q \in Places : fifo'[q].closed = fifo[q].closed
         /\ \A q \in Places \ {p} : fifo'[q].depth = fifo[q].depth
  <1>1. /\ fifo[p] \in Fifo /\ fifo[p].cells \in Seq(Cell) /\ Len(fifo[p].cells) \in Nat
        /\ fifo[p].depth \in Int
    BY CellsOf
  <1>2. WithoutHead(fifo[p]) = [fifo[p] EXCEPT !.cells = Tail(@), !.depth = @ - 1]
    BY DEF WithoutHead
  <1>3. /\ Tail(fifo[p].cells) \in Seq(Cell)
        /\ Len(Tail(fifo[p].cells)) = Len(fifo[p].cells) - 1
        /\ \A i \in 1 .. (Len(fifo[p].cells) - 1) : Tail(fifo[p].cells)[i] = fifo[p].cells[i + 1]
    BY <1>1, HeadTailProperties
  <1>6. /\ fifo'[p] = [fifo[p] EXCEPT !.cells = Tail(@), !.depth = @ - 1]
        /\ \A q \in Places \ {p} : fifo'[q] = fifo[q]
        /\ DOMAIN fifo' = Places
    BY <1>2 DEF Types
  <1>7. /\ fifo'[p].cells = Tail(fifo[p].cells) /\ fifo'[p].depth = fifo[p].depth - 1
        /\ fifo'[p].closed = fifo[p].closed /\ fifo'[p] \in Fifo
    <2> DEFINE x == Tail(fifo[p].cells)
               y == fifo[p].depth - 1
    <2>1. x \in Seq(Cell) /\ y \in Int
      BY <1>1, <1>3
    <2>2. fifo'[p] = [fifo[p] EXCEPT !.cells = x, !.depth = y]
      BY <1>6
    <2> HIDE DEF x, y
    <2>3. fifo'[p].cells = x /\ fifo'[p].depth = y /\ fifo'[p].closed = fifo[p].closed
      BY <1>1, <2>2 DEF Fifo
    <2>4. fifo'[p] \in Fifo
      BY <1>1, <2>1, <2>2 DEF Fifo
    <2> QED BY <2>3, <2>4 DEF x, y
  <1>8. \A q \in Places : fifo'[q] \in Fifo
    BY <1>6, <1>7 DEF Types
  <1>9. fifo' = [q \in Places |-> fifo'[q]]
    BY DEF Types
  <1>10. fifo' \in [Places -> Fifo]
    BY <1>8, <1>9
  <1>11. Drops(p)
    BY <1>3, <1>6, <1>7 DEF Drops, Others
  <1> QED BY <1>6, <1>7, <1>10, <1>11

LEMMA CountedDoes ==
  ASSUME Types, NEW p \in Places,
         fifo' = [fifo EXCEPT ![p] = WithDepth(@)]
  PROVE  /\ fifo' \in [Places -> Fifo] /\ SameCells
         /\ fifo'[p].depth = fifo[p].depth + 1
         /\ \A q \in Places : fifo'[q].closed = fifo[q].closed
         /\ \A q \in Places \ {p} : fifo'[q].depth = fifo[q].depth
  <1>1. fifo[p] \in Fifo /\ fifo[p].depth \in Int
    BY CellsOf
  <1>6. /\ fifo'[p] = [fifo[p] EXCEPT !.depth = @ + 1]
        /\ \A q \in Places \ {p} : fifo'[q] = fifo[q]
        /\ DOMAIN fifo' = Places
    BY DEF Types, WithDepth
  <1>7. /\ fifo'[p].cells = fifo[p].cells /\ fifo'[p].depth = fifo[p].depth + 1
        /\ fifo'[p].closed = fifo[p].closed /\ fifo'[p] \in Fifo
    BY <1>1, <1>6 DEF Fifo
  <1>8. \A q \in Places : fifo'[q] \in Fifo
    BY <1>6, <1>7 DEF Types
  <1>9. fifo' = [q \in Places |-> fifo'[q]]
    BY DEF Types
  <1>10. fifo' \in [Places -> Fifo]
    BY <1>8, <1>9
  <1> QED BY <1>6, <1>7, <1>10 DEF SameCells

(* close, close_all, begin_return, begin_staging_drain: some doors close.  *)
Closes(C) ==
  \A q \in Places :
    fifo'[q].depth = fifo[q].depth /\ fifo'[q].closed = (fifo[q].closed \/ q \in C)

LEMMA ClosedDoes ==
  ASSUME Types, NEW C, DOMAIN fifo' = Places, fifo' = [q \in Places |-> fifo'[q]],
         \A q \in Places : fifo'[q] = IF q \in C THEN WithClosed(fifo[q]) ELSE fifo[q]
  PROVE  fifo' \in [Places -> Fifo] /\ SameCells /\ Closes(C)
  <1>1. ASSUME NEW q \in Places
        PROVE  /\ fifo'[q] \in Fifo /\ fifo'[q].cells = fifo[q].cells
               /\ fifo'[q].depth = fifo[q].depth
               /\ fifo'[q].closed = (fifo[q].closed \/ q \in C)
    <2>1. fifo[q] \in Fifo
      BY CellsOf
    <2>2. CASE q \in C
      <3>1. fifo'[q] = [fifo[q] EXCEPT !.closed = TRUE]
        BY <2>2 DEF WithClosed
      <3> QED BY <2>1, <2>2, <3>1 DEF Fifo
    <2>3. CASE q \notin C
      <3>1. fifo'[q] = fifo[q]
        BY <2>3
      <3>2. fifo[q].closed \in BOOLEAN
        BY <2>1 DEF Fifo
      <3> QED BY <2>1, <2>3, <3>1, <3>2
    <2> QED BY <2>2, <2>3
  <1>2. fifo' \in [Places -> Fifo]
    BY <1>1
  <1>3. SameCells
    BY <1>1 DEF SameCells
  <1>4. Closes(C)
    BY <1>1 DEF Closes
  <1> QED BY <1>2, <1>3, <1>4

-----------------------------------------------------------------------------
(* The least number from r on that is missing in A, found by going down    *)
(* the finite sets r .. (n - 1).                                           *)
LEMMA FirstMissing ==
  ASSUME NEW r \in Nat, NEW m \in Nat, NEW A, m \notin A, r <= m
  PROVE  \E n \in r .. m : n \notin A /\ \A k \in r .. (n - 1) : k \in A
  <1> DEFINE F == {r .. (n - 1) : n \in {k \in r .. m : k \notin A}}
  <1>1. F # {}
    BY SMT
  <1>2. ASSUME NEW x \in F PROVE x \in SUBSET Nat /\ IsFiniteSet(x)
    <2>1. PICK n \in r .. m : x = r .. (n - 1)
      OBVIOUS
    <2>2. r \in Int /\ n - 1 \in Int
      OBVIOUS
    <2>3. IsFiniteSet(r .. (n - 1))
      BY <2>2, FS_Interval
    <2> QED BY <2>1, <2>3
  <1>3. F \subseteq FiniteSubsetsOf(Nat)
    BY <1>2 DEF FiniteSubsetsOf
  <1>4. PICK x \in F : \A y \in F : <<y, x>> \notin StrictSubsetOrdering(Nat)
    <2> HIDE DEF F
    <2> QED BY <1>1, <1>3, FS_StrictSubsetOrderingWellFounded, WFMin
  <1>5. PICK n \in r .. m : n \notin A /\ x = r .. (n - 1)
    BY <1>4
  <1>6. ASSUME NEW k \in r .. (n - 1), k \notin A PROVE FALSE
    <2>1. r .. (k - 1) \in F
      BY <1>6, SMT
    <2>2. r .. (k - 1) \subseteq x /\ r .. (k - 1) # x
      BY <1>5, <1>6, SMT
    <2>3. <<r .. (k - 1), x>> \in StrictSubsetOrdering(Nat)
      BY <2>1, <2>2, <1>2, <1>4 DEF StrictSubsetOrdering
    <2> QED BY <2>1, <2>3, <1>4
  <1> QED BY <1>5, <1>6

(* The numbers that order o takes for settled.                             *)
Past(o) == {u \in Tasks : u < o.next_run \/ u \in o.settled_ahead}

OrderType == [next_run : Nat, settled_ahead : SUBSET Tasks]

(* StrictOrder::settle adds its number and no other, and never takes the   *)
(* gate back.                                                              *)
LEMMA SettledDoes ==
  ASSUME NEW o \in OrderType, NEW t \in Tasks
  PROVE  /\ SettledWith(o, t) \in OrderType
         /\ SettledWith(o, t).next_run >= o.next_run
         /\ Past(SettledWith(o, t)) = Past(o) \cup {t}
         /\ t \in Past(o) => SettledWith(o, t) = o
  <1> USE Names
  <1>0. o.next_run \in Nat /\ o.settled_ahead \subseteq Tasks
    BY DEF OrderType
  <1>1. CASE t < o.next_run \/ t \in o.settled_ahead
    <2>1. SettledWith(o, t) = o
      BY <1>1 DEF SettledWith
    <2> QED BY <1>0, <1>1, <2>1 DEF Past
  <1>2. CASE ~(t < o.next_run \/ t \in o.settled_ahead)
    <2> DEFINE ahead == o.settled_ahead \cup {t}
               P(n) == n \notin ahead /\ \A m \in o.next_run .. (n - 1) : m \in ahead
               next == CHOOSE n \in o.next_run .. (MaxTasks + 1) : P(n)
    <2>1. /\ o.next_run <= MaxTasks + 1 /\ MaxTasks + 1 \in Nat
          /\ MaxTasks + 1 \notin ahead
      BY <1>0, <1>2 DEF Tasks
    <2>2. \E n \in o.next_run .. (MaxTasks + 1) : P(n)
      <3> HIDE DEF ahead
      <3> QED BY <1>0, <2>1, FirstMissing
    <2>3. next \in o.next_run .. (MaxTasks + 1) /\ P(next)
      <3> HIDE DEF P
      <3> QED BY <2>2
    <2>4. SettledWith(o, t) = [next_run |-> next, settled_ahead |-> {m \in ahead : m > next}]
      BY <1>2 DEF SettledWith
    <2> HIDE DEF next
    <2>5. next \in Nat /\ next >= o.next_run
      BY <1>0, <2>1, <2>3
    <2>6. SettledWith(o, t) \in OrderType
      BY <1>0, <2>4, <2>5 DEF OrderType
    <2>7. ASSUME NEW u \in Tasks
          PROVE  (u < next \/ u \in {m \in ahead : m > next}) <=> (u < o.next_run \/ u \in ahead)
      BY <1>0, <1>2, <2>3, <2>5 DEF Tasks
    <2>8. Past(SettledWith(o, t)) = Past(o) \cup {t}
      BY <2>4, <2>7 DEF Past
    <2> QED BY <1>2, <2>4, <2>5, <2>6, <2>8 DEF Past
  <1> QED BY <1>1, <1>2

LEMMA SettleAsDoes ==
  ASSUME Types, NEW t \in Tasks, NEW p \in Phase, SettleAs(t, p)
  PROVE  /\ next_issue' = next_issue /\ where' = where
         /\ at' \in [Tasks -> Phase] /\ at' = [at EXCEPT ![t] = p]
         /\ order' \in [next_run : Nat, settled_ahead : SUBSET Tasks]
         /\ order'.next_run >= order.next_run
         /\ Past(order') = Past(order) \cup {t}
  <1>1. order \in OrderType
    BY DEF Types, OrderType
  <1>2. order' = SettledWith(order, t)
    BY DEF SettleAs
  <1> QED BY <1>1, <1>2, SettledDoes DEF SettleAs, Types, OrderType

LEMMA TargetToDoes ==
  ASSUME Types, NEW pc \in Pcs("target"), NEW t \in Tasks \cup {None}, TargetTo(pc, t)
  PROVE  /\ target' \in WorkerType("target") /\ target'.pc = pc /\ target'.hand = t
         /\ target'.tunnel = target.tunnel /\ source' = source
  <1>1. target \in [pc : Pcs("target"), hand : Tasks \cup {None}, tunnel : Tunnels \cup {None}]
    BY DEF Types, WorkerType
  <1>2. target' = [target EXCEPT !.pc = pc, !.hand = t]
    BY DEF TargetTo
  <1>3. target'.pc = pc /\ target'.hand = t /\ target'.tunnel = target.tunnel
    BY <1>1, <1>2
  <1>4. target' = [pc |-> pc, hand |-> t, tunnel |-> target.tunnel]
    BY <1>1, <1>2
  <1>5. target' \in WorkerType("target")
    BY <1>1, <1>4 DEF WorkerType
  <1> QED BY <1>3, <1>5 DEF TargetTo

LEMMA SourceToDoes ==
  ASSUME NEW pc \in Pcs("source"), NEW t \in Tasks \cup {None}, NEW k \in Tunnels \cup {None},
         SourceTo(pc, t, k)
  PROVE  /\ source' \in WorkerType("source") /\ source'.pc = pc /\ source'.hand = t
         /\ source'.tunnel = k /\ target' = target
  BY DEF SourceTo, WorkerType

-----------------------------------------------------------------------------
(* Every step keeps the types and the shape.                               *)
LEMMA WorkerFacts ==
  ASSUME Types
  PROVE  /\ source.pc \in Pcs("source") /\ source.hand \in Tasks \cup {None}
         /\ source.tunnel \in Tunnels \cup {None}
         /\ target.pc \in Pcs("target") /\ target.hand \in Tasks \cup {None}
         /\ target.tunnel \in Tunnels \cup {None}
         /\ route.state \in RouteState /\ route.tunnel \in Tunnels \cup {None}
         /\ None \in Tunnels \cup {None} /\ None \in Tasks \cup {None}
  BY DEF Types, WorkerType

LEMMA PcNames ==
  /\ Pcs("source") = {"loop", "install", "serve", "route", "stock", "count", "publish",
                      "dispatch", "migrate", "finish", "exited"}
  /\ Pcs("target") = {"loop", "stock", "incremental", "dispatch", "fail", "returns", "prepare",
                      "close", "mark", "closeStaging", "unregister", "back", "backCount",
                      "backPublish", "drainClose", "drain", "drainDepth", "drainProducers",
                      "exited"}
  BY DEF Pcs

(* A task moves on in its own time.                                        *)
TaskTypes ==
  /\ next_issue' \in 1..(MaxTasks + 1)
  /\ order' \in [next_run : Nat, settled_ahead : SUBSET Tasks]
  /\ at' \in [Tasks -> Phase]
  /\ DOMAIN where' = Tasks
  /\ \A t \in Tasks : at'[t] \in {"entered", "reserved"} => where'[t] \in Places

LEMMA TasksSame ==
  ASSUME Types, ShapeInv, UNCHANGED tasks
  PROVE  TaskTypes
  BY DEF Types, ShapeInv, tasks, TaskTypes

LEMMA TaskToTypes ==
  ASSUME Types, ShapeInv, NEW t \in Tasks, NEW p \in Phase, TaskTo(t, p),
         p = "reserved" => at[t] = "entered", p # "entered"
  PROVE  TaskTypes /\ at' = [at EXCEPT ![t] = p] /\ where' = where
  BY DEF Types, ShapeInv, TaskTo, TaskTypes

LEMMA SettleTypes ==
  ASSUME Types, ShapeInv, NEW t \in Tasks, NEW p \in Phase, SettleAs(t, p),
         p \notin {"entered", "reserved"}
  PROVE  TaskTypes
  BY SettleAsDoes DEF Types, ShapeInv, TaskTypes

LEMMA DispatchTypes ==
  ASSUME Types, ShapeInv, NEW t \in Tasks, NEW s \in Slots, Dispatched(t, s)
  PROVE  TaskTypes
  <1>0. {"waiting", "settled"} \subseteq Phase
    BY DEF Phase, InBusiness, Terminal
  <1>1. CASE mode = "force"
    BY <1>0, <1>1, SettleTypes DEF Dispatched
  <1>2. CASE mode # "force"
    <2>1. /\ at' = [at EXCEPT ![t] = "waiting"] /\ where' = [where EXCEPT ![t] = On(s)]
          /\ UNCHANGED <<next_issue, order>>
      BY <1>2 DEF Dispatched
    <2> QED BY <1>0, <2>1 DEF Types, ShapeInv, TaskTypes
  <1> QED BY <1>1, <1>2

(* What is not a task: queues, route and workers.                          *)
FifoTypes == fifo' \in [Places -> Fifo]

RouteTypes ==
  /\ route' \in [state : RouteState, tunnel : Tunnels \cup {None}]
  /\ route'.state # "Local" => route'.tunnel \in Tunnels
  /\ tunnel' \in [Tunnels -> TunnelType]
  /\ opened' \in 0..MaxSteals /\ registered' \subseteq Tunnels

WorkerTypes ==
  /\ source' \in WorkerType("source") /\ target' \in WorkerType("target")
  /\ source'.pc \in SourceHandPc => source'.hand \in Tasks
  /\ source'.pc \in SourceTunnelPc => source'.tunnel \in Tunnels
  /\ target'.pc \in TargetHandPc => target'.hand \in Tasks
  /\ target'.pc \notin TargetHandPc => target'.hand = None
  /\ target'.pc \notin {"loop", "exited"} => target'.tunnel \in Tunnels

LEMMA TypesFrom ==
  ASSUME TaskTypes, FifoTypes, RouteTypes, WorkerTypes
  PROVE  Types' /\ ShapeInv'
  BY DEF TaskTypes, FifoTypes, RouteTypes, WorkerTypes, Types, ShapeInv

LEMMA FifoSame == ASSUME Types, UNCHANGED fifo PROVE FifoTypes
  BY DEF Types, FifoTypes

LEMMA RouteSame ==
  ASSUME Types, ShapeInv, UNCHANGED <<route, tunnel, opened, registered>> PROVE RouteTypes
  BY DEF Types, ShapeInv, RouteTypes

LEMMA WorkersSame == ASSUME Types, ShapeInv, UNCHANGED workers PROVE WorkerTypes
  BY DEF Types, ShapeInv, workers, WorkerTypes

LEMMA SourceMoves ==
  ASSUME Types, ShapeInv, NEW pc \in Pcs("source"), NEW t \in Tasks \cup {None},
         NEW k \in Tunnels \cup {None}, SourceTo(pc, t, k),
         pc \in SourceHandPc => t \in Tasks, pc \in SourceTunnelPc => k \in Tunnels
  PROVE  WorkerTypes
  <1>1. /\ source' \in WorkerType("source") /\ source'.pc = pc /\ source'.hand = t
        /\ source'.tunnel = k /\ target' = target
    BY SourceToDoes
  <1> QED BY <1>1 DEF Types, ShapeInv, WorkerTypes

LEMMA TargetMoves ==
  ASSUME Types, ShapeInv, NEW pc \in Pcs("target"), NEW t \in Tasks \cup {None},
         TargetTo(pc, t), pc \in TargetHandPc <=> t \in Tasks,
         pc \notin {"loop", "exited"} => target.tunnel \in Tunnels
  PROVE  WorkerTypes
  <1>1. /\ target' \in WorkerType("target") /\ target'.pc = pc /\ target'.hand = t
        /\ target'.tunnel = target.tunnel /\ source' = source
    BY TargetToDoes
  <1> QED BY <1>1 DEF Types, ShapeInv, WorkerTypes

LEMMA RouteMoves ==
  ASSUME Types, ShapeInv, NEW s \in RouteState, NEW k \in Tunnels \cup {None}, RouteTo(s, k),
         s # "Local" => k \in Tunnels, tunnel' \in [Tunnels -> TunnelType],
         UNCHANGED <<opened, registered>>
  PROVE  RouteTypes
  BY DEF Types, ShapeInv, RouteTo, RouteTypes

(* The flags of a tunnel keep their types.                                 *)
LEMMA FlagType ==
  ASSUME Types, NEW k \in Tunnels, NEW b \in BOOLEAN, NEW c \in BOOLEAN, NEW n \in Int
  PROVE  /\ [tunnel EXCEPT ![k].accepting = b] \in [Tunnels -> TunnelType]
         /\ [tunnel EXCEPT ![k].target_execution = b] \in [Tunnels -> TunnelType]
         /\ [tunnel EXCEPT ![k].frozen = b, ![k].source_boundary = n,
                           ![k].migration_complete = c] \in [Tunnels -> TunnelType]
  <1>1. tunnel[k] \in TunnelType
    BY DEF Types
  <1>2. [tunnel[k] EXCEPT !.accepting = b] \in TunnelType
    BY <1>1 DEF TunnelType
  <1>3. [tunnel[k] EXCEPT !.target_execution = b] \in TunnelType
    BY <1>1 DEF TunnelType
  <1>4. [tunnel[k] EXCEPT !.frozen = b] \in TunnelType
    BY <1>1 DEF TunnelType
  <1>5. [[tunnel[k] EXCEPT !.frozen = b] EXCEPT !.source_boundary = n] \in TunnelType
    BY <1>4 DEF TunnelType
  <1>6. [[[tunnel[k] EXCEPT !.frozen = b] EXCEPT !.source_boundary = n]
           EXCEPT !.migration_complete = c] \in TunnelType
    BY <1>5 DEF TunnelType
  <1>7. [tunnel EXCEPT ![k].accepting = b] \in [Tunnels -> TunnelType]
    BY <1>2 DEF Types
  <1>8. [tunnel EXCEPT ![k].target_execution = b] \in [Tunnels -> TunnelType]
    BY <1>3 DEF Types
  <1>9. [tunnel EXCEPT ![k].frozen = b, ![k].source_boundary = n, ![k].migration_complete = c]
          \in [Tunnels -> TunnelType]
    <2>1. [tunnel EXCEPT ![k].frozen = b, ![k].source_boundary = n, ![k].migration_complete = c]
            = [tunnel EXCEPT ![k] = [[[tunnel[k] EXCEPT !.frozen = b] EXCEPT !.source_boundary = n]
                                       EXCEPT !.migration_complete = c]]
      BY DEF Types
    <2> QED BY <1>6, <2>1 DEF Types
  <1> QED BY <1>7, <1>8, <1>9

LEMMA PhaseNames ==
  /\ {"new", "queued", "issued", "entered", "reserved", "waiting", "leased", "running", "ending",
      "void", "settled", "refused"} = Phase
  BY DEF Phase, Unplaced, InBusiness, Terminal

(* The lock on the route is held: the queue it names exists.               *)
LEMMA DestinationIs ==
  ASSUME Types, ShapeInv
  PROVE  Destination \in Places
  <1> USE Names
  <1>1. CASE route.state \in {"Local", "LocalCatchup"}
    BY <1>1 DEF Destination
  <1>2. CASE route.state \in {"Migrating", "Stolen", "StolenCatchup"}
    <2>1. route.tunnel \in Tunnels /\ Destination = Incremental(route.tunnel)
      BY <1>2 DEF Destination, ShapeInv
    <2> QED BY <2>1
  <1>3. CASE route.state \notin {"Local", "LocalCatchup", "Migrating", "Stolen", "StolenCatchup"}
    <2>1. route.tunnel \in Tunnels /\ Destination = Staging(route.tunnel)
      BY <1>3 DEF Destination, ShapeInv
    <2> QED BY <2>1
  <1> QED BY <1>1, <1>2, <1>3

LEMMA SubmissionTypes ==
  ASSUME Types, ShapeInv,
         Issue \/ \E t \in Tasks : Submission(t) \/ Business(t) \/ Caller(t)
  PROVE  Types' /\ ShapeInv'
  <1> USE Names, PhaseNames
  <1>1. CASE Issue
    <2>1. TaskTypes
      BY <1>1 DEF Issue, Types, ShapeInv, TaskTypes, Tasks
    <2> QED BY <1>1, <2>1, FifoSame, RouteSame, WorkersSame, TypesFrom DEF Issue, routing
  <1>2. ASSUME NEW t \in Tasks, Reserve(t) PROVE Types' /\ ShapeInv'
    <2>1. Destination \in Places
      BY DestinationIs
    <2>2. TaskTypes
      BY <1>2, <2>1 DEF Reserve, Types, ShapeInv, TaskTypes
    <2>3. FifoTypes
      BY <1>2, <2>1, ReservedDoes DEF Reserve, FifoTypes
    <2> QED BY <1>2, <2>2, <2>3, RouteSame, WorkersSame, TypesFrom DEF Reserve, routing
  <1>3. ASSUME NEW t \in Tasks, Count(t) PROVE Types' /\ ShapeInv'
    <2>1. where[t] \in Places
      BY <1>3 DEF Count, ShapeInv
    <2>2. FifoTypes
      BY <1>3, <2>1, CountedDoes DEF Count, FifoTypes
    <2>3. TaskTypes
      BY <1>3, TaskToTypes DEF Count
    <2> QED BY <1>3, <2>2, <2>3, RouteSame, WorkersSame, TypesFrom DEF Count, routing
  <1>4. ASSUME NEW t \in Tasks, Publish(t) PROVE Types' /\ ShapeInv'
    <2>1. where[t] \in Places
      BY <1>4 DEF Publish, ShapeInv
    <2>2. FifoTypes
      BY <1>4, <2>1, MarkedDoes DEF Publish, FifoTypes
    <2>3. TaskTypes
      BY <1>4, TaskToTypes DEF Publish
    <2> QED BY <1>4, <2>2, <2>3, RouteSame, WorkersSame, TypesFrom DEF Publish
  <1>5. ASSUME NEW t \in Tasks, Withdraw(t) PROVE Types' /\ ShapeInv'
    <2>1. where[t] \in Places
      BY <1>5 DEF Withdraw, ShapeInv
    <2>2. FifoTypes
      BY <1>5, <2>1, MarkedDoes DEF Withdraw, FifoTypes
    <2>3. TaskTypes
      BY <1>5, SettleTypes DEF Withdraw
    <2> QED BY <1>5, <2>2, <2>3, RouteSame, WorkersSame, TypesFrom DEF Withdraw, routing
  <1>6. ASSUME NEW t \in Tasks,
               \/ Refuse(t) \/ CancelQueued(t) \/ CancelWaiting(t) \/ LeaseRefused(t) \/ Finish(t)
               \/ Abort(t)
        PROVE Types' /\ ShapeInv'
    <2>1. TaskTypes
      BY <1>6, SettleTypes DEF Refuse, CancelQueued, CancelWaiting, LeaseRefused, Finish, Abort
    <2>2. UNCHANGED <<fifo, routing, workers, control>>
      BY <1>6 DEF Refuse, CancelQueued, CancelWaiting, LeaseRefused, Finish, Abort
    <2> QED BY <2>1, <2>2, FifoSame, RouteSame, WorkersSame, TypesFrom DEF routing
  <1>7. ASSUME NEW t \in Tasks, Lease(t) \/ VoidEnds(t) \/ Run(t) \/ Release(t)
        PROVE Types' /\ ShapeInv'
    <2>1. TaskTypes
      BY <1>7, TaskToTypes DEF Lease, VoidEnds, Run, Release
    <2>2. UNCHANGED <<fifo, routing, workers, control>>
      BY <1>7 DEF Lease, VoidEnds, Run, Release
    <2> QED BY <2>1, <2>2, FifoSame, RouteSame, WorkersSame, TypesFrom DEF routing
  <1> QED BY <1>1, <1>2, <1>3, <1>4, <1>5, <1>6, <1>7 DEF Submission, Business, Caller

LEMMA SourceTypes ==
  ASSUME Types, ShapeInv, StealRegister \/ SourceWorker
  PROVE  Types' /\ ShapeInv'
  <1> USE Names, PhaseNames, WorkerFacts, PcNames
  <1> DEFINE Q == TaskTypes /\ FifoTypes /\ RouteTypes /\ WorkerTypes
  <1>1. CASE StealRegister
    <2>1. opened + 1 \in Tunnels
      BY <1>1 DEF StealRegister, Types, Tunnels
    <2>2. RouteTypes
      BY <1>1, <2>1 DEF StealRegister, Types, ShapeInv, RouteTypes, Tunnels
    <2>3. WorkerTypes
      BY <1>1, <2>1, SourceMoves DEF StealRegister, SourceHandPc
    <2> QED BY <1>1, <2>2, <2>3, TasksSame, FifoSame, TypesFrom DEF StealRegister
  <1>2. CASE StealInstall
    <2>1. source.tunnel \in Tunnels
      BY <1>2 DEF StealInstall, ShapeInv, SourceTunnelPc
    <2>2. RouteTypes
      BY <1>2, <2>1, RouteMoves DEF StealInstall, RouteState, Types
    <2>3. WorkerTypes
      BY <1>2, SourceMoves DEF StealInstall, SourceHandPc, SourceTunnelPc
    <2> QED BY <1>2, <2>2, <2>3, TasksSame, FifoSame, TypesFrom DEF StealInstall
  <1>3. CASE SourceResume
    <2>1. source.hand \in Tasks
      BY <1>3 DEF SourceResume, Deferred
    <2>2. TaskTypes
      BY <1>3, <2>1, TasksSame, SettleTypes DEF SourceResume
    <2>3. WorkerTypes
      BY <1>3, <2>1, SourceMoves DEF SourceResume, SourceHandPc, SourceTunnelPc
    <2> QED BY <1>3, <2>2, <2>3, FifoSame, RouteSame, TypesFrom DEF SourceResume, routing
  <1>4. CASE SourceTake
    <2>1. fifo[Main].cells # <<>>
      BY <1>4 DEF SourceTake, Poll, Cells
    <2>2. Head1(Main).task \in Tasks
      BY <2>1, HeadOf DEF Head1, Cells
    <2>3. FifoTypes
      BY <1>4, <2>1, DroppedDoes DEF SourceTake, FifoTypes
    <2>4. WorkerTypes
      BY <1>4, <2>2, SourceMoves DEF SourceTake, SourceHandPc, SourceTunnelPc
    <2>5. ASSUME NEW k \in Tunnels
          PROVE  [tunnel[k] EXCEPT !.source_boundary = IF @ > 0 THEN @ - 1 ELSE @] \in TunnelType
      <3>1. tunnel[k] \in TunnelType
        BY DEF Types
      <3>2. tunnel[k].source_boundary \in Int
        BY <3>1 DEF TunnelType
      <3> DEFINE n == IF tunnel[k].source_boundary > 0 THEN tunnel[k].source_boundary - 1
                      ELSE tunnel[k].source_boundary
      <3>3. n \in Int
        BY <3>2
      <3>4. [tunnel[k] EXCEPT !.source_boundary = IF @ > 0 THEN @ - 1 ELSE @]
              = [tunnel[k] EXCEPT !.source_boundary = n]
        OBVIOUS
      <3> HIDE DEF n
      <3> QED BY <3>1, <3>3, <3>4 DEF TunnelType
    <2>6. tunnel' \in [Tunnels -> TunnelType]
      BY <1>4, <2>5 DEF SourceTake, BoundaryConsumed
    <2>7. RouteTypes
      BY <1>4, <2>6 DEF SourceTake, Types, ShapeInv, RouteTypes
    <2> QED BY <1>4, <2>3, <2>4, <2>7, TasksSame, TypesFrom DEF SourceTake
  <1>5. CASE SourceIdle
    <2>1. WorkerTypes
      BY <1>5, SourceMoves DEF SourceIdle, SourceHandPc, SourceTunnelPc
    <2> QED BY <1>5, <2>1, TasksSame, FifoSame, RouteSame, TypesFrom DEF SourceIdle, routing
  <1>6. CASE SourceRoute
    <2>1. source.hand \in Tasks /\ (route.state # "Local" => route.tunnel \in Tunnels)
      BY <1>6 DEF SourceRoute, ShapeInv, SourceHandPc
    <2>2. WorkerTypes
      BY <1>6, <2>1, SourceMoves DEF SourceRoute, SourceHandPc, SourceTunnelPc
    <2> QED BY <1>6, <2>2, TasksSame, FifoSame, RouteSame, TypesFrom DEF SourceRoute, routing
  <1>7. CASE SourceStock
    <2>1. source.hand \in Tasks /\ source.tunnel \in Tunnels
      BY <1>7 DEF SourceStock, ShapeInv, SourceHandPc, SourceTunnelPc
    <2>2. Stock(source.tunnel) \in Places
      BY <2>1
    <2>3. FifoTypes
      BY <1>7, <2>1, <2>2, ReservedDoes, FifoSame DEF SourceStock, FifoTypes
    <2>4. WorkerTypes
      BY <1>7, <2>1, SourceMoves DEF SourceStock, SourceHandPc, SourceTunnelPc
    <2> QED BY <1>7, <2>3, <2>4, TasksSame, RouteSame, TypesFrom DEF SourceStock, routing
  <1>8. CASE SourceCount
    <2>1. source.hand \in Tasks /\ source.tunnel \in Tunnels
      BY <1>8 DEF SourceCount, ShapeInv, SourceHandPc, SourceTunnelPc
    <2>2. Stock(source.tunnel) \in Places
      BY <2>1
    <2>3. FifoTypes
      BY <1>8, <2>2, CountedDoes DEF SourceCount, FifoTypes
    <2>4. WorkerTypes
      BY <1>8, <2>1, SourceMoves DEF SourceCount, SourceHandPc, SourceTunnelPc
    <2> QED BY <1>8, <2>3, <2>4, TasksSame, RouteSame, TypesFrom DEF SourceCount, routing
  <1>9. CASE SourcePublish
    <2>1. source.hand \in Tasks /\ source.tunnel \in Tunnels
      BY <1>9 DEF SourcePublish, ShapeInv, SourceHandPc, SourceTunnelPc
    <2>2. Stock(source.tunnel) \in Places
      BY <2>1
    <2>3. FifoTypes
      BY <1>9, <2>1, <2>2, MarkedDoes DEF SourcePublish, FifoTypes
    <2>4. WorkerTypes
      BY <1>9, <2>1, SourceMoves DEF SourcePublish, SourceHandPc, SourceTunnelPc
    <2> QED BY <1>9, <2>3, <2>4, TasksSame, RouteSame, TypesFrom DEF SourcePublish
  <1>10. CASE SourceDispatch
    <2>1. source.hand \in Tasks
      BY <1>10 DEF SourceDispatch, ShapeInv, SourceHandPc
    <2>2. TaskTypes
      BY <1>10, <2>1, DispatchTypes, TasksSame DEF SourceDispatch, Slots
    <2>3. WorkerTypes
      BY <1>10, <2>1, SourceMoves DEF SourceDispatch, SourceHandPc, SourceTunnelPc
    <2> QED BY <1>10, <2>2, <2>3, FifoSame, RouteSame, TypesFrom DEF SourceDispatch, routing
  <1>11. CASE SourceMigrate
    <2>1. CASE route.state = "Migrating"
      <3> DEFINE k == route.tunnel
                 ahead == IF tunnel[k].frozen THEN tunnel[k].source_boundary ELSE Len(Cells(Main))
      <3>1. k \in Tunnels
        BY <2>1 DEF ShapeInv
      <3>2. ahead \in Int
        <4>1. tunnel[k] \in TunnelType
          BY <3>1 DEF Types
        <4>2. tunnel[k].source_boundary \in Int
          BY <4>1 DEF TunnelType
        <4>3. Len(Cells(Main)) \in Int
          BY CellsOf DEF Cells
        <4> QED BY <4>2, <4>3
      <3>3. /\ tunnel' = [tunnel EXCEPT ![k].frozen = TRUE, ![k].source_boundary = ahead,
                                        ![k].migration_complete = (ahead = 0)]
            /\ IF ahead = 0 THEN SourceTo("finish", source.hand, k)
               ELSE SourceTo("loop", source.hand, None)
        BY <1>11, <2>1 DEF SourceMigrate
      <3> HIDE DEF ahead
      <3>4. (ahead = 0) \in BOOLEAN
        OBVIOUS
      <3>5. tunnel' \in [Tunnels -> TunnelType]
        BY <3>1, <3>2, <3>3, <3>4, FlagType
      <3>6. RouteTypes
        BY <1>11, <3>5 DEF SourceMigrate, Types, ShapeInv, RouteTypes
      <3>7. WorkerTypes
        BY <3>1, <3>3, SourceMoves DEF SourceHandPc, SourceTunnelPc
      <3> QED BY <1>11, <3>6, <3>7, TasksSame, FifoSame, TypesFrom DEF SourceMigrate
    <2>2. CASE route.state # "Migrating"
      <3>1. UNCHANGED tunnel /\ SourceTo("loop", source.hand, None)
        BY <1>11, <2>2 DEF SourceMigrate
      <3>2. WorkerTypes
        BY <3>1, SourceMoves DEF SourceHandPc, SourceTunnelPc
      <3> QED BY <1>11, <3>1, <3>2, TasksSame, FifoSame, RouteSame, TypesFrom DEF SourceMigrate
    <2> QED BY <2>1, <2>2
  <1>12. CASE SourceFinish
    <2>1. source.tunnel \in Tunnels
      BY <1>12 DEF SourceFinish, ShapeInv, SourceTunnelPc
    <2>2. RouteTypes
      BY <1>12, <2>1, RouteMoves, RouteSame DEF SourceFinish, RouteState, Types
    <2>3. WorkerTypes
      BY <1>12, SourceMoves DEF SourceFinish, SourceHandPc, SourceTunnelPc
    <2> QED BY <1>12, <2>2, <2>3, TasksSame, FifoSame, TypesFrom DEF SourceFinish
  <1>13. CASE SourceExit
    <2>1. WorkerTypes
      BY <1>13, SourceMoves DEF SourceExit, SourceHandPc, SourceTunnelPc
    <2> QED BY <1>13, <2>1, TasksSame, FifoSame, RouteSame, TypesFrom DEF SourceExit, routing
  <1> QED BY <1>1, <1>2, <1>3, <1>4, <1>5, <1>6, <1>7, <1>8, <1>9, <1>10, <1>11, <1>12, <1>13
          DEF SourceWorker

LEMMA TakesTypes ==
  ASSUME Types, ShapeInv, NEW p \in Places, fifo[p].cells # <<>>, target.tunnel \in Tunnels,
         NEW pc \in TargetHandPc, NEW otherwise \in Pcs("target") \ TargetHandPc,
         TargetTakes(p, pc, otherwise)
  PROVE  FifoTypes /\ WorkerTypes
  <1> USE Names, WorkerFacts, PcNames
  <1>1. Head1(p).task \in Tasks
    BY HeadOf DEF Head1, Cells
  <1>2. FifoTypes
    BY DroppedDoes DEF TargetTakes, FifoTypes
  <1>3. pc \in Pcs("target")
    BY DEF TargetHandPc
  <1>4. WorkerTypes
    BY <1>1, <1>3, TargetMoves DEF TargetTakes
  <1> QED BY <1>2, <1>4

LEMMA AllClosedTypes ==
  ASSUME Types, NEW k \in Tunnels, AllClosed(k)
  PROVE  /\ FifoTypes /\ SameCells /\ Closes(QueuesOf(k))
         /\ tunnel' = [tunnel EXCEPT ![k].accepting = FALSE]
         /\ tunnel' \in [Tunnels -> TunnelType]
  <1> DEFINE C == QueuesOf(k)
  <1>1. fifo' = [p \in Places |-> IF p \in C THEN WithClosed(fifo[p]) ELSE fifo[p]]
    BY DEF AllClosed
  <1> HIDE DEF C
  <1>2. /\ DOMAIN fifo' = Places /\ fifo' = [q \in Places |-> fifo'[q]]
        /\ \A q \in Places : fifo'[q] = IF q \in C THEN WithClosed(fifo[q]) ELSE fifo[q]
    BY <1>1
  <1>3. fifo' \in [Places -> Fifo] /\ SameCells /\ Closes(C)
    BY <1>2, ClosedDoes
  <1>4. FALSE \in BOOLEAN /\ 0 \in Int
    OBVIOUS
  <1>5. [tunnel EXCEPT ![k].accepting = FALSE] \in [Tunnels -> TunnelType]
    BY <1>4, FlagType
  <1>6. tunnel' = [tunnel EXCEPT ![k].accepting = FALSE]
    BY DEF AllClosed
  <1> QED BY <1>3, <1>5, <1>6 DEF C, FifoTypes

LEMMA TargetTypes ==
  ASSUME Types, ShapeInv,
         \/ \E k \in Tunnels : TargetTurn(k)
         \/ TargetStock \/ TargetIncremental \/ TargetDispatch \/ TargetFails \/ TargetFailRoute
         \/ BackReserve \/ BackCount \/ BackPublish \/ TargetExit
  PROVE  Types' /\ ShapeInv'
  <1> USE Names, PhaseNames, WorkerFacts, PcNames
  <1>1. ASSUME NEW k \in Tunnels, TargetTurn(k) PROVE Types' /\ ShapeInv'
    <2>1. PICK pc \in {"stock", "returns"} : target' = [pc |-> pc, hand |-> None, tunnel |-> k]
      BY <1>1 DEF TargetTurn
    <2>2. target' \in WorkerType("target")
      BY <2>1 DEF WorkerType
    <2>3. WorkerTypes
      BY <1>1, <2>1, <2>2 DEF TargetTurn, Types, ShapeInv, WorkerTypes, TargetHandPc
    <2> QED BY <1>1, <2>3, TasksSame, FifoSame, RouteSame, TypesFrom DEF TargetTurn, routing
  <1>2. CASE TargetStock
    <2> DEFINE p == Stock(target.tunnel)
    <2>1. target.tunnel \in Tunnels
      BY <1>2 DEF TargetStock, ShapeInv
    <2>2. p \in Places
      BY <2>1
    <2>3. CASE Poll(p) = "empty" \/ Poll(p) = "reserved"
      <3>1. WorkerTypes
        BY <1>2, <2>1, <2>3, TargetMoves DEF TargetStock, TargetHandPc
      <3>2. FifoTypes
        BY <1>2, <2>3, FifoSame DEF TargetStock
      <3> QED BY <1>2, <3>1, <3>2, TasksSame, RouteSame, TypesFrom DEF TargetStock, routing
    <2>4. CASE ~(Poll(p) = "empty" \/ Poll(p) = "reserved")
      <3>1. TargetTakes(p, "dispatch", "returns")
        BY <1>2, <2>4 DEF TargetStock
      <3>2. fifo[p].cells # <<>>
        BY <2>4 DEF Poll, Cells
      <3> HIDE DEF p
      <3>3. FifoTypes /\ WorkerTypes
        BY <2>1, <2>2, <3>1, <3>2, TakesTypes DEF TargetHandPc
      <3> QED BY <1>2, <3>3, TasksSame, RouteSame, TypesFrom DEF TargetStock, routing
    <2> QED BY <2>3, <2>4
  <1>3. CASE TargetIncremental
    <2> DEFINE p == Incremental(target.tunnel)
    <2>1. target.tunnel \in Tunnels
      BY <1>3 DEF TargetIncremental, ShapeInv
    <2>2. p \in Places
      BY <2>1
    <2>3. CASE TargetTo("returns", None) /\ UNCHANGED fifo
      <3>1. WorkerTypes
        BY <2>1, <2>3, TargetMoves DEF TargetHandPc
      <3>2. FifoTypes
        BY <2>3, FifoSame
      <3> QED BY <1>3, <3>1, <3>2, TasksSame, RouteSame, TypesFrom DEF TargetIncremental, routing
    <2>4. CASE Poll(p) \in {"published", "poisoned"} /\ TargetTakes(p, "dispatch", "returns")
      <3>2. fifo[p].cells # <<>>
        BY <2>4 DEF Poll, Cells
      <3> HIDE DEF p
      <3>3. FifoTypes /\ WorkerTypes
        BY <2>1, <2>2, <2>4, <3>2, TakesTypes DEF TargetHandPc
      <3> QED BY <1>3, <3>3, TasksSame, RouteSame, TypesFrom DEF TargetIncremental, routing
    <2> QED BY <1>3, <2>3, <2>4 DEF TargetIncremental
  <1>4. CASE TargetDispatch
    <2>1. target.hand \in Tasks /\ target.tunnel \in Tunnels
      BY <1>4 DEF TargetDispatch, ShapeInv, TargetHandPc
    <2>2. TaskTypes
      BY <1>4, <2>1, DispatchTypes DEF TargetDispatch, Slots
    <2>3. WorkerTypes
      BY <1>4, <2>1, TargetMoves DEF TargetDispatch, TargetHandPc
    <2> QED BY <1>4, <2>2, <2>3, FifoSame, RouteSame, TypesFrom DEF TargetDispatch, routing
  <1>5. CASE TargetFails
    <2>1. target.tunnel \in Tunnels
      BY <1>5 DEF TargetFails, ShapeInv
    <2>2. FifoTypes /\ tunnel' \in [Tunnels -> TunnelType]
      BY <1>5, <2>1, AllClosedTypes DEF TargetFails
    <2>3. WorkerTypes
      BY <1>5, <2>1, TargetMoves DEF TargetFails, TargetHandPc
    <2>4. RouteTypes
      BY <1>5, <2>2 DEF TargetFails, Types, ShapeInv, RouteTypes
    <2> QED BY <1>5, <2>2, <2>3, <2>4, TasksSame, TypesFrom DEF TargetFails
  <1>6. CASE TargetFailRoute
    <2>1. target.tunnel \in Tunnels
      BY <1>6 DEF TargetFailRoute, ShapeInv
    <2>2. RouteTypes
      <3>1. CASE route.tunnel = target.tunnel
        BY <1>6, <2>1, <3>1, RouteMoves DEF TargetFailRoute, RouteState, Types
      <3>2. CASE route.tunnel # target.tunnel
        BY <1>6, <3>2, RouteSame DEF TargetFailRoute
      <3> QED BY <3>1, <3>2
    <2>3. WorkerTypes
      BY <1>6, <2>1, TargetMoves DEF TargetFailRoute, TargetHandPc
    <2> QED BY <1>6, <2>2, <2>3, TasksSame, FifoSame, TypesFrom DEF TargetFailRoute
  <1>7. CASE BackReserve
    <2>1. target.hand \in Tasks /\ target.tunnel \in Tunnels
      BY <1>7 DEF BackReserve, ShapeInv, TargetHandPc
    <2>2. FifoTypes
      BY <1>7, <2>1, ReservedDoes DEF BackReserve, FifoTypes
    <2>3. WorkerTypes
      BY <1>7, <2>1, TargetMoves DEF BackReserve, TargetHandPc
    <2> QED BY <1>7, <2>2, <2>3, TasksSame, RouteSame, TypesFrom DEF BackReserve, routing
  <1>8. CASE BackCount
    <2>1. target.hand \in Tasks /\ target.tunnel \in Tunnels
      BY <1>8 DEF BackCount, ShapeInv, TargetHandPc
    <2>2. FifoTypes
      BY <1>8, <2>1, CountedDoes DEF BackCount, FifoTypes
    <2>3. WorkerTypes
      BY <1>8, <2>1, TargetMoves DEF BackCount, TargetHandPc
    <2> QED BY <1>8, <2>2, <2>3, TasksSame, RouteSame, TypesFrom DEF BackCount, routing
  <1>9. CASE BackPublish
    <2>1. target.hand \in Tasks /\ target.tunnel \in Tunnels
      BY <1>9 DEF BackPublish, ShapeInv, TargetHandPc
    <2>2. FifoTypes
      BY <1>9, <2>1, MarkedDoes DEF BackPublish, FifoTypes
    <2>3. WorkerTypes
      BY <1>9, <2>1, TargetMoves DEF BackPublish, TargetHandPc
    <2> QED BY <1>9, <2>2, <2>3, TasksSame, RouteSame, TypesFrom DEF BackPublish, routing
  <1>10. CASE TargetExit
    <2>1. WorkerTypes
      BY <1>10, TargetMoves DEF TargetExit, TargetHandPc
    <2> QED BY <1>10, <2>1, TasksSame, FifoSame, RouteSame, TypesFrom DEF TargetExit, routing
  <1> QED BY <1>1, <1>2, <1>3, <1>4, <1>5, <1>6, <1>7, <1>8, <1>9, <1>10

LEMMA ReturnTypes ==
  ASSUME Types, ShapeInv,
         \/ ReturnWaits \/ ReturnObserve \/ ReturnBegin \/ ReturnCancel \/ ReturnReady
         \/ ReturnClose \/ ReturnMark \/ ReturnDirect \/ ReturnCloseStaging \/ ReturnStaging
         \/ ReturnUnregister \/ ReturnCatchup
  PROVE  Types' /\ ShapeInv'
  <1> USE Names, PhaseNames, WorkerFacts, PcNames
  <1> DEFINE k == target.tunnel
  <1>0. k \in Tunnels
    BY DEF ReturnWaits, ReturnObserve, ReturnBegin, ReturnCancel, ReturnReady, ReturnClose,
           ReturnMark, ReturnDirect, ReturnCloseStaging, ReturnStaging, ReturnUnregister,
           ReturnCatchup, OnRoute, ShapeInv
  <1>h. "loop" \notin TargetHandPc /\ "back" \in TargetHandPc /\ "dispatch" \in TargetHandPc
    BY DEF TargetHandPc
  <1>b. FALSE \in BOOLEAN /\ TRUE \in BOOLEAN /\ 0 \in Int
    OBVIOUS
  <1>f. /\ [tunnel EXCEPT ![k].accepting = FALSE] \in [Tunnels -> TunnelType]
        /\ [tunnel EXCEPT ![k].target_execution = FALSE] \in [Tunnels -> TunnelType]
        /\ [tunnel EXCEPT ![k].target_execution = TRUE] \in [Tunnels -> TunnelType]
    BY <1>0, <1>b, FlagType
  <1>1. CASE ReturnWaits \/ ReturnObserve \/ ReturnReady
    <2>1. WorkerTypes
      BY <1>0, <1>1, TargetMoves DEF ReturnWaits, ReturnObserve, ReturnReady, TargetHandPc
    <2>2. UNCHANGED <<tasks, fifo, route, tunnel, opened, registered>>
      BY <1>1 DEF ReturnWaits, ReturnObserve, ReturnReady, routing
    <2> QED BY <2>1, <2>2, TasksSame, FifoSame, RouteSame, TypesFrom
  <1>2. CASE ReturnBegin \/ ReturnCancel \/ ReturnMark
    <2>1. WorkerTypes
      BY <1>0, <1>2, TargetMoves DEF ReturnBegin, ReturnCancel, ReturnMark, TargetHandPc
    <2>2. UNCHANGED <<tasks, fifo, opened, registered>>
      BY <1>2 DEF ReturnBegin, ReturnCancel, ReturnMark
    <2>3. tunnel' \in [Tunnels -> TunnelType]
      BY <1>2, <1>f DEF ReturnBegin, ReturnCancel, ReturnMark, Types
    <2>4. RouteTypes
      BY <1>0, <1>2, <2>2, <2>3, RouteMoves DEF ReturnBegin, ReturnCancel, ReturnMark, RouteState
    <2> QED BY <2>1, <2>2, <2>4, TasksSame, FifoSame, TypesFrom
  <1>3. CASE ReturnClose
    <2> DEFINE C == {Stock(k), Incremental(k)}
    <2>1. WorkerTypes
      BY <1>0, <1>3, TargetMoves DEF ReturnClose, TargetHandPc
    <2>2. RouteTypes
      BY <1>0, <1>3, <1>f DEF ReturnClose, Types, ShapeInv, RouteTypes
    <2>3. fifo' = [fifo EXCEPT ![Stock(k)] = WithClosed(@), ![Incremental(k)] = WithClosed(@)]
      BY <1>3 DEF ReturnClose
    <2>4. \A q \in Places : fifo'[q] = IF q \in C THEN WithClosed(fifo[q]) ELSE fifo[q]
      BY <1>0, <2>3 DEF Types
    <2>5. DOMAIN fifo' = Places /\ fifo' = [q \in Places |-> fifo'[q]]
      BY <2>3 DEF Types
    <2> HIDE DEF C
    <2>6. FifoTypes
      BY <2>4, <2>5, ClosedDoes DEF FifoTypes
    <2> QED BY <1>3, <2>1, <2>2, <2>6, TasksSame, TypesFrom DEF ReturnClose
  <1>4. CASE ReturnDirect
    <2> DEFINE p == Incremental(k)
    <2>0. p \in Places
      BY <1>0
    <2>1. UNCHANGED <<tasks, tunnel, opened, registered>>
      BY <1>4 DEF ReturnDirect
    <2>2. CASE RouteTo("LocalCatchup", k) /\ TargetTo("closeStaging", None) /\ UNCHANGED fifo
      <3>1. WorkerTypes
        BY <1>0, <2>2, TargetMoves DEF TargetHandPc
      <3>2. RouteTypes
        BY <1>0, <2>1, <2>2, RouteMoves DEF RouteState, Types
      <3> QED BY <2>1, <2>2, <3>1, <3>2, TasksSame, FifoSame, TypesFrom
    <2>3. CASE /\ Poll(p) \in {"published", "poisoned"}
               /\ TargetTakes(p, "back", "loop") /\ UNCHANGED route
      <3>1. fifo[p].cells # <<>>
        BY <2>3 DEF Poll, Cells
      <3> HIDE DEF p
      <3>2. FifoTypes /\ WorkerTypes
        BY <1>0, <1>h, <2>0, <2>3, <3>1, TakesTypes
      <3> QED BY <2>1, <2>3, <3>2, TasksSame, RouteSame, TypesFrom
    <2>4. CASE TargetTo("loop", None) /\ UNCHANGED <<fifo, route>>
      <3>1. WorkerTypes
        BY <1>0, <2>4, TargetMoves DEF TargetHandPc
      <3> QED BY <2>1, <2>4, <3>1, TasksSame, FifoSame, RouteSame, TypesFrom
    <2> QED BY <1>4, <2>2, <2>3, <2>4 DEF ReturnDirect
  <1>5. CASE ReturnCloseStaging
    <2> DEFINE C == {Staging(k)}
    <2>1. WorkerTypes
      BY <1>0, <1>5, TargetMoves DEF ReturnCloseStaging, TargetHandPc
    <2>3. fifo' = [fifo EXCEPT ![Staging(k)] = WithClosed(@)]
      BY <1>5 DEF ReturnCloseStaging
    <2>4. \A q \in Places : fifo'[q] = IF q \in C THEN WithClosed(fifo[q]) ELSE fifo[q]
      BY <1>0, <2>3 DEF Types
    <2>5. DOMAIN fifo' = Places /\ fifo' = [q \in Places |-> fifo'[q]]
      BY <2>3 DEF Types
    <2> HIDE DEF C
    <2>6. FifoTypes
      BY <2>4, <2>5, ClosedDoes DEF FifoTypes
    <2> QED BY <1>5, <2>1, <2>6, TasksSame, RouteSame, TypesFrom DEF ReturnCloseStaging, routing
  <1>6. CASE ReturnStaging
    <2> DEFINE p == Staging(k)
    <2>0. p \in Places
      BY <1>0
    <2>1. UNCHANGED <<tasks, tunnel, opened, registered>>
      BY <1>6 DEF ReturnStaging
    <2>2. CASE RouteTo("Local", None) /\ TargetTo("unregister", None) /\ UNCHANGED fifo
      <3>1. WorkerTypes
        BY <1>0, <2>2, TargetMoves DEF TargetHandPc
      <3>2. RouteTypes
        BY <1>0, <2>1, <2>2, RouteMoves DEF RouteState, Types
      <3> QED BY <2>1, <2>2, <3>1, <3>2, TasksSame, FifoSame, TypesFrom
    <2>3. CASE /\ Cells(p) # <<>>
               /\ TargetTakes(p, "back", "loop") /\ UNCHANGED route
      <3>1. fifo[p].cells # <<>>
        BY <2>3 DEF Cells
      <3> HIDE DEF p
      <3>2. FifoTypes /\ WorkerTypes
        BY <1>0, <1>h, <2>0, <2>3, <3>1, TakesTypes
      <3> QED BY <2>1, <2>3, <3>2, TasksSame, RouteSame, TypesFrom
    <2>4. CASE TargetTo("loop", None) /\ UNCHANGED <<fifo, route>>
      <3>1. WorkerTypes
        BY <1>0, <2>4, TargetMoves DEF TargetHandPc
      <3> QED BY <2>1, <2>4, <3>1, TasksSame, FifoSame, RouteSame, TypesFrom
    <2> QED BY <1>6, <2>2, <2>3, <2>4 DEF ReturnStaging
  <1>7. CASE ReturnUnregister
    <2>1. WorkerTypes
      BY <1>0, <1>7, TargetMoves DEF ReturnUnregister, TargetHandPc
    <2>2. FifoTypes /\ tunnel' \in [Tunnels -> TunnelType]
      BY <1>0, <1>7, AllClosedTypes DEF ReturnUnregister
    <2>3. RouteTypes
      BY <1>7, <2>2 DEF ReturnUnregister, Types, ShapeInv, RouteTypes
    <2> QED BY <1>7, <2>1, <2>2, <2>3, TasksSame, TypesFrom DEF ReturnUnregister
  <1>8. CASE ReturnCatchup
    <2> DEFINE p == Staging(k)
    <2>0. p \in Places
      BY <1>0
    <2>1. UNCHANGED <<tasks, opened, registered>>
      BY <1>8 DEF ReturnCatchup
    <2>2. CASE /\ RouteTo("Stolen", k) /\ TargetTo("loop", None) /\ UNCHANGED fifo
               /\ tunnel' = [tunnel EXCEPT ![k].target_execution = TRUE]
      <3>1. WorkerTypes
        BY <1>0, <2>2, TargetMoves DEF TargetHandPc
      <3>2. RouteTypes
        BY <1>0, <1>f, <2>1, <2>2, RouteMoves DEF RouteState, Types
      <3> QED BY <2>1, <2>2, <3>1, <3>2, TasksSame, FifoSame, TypesFrom
    <2>3. CASE /\ Cells(p) # <<>>
               /\ TargetTakes(p, "dispatch", "loop") /\ UNCHANGED <<route, tunnel>>
      <3>1. fifo[p].cells # <<>>
        BY <2>3 DEF Cells
      <3> HIDE DEF p
      <3>2. FifoTypes /\ WorkerTypes
        BY <1>0, <1>h, <2>0, <2>3, <3>1, TakesTypes
      <3> QED BY <2>1, <2>3, <3>2, TasksSame, RouteSame, TypesFrom
    <2>4. CASE TargetTo("loop", None) /\ UNCHANGED <<fifo, route, tunnel>>
      <3>1. WorkerTypes
        BY <1>0, <2>4, TargetMoves DEF TargetHandPc
      <3> QED BY <2>1, <2>4, <3>1, TasksSame, FifoSame, RouteSame, TypesFrom
    <2> QED BY <1>8, <2>2, <2>3, <2>4 DEF ReturnCatchup
  <1> QED BY <1>1, <1>2, <1>3, <1>4, <1>5, <1>6, <1>7, <1>8

LEMMA FailurePollIs ==
  ASSUME NEW k \in Tunnels
  PROVE  FailurePoll(k) \in {Stock(k), Incremental(k), Staging(k)} /\ FailurePoll(k) \in Places
  BY Names DEF FailurePoll

LEMMA DrainTypes ==
  ASSUME Types, ShapeInv,
         \/ DrainChosen \/ DrainClose \/ DrainItem \/ DrainStops \/ DrainDepth \/ DrainProducers
  PROVE  Types' /\ ShapeInv'
  <1> USE Names, PhaseNames, WorkerFacts, PcNames
  <1> DEFINE k == target.tunnel
  <1>0. k \in Tunnels
    BY DEF DrainChosen, DrainClose, DrainItem, DrainStops, DrainDepth, DrainProducers, ShapeInv
  <1>1. CASE DrainChosen \/ DrainStops \/ DrainDepth
    <2>1. WorkerTypes
      BY <1>0, <1>1, TargetMoves DEF DrainChosen, DrainStops, DrainDepth, TargetHandPc
    <2>2. UNCHANGED <<tasks, fifo, route, tunnel, opened, registered>>
      BY <1>1 DEF DrainChosen, DrainStops, DrainDepth, routing
    <2> QED BY <2>1, <2>2, TasksSame, FifoSame, RouteSame, TypesFrom
  <1>2. CASE DrainClose
    <2>1. WorkerTypes
      BY <1>0, <1>2, TargetMoves DEF DrainClose, TargetHandPc
    <2>2. FifoTypes /\ tunnel' \in [Tunnels -> TunnelType]
      BY <1>0, <1>2, AllClosedTypes DEF DrainClose
    <2>3. RouteTypes
      BY <1>2, <2>2 DEF DrainClose, Types, ShapeInv, RouteTypes
    <2> QED BY <1>2, <2>1, <2>2, <2>3, TasksSame, TypesFrom DEF DrainClose
  <1>3. CASE DrainItem
    <2> DEFINE p == FailurePoll(k)
    <2>1. p \in Places
      BY <1>0, FailurePollIs
    <2>2. /\ Poll(p) \in {"published", "poisoned"}
          /\ fifo' = [fifo EXCEPT ![p] = WithoutHead(@)]
          /\ SettleAs(Head1(p).task, "settled") \/ UNCHANGED tasks
          /\ UNCHANGED <<routing, workers>>
      BY <1>3 DEF DrainItem
    <2> HIDE DEF p
    <2>3. fifo[p].cells # <<>>
      BY <2>2 DEF Poll, Cells
    <2>4. Head1(p).task \in Tasks
      BY <2>1, <2>3, HeadOf DEF Head1, Cells
    <2>5. FifoTypes
      BY <2>1, <2>2, <2>3, DroppedDoes DEF FifoTypes
    <2>6. TaskTypes
      BY <2>2, <2>4, TasksSame, SettleTypes
    <2> QED BY <2>2, <2>5, <2>6, RouteSame, WorkersSame, TypesFrom DEF routing
  <1>4. CASE DrainProducers
    <2>1. WorkerTypes
      BY <1>0, <1>4, TargetMoves DEF DrainProducers, TargetHandPc
    <2>2. RouteTypes
      BY <1>4 DEF DrainProducers, Types, ShapeInv, RouteTypes
    <2> QED BY <1>4, <2>1, <2>2, TasksSame, FifoSame, TypesFrom DEF DrainProducers
  <1> QED BY <1>1, <1>2, <1>3, <1>4

LEMMA StopTypes ==
  ASSUME Types, ShapeInv,
         \/ \E s \in Slots : OtherStarts(s) \/ OtherEnds(s) \/ Shut(s)
         \/ \E m \in Stops : Stop(m)
  PROVE  Types' /\ ShapeInv'
  <1>1. ASSUME NEW s \in Slots, Shut(s) PROVE Types' /\ ShapeInv'
    <2> DEFINE inbound == IF s = "target" THEN registered ELSE {}
               C == {p \in Places : p[1] \in inbound}
    <2>1. /\ fifo' = [p \in Places |-> IF p[1] \in inbound THEN WithClosed(fifo[p]) ELSE fifo[p]]
          /\ tunnel' = [k \in Tunnels |-> [tunnel[k] EXCEPT !.accepting = @ /\ k \notin inbound]]
      BY <1>1 DEF Shut
    <2>2. /\ DOMAIN fifo' = Places /\ fifo' = [q \in Places |-> fifo'[q]]
          /\ \A q \in Places : fifo'[q] = IF q \in C THEN WithClosed(fifo[q]) ELSE fifo[q]
      BY <2>1
    <2>3. FifoTypes
      <3> HIDE DEF C
      <3> QED BY <2>2, ClosedDoes DEF FifoTypes
    <2>4. ASSUME NEW k \in Tunnels
          PROVE  [tunnel[k] EXCEPT !.accepting = @ /\ k \notin inbound] \in TunnelType
      <3> DEFINE b == tunnel[k].accepting /\ k \notin inbound
      <3>1. tunnel[k] \in TunnelType
        BY DEF Types
      <3>2. [tunnel[k] EXCEPT !.accepting = @ /\ k \notin inbound] = [tunnel[k] EXCEPT !.accepting = b]
        OBVIOUS
      <3>3. b \in BOOLEAN
        OBVIOUS
      <3> HIDE DEF b
      <3> QED BY <3>1, <3>2, <3>3 DEF TunnelType
    <2>5. tunnel' \in [Tunnels -> TunnelType]
      BY <2>1, <2>4
    <2>6. RouteTypes
      BY <1>1, <2>5 DEF Shut, Types, ShapeInv, RouteTypes
    <2> QED BY <1>1, <2>3, <2>6, TasksSame, WorkersSame, TypesFrom DEF Shut
  <1>2. ASSUME UNCHANGED <<tasks, fifo, routing, workers>> PROVE Types' /\ ShapeInv'
    BY <1>2, TasksSame, FifoSame, RouteSame, WorkersSame, TypesFrom DEF routing
  <1> QED BY <1>1, <1>2 DEF OtherStarts, OtherEnds, Stop

LEMMA TypesKept ==
  ASSUME Types, ShapeInv, [Next]_vars
  PROVE  Types' /\ ShapeInv'
  <1>1. CASE UNCHANGED vars
    BY <1>1, TasksSame, FifoSame, RouteSame, WorkersSame, TypesFrom DEF vars, routing
  <1> QED BY <1>1, SubmissionTypes, SourceTypes, TargetTypes, ReturnTypes, DrainTypes, StopTypes
          DEF Next, TargetWorker

LEMMA TypesStart == Init => Types /\ ShapeInv
  <1> SUFFICES ASSUME Init PROVE Types /\ ShapeInv
    OBVIOUS
  <1> USE Names, PhaseNames, PcNames
  <1>1. EmptyFifo \in Fifo
    BY DEF EmptyFifo, Fifo
  <1>2. NewTunnel \in TunnelType
    BY DEF NewTunnel, TunnelType, None
  <1>3. fifo \in [Places -> Fifo] /\ tunnel \in [Tunnels -> TunnelType]
    BY <1>1, <1>2 DEF Init
  <1>4. source \in WorkerType("source") /\ target \in WorkerType("target")
    BY DEF Init, WorkerType
  <1>5. order \in [next_run : Nat, settled_ahead : SUBSET Tasks] /\ next_issue \in 1..(MaxTasks + 1)
    BY DEF Init
  <1>6. Types
    BY <1>3, <1>4, <1>5 DEF Init, Types, RouteState
  <1>7. ShapeInv
    BY DEF Init, ShapeInv, SourceHandPc, SourceTunnelPc, TargetHandPc
  <1> QED BY <1>6, <1>7

-----------------------------------------------------------------------------
(* The gate of the strict order.                                           *)
Done == {"settled", "refused", "ending", "void"}

(* A number is past exactly when its task is done; numbers are handed out  *)
(* in order; whoever holds the strict lease has its turn, and is alone.    *)
GateInv ==
  /\ \A t \in Tasks : t \in Past(order) <=> at[t] \in Done
  /\ \A t \in Tasks : at[t] = "new" <=> t >= next_issue
  /\ \A t \in Tasks : at[t] \in Holding => TurnReady(t)
  /\ \A t, u \in Tasks : at[t] \in Holding /\ at[u] \in Holding => t = u

(* A task goes from a phase to the next, and the gate learns of its end.   *)
Advances(t, p) ==
  /\ at' = [at EXCEPT ![t] = p] /\ next_issue' = next_issue
  /\ order'.next_run >= order.next_run
  /\ \/ p \in Done /\ Past(order') = Past(order) \cup {t}
     \/ p \notin Done /\ at[t] \notin Done /\ order' = order
  /\ at[t] # "new" /\ p # "new"
  /\ p \in Holding => \/ at[t] \in Holding
                      \/ TurnReady(t) /\ \A u \in Tasks : at[u] \notin Holding
  /\ p = "running" => at[t] = "leased"
  /\ at[t] = "running" => p \in Done

LEMMA AdvanceKeepsGate ==
  ASSUME Types, GateInv, NEW t \in Tasks, NEW p \in Phase, Advances(t, p), order' \in OrderType
  PROVE  GateInv'
  <1> USE Names
  <1>1. \A u \in Tasks : at'[u] = IF u = t THEN p ELSE at[u]
    BY DEF Types, Advances
  <1>2. order.next_run \in Nat /\ order'.next_run \in Nat
    BY DEF Types, OrderType
  <1>3. \A u \in Tasks : u \in Past(order') <=> at'[u] \in Done
    <2>1. CASE p \in Done /\ Past(order') = Past(order) \cup {t}
      BY <1>1, <2>1 DEF GateInv
    <2>2. CASE p \notin Done /\ at[t] \notin Done /\ order' = order
      BY <1>1, <2>2 DEF GateInv
    <2> QED BY <2>1, <2>2 DEF Advances
  <1>4. \A u \in Tasks : at'[u] = "new" <=> u >= next_issue'
    BY <1>1 DEF GateInv, Advances
  <1>5. \A u \in Tasks : at'[u] \in Holding => TurnReady(u)'
    <2> SUFFICES ASSUME NEW u \in Tasks, at'[u] \in Holding PROVE order'.next_run >= u
      BY DEF TurnReady
    <2>1. TurnReady(u)
      BY <1>1 DEF GateInv, Advances
    <2>2. order'.next_run >= order.next_run
      BY DEF Advances
    <2> QED BY <1>2, <2>1, <2>2 DEF TurnReady, Tasks
  <1>6. \A u, v \in Tasks : at'[u] \in Holding /\ at'[v] \in Holding => u = v
    BY <1>1 DEF GateInv, Advances
  <1> QED BY <1>3, <1>4, <1>5, <1>6 DEF GateInv

(* The lane's view of a task.                                              *)
View(a) ==
  CASE a = "new" -> "unborn"
    [] a \in Unplaced \cup {"queued", "waiting", "leased"} -> "pending"
    [] a = "running" -> "running"
    [] OTHER -> "settled"

LaneView == [t \in Tasks |-> View(at[t])]

LaneNext ==
  \E t \in Tasks :
    \/ /\ LaneView[t] = "unborn" /\ \A u \in 1..(t - 1) : LaneView[u] # "unborn"
       /\ LaneView' = [LaneView EXCEPT ![t] = "pending"]
    \/ /\ LaneView[t] = "pending" /\ \A u \in 1..(t - 1) : LaneView[u] = "settled"
       /\ \A u \in Tasks : LaneView[u] # "running"
       /\ LaneView' = [LaneView EXCEPT ![t] = "running"]
    \/ /\ LaneView[t] \in {"pending", "running"}
       /\ LaneView' = [LaneView EXCEPT ![t] = "settled"]

LaneStep == LaneNext \/ LaneView' = LaneView

LEMMA ViewIs ==
  /\ View("new") = "unborn" /\ View("running") = "running"
  /\ \A a \in {"issued", "entered", "reserved", "queued", "waiting", "leased"} : View(a) = "pending"
  /\ \A a \in Done : View(a) = "settled"
  BY DEF View, Unplaced, Done

LEMMA AdvanceIsLane ==
  ASSUME Types, GateInv, NEW t \in Tasks, NEW p \in Phase, Advances(t, p)
  PROVE  LaneStep
  <1> USE Names
  <1>1. LaneView' = [LaneView EXCEPT ![t] = View(p)]
    BY DEF Types, Advances, LaneView
  <1>2. \A u \in Tasks : LaneView[u] = View(at[u])
    BY DEF LaneView
  <1>3. DOMAIN LaneView = Tasks
    BY DEF LaneView
  <1>s. [LaneView EXCEPT ![t] = View(at[t])] = LaneView
    BY DEF LaneView
  <1>0. at[t] \in Phase /\ at[t] # "new" /\ p # "new"
    BY DEF Types, Advances
  <1>4. CASE p \in Done /\ at[t] \in Done
    <2>1. View(p) = View(at[t])
      BY <1>4, ViewIs
    <2> QED BY <1>1, <1>s, <2>1 DEF LaneStep
  <1>5. CASE p \in Done /\ at[t] \notin Done
    <2>1. View(p) = "settled" /\ View(at[t]) \in {"pending", "running"}
      BY <1>0, <1>5, ViewIs, PhaseNames DEF Done
    <2> QED BY <1>1, <1>2, <2>1 DEF LaneStep, LaneNext
  <1>6. CASE p = "running"
    <2>1. at[t] = "leased" /\ View(p) = "running" /\ View(at[t]) = "pending"
      BY <1>6, ViewIs DEF Advances
    <2>2. TurnReady(t) /\ \A u \in Tasks : at[u] \in Holding => u = t
      BY <2>1 DEF GateInv, Holding
    <2>3. ASSUME NEW u \in 1..(t - 1) PROVE LaneView[u] = "settled"
      <3>1. u \in Tasks /\ u < order.next_run
        BY <2>2 DEF Types, TurnReady, Tasks
      <3>2. at[u] \in Done
        BY <3>1 DEF GateInv, Past
      <3> QED BY <1>2, <3>1, <3>2, ViewIs
    <2>4. ASSUME NEW u \in Tasks PROVE LaneView[u] # "running"
      <3>1. at[u] # "running"
        BY <2>1, <2>2 DEF Holding
      <3>2. at[u] \in Phase
        BY DEF Types
      <3> QED BY <1>2, <3>1, <3>2, ViewIs, PhaseNames DEF Done
    <2> QED BY <1>1, <1>2, <2>1, <2>3, <2>4 DEF LaneStep, LaneNext
  <1>7. CASE p \notin Done /\ p # "running"
    <2>1. at[t] \notin Done /\ at[t] # "running"
      BY <1>7 DEF Advances
    <2>2. View(p) = View(at[t])
      BY <1>0, <1>7, <2>1, ViewIs, PhaseNames DEF Done
    <2> QED BY <1>1, <1>s, <2>2 DEF LaneStep
  <1> QED BY <1>4, <1>5, <1>6, <1>7

-----------------------------------------------------------------------------
(* Where a task is.  A reserved cell belongs to whoever will publish it; a *)
(* published one to a task that is in no worker's hand; no task has two    *)
(* cells.                                                                  *)
Placed == {"queued", "waiting", "leased", "running", "ending", "void", "settled", "refused"}

SourceWrites(t, p) ==
  source.pc \in {"count", "publish"} /\ source.hand = t /\ p = Stock(source.tunnel)

TargetWrites(t, p) ==
  target.pc \in {"backCount", "backPublish"} /\ target.hand = t /\ p = Main

Writing(t, p) ==
  \/ at[t] \in {"entered", "reserved"} /\ where[t] = p
  \/ SourceWrites(t, p)
  \/ TargetWrites(t, p)

Free(t) == at[t] \in Placed /\ (at[t] = "queued" => t # source.hand /\ t # target.hand)

Fits(p, c) ==
  /\ c.state = "reserved" => Writing(c.task, p)
  /\ c.state = "published" => Free(c.task)

CellInv == \A p \in Places : \A i \in 1 .. Len(fifo[p].cells) : Fits(p, fifo[p].cells[i])

UniqueInv ==
  \A p, q \in Places : \A i \in 1 .. Len(fifo[p].cells), j \in 1 .. Len(fifo[q].cells) :
    /\ fifo[p].cells[i].task = fifo[q].cells[j].task
    /\ fifo[p].cells[i].state # "poisoned" /\ fifo[q].cells[j].state # "poisoned"
    => p = q /\ i = j

HandInv ==
  /\ source.hand # None => at[source.hand] = "queued"
  /\ target.hand # None => at[target.hand] = "queued"
  /\ source.hand # None => source.hand # target.hand

PlaceInv == CellInv /\ UniqueInv /\ HandInv

(* No live cell of task t.                                                 *)
Absent(t) ==
  \A p \in Places : \A i \in 1 .. Len(fifo[p].cells) :
    fifo[p].cells[i].task = t => fifo[p].cells[i].state = "poisoned"

(* A step that leaves the cells of all tasks but t in order.               *)
Undisturbed(t) ==
  \A u \in Tasks \ {t} : /\ \A p \in Places : Writing(u, p) => Writing(u, p)'
                         /\ Free(u) => Free(u)'

LEMMA FitsNext ==
  ASSUME NEW p, NEW i, NEW u, u = fifo'[p].cells[i].task,
         fifo'[p].cells[i].state = "reserved" => Writing(u, p)',
         fifo'[p].cells[i].state = "published" => Free(u)'
  PROVE  Fits(p, fifo[p].cells[i])'
  BY DEF Fits, Writing, Free, SourceWrites, TargetWrites

LEMMA UniqueAt ==
  ASSUME UniqueInv, NEW p \in Places, NEW q \in Places,
         NEW i \in 1 .. Len(fifo[p].cells), NEW j \in 1 .. Len(fifo[q].cells),
         fifo[p].cells[i].task = fifo[q].cells[j].task,
         fifo[p].cells[i].state # "poisoned", fifo[q].cells[j].state # "poisoned"
  PROVE  p = q /\ i = j
  BY DEF UniqueInv

LEMMA SameKeeps ==
  ASSUME Types, CellInv, UniqueInv, SameCells, NEW t,
         Undisturbed(t), t \in Tasks => \A p \in Places : Writing(t, p) => Writing(t, p)',
         t \in Tasks => (Absent(t) \/ (Free(t) => Free(t)'))
  PROVE  CellInv' /\ UniqueInv'
  <1>1. ASSUME NEW p \in Places
        PROVE  /\ fifo'[p].cells = fifo[p].cells /\ Len(fifo[p].cells) \in Nat
               /\ \A i \in 1 .. Len(fifo[p].cells) :
                    /\ fifo[p].cells[i].task \in Tasks
                    /\ fifo[p].cells[i].state \in {"reserved", "published", "poisoned"}
    BY CellsOf DEF SameCells
  <1>2. CellInv'
    <2> SUFFICES ASSUME NEW p \in Places, NEW i \in 1 .. Len(fifo'[p].cells)
                 PROVE  Fits(p, fifo[p].cells[i])'
      BY <1>1 DEF CellInv
    <2> DEFINE c == fifo[p].cells[i]
    <2>1. i \in 1 .. Len(fifo[p].cells) /\ fifo'[p].cells[i] = c /\ c.task \in Tasks
      BY <1>1
    <2>2. Fits(p, c)
      BY <2>1 DEF CellInv
    <2>u. PICK u \in Tasks : u = c.task
      BY <2>1
    <2>3. c.state = "published" => u # t \/ (Free(t) => Free(t)')
      BY <2>1, <2>u DEF Absent
    <2>4. c.state = "reserved" => Writing(u, p)'
      BY <2>u, <2>2 DEF Fits, Undisturbed
    <2>5. c.state = "published" => Free(u)'
      BY <2>u, <2>2, <2>3 DEF Fits, Undisturbed
    <2> QED BY <2>1, <2>u, <2>4, <2>5, FitsNext
  <1>3. UniqueInv'
    <2> SUFFICES ASSUME NEW q \in Places, NEW r \in Places, NEW i \in 1 .. Len(fifo'[q].cells),
                        NEW j \in 1 .. Len(fifo'[r].cells),
                        fifo'[q].cells[i].task = fifo'[r].cells[j].task,
                        fifo'[q].cells[i].state # "poisoned", fifo'[r].cells[j].state # "poisoned"
                 PROVE  q = r /\ i = j
      BY DEF UniqueInv
    <2>1. fifo'[q].cells = fifo[q].cells /\ fifo'[r].cells = fifo[r].cells
      BY <1>1
    <2> QED BY <2>1, UniqueAt
  <1> QED BY <1>2, <1>3

LEMMA AppendKeeps ==
  ASSUME Types, CellInv, UniqueInv, NEW t \in Tasks, NEW p \in Places, Appends(p, t),
         Undisturbed(t), Absent(t), Writing(t, p)'
  PROVE  CellInv' /\ UniqueInv'
  <1> DEFINE n == Len(fifo[p].cells)
             new == [task |-> t, state |-> "reserved"]
  <1>1. /\ n \in Nat /\ Len(fifo'[p].cells) = n + 1 /\ fifo'[p].cells[n + 1] = new
        /\ \A i \in 1 .. n : fifo'[p].cells[i] = fifo[p].cells[i]
        /\ \A q \in Places \ {p} : fifo'[q].cells = fifo[q].cells
    BY CellsOf DEF Appends, Others
  <1>2. ASSUME NEW q \in Places, NEW i \in 1 .. Len(fifo'[q].cells)
        PROVE  \/ /\ i \in 1 .. Len(fifo[q].cells) /\ fifo'[q].cells[i] = fifo[q].cells[i]
                  /\ fifo[q].cells[i].task \in Tasks
               \/ q = p /\ i = n + 1 /\ fifo'[q].cells[i] = new
    <2>1. CASE q = p
      BY <1>1, <2>1, CellsOf
    <2>2. CASE q # p
      BY <1>1, <2>2, CellsOf
    <2> QED BY <2>1, <2>2
  <1>3. new.task = t /\ new.state = "reserved"
    OBVIOUS
  <1> HIDE DEF n, new
  <1>4. CellInv'
    <2> SUFFICES ASSUME NEW q \in Places, NEW i \in 1 .. Len(fifo'[q].cells)
                 PROVE  Fits(q, fifo[q].cells[i])'
      BY DEF CellInv
    <2>1. CASE q = p /\ fifo'[q].cells[i] = new
      BY <1>3, <2>1, FitsNext
    <2>2. CASE /\ i \in 1 .. Len(fifo[q].cells) /\ fifo'[q].cells[i] = fifo[q].cells[i]
               /\ fifo[q].cells[i].task \in Tasks
      <3> DEFINE c == fifo[q].cells[i]
      <3>1. Fits(q, c)
        BY <2>2 DEF CellInv
      <3>u. PICK u \in Tasks : u = c.task
        BY <2>2
      <3>2. u = t => c.state = "poisoned"
        BY <2>2, <3>u DEF Absent
      <3> QED BY <2>2, <3>u, <3>1, <3>2, FitsNext DEF Fits, Undisturbed
    <2> QED BY <1>2, <2>1, <2>2
  <1>5. UniqueInv'
    <2> SUFFICES ASSUME NEW q \in Places, NEW r \in Places, NEW i \in 1 .. Len(fifo'[q].cells),
                        NEW j \in 1 .. Len(fifo'[r].cells),
                        fifo'[q].cells[i].task = fifo'[r].cells[j].task,
                        fifo'[q].cells[i].state # "poisoned", fifo'[r].cells[j].state # "poisoned"
                 PROVE  q = r /\ i = j
      BY DEF UniqueInv
    <2> DEFINE Old(x, y) == /\ y \in 1 .. Len(fifo[x].cells) /\ fifo'[x].cells[y] = fifo[x].cells[y]
                            /\ fifo[x].cells[y].task \in Tasks
               New(x, y) == x = p /\ y = n + 1 /\ fifo'[x].cells[y] = new
    <2>1. (Old(q, i) \/ New(q, i)) /\ (Old(r, j) \/ New(r, j))
      BY <1>2
    <2>2. CASE Old(q, i) /\ Old(r, j)
      BY <2>2, UniqueAt
    <2>3. CASE New(q, i) /\ New(r, j)
      BY <2>3
    <2>4. CASE Old(q, i) /\ New(r, j)
      BY <1>3, <2>4 DEF Absent
    <2>5. CASE New(q, i) /\ Old(r, j)
      BY <1>3, <2>5 DEF Absent
    <2> QED BY <2>1, <2>2, <2>3, <2>4, <2>5
  <1> QED BY <1>4, <1>5

LEMMA MarkKeeps ==
  ASSUME Types, CellInv, UniqueInv, NEW t \in Tasks, NEW p \in Places,
         NEW s \in {"published", "poisoned"}, Marks(p, t, s),
         Undisturbed(t), \A q \in Places : Writing(t, q) => q = p,
         s = "published" => Free(t)', Free(t) => Free(t)'
  PROVE  CellInv' /\ UniqueInv'
  <1>1. ASSUME NEW q \in Places, NEW i \in 1 .. Len(fifo'[q].cells)
        PROVE  /\ i \in 1 .. Len(fifo[q].cells) /\ fifo[q].cells[i].task \in Tasks
               /\ fifo'[q].cells[i].task = fifo[q].cells[i].task
               /\ fifo[q].cells[i].state = "poisoned" => fifo'[q].cells[i].state = "poisoned"
               /\ \/ fifo'[q].cells[i] = fifo[q].cells[i]
                  \/ fifo'[q].cells[i].state = s /\ fifo[q].cells[i].task = t
               /\ fifo'[q].cells[i].state = "reserved" =>
                    fifo[q].cells[i].state = "reserved" /\ ~(q = p /\ fifo[q].cells[i].task = t)
    <2>1. CASE q = p
      BY <2>1, CellsOf DEF Marks
    <2>2. CASE q # p
      BY <2>2, CellsOf DEF Marks, Others
    <2> QED BY <2>1, <2>2
  <1>2. CellInv'
    <2> SUFFICES ASSUME NEW q \in Places, NEW i \in 1 .. Len(fifo'[q].cells)
                 PROVE  Fits(q, fifo[q].cells[i])'
      BY DEF CellInv
    <2> DEFINE c == fifo[q].cells[i]
               d == fifo'[q].cells[i]
    <2>1. Fits(q, c) /\ c.task \in Tasks /\ d.task = c.task
      BY <1>1 DEF CellInv
    <2>u. PICK u \in Tasks : u = c.task
      BY <2>1
    <2>2. ASSUME d.state = "reserved" PROVE Writing(u, q)'
      <3>1. c.state = "reserved" /\ ~(q = p /\ u = t)
        BY <1>1, <2>2, <2>u
      <3>2. Writing(u, q)
        BY <2>1, <2>u, <3>1 DEF Fits
      <3>3. u # t
        BY <3>1, <3>2
      <3> QED BY <3>2, <3>3 DEF Undisturbed
    <2>3. ASSUME d.state = "published" PROVE Free(u)'
      <3>1. CASE u = t
        <4>1. CASE d = c
          <5>1. Free(t)
            BY <2>1, <2>u, <2>3, <3>1, <4>1 DEF Fits
          <5> QED BY <3>1, <5>1
        <4>2. CASE d.state = s
          BY <2>3, <3>1, <4>2
        <4> QED BY <1>1, <4>1, <4>2
      <3>2. CASE u # t
        <4>1. d = c
          BY <1>1, <2>u, <3>2
        <4>2. Free(u)
          BY <2>1, <2>u, <2>3, <4>1 DEF Fits
        <4> QED BY <3>2, <4>2 DEF Undisturbed
      <3> QED BY <3>1, <3>2
    <2>4. u = fifo'[q].cells[i].task
      BY <2>1, <2>u
    <2> QED BY <2>2, <2>3, <2>4, FitsNext
  <1>3. UniqueInv'
    <2> SUFFICES ASSUME NEW q \in Places, NEW r \in Places, NEW i \in 1 .. Len(fifo'[q].cells),
                        NEW j \in 1 .. Len(fifo'[r].cells),
                        fifo'[q].cells[i].task = fifo'[r].cells[j].task,
                        fifo'[q].cells[i].state # "poisoned", fifo'[r].cells[j].state # "poisoned"
                 PROVE  q = r /\ i = j
      BY DEF UniqueInv
    <2>1. /\ i \in 1 .. Len(fifo[q].cells) /\ j \in 1 .. Len(fifo[r].cells)
          /\ fifo[q].cells[i].task = fifo[r].cells[j].task
          /\ fifo[q].cells[i].state # "poisoned" /\ fifo[r].cells[j].state # "poisoned"
      BY <1>1
    <2> QED BY <2>1, UniqueAt
  <1> QED BY <1>2, <1>3

LEMMA DropKeeps ==
  ASSUME Types, CellInv, UniqueInv, NEW p \in Places, fifo[p].cells # <<>>, Drops(p),
         NEW t \in Tasks, t = fifo[p].cells[1].task, Undisturbed(t),
         \/ fifo[p].cells[1].state = "published"
         \/ /\ \A q \in Places : Writing(t, q) => Writing(t, q)'
            /\ Free(t) => Free(t)'
  PROVE  CellInv' /\ UniqueInv'
  <1>0. Len(fifo[p].cells) \in Nat \ {0} /\ t \in Tasks
    BY HeadOf
  <1>1. ASSUME NEW q \in Places, NEW i \in 1 .. Len(fifo'[q].cells)
        PROVE  LET j == IF q = p THEN i + 1 ELSE i IN
               /\ j \in 1 .. Len(fifo[q].cells) /\ fifo[q].cells[j].task \in Tasks
               /\ fifo'[q].cells[i] = fifo[q].cells[j]
               /\ q = p => j # 1
    <2>1. CASE q = p
      BY SMTT(60), <1>0, <2>1, CellsOf DEF Drops
    <2>2. CASE q # p
      BY <2>2, CellsOf DEF Drops, Others
    <2> QED BY <2>1, <2>2
  <1>2. CellInv'
    <2> SUFFICES ASSUME NEW q \in Places, NEW i \in 1 .. Len(fifo'[q].cells)
                 PROVE  Fits(q, fifo[q].cells[i])'
      BY DEF CellInv
    <2> DEFINE j == IF q = p THEN i + 1 ELSE i
               c == fifo[q].cells[j]
    <2>1. /\ j \in 1 .. Len(fifo[q].cells) /\ c.task \in Tasks /\ fifo'[q].cells[i] = c
          /\ q = p => j # 1
      BY <1>1
    <2> HIDE DEF j
    <2>2. Fits(q, c)
      BY <2>1 DEF CellInv
    <2>u. PICK u \in Tasks : u = c.task
      BY <2>1
    <2>r. c.state = "reserved" => Writing(u, q)
      BY <2>2, <2>u DEF Fits
    <2>p. c.state = "published" => Free(u)
      BY <2>2, <2>u DEF Fits
    <2>3. CASE u # t
      BY <2>1, <2>u, <2>r, <2>p, <2>3, FitsNext DEF Undisturbed
    <2>4. CASE u = t /\ fifo[p].cells[1].state = "published"
      <3>1. c.state = "poisoned"
        <4> SUFFICES ASSUME c.state # "poisoned" PROVE FALSE
          OBVIOUS
        <4>1. /\ 1 \in 1 .. Len(fifo[p].cells) /\ fifo[p].cells[1].state # "poisoned"
              /\ fifo[p].cells[1].task = fifo[q].cells[j].task
              /\ fifo[q].cells[j].state # "poisoned"
          BY <1>0, <2>u, <2>4
        <4>2. p = q /\ 1 = j
          BY <2>1, <4>1, UniqueAt
        <4> QED BY <2>1, <4>2
      <3> QED BY <2>1, <2>u, <3>1, FitsNext
    <2>5. CASE u = t /\ fifo[p].cells[1].state # "published"
      BY <2>1, <2>u, <2>r, <2>p, <2>5, FitsNext
    <2> QED BY <2>3, <2>4, <2>5
  <1>3. UniqueInv'
    <2> SUFFICES ASSUME NEW q \in Places, NEW r \in Places, NEW i \in 1 .. Len(fifo'[q].cells),
                        NEW j \in 1 .. Len(fifo'[r].cells),
                        fifo'[q].cells[i].task = fifo'[r].cells[j].task,
                        fifo'[q].cells[i].state # "poisoned", fifo'[r].cells[j].state # "poisoned"
                 PROVE  q = r /\ i = j
      BY DEF UniqueInv
    <2> DEFINE m == IF q = p THEN i + 1 ELSE i
               n == IF r = p THEN j + 1 ELSE j
    <2>1. m \in 1 .. Len(fifo[q].cells) /\ fifo'[q].cells[i] = fifo[q].cells[m]
      BY <1>1
    <2>2. n \in 1 .. Len(fifo[r].cells) /\ fifo'[r].cells[j] = fifo[r].cells[n]
      BY <1>1
    <2>3. q = r /\ m = n
      <3> HIDE DEF m, n
      <3> QED BY <2>1, <2>2 DEF UniqueInv
    <2>4. i \in Int /\ j \in Int
      OBVIOUS
    <2> QED BY <2>3, <2>4
  <1> QED BY <1>2, <1>3

-----------------------------------------------------------------------------
(* The steps, by what they do to tasks and cells.                          *)
LEMMA TasksStay ==
  ASSUME Types, GateInv, UNCHANGED tasks
  PROVE  GateInv' /\ LaneStep
  <1>1. UNCHANGED <<next_issue, order, at>>
    BY DEF tasks
  <1>2. LaneStep
    BY <1>1 DEF LaneStep, LaneView
  <1>3. GateInv'
    BY <1>1 DEF GateInv, Past, TurnReady
  <1> QED BY <1>2, <1>3

SourceStays ==
  /\ source'.hand \in {source.hand, None}
  /\ source.pc \in {"count", "publish"} =>
       /\ source'.pc \in {"count", "publish"} /\ source'.hand = source.hand
       /\ source'.tunnel = source.tunnel

TargetStays ==
  /\ target'.hand \in {target.hand, None}
  /\ target.pc \in {"backCount", "backPublish"} =>
       target'.pc \in {"backCount", "backPublish"} /\ target'.hand = target.hand

LEMMA StillKeeps ==
  ASSUME Types, PlaceInv, UNCHANGED tasks, SameCells, SourceStays, TargetStays
  PROVE  PlaceInv'
  <1>1. at' = at /\ where' = where
    BY DEF tasks
  <1>2. ASSUME NEW u \in Tasks PROVE Free(u) => Free(u)'
    BY <1>1, Names DEF Free, SourceStays, TargetStays
  <1>3. ASSUME NEW u \in Tasks, NEW p \in Places PROVE Writing(u, p) => Writing(u, p)'
    BY <1>1 DEF Writing, SourceWrites, TargetWrites, SourceStays, TargetStays
  <1>4. Undisturbed(None)
    BY <1>2, <1>3 DEF Undisturbed
  <1>5. CellInv' /\ UniqueInv'
    BY <1>4, Names, SameKeeps DEF PlaceInv
  <1>6. HandInv'
    BY <1>1 DEF PlaceInv, HandInv, SourceStays, TargetStays
  <1> QED BY <1>5, <1>6 DEF PlaceInv

LEMMA TaskKeeps ==
  ASSUME Types, PlaceInv, NEW t \in Tasks, NEW p \in Phase, at' = [at EXCEPT ![t] = p],
         where' = where, UNCHANGED workers, SameCells, p # "queued",
         at[t] = "queued" => t # source.hand /\ t # target.hand,
         at[t] \in {"entered", "reserved"} => p \in {"entered", "reserved"},
         at[t] \in Placed => p \in Placed
  PROVE  PlaceInv'
  <1>1. source' = source /\ target' = target
    BY DEF workers
  <1>a. \A u \in Tasks : at'[u] = IF u = t THEN p ELSE at[u]
    BY DEF Types
  <1>2. ASSUME NEW u \in Tasks PROVE Free(u) => Free(u)'
    BY <1>1, <1>a DEF Free
  <1>3. ASSUME NEW u \in Tasks, NEW q \in Places PROVE Writing(u, q) => Writing(u, q)'
    BY <1>1, <1>a DEF Writing, SourceWrites, TargetWrites
  <1>4. Undisturbed(None)
    BY <1>2, <1>3 DEF Undisturbed
  <1>5. CellInv' /\ UniqueInv'
    BY <1>4, Names, SameKeeps DEF PlaceInv
  <1>6. HandInv'
    <2>1. /\ source.hand # None => source.hand \in Tasks /\ source.hand # t
          /\ target.hand # None => target.hand \in Tasks /\ target.hand # t
      BY WorkerFacts DEF PlaceInv, HandInv
    <2> QED BY <1>1, <1>a, <2>1 DEF PlaceInv, HandInv
  <1> QED BY <1>5, <1>6 DEF PlaceInv

(* The task in a worker's hand has no cell but the one it is being written *)
(* to.                                                                     *)
LEMMA HandAbsent ==
  ASSUME Types, PlaceInv, NEW t \in Tasks, at[t] = "queued", t \in {source.hand, target.hand},
         \A p \in Places : ~Writing(t, p)
  PROVE  Absent(t)
  <1> SUFFICES ASSUME NEW p \in Places, NEW i \in 1 .. Len(fifo[p].cells),
                      fifo[p].cells[i].task = t
               PROVE  fifo[p].cells[i].state = "poisoned"
    BY DEF Absent
  <1>1. Fits(p, fifo[p].cells[i])
    BY DEF PlaceInv, CellInv
  <1> QED BY <1>1, CellsOf DEF Fits, Free

(* A worker lets go of the task in its hand: it is in a business future,   *)
(* or settled.                                                             *)
LEMMA HandOver ==
  ASSUME Types, PlaceInv, NEW t \in Tasks, NEW p \in Placed \ {"queued"},
         at' = [at EXCEPT ![t] = p], \A u \in Tasks \ {t} : where'[u] = where[u],
         SameCells,
         \/ /\ source.hand = t /\ source'.hand = None /\ target' = target
            /\ source.pc \notin {"count", "publish"}
         \/ /\ target.hand = t /\ target'.hand = None /\ source' = source
            /\ target.pc \notin {"backCount", "backPublish"}
  PROVE  PlaceInv'
  <1> USE Names
  <1>a. \A u \in Tasks : at'[u] = IF u = t THEN p ELSE at[u]
    BY DEF Types
  <1>h. at[t] = "queued"
    BY DEF PlaceInv, HandInv
  <1>n. \A q \in Places : ~Writing(t, q)
    BY <1>h DEF Writing, SourceWrites, TargetWrites, PlaceInv, HandInv
  <1>2. ASSUME NEW u \in Tasks \ {t} PROVE Free(u) => Free(u)'
    BY <1>a DEF Free
  <1>3. ASSUME NEW u \in Tasks \ {t}, NEW q \in Places PROVE Writing(u, q) => Writing(u, q)'
    BY <1>a DEF Writing, SourceWrites, TargetWrites
  <1>4. Undisturbed(t)
    BY <1>2, <1>3 DEF Undisturbed
  <1>5. CellInv' /\ UniqueInv'
    <2>1. Absent(t)
      BY <1>h, <1>n, HandAbsent
    <2> QED BY <1>4, <1>n, <2>1, SameKeeps DEF PlaceInv
  <1>6. HandInv'
    BY <1>a, WorkerFacts DEF PlaceInv, HandInv
  <1> QED BY <1>5, <1>6 DEF PlaceInv

(* A poll hands the task of a published cell to a worker, or drops it.     *)
LEMMA TakeKeeps ==
  ASSUME Types, PlaceInv, UNCHANGED tasks, NEW p \in Places, fifo[p].cells # <<>>, Drops(p),
         NEW t \in Tasks, t = fifo[p].cells[1].task, fifo[p].cells[1].state # "reserved",
         \/ /\ source.hand = None /\ source'.hand \in {None, t} /\ target' = target
            /\ source.pc \notin {"count", "publish"}
            /\ source'.hand = t => fifo[p].cells[1].state = "published" /\ at[t] = "queued"
         \/ /\ target.hand = None /\ target'.hand \in {None, t} /\ source' = source
            /\ target.pc \notin {"backCount", "backPublish"}
            /\ target'.hand = t => fifo[p].cells[1].state = "published" /\ at[t] = "queued"
  PROVE  PlaceInv'
  <1> USE Names
  <1>1. at' = at /\ where' = where
    BY DEF tasks
  <1>c. /\ 1 \in 1 .. Len(fifo[p].cells)
        /\ fifo[p].cells[1].state \in {"reserved", "published", "poisoned"}
    BY HeadOf
  <1>f. fifo[p].cells[1].state = "published" => Free(t)
    BY <1>c DEF PlaceInv, CellInv, Fits
  <1>2. ASSUME NEW u \in Tasks \ {t} PROVE Free(u) => Free(u)'
    BY <1>1 DEF Free
  <1>3. ASSUME NEW u \in Tasks, NEW q \in Places PROVE Writing(u, q) => Writing(u, q)'
    BY <1>1 DEF Writing, SourceWrites, TargetWrites
  <1>4. Undisturbed(t)
    BY <1>2, <1>3 DEF Undisturbed
  <1>5. fifo[p].cells[1].state = "poisoned" => (Free(t) => Free(t)')
    BY <1>1 DEF Free
  <1>6. CellInv' /\ UniqueInv'
    BY <1>c, <1>3, <1>4, <1>5, DropKeeps DEF PlaceInv
  <1>7. HandInv'
    BY <1>1, <1>f DEF PlaceInv, HandInv, Free
  <1> QED BY <1>6, <1>7 DEF PlaceInv

LEMMA SettleAdvances ==
  ASSUME Types, GateInv, NEW t \in Tasks, NEW p \in Done, SettleAs(t, p), at[t] # "new",
         p = "ending" => at[t] \in Holding
  PROVE  /\ GateInv' /\ LaneStep
         /\ at' = [at EXCEPT ![t] = p] /\ where' = where
  <1>1. p \in Phase
    BY PhaseNames DEF Done
  <1>2. /\ next_issue' = next_issue /\ where' = where /\ at' = [at EXCEPT ![t] = p]
        /\ order' \in OrderType /\ order'.next_run >= order.next_run
        /\ Past(order') = Past(order) \cup {t}
    BY <1>1, SettleAsDoes DEF OrderType
  <1>3. Advances(t, p)
    BY <1>2 DEF Advances, Done, Holding
  <1> QED BY <1>1, <1>2, <1>3, AdvanceKeepsGate, AdvanceIsLane

LEMMA MovesOn ==
  ASSUME Types, GateInv, NEW t \in Tasks, NEW p \in Phase, at' = [at EXCEPT ![t] = p],
         UNCHANGED <<next_issue, order>>, at[t] # "new", p # "new",
         p \in Done <=> at[t] \in Done,
         p \in Holding => \/ at[t] \in Holding
                          \/ TurnReady(t) /\ \A u \in Tasks : at[u] \notin Holding,
         p = "running" => at[t] = "leased", at[t] # "running"
  PROVE  GateInv' /\ LaneStep
  <1>1. order.next_run \in Nat /\ order' \in OrderType
    BY DEF Types, OrderType
  <1>2. p \in Done => Past(order') = Past(order) \cup {t}
    BY DEF GateInv, Past
  <1>3. Advances(t, p)
    BY <1>1, <1>2 DEF Advances
  <1> QED BY <1>1, <1>3, AdvanceKeepsGate, AdvanceIsLane

LaneInv == Types /\ ShapeInv /\ GateInv /\ PlaceInv

LEMMA SameFifo == ASSUME UNCHANGED fifo PROVE SameCells
  BY DEF SameCells

LEMMA IssueLane ==
  ASSUME LaneInv, Issue
  PROVE  GateInv' /\ LaneStep /\ PlaceInv'
  <1> USE Names, PhaseNames DEF LaneInv
  <1> DEFINE t == next_issue
  <1>0. t \in Tasks /\ at[t] = "new"
    BY DEF Issue, Types, Tasks, GateInv
  <1>1. /\ at' = [at EXCEPT ![t] = "issued"] /\ next_issue' = t + 1 /\ order' = order
        /\ where' = where /\ UNCHANGED <<fifo, workers>>
    BY DEF Issue
  <1>a. \A u \in Tasks : at'[u] = IF u = t THEN "issued" ELSE at[u]
    BY <1>1 DEF Types
  <1>2. GateInv'
    <2>1. \A u \in Tasks : u \in Past(order') <=> at'[u] \in Done
      BY <1>0, <1>1, <1>a DEF GateInv, Done
    <2>2. \A u \in Tasks : at'[u] = "new" <=> u >= next_issue'
      BY <1>0, <1>1, <1>a DEF GateInv, Tasks
    <2>3. \A u \in Tasks : at'[u] \in Holding => TurnReady(u)'
      BY <1>1, <1>a DEF GateInv, Holding, TurnReady
    <2>4. \A u, v \in Tasks : at'[u] \in Holding /\ at'[v] \in Holding => u = v
      BY <1>a DEF GateInv, Holding
    <2> QED BY <2>1, <2>2, <2>3, <2>4 DEF GateInv
  <1>3. LaneStep
    <2>1. LaneView' = [LaneView EXCEPT ![t] = View("issued")]
      BY <1>1 DEF Types, LaneView
    <2>2. LaneView[t] = "unborn" /\ View("issued") = "pending"
      BY <1>0, ViewIs DEF LaneView
    <2>3. ASSUME NEW u \in 1..(t - 1) PROVE LaneView[u] # "unborn"
      <3>1. u \in Tasks /\ u < next_issue
        BY <1>0 DEF Types, Tasks
      <3>2. at[u] # "new" /\ at[u] \in Phase
        BY <3>1 DEF Types, GateInv, Tasks
      <3>3. View(at[u]) # "unborn"
        BY <3>2, ViewIs DEF Done
      <3> QED BY <3>1, <3>3 DEF LaneView
    <2> QED BY <1>0, <2>1, <2>2, <2>3 DEF LaneStep, LaneNext
  <1>4. PlaceInv'
    BY <1>0, <1>1, TaskKeeps, SameFifo DEF Placed
  <1> QED BY <1>2, <1>3, <1>4

LEMMA SubmissionLane ==
  ASSUME LaneInv, NEW t \in Tasks, Submission(t) \/ Business(t) \/ Caller(t)
  PROVE  GateInv' /\ LaneStep /\ PlaceInv'
  <1> USE Names, PhaseNames DEF LaneInv
  <1>h. (at[t] # "queued" => t # source.hand /\ t # target.hand) /\ t # None
    BY DEF PlaceInv, HandInv
  <1>1. CASE Reserve(t)
    <2> DEFINE p == Destination
    <2>1. p \in Places
      BY DestinationIs
    <2>2. /\ at[t] = "issued" /\ at' = [at EXCEPT ![t] = "entered"]
          /\ where' = [where EXCEPT ![t] = p] /\ UNCHANGED <<next_issue, order, workers>>
          /\ fifo' = [fifo EXCEPT ![p] = WithReserved(@, t)]
      BY <1>1 DEF Reserve
    <2> HIDE DEF p
    <2>a. /\ \A u \in Tasks : at'[u] = IF u = t THEN "entered" ELSE at[u]
          /\ \A u \in Tasks : where'[u] = IF u = t THEN p ELSE where[u]
      BY <2>2 DEF Types, ShapeInv
    <2>3. GateInv' /\ LaneStep
      BY <2>2, MovesOn DEF Done, Holding
    <2>4. Appends(p, t)
      BY <2>1, <2>2, ReservedDoes
    <2>5. \A q \in Places : ~Writing(t, q)
      BY <1>h, <2>2 DEF Writing, SourceWrites, TargetWrites
    <2>6. Absent(t)
      <3> SUFFICES ASSUME NEW q \in Places, NEW i \in 1 .. Len(fifo[q].cells),
                          fifo[q].cells[i].task = t
                   PROVE  fifo[q].cells[i].state = "poisoned"
        BY DEF Absent
      <3>1. Fits(q, fifo[q].cells[i])
        BY DEF PlaceInv, CellInv
      <3> QED BY <2>2, <2>5, <3>1, CellsOf DEF Fits, Free, Placed
    <2>7. ASSUME NEW u \in Tasks \ {t} PROVE Free(u) => Free(u)'
      BY <2>2, <2>a DEF Free, workers
    <2>8. ASSUME NEW u \in Tasks \ {t}, NEW q \in Places PROVE Writing(u, q) => Writing(u, q)'
      BY <2>2, <2>a DEF Writing, SourceWrites, TargetWrites, workers
    <2>9. Undisturbed(t)
      BY <2>7, <2>8 DEF Undisturbed
    <2>q. PICK q \in Places : q = p
      BY <2>1
    <2>10. Writing(t, q)'
      BY <2>a, <2>q DEF Writing
    <2>11. CellInv' /\ UniqueInv'
      BY <2>q, <2>4, <2>6, <2>9, <2>10, AppendKeeps DEF PlaceInv
    <2>12. HandInv'
      BY <1>h, <2>2, <2>a, WorkerFacts DEF PlaceInv, HandInv, workers
    <2> QED BY <2>3, <2>11, <2>12 DEF PlaceInv
  <1>2. CASE Count(t)
    <2>1. /\ at[t] = "entered" /\ at' = [at EXCEPT ![t] = "reserved"] /\ where' = where
          /\ UNCHANGED <<next_issue, order, workers>>
      BY <1>2 DEF Count, TaskTo
    <2>2. GateInv' /\ LaneStep
      BY <2>1, MovesOn DEF Done, Holding
    <2>3. SameCells
      BY <1>2, CountedDoes DEF Count, ShapeInv
    <2>4. PlaceInv'
      BY <1>h, <2>1, <2>3, TaskKeeps DEF Placed
    <2> QED BY <2>2, <2>4
  <1>3. CASE Publish(t) \/ Withdraw(t)
    <2> DEFINE p == where[t]
               s == IF at'[t] = "queued" THEN "published" ELSE "poisoned"
    <2>1. at[t] = "reserved" /\ where' = where /\ UNCHANGED workers /\ p \in Places
      BY <1>3 DEF Publish, Withdraw, TaskTo, SettleAs, ShapeInv
    <2>2. GateInv' /\ LaneStep /\ \E x \in {"queued", "settled"} : at' = [at EXCEPT ![t] = x]
      <3>1. CASE Publish(t)
        <4>1. at' = [at EXCEPT ![t] = "queued"] /\ UNCHANGED <<next_issue, order>>
          BY <3>1 DEF Publish, TaskTo
        <4> QED BY <2>1, <4>1, MovesOn DEF Done, Holding
      <3>2. CASE Withdraw(t)
        <4>1. SettleAs(t, "settled")
          BY <3>2 DEF Withdraw
        <4> QED BY <2>1, <4>1, SettleAdvances DEF Done
      <3> QED BY <1>3, <3>1, <3>2
    <2>a. \A u \in Tasks \ {t} : at'[u] = at[u]
      BY <2>2 DEF Types
    <2>b. at'[t] \in {"queued", "settled"}
      BY <2>2 DEF Types
    <2>3. fifo' = [fifo EXCEPT ![p] = WithState(@, t, s)]
      <3>1. CASE Publish(t)
        <4>1. at'[t] = "queued"
          BY <3>1 DEF Publish, TaskTo, Types
        <4> QED BY <3>1, <4>1 DEF Publish
      <3>2. CASE Withdraw(t)
        <4>1. at'[t] = "settled"
          BY <3>2 DEF Withdraw, SettleAs, Types
        <4> QED BY <3>2, <4>1 DEF Withdraw
      <3> QED BY <1>3, <3>1, <3>2
    <2>s. s \in {"published", "poisoned"}
      OBVIOUS
    <2> HIDE DEF s
    <2>m. PICK r \in {"published", "poisoned"} : fifo' = [fifo EXCEPT ![p] = WithState(@, t, r)]
      BY <2>3, <2>s
    <2>4. Marks(p, t, r)
      BY <2>1, <2>m, MarkedDoes
    <2>5. \A q \in Places : Writing(t, q) => q = p
      BY <1>h, <2>1 DEF Writing, SourceWrites, TargetWrites
    <2>7. ASSUME NEW u \in Tasks \ {t} PROVE Free(u) => Free(u)'
      BY <2>1, <2>a DEF Free, workers
    <2>8. ASSUME NEW u \in Tasks \ {t}, NEW q \in Places PROVE Writing(u, q) => Writing(u, q)'
      BY <2>1, <2>a DEF Writing, SourceWrites, TargetWrites, workers
    <2>9. Undisturbed(t)
      BY <2>7, <2>8 DEF Undisturbed
    <2>10. Free(t)'
      BY <1>h, <2>1, <2>b DEF Free, Placed, workers
    <2>11. CellInv' /\ UniqueInv'
      <3> HIDE DEF p
      <3>1. PICK q \in Places : q = p
        BY <2>1
      <3> QED BY <2>4, <2>5, <2>9, <2>10, <3>1, MarkKeeps DEF PlaceInv
    <2>12. HandInv'
      BY <1>h, <2>1, <2>a, WorkerFacts DEF PlaceInv, HandInv, workers
    <2> QED BY <2>2, <2>11, <2>12 DEF PlaceInv
  <1>4. CASE \/ Refuse(t) \/ CancelQueued(t) \/ CancelWaiting(t) \/ LeaseRefused(t) \/ Finish(t)
             \/ Abort(t)
    <2>1. PICK p \in {"refused", "settled", "void", "ending"} :
            /\ SettleAs(t, p) /\ (p = "ending" => at[t] = "running")
            /\ at[t] \in {"issued", "queued", "waiting", "leased", "running", "void"}
            /\ at[t] = "queued" => t # source.hand /\ t # target.hand
            /\ UNCHANGED <<fifo, workers>>
      BY <1>4 DEF Refuse, CancelQueued, CancelWaiting, LeaseRefused, Finish, Abort
    <2>d. /\ p \in Done /\ p \in Phase /\ p # "queued" /\ p \in Placed
          /\ at[t] # "new" /\ (p = "ending" => at[t] \in Holding)
          /\ at[t] \notin {"entered", "reserved"}
      BY <2>1 DEF Done, Holding, Placed
    <2>2. /\ GateInv' /\ LaneStep
          /\ at' = [at EXCEPT ![t] = p] /\ where' = where
      BY <2>1, <2>d, SettleAdvances
    <2>3. PlaceInv'
      BY <2>1, <2>d, <2>2, TaskKeeps, SameFifo DEF Placed
    <2> QED BY <2>2, <2>3
  <1>5. CASE Lease(t) \/ VoidEnds(t) \/ Run(t) \/ Release(t)
    <2>1. PICK p \in {"leased", "settled", "running"} :
            /\ at' = [at EXCEPT ![t] = p] /\ where' = where
            /\ p = "leased" => /\ at[t] = "waiting" /\ TurnReady(t)
                               /\ \A u \in Tasks : at[u] \notin Holding
            /\ p = "settled" => at[t] \in {"void", "ending"}
            /\ p = "running" => at[t] = "leased"
            /\ UNCHANGED <<next_issue, order, fifo, workers>>
      BY <1>5 DEF Lease, VoidEnds, Run, Release, TaskTo
    <2>2. GateInv' /\ LaneStep
      BY <2>1, MovesOn DEF Done, Holding
    <2>3. PlaceInv'
      BY <2>1, TaskKeeps, SameFifo DEF Placed
    <2> QED BY <2>2, <2>3
  <1> QED BY <1>1, <1>2, <1>3, <1>4, <1>5 DEF Submission, Business, Caller

(* A step that moves no task, no cell and no hand.                         *)
LEMMA QuietLane ==
  ASSUME LaneInv, UNCHANGED tasks, SameCells, SourceStays, TargetStays
  PROVE  GateInv' /\ LaneStep /\ PlaceInv'
  BY TasksStay, StillKeeps DEF LaneInv

LEMMA SourceQuiet ==
  ASSUME LaneInv, NEW pc, NEW t \in {source.hand, None}, NEW k, SourceTo(pc, t, k),
         source.pc \notin {"count", "publish"}
  PROVE  SourceStays /\ TargetStays
  BY DEF SourceTo, SourceStays, TargetStays

LEMMA TargetQuiet ==
  ASSUME LaneInv, NEW pc \in Pcs("target"), TargetTo(pc, None),
         target.pc \notin {"backCount", "backPublish"}
  PROVE  SourceStays /\ TargetStays
  BY WorkerFacts, TargetToDoes DEF LaneInv, SourceStays, TargetStays

(* dispatch_business lets go of the task in the hand.                      *)
LEMMA DispatchedLane ==
  ASSUME LaneInv, NEW t \in Tasks, NEW s \in Slots, Dispatched(t, s), UNCHANGED fifo,
         \/ /\ source.hand = t /\ source'.hand = None /\ target' = target
            /\ source.pc \notin {"count", "publish"}
         \/ /\ target.hand = t /\ target'.hand = None /\ source' = source
            /\ target.pc \notin {"backCount", "backPublish"}
  PROVE  GateInv' /\ LaneStep /\ PlaceInv'
  <1> USE Names, PhaseNames DEF LaneInv
  <1>h. at[t] = "queued" /\ DOMAIN where = Tasks /\ SameCells
    BY SameFifo DEF PlaceInv, HandInv, ShapeInv
  <1>1. CASE mode = "force"
    <2>1. SettleAs(t, "settled")
      BY <1>1 DEF Dispatched
    <2>d. "settled" \in Done /\ "settled" \in Placed \ {"queued"}
      BY DEF Done, Placed
    <2>2. /\ GateInv' /\ LaneStep
          /\ at' = [at EXCEPT ![t] = "settled"] /\ where' = where
      BY <1>h, <2>1, <2>d, SettleAdvances
    <2>3. \A u \in Tasks \ {t} : where'[u] = where[u]
      BY <1>h, <2>2
    <2> QED BY <1>h, <2>d, <2>2, <2>3, HandOver
  <1>2. CASE mode # "force"
    <2>1. /\ at' = [at EXCEPT ![t] = "waiting"] /\ where' = [where EXCEPT ![t] = On(s)]
          /\ UNCHANGED <<next_issue, order>>
      BY <1>2 DEF Dispatched
    <2>2. GateInv' /\ LaneStep
      BY <1>h, <2>1, MovesOn DEF Done, Holding
    <2>3. \A u \in Tasks \ {t} : where'[u] = where[u]
      BY <1>h, <2>1
    <2>d. "waiting" \in Placed \ {"queued"}
      BY DEF Placed
    <2> QED BY <1>h, <2>d, <2>1, <2>2, <2>3, HandOver
  <1> QED BY <1>1, <1>2

(* The task in a hand gets a number of another queue ...                   *)
LEMMA HandAppends ==
  ASSUME LaneInv, UNCHANGED tasks, NEW t \in Tasks, NEW p \in Places, Appends(p, t),
         \/ /\ source.hand = t /\ source'.hand = t /\ target' = target
            /\ source.pc \notin {"count", "publish"} /\ SourceWrites(t, p)'
         \/ /\ target.hand = t /\ target'.hand = t /\ source' = source
            /\ target.pc \notin {"backCount", "backPublish"} /\ TargetWrites(t, p)'
  PROVE  GateInv' /\ LaneStep /\ PlaceInv'
  <1> USE Names DEF LaneInv
  <1>1. at' = at /\ where' = where
    BY DEF tasks
  <1>h. at[t] = "queued"
    BY DEF PlaceInv, HandInv
  <1>n. \A q \in Places : ~Writing(t, q)
    BY <1>h DEF Writing, SourceWrites, TargetWrites, PlaceInv, HandInv
  <1>2. ASSUME NEW u \in Tasks \ {t} PROVE Free(u) => Free(u)'
    BY <1>1 DEF Free
  <1>3. ASSUME NEW u \in Tasks \ {t}, NEW q \in Places PROVE Writing(u, q) => Writing(u, q)'
    BY <1>1 DEF Writing, SourceWrites, TargetWrites
  <1>4. Undisturbed(t) /\ Absent(t)
    BY <1>h, <1>n, <1>2, <1>3, HandAbsent DEF Undisturbed
  <1>5. Writing(t, p)'
    BY DEF Writing
  <1>6. CellInv' /\ UniqueInv'
    BY <1>4, <1>5, AppendKeeps DEF PlaceInv
  <1>7. HandInv'
    BY <1>1 DEF PlaceInv, HandInv
  <1> QED BY <1>6, <1>7, TasksStay DEF PlaceInv

(* ... and is left there.                                                  *)
LEMMA HandPublishes ==
  ASSUME LaneInv, UNCHANGED tasks, NEW t \in Tasks, NEW p \in Places, Marks(p, t, "published"),
         \/ /\ source.hand = t /\ source'.hand = None /\ target' = target
            /\ SourceWrites(t, p)
         \/ /\ target.hand = t /\ target'.hand = None /\ source' = source
            /\ TargetWrites(t, p)
  PROVE  GateInv' /\ LaneStep /\ PlaceInv'
  <1> USE Names DEF LaneInv
  <1>1. at' = at /\ where' = where
    BY DEF tasks
  <1>h. at[t] = "queued"
    BY DEF PlaceInv, HandInv
  <1>n. \A q \in Places : Writing(t, q) => q = p
    BY <1>h DEF Writing, SourceWrites, TargetWrites, PlaceInv, HandInv
  <1>2. ASSUME NEW u \in Tasks \ {t} PROVE Free(u) => Free(u)'
    BY <1>1 DEF Free
  <1>3. ASSUME NEW u \in Tasks \ {t}, NEW q \in Places PROVE Writing(u, q) => Writing(u, q)'
    BY <1>1 DEF Writing, SourceWrites, TargetWrites
  <1>4. Undisturbed(t)
    BY <1>2, <1>3 DEF Undisturbed
  <1>5. Free(t)'
    BY <1>1, <1>h DEF Free, Placed, PlaceInv, HandInv
  <1>6. CellInv' /\ UniqueInv'
    BY <1>n, <1>4, <1>5, MarkKeeps DEF PlaceInv
  <1>7. HandInv'
    BY <1>1 DEF PlaceInv, HandInv
  <1> QED BY <1>6, <1>7, TasksStay DEF PlaceInv

LEMMA SourceLane ==
  ASSUME LaneInv, StealRegister \/ SourceWorker
  PROVE  GateInv' /\ LaneStep /\ PlaceInv'
  <1> USE Names, PhaseNames, PcNames, WorkerFacts DEF LaneInv
  <1>1. CASE \/ StealRegister \/ StealInstall \/ SourceIdle \/ SourceRoute \/ SourceMigrate
             \/ SourceFinish \/ SourceExit
    <2>1. /\ UNCHANGED <<tasks, fifo>> /\ source.pc \notin {"count", "publish"}
          /\ \E pc \in Pcs("source"), t \in {source.hand, None}, k \in Tunnels \cup {None, opened + 1} :
               SourceTo(pc, t, k)
      BY <1>1 DEF StealRegister, StealInstall, SourceIdle, SourceRoute, SourceMigrate, SourceFinish,
                  SourceExit, routing, ShapeInv, SourceTunnelPc
    <2> QED BY <2>1, SourceQuiet, QuietLane, SameFifo
  <1>2. CASE SourceResume
    <2>1. source.hand \in Tasks /\ source.pc \notin {"count", "publish"} /\ UNCHANGED fifo
      BY <1>2 DEF SourceResume, Deferred
    <2>2. CASE mode = "force"
      <3>1. SettleAs(source.hand, "settled") /\ SourceTo("migrate", None, None)
        BY <1>2, <2>2 DEF SourceResume
      <3>2. Dispatched(source.hand, "source") /\ "source" \in Slots
        BY <2>2, <3>1 DEF Dispatched, Slots
      <3>3. source'.hand = None /\ target' = target
        BY <3>1 DEF SourceTo
      <3>t. PICK t \in Tasks : t = source.hand
        BY <2>1
      <3> QED BY <2>1, <3>t, <3>2, <3>3, DispatchedLane
    <2>3. CASE mode # "force"
      <3>1. UNCHANGED tasks /\ SourceTo("route", source.hand, None)
        BY <1>2, <2>3 DEF SourceResume
      <3> QED BY <2>1, <3>1, SourceQuiet, QuietLane, SameFifo
    <2> QED BY <2>2, <2>3
  <1>3. CASE SourceTake
    <2>1. /\ source.hand = None /\ source.pc \notin {"count", "publish"} /\ UNCHANGED tasks
          /\ Poll(Main) \in {"published", "poisoned"}
          /\ fifo' = [fifo EXCEPT ![Main] = WithoutHead(@)]
      BY <1>3 DEF SourceTake, Deferred
    <2>2. fifo[Main].cells # <<>> /\ Poll(Main) = fifo[Main].cells[1].state
      BY <2>1 DEF Poll, Cells, Head1
    <2>3. PICK t \in Tasks : t = fifo[Main].cells[1].task
      BY <2>2, HeadOf
    <2>4. /\ source'.hand \in {None, t} /\ target' = target
          /\ source'.hand = t => fifo[Main].cells[1].state = "published" /\ at[t] = "queued"
      BY <1>3, <2>2, <2>3 DEF SourceTake, SourceTo, Head1, Cells
    <2>5. Drops(Main)
      BY <2>1, <2>2, DroppedDoes
    <2>6. PlaceInv'
      BY <2>1, <2>2, <2>3, <2>4, <2>5, TakeKeeps
    <2> QED BY <2>1, <2>6, TasksStay
  <1>4. CASE SourceStock
    <2>1. source.hand \in Tasks /\ source.tunnel \in Tunnels /\ UNCHANGED tasks
      BY <1>4 DEF SourceStock, ShapeInv, SourceHandPc, SourceTunnelPc
    <2>2. PICK t \in Tasks, k \in Tunnels : t = source.hand /\ k = source.tunnel
      BY <2>1
    <2>3. CASE Open(Stock(source.tunnel))
      <3>1. fifo' = [fifo EXCEPT ![Stock(k)] = WithReserved(@, t)] /\ SourceTo("count", t, k)
        BY <1>4, <2>2, <2>3 DEF SourceStock
      <3>2. Stock(k) \in Places
        OBVIOUS
      <3>3. Appends(Stock(k), t)
        BY <3>1, <3>2, ReservedDoes
      <3>4. /\ source'.hand = t /\ source'.pc = "count" /\ source'.tunnel = k /\ target' = target
        BY <3>1 DEF SourceTo
      <3>5. SourceWrites(t, Stock(k))'
        BY <3>4 DEF SourceWrites
      <3>6. source.pc = "stock"
        BY <1>4 DEF SourceStock
      <3> QED BY <2>1, <2>2, <3>2, <3>3, <3>4, <3>5, <3>6, HandAppends
    <2>4. CASE ~Open(Stock(source.tunnel))
      <3>1. UNCHANGED fifo /\ SourceTo("dispatch", source.hand, None) /\ source.pc = "stock"
        BY <1>4, <2>4 DEF SourceStock
      <3> QED BY <2>1, <3>1, SourceQuiet, QuietLane, SameFifo
    <2> QED BY <2>3, <2>4
  <1>5. CASE SourceCount
    <2>1. source.tunnel \in Tunnels /\ UNCHANGED tasks /\ source.pc = "count"
      BY <1>5 DEF SourceCount, ShapeInv, SourceTunnelPc
    <2>2. Stock(source.tunnel) \in Places
      BY <2>1
    <2>3. SameCells
      BY <1>5, <2>2, CountedDoes DEF SourceCount
    <2>4. SourceStays /\ TargetStays
      BY <1>5 DEF SourceCount, SourceTo, SourceStays, TargetStays
    <2> QED BY <2>1, <2>3, <2>4, QuietLane
  <1>6. CASE SourcePublish
    <2>1. source.hand \in Tasks /\ source.tunnel \in Tunnels /\ UNCHANGED tasks /\ source.pc = "publish"
      BY <1>6 DEF SourcePublish, ShapeInv, SourceHandPc, SourceTunnelPc
    <2>2. PICK t \in Tasks, k \in Tunnels : t = source.hand /\ k = source.tunnel
      BY <2>1
    <2>3. /\ fifo' = [fifo EXCEPT ![Stock(k)] = WithState(@, t, "published")]
          /\ source'.hand = None /\ target' = target
      BY <1>6, <2>2 DEF SourcePublish, SourceTo
    <2>4. Stock(k) \in Places
      OBVIOUS
    <2>5. Marks(Stock(k), t, "published")
      BY <2>3, <2>4, MarkedDoes
    <2>6. SourceWrites(t, Stock(k))
      BY <2>1, <2>2 DEF SourceWrites
    <2> QED BY <2>1, <2>2, <2>3, <2>4, <2>5, <2>6, HandPublishes
  <1>7. CASE SourceDispatch
    <2>1. source.hand \in Tasks /\ source.pc = "dispatch" /\ UNCHANGED fifo
      BY <1>7 DEF SourceDispatch, ShapeInv, SourceHandPc
    <2>2. CASE ExecutionAvailable("source")
      <3>1. Dispatched(source.hand, "source") /\ source'.hand = None /\ target' = target
        BY <1>7, <2>2 DEF SourceDispatch, SourceTo
      <3>2. "source" \in Slots
        BY DEF Slots
      <3>t. PICK t \in Tasks : t = source.hand
        BY <2>1
      <3> QED BY <2>1, <3>t, <3>1, <3>2, DispatchedLane
    <2>3. CASE ~ExecutionAvailable("source")
      <3>1. UNCHANGED tasks /\ SourceTo("migrate", source.hand, None)
        BY <1>7, <2>3 DEF SourceDispatch
      <3> QED BY <2>1, <3>1, SourceQuiet, QuietLane, SameFifo
    <2> QED BY <2>2, <2>3
  <1> QED BY <1>1, <1>2, <1>3, <1>4, <1>5, <1>6, <1>7 DEF SourceWorker

LEMMA TakesLane ==
  ASSUME LaneInv, UNCHANGED tasks, NEW p \in Places, NEW pc \in Pcs("target"),
         NEW otherwise \in Pcs("target"), TargetTakes(p, pc, otherwise), fifo[p].cells # <<>>,
         fifo[p].cells[1].state # "reserved", target.hand = None,
         target.pc \notin {"backCount", "backPublish"}
  PROVE  GateInv' /\ LaneStep /\ PlaceInv'
  <1> USE Names, WorkerFacts DEF LaneInv
  <1>1. PICK t \in Tasks : t = fifo[p].cells[1].task
    BY HeadOf
  <1>2. Drops(p)
    BY DroppedDoes DEF TargetTakes
  <1>3. CASE Poll(p) = "published" /\ at[t] = "queued"
    <2>1. TargetTo(pc, t)
      BY <1>1, <1>3 DEF TargetTakes, Head1, Cells
    <2>2. target'.hand = t /\ source' = source
      BY <2>1, TargetToDoes
    <2>3. fifo[p].cells[1].state = "published"
      BY <1>3 DEF Poll, Cells, Head1
    <2> QED BY <1>1, <1>2, <1>3, <2>2, <2>3, TakeKeeps, TasksStay
  <1>4. CASE ~(Poll(p) = "published" /\ at[t] = "queued")
    <2>1. TargetTo(otherwise, None)
      BY <1>1, <1>4 DEF TargetTakes, Head1, Cells
    <2>2. target'.hand = None /\ source' = source
      BY <2>1, TargetToDoes
    <2> QED BY <1>1, <1>2, <2>2, TakeKeeps, TasksStay
  <1> QED BY <1>3, <1>4

LEMMA TargetLane ==
  ASSUME LaneInv,
         \/ \E k \in Tunnels : TargetTurn(k)
         \/ TargetStock \/ TargetIncremental \/ TargetDispatch \/ TargetFails \/ TargetFailRoute
         \/ BackReserve \/ BackCount \/ BackPublish \/ TargetExit
  PROVE  GateInv' /\ LaneStep /\ PlaceInv'
  <1> USE Names, PhaseNames, WorkerFacts, PcNames DEF LaneInv
  <1>1. ASSUME NEW k \in Tunnels, TargetTurn(k) PROVE GateInv' /\ LaneStep /\ PlaceInv'
    <2>1. /\ UNCHANGED <<tasks, fifo>> /\ source' = source /\ target'.hand = None
          /\ target.pc = "loop"
      BY <1>1 DEF TargetTurn
    <2>2. SourceStays /\ TargetStays
      BY <2>1 DEF SourceStays, TargetStays
    <2> QED BY <2>1, <2>2, QuietLane, SameFifo
  <1>2. CASE TargetStock \/ TargetIncremental
    <2>1. /\ target.tunnel \in Tunnels /\ target.hand = None /\ UNCHANGED tasks
          /\ target.pc \notin {"backCount", "backPublish"}
      BY <1>2 DEF TargetStock, TargetIncremental, ShapeInv, TargetHandPc
    <2>2. CASE UNCHANGED fifo /\ \E pc \in Pcs("target") : TargetTo(pc, None)
      BY <2>1, <2>2, TargetQuiet, QuietLane, SameFifo
    <2>3. CASE \E p \in Places : /\ Poll(p) \notin {"empty", "reserved"}
                                 /\ TargetTakes(p, "dispatch", "returns")
      <3>1. PICK p \in Places : /\ Poll(p) \notin {"empty", "reserved"}
                                /\ TargetTakes(p, "dispatch", "returns")
        BY <2>3
      <3>2. fifo[p].cells # <<>> /\ fifo[p].cells[1].state # "reserved"
        BY <3>1 DEF Poll, Cells, Head1
      <3> QED BY <2>1, <3>1, <3>2, TakesLane
    <2> QED BY <1>2, <2>1, <2>2, <2>3 DEF TargetStock, TargetIncremental
  <1>3. CASE TargetDispatch
    <2>1. target.hand \in Tasks /\ UNCHANGED fifo /\ target.pc = "dispatch"
      BY <1>3 DEF TargetDispatch, ShapeInv, TargetHandPc
    <2>2. Dispatched(target.hand, "target") /\ "target" \in Slots /\ TargetTo("returns", None)
      BY <1>3 DEF TargetDispatch, Slots
    <2>3. target'.hand = None /\ source' = source
      BY <2>2, TargetToDoes
    <2>t. PICK t \in Tasks : t = target.hand
      BY <2>1
    <2> QED BY <2>1, <2>2, <2>3, <2>t, DispatchedLane
  <1>4. CASE TargetFails
    <2>1. target.tunnel \in Tunnels /\ target.pc = "stock" /\ UNCHANGED tasks
      BY <1>4 DEF TargetFails, ShapeInv
    <2>2. SameCells
      BY <1>4, <2>1, AllClosedTypes DEF TargetFails
    <2>3. SourceStays /\ TargetStays
      BY <1>4, <2>1, TargetQuiet DEF TargetFails
    <2> QED BY <2>1, <2>2, <2>3, QuietLane
  <1>5. CASE TargetFailRoute \/ TargetExit
    <2>1. /\ UNCHANGED <<tasks, fifo>> /\ target.pc \notin {"backCount", "backPublish"}
          /\ \E pc \in Pcs("target") : TargetTo(pc, None)
      BY <1>5 DEF TargetFailRoute, TargetExit
    <2> QED BY <2>1, TargetQuiet, QuietLane, SameFifo
  <1>6. CASE BackReserve
    <2>1. target.hand \in Tasks /\ UNCHANGED tasks /\ target.pc = "back"
      BY <1>6 DEF BackReserve, ShapeInv, TargetHandPc
    <2>2. PICK t \in Tasks : t = target.hand
      BY <2>1
    <2>3. fifo' = [fifo EXCEPT ![Main] = WithReserved(@, t)] /\ TargetTo("backCount", t)
      BY <1>6, <2>2 DEF BackReserve
    <2>4. target'.hand = t /\ target'.pc = "backCount" /\ source' = source
      BY <2>3, TargetToDoes
    <2>5. Appends(Main, t)
      BY <2>3, ReservedDoes
    <2>6. TargetWrites(t, Main)'
      BY <2>4 DEF TargetWrites
    <2> QED BY <2>1, <2>2, <2>4, <2>5, <2>6, HandAppends
  <1>7. CASE BackCount
    <2>1. target.hand \in Tasks /\ UNCHANGED tasks /\ target.pc = "backCount"
      BY <1>7 DEF BackCount, ShapeInv, TargetHandPc
    <2>2. SameCells
      BY <1>7, CountedDoes DEF BackCount
    <2>3. target'.hand = target.hand /\ target'.pc = "backPublish" /\ source' = source
      BY <1>7, <2>1, TargetToDoes DEF BackCount
    <2>4. SourceStays /\ TargetStays
      BY <2>3 DEF SourceStays, TargetStays
    <2> QED BY <2>1, <2>2, <2>4, QuietLane
  <1>8. CASE BackPublish
    <2>1. target.hand \in Tasks /\ UNCHANGED tasks /\ target.pc = "backPublish"
      BY <1>8 DEF BackPublish, ShapeInv, TargetHandPc
    <2>2. PICK t \in Tasks : t = target.hand
      BY <2>1
    <2>3. fifo' = [fifo EXCEPT ![Main] = WithState(@, t, "published")] /\ TargetTo("loop", None)
      BY <1>8, <2>2 DEF BackPublish
    <2>4. target'.hand = None /\ source' = source
      BY <2>3, TargetToDoes
    <2>5. Marks(Main, t, "published")
      BY <2>3, MarkedDoes
    <2>6. TargetWrites(t, Main)
      BY <2>1, <2>2 DEF TargetWrites
    <2> QED BY <2>1, <2>2, <2>4, <2>5, <2>6, HandPublishes
  <1> QED BY <1>1, <1>2, <1>3, <1>4, <1>5, <1>6, <1>7, <1>8

LEMMA ReturnLane ==
  ASSUME LaneInv,
         \/ ReturnWaits \/ ReturnObserve \/ ReturnBegin \/ ReturnCancel \/ ReturnReady
         \/ ReturnClose \/ ReturnMark \/ ReturnDirect \/ ReturnCloseStaging \/ ReturnStaging
         \/ ReturnUnregister \/ ReturnCatchup
  PROVE  GateInv' /\ LaneStep /\ PlaceInv'
  <1> USE Names, PhaseNames, WorkerFacts, PcNames DEF LaneInv
  <1> DEFINE k == target.tunnel
  <1>0. /\ target.pc \in {"returns", "prepare", "close", "mark", "closeStaging", "unregister"}
        /\ UNCHANGED tasks
    BY DEF ReturnWaits, ReturnObserve, ReturnBegin, ReturnCancel, ReturnReady, ReturnClose,
           ReturnMark, ReturnDirect, ReturnCloseStaging, ReturnStaging, ReturnUnregister,
           ReturnCatchup, OnRoute
  <1>k. k \in Tunnels /\ target.hand = None
    BY <1>0 DEF ShapeInv, TargetHandPc
  <1>q. Incremental(k) \in Places /\ Staging(k) \in Places /\ Stock(k) \in Places
    BY <1>k
  <1>1. CASE UNCHANGED fifo /\ \E pc \in Pcs("target") : TargetTo(pc, None)
    BY <1>0, <1>1, TargetQuiet, QuietLane, SameFifo
  <1>2. CASE \E p \in Places, pc \in {"dispatch", "back"} :
               /\ fifo[p].cells # <<>> /\ fifo[p].cells[1].state # "reserved"
               /\ TargetTakes(p, pc, "loop")
    BY <1>0, <1>k, <1>2, TakesLane
  <1>3. CASE SameCells /\ \E pc \in Pcs("target") : TargetTo(pc, None)
    BY <1>0, <1>3, TargetQuiet, QuietLane
  <1>4. CASE ReturnWaits \/ ReturnObserve \/ ReturnBegin \/ ReturnCancel \/ ReturnReady \/ ReturnMark
    BY <1>1, <1>4 DEF ReturnWaits, ReturnObserve, ReturnBegin, ReturnCancel, ReturnReady, ReturnMark,
                      routing
  <1>5. CASE ReturnClose \/ ReturnCloseStaging
    <2>1. SameCells
      <3>1. CASE ReturnClose
        <4> DEFINE C == {Stock(k), Incremental(k)}
        <4>3. fifo' = [fifo EXCEPT ![Stock(k)] = WithClosed(@), ![Incremental(k)] = WithClosed(@)]
          BY <3>1 DEF ReturnClose
        <4>4. \A q \in Places : fifo'[q] = IF q \in C THEN WithClosed(fifo[q]) ELSE fifo[q]
          BY <1>k, <4>3 DEF Types
        <4>5. DOMAIN fifo' = Places /\ fifo' = [q \in Places |-> fifo'[q]]
          BY <4>3 DEF Types
        <4> HIDE DEF C
        <4> QED BY <4>4, <4>5, ClosedDoes
      <3>2. CASE ReturnCloseStaging
        <4> DEFINE C == {Staging(k)}
        <4>3. fifo' = [fifo EXCEPT ![Staging(k)] = WithClosed(@)]
          BY <3>2 DEF ReturnCloseStaging
        <4>4. \A q \in Places : fifo'[q] = IF q \in C THEN WithClosed(fifo[q]) ELSE fifo[q]
          BY <1>k, <4>3 DEF Types
        <4>5. DOMAIN fifo' = Places /\ fifo' = [q \in Places |-> fifo'[q]]
          BY <4>3 DEF Types
        <4> HIDE DEF C
        <4> QED BY <4>4, <4>5, ClosedDoes
      <3> QED BY <1>5, <3>1, <3>2
    <2> QED BY <1>3, <1>5, <2>1 DEF ReturnClose, ReturnCloseStaging
  <1>6. CASE ReturnUnregister
    <2>1. SameCells
      BY <1>k, <1>6, AllClosedTypes DEF ReturnUnregister
    <2> QED BY <1>3, <1>6, <2>1 DEF ReturnUnregister
  <1>7. CASE ReturnDirect
    <2>1. CASE /\ Poll(Incremental(k)) \in {"published", "poisoned"}
               /\ TargetTakes(Incremental(k), "back", "loop")
      <3>1. fifo[Incremental(k)].cells # <<>> /\ fifo[Incremental(k)].cells[1].state # "reserved"
        BY <2>1 DEF Poll, Cells, Head1
      <3> QED BY <1>2, <1>q, <2>1, <3>1
    <2>2. CASE UNCHANGED fifo /\ (TargetTo("loop", None) \/ TargetTo("closeStaging", None))
      BY <1>1, <2>2
    <2> QED BY <1>7, <2>1, <2>2 DEF ReturnDirect
  <1>8. CASE ReturnStaging \/ ReturnCatchup
    <2>1. CASE /\ ~Outstanding(Staging(k)) /\ Cells(Staging(k)) # <<>>
               /\ \E pc \in {"dispatch", "back"} : TargetTakes(Staging(k), pc, "loop")
      <3>1. fifo[Staging(k)].cells # <<>>
        BY <2>1 DEF Cells
      <3>2. 1 \in DOMAIN fifo[Staging(k)].cells
        BY <1>q, <3>1, HeadOf
      <3>3. fifo[Staging(k)].cells[1].state # "reserved"
        BY <2>1, <3>2 DEF Outstanding, Cells
      <3> QED BY <1>2, <1>q, <2>1, <3>1, <3>3
    <2>2. CASE UNCHANGED fifo /\ (TargetTo("loop", None) \/ TargetTo("unregister", None))
      BY <1>1, <2>2
    <2> QED BY <1>8, <2>1, <2>2 DEF ReturnStaging, ReturnCatchup
  <1> QED BY <1>4, <1>5, <1>6, <1>7, <1>8

LEMMA DrainLane ==
  ASSUME LaneInv,
         \/ DrainChosen \/ DrainClose \/ DrainItem \/ DrainStops \/ DrainDepth \/ DrainProducers
  PROVE  GateInv' /\ LaneStep /\ PlaceInv'
  <1> USE Names, PhaseNames, WorkerFacts, PcNames DEF LaneInv
  <1> DEFINE k == target.tunnel
  <1>0. /\ target.pc \in {"returns", "drainClose", "drain", "drainDepth", "drainProducers"}
    BY DEF DrainChosen, DrainClose, DrainItem, DrainStops, DrainDepth, DrainProducers
  <1>k. k \in Tunnels /\ target.hand = None
    BY <1>0 DEF ShapeInv, TargetHandPc
  <1>1. CASE DrainChosen \/ DrainStops \/ DrainDepth \/ DrainProducers
    <2>1. UNCHANGED <<tasks, fifo>> /\ \E pc \in Pcs("target") : TargetTo(pc, None)
      BY <1>1 DEF DrainChosen, DrainStops, DrainDepth, DrainProducers
    <2> QED BY <1>0, <2>1, TargetQuiet, QuietLane, SameFifo
  <1>2. CASE DrainClose
    <2>1. SameCells /\ UNCHANGED tasks /\ TargetTo("drain", None)
      BY <1>k, <1>2, AllClosedTypes DEF DrainClose
    <2> QED BY <1>0, <2>1, TargetQuiet, QuietLane
  <1>3. CASE DrainItem
    <2> DEFINE q == FailurePoll(k)
    <2>1. q \in Places
      BY <1>k, FailurePollIs
    <2>2. /\ Poll(q) \in {"published", "poisoned"}
          /\ fifo' = [fifo EXCEPT ![q] = WithoutHead(@)]
          /\ \/ /\ Poll(q) = "published" /\ at[Head1(q).task] = "queued"
                /\ SettleAs(Head1(q).task, "settled")
             \/ UNCHANGED tasks
          /\ UNCHANGED workers
      BY <1>3 DEF DrainItem
    <2> HIDE DEF q
    <2>3. PICK p \in Places : p = q
      BY <2>1
    <2>4. /\ fifo[p].cells # <<>> /\ Poll(p) = fifo[p].cells[1].state
          /\ Head1(p).task = fifo[p].cells[1].task /\ fifo[p].cells[1].state # "reserved"
      BY <2>2, <2>3 DEF Poll, Cells, Head1
    <2>5. PICK t \in Tasks : t = fifo[p].cells[1].task
      BY <2>4, HeadOf
    <2>6. Drops(p) /\ source' = source /\ target' = target
      BY <2>2, <2>3, <2>4, DroppedDoes DEF workers
    <2>7. CASE UNCHANGED tasks
      BY <1>0, <1>k, <2>4, <2>5, <2>6, <2>7, TakeKeeps, TasksStay
    <2>8. CASE /\ Poll(q) = "published" /\ at[Head1(q).task] = "queued"
               /\ SettleAs(Head1(q).task, "settled")
      <3>1. SettleAs(t, "settled") /\ at[t] = "queued" /\ fifo[p].cells[1].state = "published"
        BY <2>3, <2>4, <2>5, <2>8
      <3>d. "settled" \in Done
        BY DEF Done
      <3>2. /\ GateInv' /\ LaneStep
            /\ at' = [at EXCEPT ![t] = "settled"] /\ where' = where
        BY <3>1, <3>d, SettleAdvances
      <3>a. \A u \in Tasks : at'[u] = IF u = t THEN "settled" ELSE at[u]
        BY <3>2 DEF Types
      <3>3. ASSUME NEW u \in Tasks \ {t} PROVE Free(u) => Free(u)'
        BY <2>6, <3>a DEF Free
      <3>4. ASSUME NEW u \in Tasks \ {t}, NEW r \in Places PROVE Writing(u, r) => Writing(u, r)'
        BY <2>6, <3>2, <3>a DEF Writing, SourceWrites, TargetWrites
      <3>5. Undisturbed(t)
        BY <3>3, <3>4 DEF Undisturbed
      <3>6. CellInv' /\ UniqueInv'
        BY <2>4, <2>5, <2>6, <3>1, <3>5, DropKeeps DEF PlaceInv
      <3>7. t # source.hand
        <4>1. 1 \in 1 .. Len(fifo[p].cells)
          BY <2>4, HeadOf
        <4>2. Fits(p, fifo[p].cells[1])
          BY <4>1 DEF PlaceInv, CellInv
        <4> QED BY <2>5, <3>1, <4>2 DEF Fits, Free
      <3>8. HandInv'
        BY <1>k, <2>6, <3>a, <3>7 DEF PlaceInv, HandInv
      <3> QED BY <3>2, <3>6, <3>8 DEF PlaceInv
    <2> QED BY <2>2, <2>7, <2>8
  <1> QED BY <1>1, <1>2, <1>3

LEMMA StopLane ==
  ASSUME LaneInv,
         \/ \E s \in Slots : OtherStarts(s) \/ OtherEnds(s) \/ Shut(s)
         \/ \E m \in Stops : Stop(m)
  PROVE  GateInv' /\ LaneStep /\ PlaceInv'
  <1>w. SourceStays /\ TargetStays /\ UNCHANGED tasks
    BY DEF OtherStarts, OtherEnds, Shut, Stop, workers, SourceStays, TargetStays
  <1>1. CASE \E s \in Slots : Shut(s)
    <2>1. PICK s \in Slots : Shut(s)
      BY <1>1
    <2> DEFINE inbound == IF s = "target" THEN registered ELSE {}
               C == {p \in Places : p[1] \in inbound}
    <2>2. fifo' = [p \in Places |-> IF p[1] \in inbound THEN WithClosed(fifo[p]) ELSE fifo[p]]
      BY <2>1 DEF Shut
    <2>3. /\ DOMAIN fifo' = Places /\ fifo' = [q \in Places |-> fifo'[q]]
          /\ \A q \in Places : fifo'[q] = IF q \in C THEN WithClosed(fifo[q]) ELSE fifo[q]
      BY <2>2
    <2>4. SameCells
      <3> HIDE DEF C
      <3> QED BY <2>3, ClosedDoes DEF LaneInv
    <2> QED BY <1>w, <2>4, QuietLane
  <1>2. CASE UNCHANGED fifo
    BY <1>w, <1>2, SameFifo, QuietLane
  <1> QED BY <1>1, <1>2 DEF OtherStarts, OtherEnds, Stop

LEMMA LaneKept ==
  ASSUME LaneInv, [Next]_vars
  PROVE  LaneInv' /\ LaneStep
  <1>1. Types' /\ ShapeInv'
    BY TypesKept DEF LaneInv
  <1>2. GateInv' /\ LaneStep /\ PlaceInv'
    <2>1. CASE UNCHANGED vars
      <3>1. UNCHANGED tasks /\ SameCells /\ SourceStays /\ TargetStays
        BY <2>1, SameFifo DEF vars, workers, SourceStays, TargetStays
      <3> QED BY <3>1, QuietLane
    <2>2. CASE Next
      BY <2>2, IssueLane, SubmissionLane, SourceLane, TargetLane, ReturnLane, DrainLane, StopLane
         DEF Next, TargetWorker
    <2> QED BY <2>1, <2>2
  <1> QED BY <1>1, <1>2 DEF LaneInv

LEMMA LaneStart == Init => LaneInv /\ LaneView = [t \in Tasks |-> "unborn"]
  <1> SUFFICES ASSUME Init PROVE LaneInv /\ LaneView = [t \in Tasks |-> "unborn"]
    OBVIOUS
  <1> USE Names
  <1>1. Types /\ ShapeInv
    BY TypesStart
  <1>2. GateInv
    BY DEF Init, GateInv, Past, Done, Holding, TurnReady, Tasks
  <1>3. \A p \in Places : fifo[p].cells = <<>> /\ Len(fifo[p].cells) = 0
    BY DEF Init, EmptyFifo
  <1>4. PlaceInv
    BY <1>3 DEF Init, PlaceInv, CellInv, UniqueInv, HandInv
  <1>5. LaneView = [t \in Tasks |-> "unborn"]
    BY ViewIs DEF Init, LaneView
  <1> QED BY <1>1, <1>2, <1>4, <1>5 DEF LaneInv

(* However the tasks travel, and whatever fails or stops on the way, the   *)
(* type behaves like one strict lane: one task at a time, in the order of  *)
(* the numbers (StrictOrder of route.rs, run_business of runner.rs).       *)
THEOREM RouteImplementsLane == Spec => ImplementsLane
  <1> DEFINE L == [t \in Tasks |->
                     CASE at[t] = "new" -> "unborn"
                       [] at[t] \in Unplaced \cup {"queued", "waiting", "leased"} -> "pending"
                       [] at[t] = "running" -> "running"
                       [] OTHER -> "settled"]
  <1>l. L = LaneView /\ L' = LaneView'
    BY DEF LaneView, View
  <1>1. Init => LaneInv
    BY LaneStart
  <1>2. LaneInv /\ [Next]_vars => LaneInv'
    BY LaneKept
  <1>3. Init => Lane!Init
    <2>1. Init => L = [t \in Tasks |-> "unborn"]
      BY <1>l, LaneStart
    <2> QED BY <2>1 DEF Lane!Init, Lane!Tasks, Tasks
  <1>4. LaneInv /\ [Next]_vars => [Lane!Next]_L
    <2> SUFFICES ASSUME LaneInv, [Next]_vars, L' # L PROVE Lane!Next
      OBVIOUS
    <2>1. LaneNext
      BY <1>l, LaneKept DEF LaneStep
    <2>2. PICK t \in Tasks :
            \/ /\ L[t] = "unborn" /\ \A u \in 1..(t - 1) : L[u] # "unborn"
               /\ L' = [L EXCEPT ![t] = "pending"]
            \/ /\ L[t] = "pending" /\ \A u \in 1..(t - 1) : L[u] = "settled"
               /\ \A u \in Tasks : L[u] # "running"
               /\ L' = [L EXCEPT ![t] = "running"]
            \/ /\ L[t] \in {"pending", "running"}
               /\ L' = [L EXCEPT ![t] = "settled"]
      <3> HIDE DEF L
      <3> QED BY <1>l, <2>1 DEF LaneNext
    <2>3. Lane!Issue(t) \/ Lane!Start(t) \/ Lane!Settle(t)
      BY <2>2 DEF Lane!Issue, Lane!Start, Lane!Settle, Lane!Earlier, Lane!Tasks, Tasks
    <2> QED BY <2>3 DEF Lane!Next, Lane!Tasks, Tasks
  <1> QED BY <1>1, <1>2, <1>3, <1>4, PTL DEF Spec, ImplementsLane, Lane!Spec

-----------------------------------------------------------------------------
(* Which queues hold no cell, and which doors are open.                    *)
Empty == {p \in Places : fifo[p].cells = <<>>}
StockOpen == {k \in Tunnels : ~fifo[Stock(k)].closed /\ tunnel[k].accepting}
DirectOpen == {k \in Tunnels : ~fifo[Incremental(k)].closed /\ tunnel[k].accepting}
StagingOpen == {k \in Tunnels : ~fifo[Staging(k)].closed}
Opened == StockOpen \cap DirectOpen \cap StagingOpen
Frozen == {k \in Tunnels : tunnel[k].frozen}
Boundary == [k \in Tunnels |-> tunnel[k].source_boundary]
MainLen == Len(fifo[Main].cells)

(* A tunnel that nobody but the source worker has seen yet.                *)
Installing == {k \in Tunnels : source.pc = "install" /\ k = source.tunnel}
Fresh == {k \in Tunnels : k > opened} \cup Installing
Named == {route.tunnel} \cup Installing

(* Which tunnel is whose, as long as nobody forces a stop.                 *)
RegisterInv ==
  /\ registered \subseteq 1 .. opened
  /\ route.state # "Failed"
  /\ route.state = "Local" <=> route.tunnel = None
  /\ route.state # "Local" => route.tunnel \in registered
  /\ source.pc = "install" => route.state = "Local" /\ source.tunnel \in registered
  /\ source.pc = "finish" => route.state = "Migrating" /\ route.tunnel = source.tunnel
  /\ \A k \in registered : k \in Named \/ (target.pc = "unregister" /\ k = target.tunnel)

(* What the target worker knows of the route at each of its steps.         *)
StepInv ==
  /\ target.pc \notin {"loop", "exited", "unregister"} => target.tunnel \in Named
  /\ target.pc = "unregister" => target.tunnel \in registered \ Named
  /\ target.pc = "prepare" => route.state = "Stolen" /\ route.tunnel = target.tunnel
  /\ target.pc \in {"close", "mark"} => route.state = "ReturnPrepare" /\ route.tunnel = target.tunnel
  /\ target.pc = "closeStaging" => route.state = "LocalCatchup" /\ route.tunnel = target.tunnel
  /\ target.pc \in {"back", "backCount", "backPublish"} =>
       route.state \in {"Returning", "LocalCatchup"} /\ route.tunnel = target.tunnel
  /\ target.pc \notin {"fail", "drainClose", "drain", "drainDepth", "drainProducers"}

(* The home slot has moved everything before the first task goes to the    *)
(* incremental queue alone.                                                *)
MigrateInv ==
  /\ source.pc \in {"count", "publish"} => route.state = "Migrating" /\ route.tunnel = source.tunnel
  /\ source.pc = "stock" /\ (source.tunnel \in StockOpen \/ route.state = "Migrating") =>
       route.state = "Migrating" /\ route.tunnel = source.tunnel
  /\ route.state = "Migrating" /\ route.tunnel \in Frozen => Boundary[route.tunnel] = MainLen
  /\ Fresh \cap Frozen = {}
  /\ route.state = "Migrating" /\ source.pc \in {"dispatch", "migrate", "finish"} /\ source.hand # None
       => route.tunnel \notin StockOpen
  /\ source.pc = "finish" => Main \in Empty
  /\ route.state \in {"Stolen", "StolenCatchup", "ReturnPrepare"} =>
       Main \in Empty /\ (source.hand # None => route.tunnel \notin StockOpen)
  /\ route.state \in {"Returning", "LocalCatchup"} \/ target.pc = "mark" => route.tunnel \notin StockOpen

(* What the steps of a return have emptied.                                *)
ReturnInv ==
  /\ \/ target.pc = "prepare"
     \/ route.state \in {"ReturnPrepare", "StolenCatchup", "Returning", "LocalCatchup"}
     => Stock(route.tunnel) \in Empty
  /\ route.state = "LocalCatchup" => Incremental(route.tunnel) \in Empty
  /\ target.pc = "unregister" => QueuesOf(target.tunnel) \subseteq Empty
  /\ \A k \in Tunnels \ registered : QueuesOf(k) \subseteq Empty

(* The queue that the route names is open while the runner runs.           *)
OpenInv ==
  /\ shut = {}
  /\ Fresh \subseteq Opened
  /\ route.state \in {"Migrating", "Stolen", "StolenCatchup"} => route.tunnel \in Opened
  /\ route.state = "ReturnPrepare" /\ target.pc # "mark" => route.tunnel \in Opened
  /\ route.state \in {"ReturnPrepare", "Returning"} => route.tunnel \in StagingOpen

(* The depth of the stock counts its cells, but the one whose number the   *)
(* home worker has just taken: no submitter ever places a task in a stock. *)
Gap == [k \in Tunnels |-> Len(fifo[Stock(k)].cells) - fifo[Stock(k)].depth]
Lag == {k \in Tunnels : source.pc = "count" /\ source.tunnel = k}
DepthInv ==
  /\ \A k \in Tunnels : Gap[k] = IF k \in Lag THEN 1 ELSE 0
  /\ \A t \in Tasks, k \in Tunnels : at[t] \in {"entered", "reserved"} => where[t] # Stock(k)

CalmInv == RegisterInv /\ StepInv /\ MigrateInv /\ ReturnInv
Calm == mode # "force" => CalmInv
Doors == mode = "running" => OpenInv

(* A task that is being written has its reserved cell, and one that is     *)
(* queued has its published cell unless a worker has it in its hand.       *)
Has(t, p, s) ==
  \E i \in 1 .. Len(fifo[p].cells) : fifo[p].cells[i].task = t /\ fifo[p].cells[i].state = s

Loose == {t \in Tasks : at[t] = "queued" /\ t # source.hand /\ t # target.hand}
Stored == {t \in Tasks : \E p \in Places : Has(t, p, "published")}
Writers(p) == {t \in Tasks : Writing(t, p)}
Claimed(p) == {t \in Tasks : Has(t, p, "reserved")}

KeptInv == Loose \subseteq Stored /\ \A p \in Places : Writers(p) \subseteq Claimed(p)

SameDoors == StockOpen' = StockOpen /\ DirectOpen' = DirectOpen /\ StagingOpen' = StagingOpen
SameFlags == Frozen' = Frozen /\ Boundary' = Boundary
SameQueues == Empty' = Empty /\ MainLen' = MainLen
SameClosed == \A p \in Places : fifo'[p].closed = fifo[p].closed
SameAccepting == \A k \in Tunnels : tunnel'[k].accepting = tunnel[k].accepting

LEMMA DoorsStay == ASSUME SameClosed, SameAccepting PROVE SameDoors
  BY Names DEF SameClosed, SameAccepting, SameDoors, StockOpen, DirectOpen, StagingOpen

LEMMA FlagsStay == ASSUME UNCHANGED tunnel PROVE SameFlags /\ SameAccepting
  BY DEF SameFlags, SameAccepting, Frozen, Boundary

LEMMA FifoStays == ASSUME UNCHANGED fifo PROVE SameQueues /\ SameClosed
  BY DEF SameQueues, SameClosed, Empty, MainLen

LEMMA CellsStay == ASSUME SameCells PROVE SameQueues
  BY Names DEF SameCells, SameQueues, Empty, MainLen

LEMMA EmptyIs ==
  ASSUME Types, NEW p \in Places
  PROVE  (p \in Empty <=> Len(fifo[p].cells) = 0) /\ Len(fifo[p].cells) \in Nat
  BY CellsOf, EmptySeq DEF Empty

LEMMA AppendQueues ==
  ASSUME Types, Types', NEW p \in Places, NEW t, Appends(p, t)
  PROVE  Empty' = Empty \ {p} /\ (p # Main => MainLen' = MainLen)
  <1>1. fifo'[p].cells # <<>>
    <2>1. Len(fifo'[p].cells) = Len(fifo[p].cells) + 1 /\ Len(fifo[p].cells) \in Nat
      BY CellsOf DEF Appends
    <2> QED BY <2>1, EmptySeq
  <1>2. \A q \in Places \ {p} : fifo'[q].cells = fifo[q].cells
    BY DEF Appends, Others
  <1> QED BY <1>1, <1>2, Names DEF Empty, MainLen

LEMMA MarkQueues ==
  ASSUME Types, Types', NEW p \in Places, NEW t, NEW s, Marks(p, t, s)
  PROVE  SameQueues
  <1>1. fifo[p].cells \in Seq(Cell) /\ fifo'[p].cells \in Seq(Cell)
    BY CellsOf DEF Types, Fifo
  <1>2. fifo'[p].cells = <<>> <=> fifo[p].cells = <<>>
    BY <1>1, EmptySeq DEF Marks
  <1>3. \A q \in Places \ {p} : fifo'[q].cells = fifo[q].cells
    BY DEF Marks, Others
  <1>4. Empty' = Empty
    BY <1>2, <1>3 DEF Empty
  <1>5. MainLen' = MainLen
    <2>1. CASE p = Main
      BY <2>1 DEF Marks, MainLen
    <2>2. CASE p # Main
      BY <1>3, <2>2, Names DEF MainLen
    <2> QED BY <2>1, <2>2
  <1> QED BY <1>4, <1>5 DEF SameQueues

LEMMA DropQueues ==
  ASSUME Types, NEW p \in Places, fifo[p].cells # <<>>, Drops(p)
  PROVE  /\ Empty \subseteq Empty' /\ Empty' \subseteq Empty \cup {p} /\ p \notin Empty
         /\ MainLen' = IF p = Main THEN MainLen - 1 ELSE MainLen
  <1>1. \A q \in Places \ {p} : fifo'[q].cells = fifo[q].cells
    BY DEF Drops, Others
  <1>2. Empty \subseteq Empty' /\ Empty' \subseteq Empty \cup {p} /\ p \notin Empty
    BY <1>1 DEF Empty
  <1>3. MainLen' = IF p = Main THEN MainLen - 1 ELSE MainLen
    <2>1. CASE p = Main
      BY <2>1 DEF Drops, MainLen
    <2>2. CASE p # Main
      BY <1>1, <2>2, Names DEF MainLen
    <2> QED BY <2>1, <2>2
  <1> QED BY <1>2, <1>3

Base == Types /\ ShapeInv /\ Types' /\ ShapeInv'

SameRoute == UNCHANGED <<route, opened, registered>>

LEMMA MainLenIs == ASSUME Types PROVE MainLen \in Nat /\ (Main \in Empty <=> MainLen = 0)
  BY EmptyIs, Names DEF MainLen

(* A step that moves neither worker nor route, and opens no door.          *)
LEMMA CalmFrame ==
  ASSUME CalmInv, SameRoute, UNCHANGED workers, SameFlags, SameQueues, StockOpen' \subseteq StockOpen
  PROVE  CalmInv'
  <1>1. source' = source /\ target' = target
    BY DEF workers
  <1>2. RegisterInv'
    BY <1>1 DEF CalmInv, SameRoute, RegisterInv, Named, Installing
  <1>3. StepInv'
    BY <1>1 DEF CalmInv, SameRoute, StepInv, Named, Installing
  <1>4. MigrateInv'
    BY <1>1 DEF CalmInv, SameRoute, MigrateInv, Fresh, Installing, SameFlags, SameQueues
  <1>5. ReturnInv'
    BY <1>1 DEF CalmInv, SameRoute, ReturnInv, SameQueues
  <1> QED BY <1>2, <1>3, <1>4, <1>5 DEF CalmInv

LEMMA OpenFrame ==
  ASSUME OpenInv, SameRoute, UNCHANGED <<workers, shut>>, SameDoors
  PROVE  OpenInv'
  BY DEF workers, OpenInv, SameRoute, Fresh, Installing, Opened, SameDoors

DestinationCase(d) ==
  \/ d = Main /\ route.state \in {"Local", "LocalCatchup"}
  \/ /\ route.tunnel \in Tunnels /\ d = Incremental(route.tunnel)
     /\ route.state \in {"Migrating", "Stolen", "StolenCatchup"}
  \/ /\ route.tunnel \in Tunnels /\ d = Staging(route.tunnel)
     /\ route.state \in {"ReturnPrepare", "Returning", "Failed"}

LEMMA DestinationCases ==
  ASSUME Types, ShapeInv
  PROVE  DestinationCase(Destination)
  <1>1. route.state \in RouteState /\ (route.state # "Local" => route.tunnel \in Tunnels)
    BY WorkerFacts DEF ShapeInv
  <1> QED BY <1>1 DEF Destination, DestinationCase, RouteState

LEMMA QueuesApart ==
  ASSUME NEW k \in Tunnels
  PROVE  /\ QueuesOf(k) = {Stock(k), Incremental(k), Staging(k)} /\ Main \notin QueuesOf(k)
         /\ \A j \in Tunnels \ {k} : QueuesOf(k) \cap QueuesOf(j) = {}
  BY Names DEF QueuesOf

(* A task reserves a cell of the queue that the route names.               *)
LEMMA CalmAppends ==
  ASSUME Base, CalmInv, SameRoute, UNCHANGED workers, SameFlags, SameDoors,
         NEW d \in Places, DestinationCase(d), Empty' = Empty \ {d},
         d # Main => MainLen' = MainLen
  PROVE  CalmInv'
  <1>1. source' = source /\ target' = target
    BY DEF workers
  <1>d. \A k \in Tunnels : Stock(k) # d /\ (k # route.tunnel => d \notin QueuesOf(k))
    BY Names DEF DestinationCase, QueuesOf
  <1>2. RegisterInv'
    BY <1>1 DEF CalmInv, SameRoute, RegisterInv, Named, Installing
  <1>3. StepInv'
    BY <1>1 DEF CalmInv, SameRoute, StepInv, Named, Installing
  <1>4. MigrateInv'
    <2>1. route.state \notin {"Local", "LocalCatchup"} => MainLen' = MainLen /\ (Main \in Empty => Main \in Empty')
      BY Names DEF DestinationCase
    <2> QED BY <1>1, <2>1 DEF CalmInv, SameRoute, MigrateInv, RegisterInv, Fresh, Installing, SameFlags, SameDoors
  <1>5. ReturnInv'
    <2>1. route.state # "Local" => route.tunnel \in Tunnels /\ route.tunnel \in registered
      BY DEF Base, ShapeInv, CalmInv, RegisterInv
    <2>2. /\ target.pc = "unregister" => target.tunnel \in Tunnels /\ target.tunnel # route.tunnel
      BY DEF Base, ShapeInv, CalmInv, StepInv, Named
    <2>3. target.pc = "prepare" => route.tunnel \in Tunnels
      BY <2>1 DEF CalmInv, StepInv
    <2>4. \A k \in Tunnels \ registered : d \notin QueuesOf(k)
      <3>1. CASE d = Main
        BY <3>1, QueuesApart
      <3>2. CASE d # Main
        BY <1>d, <2>1, <3>2 DEF DestinationCase
      <3> QED BY <3>1, <3>2
    <2>5. route.state = "LocalCatchup" => Incremental(route.tunnel) # d
      BY <2>1, Names DEF DestinationCase
    <2> QED BY <1>1, <1>d, <2>1, <2>2, <2>3, <2>4, <2>5 DEF CalmInv, SameRoute, ReturnInv
  <1> QED BY <1>2, <1>3, <1>4, <1>5 DEF CalmInv

LEMMA SubmissionCalm ==
  ASSUME Base, CalmInv, Issue \/ \E t \in Tasks : Submission(t) \/ Business(t) \/ Caller(t)
  PROVE  CalmInv' /\ (OpenInv => OpenInv')
  <1> USE Names DEF Base
  <1>0. SameRoute /\ UNCHANGED <<workers, tunnel, shut>>
    BY DEF Issue, Submission, Business, Caller, Reserve, Refuse, Count, Publish, Withdraw,
           CancelQueued, CancelWaiting, Lease, LeaseRefused, VoidEnds, Run, Finish, Release, Abort,
           SameRoute, routing, control
  <1>f. SameFlags /\ SameAccepting
    BY <1>0, FlagsStay
  <1>1. CASE SameQueues /\ SameClosed
    BY <1>0, <1>1, <1>f, DoorsStay, CalmFrame, OpenFrame DEF SameDoors
  <1>2. CASE UNCHANGED fifo
    BY <1>1, <1>2, FifoStays
  <1>3. ASSUME NEW t \in Tasks, Count(t) PROVE SameQueues /\ SameClosed
    <2>1. where[t] \in Places /\ fifo' = [fifo EXCEPT ![where[t]] = WithDepth(@)]
      BY <1>3 DEF Count, ShapeInv
    <2> QED BY <2>1, CountedDoes, CellsStay DEF SameClosed
  <1>4. ASSUME NEW t \in Tasks, Publish(t) \/ Withdraw(t) PROVE SameQueues /\ SameClosed
    <2>1. where[t] \in Places
      BY <1>4 DEF Publish, Withdraw, ShapeInv
    <2>2. PICK s \in {"published", "poisoned"} : fifo' = [fifo EXCEPT ![where[t]] = WithState(@, t, s)]
      BY <1>4 DEF Publish, Withdraw
    <2> QED BY <2>1, <2>2, MarkedDoes, MarkQueues DEF SameClosed
  <1>5. ASSUME NEW t \in Tasks, Reserve(t) PROVE CalmInv' /\ (OpenInv => OpenInv')
    <2>1. PICK d \in Places : d = Destination
      BY DestinationIs
    <2>2. fifo' = [fifo EXCEPT ![d] = WithReserved(@, t)]
      BY <1>5, <2>1 DEF Reserve
    <2>3. Appends(d, t) /\ SameClosed
      BY <2>2, ReservedDoes DEF SameClosed
    <2>4. Empty' = Empty \ {d} /\ (d # Main => MainLen' = MainLen)
      BY <2>3, AppendQueues
    <2>5. DestinationCase(d)
      BY <2>1, DestinationCases
    <2>6. SameDoors
      BY <1>f, <2>3, DoorsStay
    <2> QED BY <1>0, <1>f, <2>4, <2>5, <2>6, CalmAppends, OpenFrame
  <1> QED BY <1>1, <1>2, <1>3, <1>4, <1>5
          DEF Issue, Submission, Business, Caller, Refuse, CancelQueued, CancelWaiting, Lease,
              LeaseRefused, VoidEnds, Run, Finish, Release, Abort

-----------------------------------------------------------------------------
(* The source worker moves on without touching the route.                  *)
LEMMA SourceFrame ==
  ASSUME CalmInv, SameRoute, target' = target, Empty \subseteq Empty',
         source.pc # "install", source'.pc \notin {"install", "finish"}
  PROVE  RegisterInv' /\ StepInv' /\ ReturnInv'
  <1>1. RegisterInv'
    BY DEF CalmInv, SameRoute, RegisterInv, Named, Installing
  <1>2. StepInv'
    BY DEF CalmInv, SameRoute, StepInv, Named, Installing
  <1>3. ReturnInv'
    BY DEF CalmInv, SameRoute, ReturnInv
  <1> QED BY <1>1, <1>2, <1>3

LEMMA SourceOpenFrame ==
  ASSUME OpenInv, SameRoute, target' = target, UNCHANGED shut, SameDoors,
         source.pc # "install", source'.pc # "install"
  PROVE  OpenInv'
  BY DEF OpenInv, SameRoute, Fresh, Installing, Opened, SameDoors

(* Its steps that leave main, the doors and the boundary as they are.      *)
LEMMA SourceStillCalm ==
  ASSUME CalmInv, SameRoute, target' = target, SameQueues, SameFlags, SameDoors,
         source.pc # "install", source'.pc \notin {"install", "finish"},
         source'.hand \in {source.hand, None}, UNCHANGED shut,
         (\/ source'.pc \in {"count", "publish"}
          \/ source'.pc = "stock" /\ (source'.tunnel \in StockOpen \/ route.state = "Migrating"))
           => route.state = "Migrating" /\ route.tunnel = source'.tunnel,
         route.state = "Migrating" /\ source'.pc \in {"dispatch", "migrate"} /\ source'.hand # None =>
           route.tunnel \notin StockOpen
  PROVE  CalmInv' /\ (OpenInv => OpenInv')
  <1>1. RegisterInv' /\ StepInv' /\ ReturnInv'
    BY SourceFrame DEF SameQueues
  <1>2. MigrateInv'
    BY DEF CalmInv, MigrateInv, SameRoute, Fresh, Installing, SameFlags, SameDoors, SameQueues
  <1> QED BY <1>1, <1>2, SourceOpenFrame DEF CalmInv

LEMMA SourceCalm ==
  ASSUME Base, CalmInv, mode # "force", StealRegister \/ SourceWorker
  PROVE  CalmInv' /\ (OpenInv => OpenInv')
  <1> USE Names, WorkerFacts DEF Base
  <1>1. CASE StealRegister
    <2>1. /\ source.pc = "loop" /\ route.state = "Local" /\ opened' = opened + 1
          /\ registered' = registered \cup {opened + 1}
          /\ source'.pc = "install" /\ source'.hand = source.hand /\ source'.tunnel = opened + 1
          /\ target' = target /\ UNCHANGED <<route, tunnel, fifo, shut>>
      BY <1>1 DEF StealRegister, SourceTo, control
    <2>2. SameFlags /\ SameDoors /\ SameQueues
      BY <2>1, FlagsStay, FifoStays, DoorsStay
    <2>3. opened \in Nat /\ opened + 1 \in Tunnels /\ registered \subseteq 1 .. opened
      BY <1>1 DEF StealRegister, Types, Tunnels, CalmInv, RegisterInv
    <2>4. RegisterInv'
      BY <2>1, <2>3 DEF CalmInv, RegisterInv, Named, Installing
    <2>5. StepInv'
      <3>1. target.pc = "unregister" => target.tunnel # opened + 1
        BY <2>3 DEF CalmInv, StepInv
      <3> QED BY <2>1, <3>1 DEF CalmInv, StepInv, Named, Installing
    <2>f. Fresh' \subseteq Fresh
      BY <2>1, <2>3 DEF Fresh, Installing, Tunnels
    <2>6. MigrateInv'
      BY <2>1, <2>2, <2>f DEF CalmInv, MigrateInv, RegisterInv, StepInv, SameFlags, SameDoors, SameQueues
    <2>7. ReturnInv'
      BY <2>1, <2>2 DEF CalmInv, ReturnInv, SameQueues
    <2>8. OpenInv => OpenInv'
      BY <2>1, <2>2, <2>f DEF OpenInv, Opened, SameDoors
    <2> QED BY <2>4, <2>5, <2>6, <2>7, <2>8 DEF CalmInv
  <1>2. CASE StealInstall
    <2>1. /\ source.pc = "install" /\ route' = [state |-> "Migrating", tunnel |-> source.tunnel]
          /\ source'.pc = "serve" /\ source'.hand = source.hand
          /\ target' = target /\ UNCHANGED <<opened, registered, tunnel, fifo, shut>>
      BY <1>2 DEF StealInstall, SourceTo, RouteTo, control
    <2>2. SameFlags /\ SameDoors /\ SameQueues
      BY <2>1, FlagsStay, FifoStays, DoorsStay
    <2>r. route'.state = "Migrating" /\ route'.tunnel = source.tunnel
      BY <2>1
    <2>3. /\ source.tunnel \in Tunnels /\ source.tunnel \in Fresh /\ source.tunnel \in registered
          /\ route.state = "Local" /\ route.tunnel = None /\ Installing = {source.tunnel}
      BY <2>1 DEF ShapeInv, SourceTunnelPc, Fresh, Installing, CalmInv, RegisterInv
    <2>4. Installing' = {} /\ Named' = {source.tunnel} /\ Named = {None, source.tunnel}
      BY <2>1, <2>r, <2>3 DEF Installing, Named
    <2>5. RegisterInv'
      <3>1. None \notin registered
        BY DEF Types
      <3> QED BY <2>1, <2>r, <2>3, <2>4, <3>1 DEF CalmInv, RegisterInv
    <2>6. StepInv'
      <3>1. target.pc \notin {"loop", "exited"} => target.tunnel \in Tunnels
        BY DEF ShapeInv
      <3> QED BY <2>1, <2>r, <2>3, <2>4, <3>1 DEF CalmInv, StepInv
    <2>f. Fresh' \subseteq Fresh
      BY <2>1, <2>4 DEF Fresh
    <2>7. MigrateInv'
      BY <2>1, <2>r, <2>2, <2>3, <2>f DEF CalmInv, MigrateInv, StepInv, SameFlags, SameDoors, SameQueues
    <2>8. ReturnInv'
      BY <2>1, <2>r, <2>2, <2>3 DEF CalmInv, ReturnInv, StepInv, SameQueues
    <2>9. OpenInv => OpenInv'
      BY <2>1, <2>r, <2>2, <2>3, <2>f DEF OpenInv, Opened, SameDoors
    <2> QED BY <2>5, <2>6, <2>7, <2>8, <2>9 DEF CalmInv
  <1>3. CASE SourceResume \/ SourceIdle \/ SourceRoute \/ SourceDispatch \/ SourceExit
    <2>1. /\ SameRoute /\ target' = target /\ UNCHANGED <<tunnel, fifo, shut>>
          /\ source.pc \in {"loop", "serve", "route", "dispatch"}
          /\ source'.pc \in {"migrate", "route", "stock", "dispatch", "exited"}
          /\ source'.hand \in {source.hand, None}
          /\ source'.pc = "stock" => /\ source.pc = "route" /\ source'.tunnel = route.tunnel
                                     /\ route.state \in {"Migrating", "Stolen"}
          /\ source'.pc = "dispatch" => source.pc = "route" /\ route.state # "Migrating"
          /\ source'.pc = "migrate" => source.pc = "dispatch" \/ source'.hand = None
      BY <1>3 DEF SourceResume, SourceIdle, SourceRoute, SourceDispatch, SourceExit, SourceTo, routing,
                  control, SameRoute
    <2>2. SameFlags /\ SameDoors /\ SameQueues
      BY <2>1, FlagsStay, FifoStays, DoorsStay
    <2>3. source'.pc = "stock" /\ (source'.tunnel \in StockOpen \/ route.state = "Migrating") =>
            route.state = "Migrating" /\ route.tunnel = source'.tunnel
      <3>1. source.pc = "route" => source.hand # None
        BY DEF ShapeInv, SourceHandPc
      <3> QED BY <2>1, <3>1 DEF CalmInv, MigrateInv
    <2>4. route.state = "Migrating" /\ source'.pc \in {"dispatch", "migrate"} /\ source'.hand # None =>
            route.tunnel \notin StockOpen
      BY <2>1 DEF CalmInv, MigrateInv
    <2> QED BY <2>1, <2>2, <2>3, <2>4, SourceStillCalm
  <1>4. CASE SourceTake
    <2>1. /\ source.pc \in {"loop", "serve"} /\ source.hand = None /\ SameRoute /\ UNCHANGED shut
          /\ target' = target /\ source'.pc \in {"route", "migrate"}
          /\ source'.pc = "migrate" => source'.hand = None
          /\ Poll(Main) \in {"published", "poisoned"}
          /\ fifo' = [fifo EXCEPT ![Main] = WithoutHead(@)] /\ BoundaryConsumed
      BY <1>4 DEF SourceTake, Deferred, SourceTo, SameRoute, control
    <2>2. fifo[Main].cells # <<>>
      BY <2>1 DEF Poll, Cells
    <2>3. Drops(Main) /\ SameClosed
      BY <2>1, <2>2, DroppedDoes DEF SameClosed
    <2>4. Empty \subseteq Empty' /\ Main \notin Empty /\ MainLen' = MainLen - 1
      BY <2>2, <2>3, DropQueues
    <2>5. ASSUME NEW k \in Tunnels
          PROVE  /\ tunnel'[k].accepting = tunnel[k].accepting /\ tunnel'[k].frozen = tunnel[k].frozen
                 /\ tunnel'[k].source_boundary = IF tunnel[k].source_boundary > 0
                                                 THEN tunnel[k].source_boundary - 1
                                                 ELSE tunnel[k].source_boundary
      <3> DEFINE n == IF tunnel[k].source_boundary > 0 THEN tunnel[k].source_boundary - 1
                      ELSE tunnel[k].source_boundary
      <3>1. tunnel[k] \in TunnelType
        BY DEF Types
      <3>2. tunnel'[k] = [tunnel[k] EXCEPT !.source_boundary = n]
        BY <2>1 DEF BoundaryConsumed
      <3> HIDE DEF n
      <3>3. /\ tunnel'[k].accepting = tunnel[k].accepting /\ tunnel'[k].frozen = tunnel[k].frozen
            /\ tunnel'[k].source_boundary = n
        BY <3>1, <3>2 DEF TunnelType
      <3> QED BY <3>3 DEF n
    <2>6. SameDoors /\ Frozen' = Frozen
      BY <2>3, <2>5, DoorsStay DEF SameAccepting, Frozen
    <2>7. \A k \in Tunnels : Boundary[k] = MainLen => Boundary'[k] = MainLen'
      <3>1. MainLen \in Nat /\ MainLen # 0
        BY <2>4, MainLenIs
      <3> QED BY <2>4, <2>5, <3>1 DEF Boundary
    <2>8. RegisterInv' /\ StepInv' /\ ReturnInv'
      BY <2>1, <2>4, SourceFrame
    <2>9. MigrateInv'
      <3>1. route.state # "Local" => route.tunnel \in Tunnels
        BY DEF ShapeInv
      <3> QED BY <2>1, <2>4, <2>6, <2>7, <3>1
              DEF CalmInv, MigrateInv, SameRoute, Fresh, Installing, SameDoors
    <2> QED BY <2>1, <2>6, <2>8, <2>9, SourceOpenFrame DEF CalmInv
  <1>5. CASE SourceStock
    <2>1. source.hand \in Tasks /\ source.tunnel \in Tunnels /\ source.pc = "stock"
      BY <1>5 DEF SourceStock, ShapeInv, SourceHandPc, SourceTunnelPc
    <2>2. SameRoute /\ UNCHANGED <<tunnel, shut>> /\ SameFlags /\ SameAccepting
      BY <1>5, FlagsStay DEF SourceStock, routing, control, SameRoute
    <2>o. Open(Stock(source.tunnel)) <=> source.tunnel \in StockOpen
      BY <2>1 DEF Open, StockOpen, Stock, Staging, Main, None, Tunnels
    <2>3. CASE source.tunnel \in StockOpen
      <3>1. PICK t \in Tasks, k \in Tunnels : t = source.hand /\ k = source.tunnel
        BY <2>1
      <3>2. /\ fifo' = [fifo EXCEPT ![Stock(k)] = WithReserved(@, t)] /\ target' = target
            /\ source'.pc = "count" /\ source'.hand = t /\ source'.tunnel = k
        BY <1>5, <2>o, <2>3, <3>1 DEF SourceStock, SourceTo
      <3>3. Stock(k) \in Places /\ Stock(k) # Main
        OBVIOUS
      <3>4. Appends(Stock(k), t) /\ SameClosed
        BY <3>2, <3>3, ReservedDoes DEF SameClosed
      <3>5. Empty' = Empty \ {Stock(k)} /\ MainLen' = MainLen
        BY <3>3, <3>4, AppendQueues
      <3>6. SameDoors
        BY <2>2, <3>4, DoorsStay
      <3>7. route.state = "Migrating" /\ route.tunnel = k /\ k \in registered
        BY <2>1, <2>3, <3>1 DEF CalmInv, MigrateInv, RegisterInv
      <3>8. RegisterInv'
        BY <2>1, <2>2, <3>2 DEF CalmInv, SameRoute, RegisterInv, Named, Installing
      <3>9. StepInv'
        BY <2>1, <2>2, <3>2 DEF CalmInv, SameRoute, StepInv, Named, Installing
      <3>10. MigrateInv'
        BY <2>1, <2>2, <3>2, <3>3, <3>5, <3>6, <3>7
           DEF CalmInv, MigrateInv, SameRoute, Fresh, Installing, SameFlags, SameDoors
      <3>11. ReturnInv'
        <4>1. target.pc = "unregister" => target.tunnel \in Tunnels \ {k}
          BY <3>7 DEF ShapeInv, CalmInv, StepInv, Named
        <4>2. \A j \in Tunnels \ {k} : Stock(k) \notin QueuesOf(j)
          BY DEF QueuesOf
        <4>3. target.pc # "prepare"
          BY <3>7 DEF CalmInv, StepInv
        <4>4. ASSUME NEW j \in Tunnels \ registered' PROVE QueuesOf(j) \subseteq Empty'
          BY <2>2, <3>5, <3>7, <4>2 DEF CalmInv, ReturnInv, SameRoute
        <4>5. target'.pc = "unregister" => QueuesOf(target'.tunnel) \subseteq Empty'
          BY <3>2, <3>5, <4>1, <4>2 DEF CalmInv, ReturnInv
        <4> QED BY <2>2, <3>2, <3>7, <4>3, <4>4, <4>5 DEF ReturnInv, SameRoute
      <3> QED BY <2>1, <2>2, <3>2, <3>6, <3>8, <3>9, <3>10, <3>11, SourceOpenFrame DEF CalmInv
    <2>4. CASE source.tunnel \notin StockOpen
      <3>1. /\ UNCHANGED fifo /\ target' = target /\ source'.pc = "dispatch" /\ source'.hand = source.hand
        BY <1>5, <2>o, <2>4 DEF SourceStock, SourceTo
      <3>2. SameDoors /\ SameQueues
        BY <2>2, <3>1, FifoStays, DoorsStay
      <3>3. RegisterInv' /\ StepInv' /\ ReturnInv'
        BY <2>1, <2>2, <3>1, <3>2, SourceFrame DEF SameQueues
      <3>4. route.state = "Migrating" => route.tunnel \notin StockOpen
        BY <2>1, <2>4 DEF CalmInv, MigrateInv
      <3> QED BY <2>1, <2>2, <3>1, <3>2, <3>4, SourceStillCalm
    <2> QED BY <2>3, <2>4
  <1>6. CASE SourceCount \/ SourcePublish
    <2>1. source.hand \in Tasks /\ source.tunnel \in Tunnels /\ source.pc \in {"count", "publish"}
      BY <1>6 DEF SourceCount, SourcePublish, ShapeInv, SourceHandPc, SourceTunnelPc
    <2>2. SameRoute /\ UNCHANGED <<tunnel, shut>> /\ SameFlags /\ SameAccepting /\ target' = target
      BY <1>6, FlagsStay DEF SourceCount, SourcePublish, SourceTo, routing, control, SameRoute
    <2>3. PICK t \in Tasks, k \in Tunnels : t = source.hand /\ k = source.tunnel
      BY <2>1
    <2>4. Stock(k) \in Places
      OBVIOUS
    <2>5. SameQueues /\ SameClosed
      <3>1. CASE SourceCount
        <4>1. fifo' = [fifo EXCEPT ![Stock(k)] = WithDepth(@)]
          BY <2>3, <3>1 DEF SourceCount
        <4> QED BY <2>4, <4>1, CountedDoes, CellsStay DEF SameClosed
      <3>2. CASE SourcePublish
        <4>1. fifo' = [fifo EXCEPT ![Stock(k)] = WithState(@, t, "published")]
          BY <2>3, <3>2 DEF SourcePublish
        <4> QED BY <2>4, <4>1, MarkedDoes, MarkQueues DEF SameClosed
      <3> QED BY <1>6, <3>1, <3>2
    <2>6. SameDoors
      BY <2>2, <2>5, DoorsStay
    <2>7. \/ source'.pc = "publish" /\ source'.hand = source.hand /\ source'.tunnel = source.tunnel
          \/ source'.pc = "migrate" /\ source'.hand = None
      BY <1>6 DEF SourceCount, SourcePublish, SourceTo
    <2>8. route.state = "Migrating" /\ route.tunnel = source.tunnel
      BY <2>1 DEF CalmInv, MigrateInv
    <2> QED BY <2>1, <2>2, <2>5, <2>6, <2>7, <2>8, SourceStillCalm
  <1>7. CASE SourceMigrate
    <2>1. /\ source.pc = "migrate" /\ SameRoute /\ UNCHANGED <<fifo, shut>> /\ target' = target
          /\ source'.hand = source.hand
      BY <1>7 DEF SourceMigrate, SourceTo, SameRoute, control
    <2>2. SameQueues /\ SameClosed
      BY <2>1, FifoStays
    <2>3. CASE route.state # "Migrating"
      <3>1. UNCHANGED tunnel /\ source'.pc = "loop"
        BY <1>7, <2>3 DEF SourceMigrate, SourceTo
      <3>2. SameFlags /\ SameDoors
        BY <2>2, <3>1, FlagsStay, DoorsStay
      <3> QED BY <2>1, <2>2, <3>1, <3>2, SourceStillCalm
    <2>4. CASE route.state = "Migrating"
      <3>k. PICK k \in Tunnels : k = route.tunnel
        BY <2>4 DEF ShapeInv
      <3> DEFINE a == IF tunnel[k].frozen THEN tunnel[k].source_boundary ELSE MainLen
      <3>1. /\ tunnel' = [tunnel EXCEPT ![k].frozen = TRUE, ![k].source_boundary = a,
                                        ![k].migration_complete = (a = 0)]
            /\ IF a = 0 THEN SourceTo("finish", source.hand, k) ELSE SourceTo("loop", source.hand, None)
        BY <1>7, <2>4, <3>k DEF SourceMigrate, MainLen, Cells
      <3>2. a = MainLen
        BY <2>4, <3>k DEF CalmInv, MigrateInv, Frozen, Boundary
      <3> HIDE DEF a
      <3>3. /\ tunnel'[k].frozen /\ tunnel'[k].source_boundary = a
            /\ tunnel'[k].accepting = tunnel[k].accepting
        <4>1. tunnel[k] \in TunnelType
          BY DEF Types
        <4>2. tunnel'[k] = [tunnel[k] EXCEPT !.frozen = TRUE, !.source_boundary = a,
                                             !.migration_complete = (a = 0)]
          BY <3>1 DEF Types
        <4> QED BY <4>1, <4>2 DEF TunnelType
      <3>4. \A j \in Tunnels \ {k} : tunnel'[j] = tunnel[j]
        BY <3>1 DEF Types
      <3>5. SameAccepting
        BY <3>3, <3>4 DEF SameAccepting
      <3>6. SameDoors
        BY <2>2, <3>5, DoorsStay
      <3>7. /\ Frozen' = Frozen \cup {k} /\ Boundary'[k] = MainLen
        BY <3>2, <3>3, <3>4 DEF Frozen, Boundary
      <3>8. /\ source'.pc \in {"loop", "finish"}
            /\ source'.pc = "finish" => source'.tunnel = k /\ Main \in Empty
        BY <3>1, <3>2, MainLenIs DEF SourceTo
      <3>9. RegisterInv'
        BY <2>1, <2>4, <3>k, <3>8 DEF CalmInv, SameRoute, RegisterInv, Named, Installing
      <3>10. StepInv'
        BY <2>1, <3>8 DEF CalmInv, SameRoute, StepInv, Named, Installing
      <3>11. k \notin Fresh
        <4>1. k \in 1 .. opened /\ opened \in Nat
          BY <2>4, <3>k DEF CalmInv, RegisterInv, Types
        <4> QED BY <2>1, <4>1 DEF Fresh, Installing
      <3>12. MigrateInv'
        BY <2>1, <2>2, <2>4, <3>k, <3>6, <3>7, <3>8, <3>11
           DEF CalmInv, MigrateInv, SameRoute, Fresh, Installing, SameQueues, SameDoors
      <3>13. ReturnInv'
        BY <2>1, <2>2 DEF CalmInv, ReturnInv, SameRoute, SameQueues
      <3> QED BY <2>1, <3>6, <3>8, <3>9, <3>10, <3>12, <3>13, SourceOpenFrame DEF CalmInv
    <2> QED BY <2>3, <2>4
  <1>8. CASE SourceFinish
    <2>1. /\ source.pc = "finish" /\ UNCHANGED <<fifo, tunnel, opened, registered, shut>>
          /\ target' = target /\ source'.pc = "loop" /\ source'.hand = source.hand
      BY <1>8 DEF SourceFinish, SourceTo, control
    <2>2. route.state = "Migrating" /\ route.tunnel = source.tunnel
      BY <2>1 DEF CalmInv, RegisterInv
    <2>3. route'.state = "Stolen" /\ route'.tunnel = route.tunnel
      BY <1>8, <2>2 DEF SourceFinish, RouteTo
    <2>4. SameFlags /\ SameDoors /\ SameQueues
      BY <2>1, FlagsStay, FifoStays, DoorsStay
    <2>5. RegisterInv'
      BY <2>1, <2>2, <2>3 DEF CalmInv, RegisterInv, Named, Installing
    <2>6. StepInv'
      BY <2>1, <2>2, <2>3 DEF CalmInv, StepInv, Named, Installing
    <2>7. MigrateInv'
      BY <2>1, <2>2, <2>3, <2>4 DEF CalmInv, MigrateInv, StepInv, Fresh, Installing, SameFlags, SameDoors, SameQueues
    <2>8. ReturnInv'
      BY <2>1, <2>2, <2>3, <2>4 DEF CalmInv, ReturnInv, StepInv, SameQueues
    <2>9. OpenInv => OpenInv'
      BY <2>1, <2>2, <2>3, <2>4 DEF OpenInv, Fresh, Installing, Opened, SameDoors
    <2> QED BY <2>5, <2>6, <2>7, <2>8, <2>9 DEF CalmInv
  <1> QED BY <1>1, <1>2, <1>3, <1>4, <1>5, <1>6, <1>7, <1>8 DEF SourceWorker

-----------------------------------------------------------------------------
(* The target worker moves on without touching the route.                  *)
LEMMA TargetFrame ==
  ASSUME CalmInv, SameRoute, source' = source, SameFlags, Empty \subseteq Empty', MainLen' = MainLen,
         StockOpen' \subseteq StockOpen, StepInv',
         target.pc # "unregister", target'.pc \notin {"unregister", "prepare", "mark"}
  PROVE  CalmInv'
  <1>1. RegisterInv'
    BY DEF CalmInv, SameRoute, RegisterInv, Named, Installing
  <1>2. MigrateInv'
    BY DEF CalmInv, SameRoute, MigrateInv, Fresh, Installing, SameFlags
  <1>3. ReturnInv'
    BY DEF CalmInv, SameRoute, ReturnInv
  <1> QED BY <1>1, <1>2, <1>3 DEF CalmInv

LEMMA TargetOpenFrame ==
  ASSUME OpenInv, SameRoute, source' = source, UNCHANGED shut, SameDoors, target.pc # "mark"
  PROVE  OpenInv'
  BY DEF OpenInv, SameRoute, Fresh, Installing, Opened, SameDoors

(* At the steps between two looks at the route the worker only knows that  *)
(* its tunnel is the one of the route, or about to be.                     *)
LEMMA TargetPlain ==
  ASSUME CalmInv, SameRoute, source' = source, SameFlags, Empty \subseteq Empty', MainLen' = MainLen,
         SameDoors, UNCHANGED shut, target.pc \notin {"unregister", "mark"},
         target'.pc \in {"loop", "exited", "stock", "incremental", "dispatch", "returns"},
         target'.pc \in {"loop", "exited"} \/ target'.tunnel \in Named
  PROVE  CalmInv' /\ (OpenInv => OpenInv')
  <1>1. StepInv'
    BY DEF SameRoute, StepInv, Named, Installing
  <1> QED BY <1>1, TargetFrame, TargetOpenFrame DEF SameDoors

LEMMA TakesCalm ==
  ASSUME Base, NEW p \in Places, p # Main, fifo[p].cells # <<>>, NEW pc \in Pcs("target"),
         NEW otherwise \in Pcs("target"), TargetTakes(p, pc, otherwise)
  PROVE  /\ Empty \subseteq Empty' /\ MainLen' = MainLen /\ SameClosed /\ source' = source
         /\ target'.tunnel = target.tunnel /\ target'.pc \in {pc, otherwise}
  <1> USE DEF Base
  <1>1. fifo' = [fifo EXCEPT ![p] = WithoutHead(@)]
    BY DEF TargetTakes
  <1>2. Drops(p) /\ SameClosed
    BY <1>1, DroppedDoes DEF SameClosed
  <1>3. Head1(p).task \in Tasks \cup {None}
    BY HeadOf DEF Head1, Cells
  <1>4. source' = source /\ target'.tunnel = target.tunnel /\ target'.pc \in {pc, otherwise}
    BY <1>3, WorkerFacts, TargetToDoes DEF TargetTakes
  <1> QED BY <1>2, <1>4, DropQueues

(* Every step of the target but those of a return.                         *)
LEMMA TargetCalm ==
  ASSUME Base, CalmInv, mode # "force", ~Overlaps, ~MayFail,
         \/ \E k \in Tunnels : TargetTurn(k)
         \/ TargetStock \/ TargetIncremental \/ TargetDispatch \/ TargetFails \/ TargetFailRoute
         \/ TargetExit \/ DrainChosen \/ DrainClose \/ DrainItem \/ DrainStops \/ DrainDepth
         \/ DrainProducers
  PROVE  CalmInv' /\ (OpenInv => OpenInv')
  <1> USE Names, WorkerFacts, PcNames DEF Base
  <1>1. CASE TargetFails \/ TargetFailRoute \/ DrainChosen \/ DrainClose \/ DrainItem \/ DrainStops
             \/ DrainDepth \/ DrainProducers
    <2>1. CASE DrainChosen
      <3>1. target.tunnel \in Named /\ route.state # "Failed"
        BY <2>1 DEF DrainChosen, CalmInv, StepInv, RegisterInv
      <3> QED BY <2>1, <3>1 DEF DrainChosen, Named, Installing
    <2>2. CASE TargetFails
      BY <2>2 DEF TargetFails
    <2> QED BY <1>1, <2>1, <2>2 DEF TargetFailRoute, DrainClose, DrainItem, DrainStops, DrainDepth,
                                    DrainProducers, CalmInv, StepInv
  <1>2. CASE UNCHANGED fifo /\ (\/ \E k \in Tunnels : TargetTurn(k)
                                \/ TargetStock \/ TargetIncremental \/ TargetDispatch \/ TargetExit)
    <2>1. SameRoute /\ UNCHANGED <<fifo, tunnel, shut>>
      BY <1>2 DEF TargetTurn, TargetStock, TargetIncremental, TargetDispatch, TargetExit, SameRoute,
                  routing, control
    <2>2. SameFlags /\ SameDoors /\ SameQueues
      BY <2>1, FlagsStay, FifoStays, DoorsStay
    <2>3. /\ source' = source /\ target.pc \in {"loop", "stock", "incremental", "dispatch"}
          /\ target'.pc \in {"loop", "exited", "stock", "incremental", "dispatch", "returns"}
          /\ target'.pc \in {"loop", "exited"} \/ target'.tunnel \in Named
      <3>1. ASSUME NEW k \in Tunnels, TargetTurn(k)
            PROVE  /\ source' = source /\ target.pc = "loop" /\ target'.pc \in {"stock", "returns"}
                   /\ target'.tunnel \in Named
        BY <3>1 DEF TargetTurn, CalmInv, RegisterInv
      <3>2. CASE TargetExit
        BY <3>2, TargetToDoes DEF TargetExit
      <3>3. CASE TargetDispatch
        BY <3>3, TargetToDoes DEF TargetDispatch, CalmInv, StepInv
      <3>4. CASE TargetStock \/ TargetIncremental
        <4>1. target.pc \in {"stock", "incremental"} /\ target.tunnel \in Named
          BY <3>4 DEF TargetStock, TargetIncremental, CalmInv, StepInv
        <4>2. PICK pc \in {"incremental", "returns", "dispatch"}, t \in Tasks \cup {None} : TargetTo(pc, t)
          <5>1. CASE TargetTo("incremental", None) \/ TargetTo("returns", None)
            BY <5>1
          <5>2. ASSUME NEW p \in Places, fifo[p].cells # <<>>, TargetTakes(p, "dispatch", "returns")
                PROVE  \E pc \in {"returns", "dispatch"}, t \in Tasks \cup {None} : TargetTo(pc, t)
            <6>1. Head1(p).task \in Tasks
              BY <5>2, HeadOf DEF Head1, Cells
            <6> QED BY <5>2, <6>1 DEF TargetTakes
          <5>3. target.tunnel \in Tunnels
            BY <4>1 DEF ShapeInv
          <5>4. CASE TargetStock
            BY <5>1, <5>2, <5>3, <5>4 DEF TargetStock, Poll, Cells
          <5>5. CASE TargetIncremental
            BY <5>1, <5>2, <5>3, <5>5 DEF TargetIncremental, Poll, Cells
          <5> QED BY <3>4, <5>4, <5>5
        <4>3. pc \in Pcs("target")
          OBVIOUS
        <4> QED BY <4>1, <4>2, <4>3, TargetToDoes
      <3> QED BY <1>2, <3>1, <3>2, <3>3, <3>4
    <2> QED BY <2>1, <2>2, <2>3, TargetPlain DEF SameQueues
  <1>3. CASE \E p \in Places \ {Main} : /\ fifo[p].cells # <<>> /\ TargetTakes(p, "dispatch", "returns")
                                        /\ TargetStock \/ TargetIncremental
    <2>1. PICK p \in Places \ {Main} : fifo[p].cells # <<>> /\ TargetTakes(p, "dispatch", "returns")
      BY <1>3
    <2>2. /\ SameRoute /\ UNCHANGED <<tunnel, shut>> /\ target.pc \in {"stock", "incremental"}
          /\ target.tunnel \in Named
      BY <1>3 DEF TargetStock, TargetIncremental, SameRoute, routing, control, CalmInv, StepInv
    <2>3. /\ Empty \subseteq Empty' /\ MainLen' = MainLen /\ SameClosed /\ source' = source
          /\ target'.tunnel = target.tunnel /\ target'.pc \in {"dispatch", "returns"}
      BY <2>1, TakesCalm
    <2>4. SameFlags /\ SameDoors
      BY <2>2, <2>3, FlagsStay, DoorsStay
    <2> QED BY <2>2, <2>3, <2>4, TargetPlain
  <1>4. CASE TargetStock \/ TargetIncremental
    <2>1. target.tunnel \in Tunnels
      BY <1>4 DEF TargetStock, TargetIncremental, ShapeInv
    <2>2. CASE UNCHANGED fifo
      BY <1>2, <1>4, <2>2
    <2>3. CASE ~UNCHANGED fifo
      <3>1. CASE TargetStock
        <4>1. TargetTakes(Stock(target.tunnel), "dispatch", "returns") /\ fifo[Stock(target.tunnel)].cells # <<>>
          BY <2>3, <3>1 DEF TargetStock, Poll, Cells
        <4> QED BY <1>3, <2>1, <3>1, <4>1
      <3>2. CASE TargetIncremental
        <4>1. TargetTakes(Incremental(target.tunnel), "dispatch", "returns") /\ fifo[Incremental(target.tunnel)].cells # <<>>
          BY <2>3, <3>2 DEF TargetIncremental, Poll, Cells
        <4> QED BY <1>3, <2>1, <3>2, <4>1
      <3> QED BY <1>4, <3>1, <3>2
    <2> QED BY <2>2, <2>3
  <1> QED BY <1>1, <1>2, <1>4 DEF TargetTurn, TargetDispatch, TargetExit

-----------------------------------------------------------------------------
(* The steps of a return.                                                  *)
LEMMA OneFlag ==
  ASSUME Types, NEW k \in Tunnels, NEW b \in BOOLEAN
  PROVE  /\ tunnel' = [tunnel EXCEPT ![k].target_execution = b] => SameFlags /\ SameAccepting
         /\ tunnel' = [tunnel EXCEPT ![k].accepting = b] =>
              /\ SameFlags /\ tunnel'[k].accepting = b
              /\ \A j \in Tunnels \ {k} : tunnel'[j] = tunnel[j]
  <1>0. tunnel[k] \in TunnelType
    BY DEF Types
  <1>1. ASSUME tunnel' = [tunnel EXCEPT ![k].target_execution = b] PROVE SameFlags /\ SameAccepting
    <2>1. /\ tunnel'[k] = [tunnel[k] EXCEPT !.target_execution = b]
          /\ \A j \in Tunnels \ {k} : tunnel'[j] = tunnel[j]
      BY <1>1 DEF Types
    <2>2. /\ tunnel'[k].frozen = tunnel[k].frozen /\ tunnel'[k].accepting = tunnel[k].accepting
          /\ tunnel'[k].source_boundary = tunnel[k].source_boundary
      BY <1>0, <2>1 DEF TunnelType
    <2>3. \A j \in Tunnels : /\ tunnel'[j].frozen = tunnel[j].frozen
                             /\ tunnel'[j].accepting = tunnel[j].accepting
                             /\ tunnel'[j].source_boundary = tunnel[j].source_boundary
      BY <2>1, <2>2
    <2> QED BY <2>3 DEF SameFlags, SameAccepting, Frozen, Boundary
  <1>2. ASSUME tunnel' = [tunnel EXCEPT ![k].accepting = b]
        PROVE  /\ SameFlags /\ tunnel'[k].accepting = b
               /\ \A j \in Tunnels \ {k} : tunnel'[j] = tunnel[j]
    <2>1. /\ tunnel'[k] = [tunnel[k] EXCEPT !.accepting = b]
          /\ \A j \in Tunnels \ {k} : tunnel'[j] = tunnel[j]
      BY <1>2 DEF Types
    <2>2. /\ tunnel'[k].frozen = tunnel[k].frozen /\ tunnel'[k].accepting = b
          /\ tunnel'[k].source_boundary = tunnel[k].source_boundary
      BY <1>0, <2>1 DEF TunnelType
    <2>3. \A j \in Tunnels : /\ tunnel'[j].frozen = tunnel[j].frozen
                             /\ tunnel'[j].source_boundary = tunnel[j].source_boundary
      BY <2>1, <2>2
    <2> QED BY <2>1, <2>2, <2>3 DEF SameFlags, Frozen, Boundary
  <1> QED BY <1>1, <1>2

(* Doors of tunnel k close; those of every other tunnel stay.              *)
DoorsClose(k) ==
  /\ StockOpen' \subseteq StockOpen /\ DirectOpen' \subseteq DirectOpen
  /\ StagingOpen' \subseteq StagingOpen
  /\ StockOpen \ {k} \subseteq StockOpen' /\ DirectOpen \ {k} \subseteq DirectOpen'
  /\ StagingOpen \ {k} \subseteq StagingOpen'

LEMMA DoorsCloseIs ==
  ASSUME Types, NEW k \in Tunnels, NEW C \in SUBSET QueuesOf(k), Closes(C),
         \A j \in Tunnels \ {k} : tunnel'[j].accepting = tunnel[j].accepting,
         tunnel'[k].accepting => tunnel[k].accepting
  PROVE  /\ DoorsClose(k)
         /\ ~tunnel'[k].accepting => k \notin StockOpen'
         /\ Staging(k) \notin C => StagingOpen' = StagingOpen
  <1>1. \A q \in Places : /\ fifo[q].closed => fifo'[q].closed
                          /\ q \notin QueuesOf(k) => fifo'[q].closed = fifo[q].closed
                          /\ q \notin C => fifo'[q].closed = fifo[q].closed
    <2>1. \A q \in Places : fifo[q].closed \in BOOLEAN
      BY CellsOf DEF Fifo
    <2> QED BY <2>1 DEF Closes
  <1>2. \A j \in Tunnels \ {k} : /\ Stock(j) \notin QueuesOf(k) /\ Incremental(j) \notin QueuesOf(k)
                                 /\ Staging(j) \notin QueuesOf(k)
    BY Names DEF QueuesOf
  <1>3. \A j \in Tunnels : tunnel'[j].accepting => tunnel[j].accepting
    OBVIOUS
  <1>4. StockOpen' \subseteq StockOpen /\ StockOpen \ {k} \subseteq StockOpen'
    BY <1>1, <1>2, <1>3, Names DEF StockOpen
  <1>5. DirectOpen' \subseteq DirectOpen /\ DirectOpen \ {k} \subseteq DirectOpen'
    BY <1>1, <1>2, <1>3, Names DEF DirectOpen
  <1>6. StagingOpen' \subseteq StagingOpen /\ StagingOpen \ {k} \subseteq StagingOpen'
    BY <1>1, <1>2, Names DEF StagingOpen
  <1>7. Staging(k) \notin C => StagingOpen' = StagingOpen
    BY <1>1, <1>6, Names DEF StagingOpen
  <1>8. ~tunnel'[k].accepting => k \notin StockOpen'
    BY DEF StockOpen
  <1> QED BY <1>4, <1>5, <1>6, <1>7, <1>8 DEF DoorsClose

LEMMA ReturnCalm ==
  ASSUME Base, CalmInv, DepthInv,
         \/ ReturnWaits \/ ReturnObserve \/ ReturnBegin \/ ReturnCancel \/ ReturnReady
         \/ ReturnClose \/ ReturnMark \/ ReturnDirect \/ ReturnCloseStaging \/ ReturnStaging
         \/ ReturnUnregister \/ ReturnCatchup
  PROVE  CalmInv' /\ (OpenInv => OpenInv')
  <1> USE Names, WorkerFacts, PcNames DEF Base
  <1>0. target.pc \in {"returns", "prepare", "close", "mark", "closeStaging", "unregister"}
    BY DEF ReturnWaits, ReturnObserve, ReturnBegin, ReturnCancel, ReturnReady, ReturnClose,
           ReturnMark, ReturnDirect, ReturnCloseStaging, ReturnStaging, ReturnUnregister,
           ReturnCatchup, OnRoute
  <1>k. PICK k \in Tunnels : k = target.tunnel
    BY <1>0 DEF ShapeInv
  <1>q. /\ Stock(k) \in Places /\ Incremental(k) \in Places /\ Staging(k) \in Places
        /\ Stock(k) # Main /\ Incremental(k) # Main /\ Staging(k) # Main
    OBVIOUS
  <1>s. UNCHANGED shut
    BY DEF ReturnWaits, ReturnObserve, ReturnBegin, ReturnCancel, ReturnReady, ReturnClose,
           ReturnMark, ReturnDirect, ReturnCloseStaging, ReturnStaging, ReturnUnregister,
           ReturnCatchup, control
  <1>n. route.state # "Local" => Installing = {} /\ Named = {route.tunnel}
    BY DEF CalmInv, RegisterInv, Installing, Named
  <1>1. CASE /\ UNCHANGED <<fifo, tunnel>> /\ SameRoute /\ TargetTo("loop", None)
             /\ target.pc \notin {"unregister", "mark"}
    <2>1. SameFlags /\ SameDoors /\ SameQueues
      BY <1>1, FlagsStay, FifoStays, DoorsStay
    <2>2. source' = source /\ target'.pc = "loop"
      BY <1>1, TargetToDoes
    <2> QED BY <1>1, <1>s, <2>1, <2>2, TargetPlain DEF SameQueues
  <1>2. CASE ReturnWaits
    BY <1>1, <1>2 DEF ReturnWaits, OnRoute, routing, SameRoute
  <1>3. CASE ReturnObserve
    <2>1. /\ UNCHANGED <<fifo, tunnel>> /\ SameRoute /\ target.pc = "returns"
          /\ route.state = "Stolen" /\ route.tunnel = k
      BY <1>3, <1>k DEF ReturnObserve, OnRoute, SameRoute
    <2>2. CASE TargetTo("loop", None)
      BY <1>1, <2>1, <2>2
    <2>3. CASE LowLoad(k) /\ TargetTo("prepare", None)
      <3>1. SameFlags /\ SameDoors /\ SameQueues
        BY <2>1, FlagsStay, FifoStays, DoorsStay
      <3>2. source' = source /\ target'.pc = "prepare" /\ target'.tunnel = k
        BY <1>k, <2>3, TargetToDoes
      <3>3. Stock(k) \in Empty
        <4>1. fifo[Stock(k)].depth = 0
          BY <2>3 DEF LowLoad
        <4>2. source.pc # "count"
          BY <2>1 DEF CalmInv, MigrateInv
        <4>3. Len(fifo[Stock(k)].cells) = 0
          BY <1>q, <4>1, <4>2, CellsOf DEF DepthInv, Gap, Lag
        <4> QED BY <1>q, <4>3, EmptyIs
      <3>4. RegisterInv'
        BY <2>1, <3>2 DEF CalmInv, RegisterInv, SameRoute, Named, Installing
      <3>5. StepInv'
        BY <2>1, <3>2 DEF CalmInv, StepInv, SameRoute, Named, Installing
      <3>6. MigrateInv'
        BY <2>1, <3>1, <3>2 DEF CalmInv, MigrateInv, SameRoute, SameFlags, SameDoors, SameQueues, Fresh, Installing
      <3>7. ReturnInv'
        BY <2>1, <3>1, <3>2, <3>3 DEF CalmInv, ReturnInv, SameRoute, SameQueues
      <3> QED BY <1>s, <2>1, <3>1, <3>2, <3>4, <3>5, <3>6, <3>7, TargetOpenFrame DEF CalmInv
    <2> QED BY <1>3, <1>k, <2>2, <2>3, RouteAssumption DEF ReturnObserve
  <1>4. CASE ReturnBegin \/ ReturnCancel \/ ReturnMark
    <2>1. PICK old \in {"Stolen", "ReturnPrepare"}, new \in {"ReturnPrepare", "StolenCatchup", "Returning"} :
            /\ route.state = old /\ route.tunnel = k
            /\ route' = [state |-> new, tunnel |-> k] /\ TargetTo("loop", None)
            /\ UNCHANGED <<fifo, opened, registered>>
            /\ tunnel' = tunnel \/ tunnel' = [tunnel EXCEPT ![k].target_execution = FALSE]
            /\ \/ old = "Stolen" /\ new = "ReturnPrepare" /\ target.pc = "prepare"
               \/ old = "ReturnPrepare" /\ new = "StolenCatchup" /\ target.pc = "returns"
               \/ old = "ReturnPrepare" /\ new = "Returning" /\ target.pc = "mark"
      BY <1>4, <1>k DEF ReturnBegin, ReturnCancel, ReturnMark, OnRoute, RouteTo, CalmInv, StepInv
    <2>2. SameFlags /\ SameDoors /\ SameQueues
      BY <2>1, FlagsStay, OneFlag, FifoStays, DoorsStay
    <2>3. source' = source /\ target'.pc = "loop" /\ target'.tunnel = k
      BY <1>k, <2>1, TargetToDoes
    <2>r. route'.state = new /\ route'.tunnel = k
      BY <2>1
    <2>4. RegisterInv'
      BY <1>n, <2>1, <2>r, <2>3 DEF CalmInv, RegisterInv, Named, Installing
    <2>5. StepInv'
      BY <2>3 DEF StepInv
    <2>6. MigrateInv'
      BY <2>1, <2>r, <2>2, <2>3 DEF CalmInv, MigrateInv, RegisterInv, SameFlags, SameDoors, SameQueues, Fresh, Installing
    <2>7. ReturnInv'
      BY <2>1, <2>r, <2>2, <2>3 DEF CalmInv, ReturnInv, SameQueues
    <2>8. OpenInv => OpenInv'
      BY <1>s, <2>1, <2>r, <2>2, <2>3 DEF OpenInv, Opened, SameDoors, Fresh, Installing
    <2> QED BY <2>4, <2>5, <2>6, <2>7, <2>8 DEF CalmInv
  <1>5. CASE ReturnReady
    <2>1. /\ UNCHANGED <<fifo, tunnel>> /\ SameRoute /\ target.pc = "returns"
          /\ route.state = "ReturnPrepare" /\ route.tunnel = k
          /\ TargetTo("loop", None) \/ TargetTo("close", None)
      BY <1>5, <1>k DEF ReturnReady, OnRoute, SameRoute, routing
    <2>2. SameFlags /\ SameDoors /\ SameQueues
      BY <2>1, FlagsStay, FifoStays, DoorsStay
    <2>3. source' = source /\ target'.pc \in {"loop", "close"} /\ target'.tunnel = k
      BY <1>k, <2>1, TargetToDoes
    <2>4. StepInv'
      BY <2>1, <2>3 DEF StepInv, SameRoute, Named
    <2> QED BY <1>s, <2>1, <2>2, <2>3, <2>4, TargetFrame, TargetOpenFrame DEF SameQueues, SameDoors
  <1>6. CASE ReturnClose
    <2> DEFINE C == {Stock(k), Incremental(k)}
    <2>1. /\ fifo' = [fifo EXCEPT ![Stock(k)] = WithClosed(@), ![Incremental(k)] = WithClosed(@)]
          /\ tunnel' = [tunnel EXCEPT ![k].accepting = FALSE] /\ TargetTo("mark", None)
          /\ SameRoute /\ target.pc = "close"
      BY <1>6, <1>k DEF ReturnClose, SameRoute
    <2>2. \A q \in Places : fifo'[q] = IF q \in C THEN WithClosed(fifo[q]) ELSE fifo[q]
      BY <2>1 DEF Types
    <2>3. DOMAIN fifo' = Places /\ fifo' = [q \in Places |-> fifo'[q]]
      BY <2>1 DEF Types
    <2>4. C \in SUBSET QueuesOf(k) /\ Staging(k) \notin C
      BY DEF QueuesOf
    <2> HIDE DEF C
    <2>5. SameCells /\ Closes(C)
      BY <2>2, <2>3, ClosedDoes
    <2>6. /\ SameFlags /\ ~tunnel'[k].accepting /\ \A j \in Tunnels \ {k} : tunnel'[j] = tunnel[j]
      BY <2>1, OneFlag
    <2>7. DoorsClose(k) /\ StagingOpen' = StagingOpen /\ k \notin StockOpen'
      BY <2>4, <2>5, <2>6, DoorsCloseIs
    <2>8. SameQueues
      BY <2>5, CellsStay
    <2>9. source' = source /\ target'.pc = "mark" /\ target'.tunnel = k
      BY <1>k, <2>1, TargetToDoes
    <2>10. route.state = "ReturnPrepare" /\ route.tunnel = k
      BY <1>k, <2>1 DEF CalmInv, StepInv
    <2>11. RegisterInv'
      BY <1>n, <2>1, <2>9, <2>10 DEF CalmInv, RegisterInv, SameRoute, Named, Installing
    <2>12. StepInv'
      BY <2>1, <2>9, <2>10 DEF StepInv, SameRoute, Named
    <2>13. MigrateInv'
      BY <2>1, <2>6, <2>7, <2>8, <2>9, <2>10
         DEF CalmInv, MigrateInv, SameRoute, SameFlags, SameQueues, Fresh, Installing, DoorsClose
    <2>14. ReturnInv'
      BY <2>1, <2>8, <2>9, <2>10 DEF CalmInv, ReturnInv, SameRoute, SameQueues
    <2>15. ASSUME OpenInv PROVE OpenInv'
      <3>1. k \notin Fresh
        <4>1. k \in 1 .. opened /\ opened \in Nat
          BY <2>10 DEF CalmInv, RegisterInv, Types
        <4> QED BY <1>n, <2>10, <4>1 DEF Fresh
      <3>2. Fresh' = Fresh
        BY <2>1, <2>9 DEF SameRoute, Fresh, Installing
      <3> QED BY <1>s, <2>1, <2>7, <2>9, <2>10, <2>15, <3>1, <3>2 DEF OpenInv, Opened, SameRoute, DoorsClose
    <2> QED BY <2>11, <2>12, <2>13, <2>14, <2>15 DEF CalmInv
  <1>f. route.state # "Local" /\ route.tunnel = k => k \notin Fresh
    <2>1. route.state # "Local" /\ route.tunnel = k => k \in 1 .. opened /\ opened \in Nat
      BY DEF CalmInv, RegisterInv, Types
    <2> QED BY <1>n, <2>1 DEF Fresh
  <1>t. ASSUME NEW p \in {Stock(k), Incremental(k), Staging(k)}, NEW pc \in {"back", "dispatch"},
               fifo[p].cells # <<>>, TargetTakes(p, pc, "loop"), SameRoute, UNCHANGED tunnel,
               target.pc = "returns", route.tunnel = k,
               pc = "back" => route.state \in {"Returning", "LocalCatchup"}
        PROVE  CalmInv' /\ (OpenInv => OpenInv')
    <2>1. /\ Empty \subseteq Empty' /\ MainLen' = MainLen /\ SameClosed /\ source' = source
          /\ target'.tunnel = k /\ target'.pc \in {pc, "loop"}
      BY <1>k, <1>q, <1>t, TakesCalm
    <2>2. SameFlags /\ SameDoors
      BY <1>t, <2>1, FlagsStay, DoorsStay
    <2>3. StepInv'
      BY <1>t, <2>1 DEF StepInv, SameRoute, Named
    <2> QED BY <1>s, <1>t, <2>1, <2>2, <2>3, TargetFrame, TargetOpenFrame DEF SameDoors
  <1>7. CASE ReturnDirect
    <2>1. /\ UNCHANGED <<tunnel, opened, registered>> /\ target.pc = "returns"
          /\ route.state = "Returning" /\ route.tunnel = k
      BY <1>7, <1>k DEF ReturnDirect, OnRoute
    <2>2. CASE /\ fifo[Incremental(k)].cells = <<>> /\ RouteTo("LocalCatchup", k)
               /\ TargetTo("closeStaging", None) /\ UNCHANGED fifo
      <3>1. SameFlags /\ SameDoors /\ SameQueues
        BY <2>1, <2>2, FlagsStay, FifoStays, DoorsStay
      <3>2. source' = source /\ target'.pc = "closeStaging" /\ target'.tunnel = k
        BY <1>k, <2>2, TargetToDoes
      <3>3. route'.state = "LocalCatchup" /\ route'.tunnel = k
        BY <2>2 DEF RouteTo
      <3>4. Incremental(k) \in Empty
        BY <1>q, <2>2 DEF Empty
      <3>5. RegisterInv'
        BY <1>n, <2>1, <3>2, <3>3 DEF CalmInv, RegisterInv, Named, Installing
      <3>6. StepInv'
        BY <3>2, <3>3 DEF StepInv, Named
      <3>7. MigrateInv'
        BY <2>1, <3>1, <3>2, <3>3 DEF CalmInv, MigrateInv, RegisterInv, SameFlags, SameDoors, SameQueues, Fresh, Installing
      <3>8. ReturnInv'
        BY <2>1, <3>1, <3>2, <3>3, <3>4 DEF CalmInv, ReturnInv, SameQueues
      <3>9. OpenInv => OpenInv'
        BY <1>s, <2>1, <3>1, <3>2, <3>3 DEF OpenInv, Opened, SameDoors, Fresh, Installing
      <3> QED BY <3>5, <3>6, <3>7, <3>8, <3>9 DEF CalmInv
    <2>3. CASE /\ fifo[Incremental(k)].cells # <<>> /\ TargetTakes(Incremental(k), "back", "loop")
               /\ UNCHANGED route
      BY <1>t, <2>1, <2>3 DEF SameRoute
    <2>4. CASE TargetTo("loop", None) /\ UNCHANGED <<fifo, route>>
      BY <1>1, <2>1, <2>4 DEF SameRoute
    <2>5. /\ Poll(Incremental(k)) = "empty" => fifo[Incremental(k)].cells = <<>>
          /\ Poll(Incremental(k)) # "empty" => fifo[Incremental(k)].cells # <<>>
      BY <1>q, HeadOf DEF Poll, Cells
    <2> QED BY <1>7, <1>k, <2>2, <2>3, <2>4, <2>5 DEF ReturnDirect
  <1>8. CASE ReturnCloseStaging
    <2>1. /\ fifo' = [fifo EXCEPT ![Staging(k)] = WithClosed(@)] /\ UNCHANGED tunnel
          /\ TargetTo("loop", None) /\ SameRoute /\ target.pc = "closeStaging"
      BY <1>8, <1>k DEF ReturnCloseStaging, SameRoute, routing
    <2>2. route.state = "LocalCatchup" /\ route.tunnel = k
      BY <1>k, <2>1 DEF CalmInv, StepInv
    <2> DEFINE C == {Staging(k)}
    <2>3. \A q \in Places : fifo'[q] = IF q \in C THEN WithClosed(fifo[q]) ELSE fifo[q]
      BY <2>1 DEF Types
    <2>4. DOMAIN fifo' = Places /\ fifo' = [q \in Places |-> fifo'[q]]
      BY <2>1 DEF Types
    <2>5. C \in SUBSET QueuesOf(k)
      BY DEF QueuesOf
    <2> HIDE DEF C
    <2>6. SameCells /\ Closes(C)
      BY <2>3, <2>4, ClosedDoes
    <2>7. DoorsClose(k) /\ SameFlags /\ SameQueues
      BY <2>1, <2>5, <2>6, DoorsCloseIs, FlagsStay, CellsStay
    <2>8. source' = source /\ target'.pc = "loop" /\ target'.tunnel = k
      BY <1>k, <2>1, TargetToDoes
    <2>9. StepInv'
      BY <2>8 DEF StepInv
    <2>10. CalmInv'
      BY <2>1, <2>7, <2>8, <2>9, TargetFrame DEF DoorsClose, SameQueues
    <2>11. ASSUME OpenInv PROVE OpenInv'
      <3>1. Fresh' = Fresh /\ k \notin Fresh
        BY <1>f, <2>1, <2>2, <2>8 DEF SameRoute, Fresh, Installing
      <3> QED BY <1>s, <2>1, <2>2, <2>7, <2>8, <2>11, <3>1 DEF OpenInv, Opened, SameRoute, DoorsClose
    <2> QED BY <2>10, <2>11
  <1>9. CASE ReturnStaging
    <2>1. /\ UNCHANGED <<tunnel, opened, registered>> /\ target.pc = "returns"
          /\ route.state = "LocalCatchup" /\ route.tunnel = k
      BY <1>9, <1>k DEF ReturnStaging, OnRoute
    <2>2. CASE /\ fifo[Staging(k)].cells = <<>> /\ RouteTo("Local", None)
               /\ TargetTo("unregister", None) /\ UNCHANGED fifo
      <3>1. SameFlags /\ SameDoors /\ SameQueues
        BY <2>1, <2>2, FlagsStay, FifoStays, DoorsStay
      <3>2. source' = source /\ target'.pc = "unregister" /\ target'.tunnel = k
        BY <1>k, <2>2, TargetToDoes
      <3>3. route'.state = "Local" /\ route'.tunnel = None
        BY <2>2 DEF RouteTo
      <3>4. QueuesOf(k) \subseteq Empty
        <4>1. Staging(k) \in Empty
          BY <1>q, <2>2 DEF Empty
        <4> QED BY <2>1, <4>1 DEF QueuesOf, CalmInv, ReturnInv
      <3>5. Installing' = {} /\ Named' = {None} /\ k # None /\ k \in registered
        BY <1>n, <2>1, <3>2, <3>3 DEF CalmInv, RegisterInv, Named, Installing
      <3>6. RegisterInv'
        BY <1>n, <2>1, <3>2, <3>3, <3>5 DEF CalmInv, RegisterInv
      <3>7. StepInv'
        BY <2>1, <3>2, <3>5 DEF StepInv
      <3>8. MigrateInv'
        BY <2>1, <3>1, <3>2, <3>3 DEF CalmInv, MigrateInv, RegisterInv, SameFlags, SameDoors, SameQueues, Fresh, Installing
      <3>9. ReturnInv'
        BY <2>1, <3>1, <3>2, <3>3, <3>4 DEF CalmInv, ReturnInv, SameQueues
      <3>10. OpenInv => OpenInv'
        BY <1>s, <2>1, <3>1, <3>2, <3>3 DEF OpenInv, Opened, SameDoors, Fresh, Installing
      <3> QED BY <3>6, <3>7, <3>8, <3>9, <3>10 DEF CalmInv
    <2>3. CASE /\ fifo[Staging(k)].cells # <<>> /\ TargetTakes(Staging(k), "back", "loop")
               /\ UNCHANGED route
      BY <1>t, <2>1, <2>3 DEF SameRoute
    <2>4. CASE TargetTo("loop", None) /\ UNCHANGED <<fifo, route>>
      BY <1>1, <2>1, <2>4 DEF SameRoute
    <2> QED BY <1>9, <1>k, <2>2, <2>3, <2>4 DEF ReturnStaging, Cells
  <1>10. CASE ReturnUnregister
    <2>1. /\ AllClosed(k) /\ registered' = registered \ {k} /\ TargetTo("loop", None)
          /\ UNCHANGED <<route, opened>> /\ target.pc = "unregister"
      BY <1>10, <1>k DEF ReturnUnregister
    <2>2. k \in registered /\ k \notin Named /\ QueuesOf(k) \subseteq Empty
      BY <1>k, <2>1 DEF CalmInv, StepInv, ReturnInv
    <2> DEFINE C == QueuesOf(k)
    <2>3. \A q \in Places : fifo'[q] = IF q \in C THEN WithClosed(fifo[q]) ELSE fifo[q]
      BY <2>1 DEF AllClosed
    <2>4. DOMAIN fifo' = Places /\ fifo' = [q \in Places |-> fifo'[q]]
      BY <2>1 DEF AllClosed
    <2>5. C \in SUBSET QueuesOf(k)
      OBVIOUS
    <2> HIDE DEF C
    <2>6. SameCells /\ Closes(C)
      BY <2>3, <2>4, ClosedDoes
    <2>7. /\ SameFlags /\ ~tunnel'[k].accepting /\ \A j \in Tunnels \ {k} : tunnel'[j] = tunnel[j]
      BY <2>1, OneFlag DEF AllClosed
    <2>8. DoorsClose(k) /\ SameQueues
      BY <2>5, <2>6, <2>7, DoorsCloseIs, CellsStay
    <2>9. source' = source /\ target'.pc = "loop" /\ target'.tunnel = k
      BY <1>k, <2>1, TargetToDoes
    <2>10. Fresh' = Fresh /\ k \notin Fresh /\ Named' = Named /\ Installing' = Installing
      <3>1. k \in 1 .. opened /\ opened \in Nat
        BY <2>2 DEF CalmInv, RegisterInv, Types
      <3> QED BY <2>1, <2>2, <2>9, <3>1 DEF Fresh, Named, Installing
    <2>11. RegisterInv'
      <3>1. source.pc = "install" => source.tunnel \in Named
        BY DEF Named, Installing, ShapeInv, SourceTunnelPc
      <3> QED BY <1>k, <2>1, <2>2, <2>9, <2>10, <3>1 DEF CalmInv, RegisterInv, Named
    <2>12. StepInv'
      BY <2>9 DEF StepInv
    <2>13. MigrateInv'
      BY <2>1, <2>7, <2>8, <2>9, <2>10 DEF CalmInv, MigrateInv, SameFlags, SameQueues, DoorsClose
    <2>14. ReturnInv'
      BY <2>1, <2>2, <2>8, <2>9 DEF CalmInv, ReturnInv, SameQueues
    <2>15. ASSUME OpenInv PROVE OpenInv'
      BY <1>s, <2>1, <2>2, <2>8, <2>9, <2>10, <2>15 DEF OpenInv, Opened, Named, DoorsClose
    <2> QED BY <2>11, <2>12, <2>13, <2>14, <2>15 DEF CalmInv
  <1>11. CASE ReturnCatchup
    <2>1. /\ UNCHANGED <<opened, registered>> /\ target.pc = "returns"
          /\ route.state = "StolenCatchup" /\ route.tunnel = k
      BY <1>11, <1>k DEF ReturnCatchup, OnRoute
    <2>2. CASE /\ RouteTo("Stolen", k) /\ tunnel' = [tunnel EXCEPT ![k].target_execution = TRUE]
               /\ TargetTo("loop", None) /\ UNCHANGED fifo
      <3>1. SameFlags /\ SameDoors /\ SameQueues
        BY <2>1, <2>2, OneFlag, FifoStays, DoorsStay
      <3>2. source' = source /\ target'.pc = "loop" /\ target'.tunnel = k
        BY <1>k, <2>2, TargetToDoes
      <3>3. route'.state = "Stolen" /\ route'.tunnel = k
        BY <2>2 DEF RouteTo
      <3>4. RegisterInv'
        BY <1>n, <2>1, <3>2, <3>3 DEF CalmInv, RegisterInv, Named, Installing
      <3>5. StepInv'
        BY <3>2 DEF StepInv
      <3>6. MigrateInv'
        BY <2>1, <3>1, <3>2, <3>3 DEF CalmInv, MigrateInv, RegisterInv, SameFlags, SameDoors, SameQueues, Fresh, Installing
      <3>7. ReturnInv'
        BY <2>1, <3>1, <3>2, <3>3 DEF CalmInv, ReturnInv, SameQueues
      <3>8. OpenInv => OpenInv'
        BY <1>s, <2>1, <3>1, <3>2, <3>3 DEF OpenInv, Opened, SameDoors, Fresh, Installing
      <3> QED BY <3>4, <3>5, <3>6, <3>7, <3>8 DEF CalmInv
    <2>3. CASE /\ fifo[Staging(k)].cells # <<>> /\ TargetTakes(Staging(k), "dispatch", "loop")
               /\ UNCHANGED <<route, tunnel>>
      BY <1>t, <2>1, <2>3 DEF SameRoute
    <2>4. CASE TargetTo("loop", None) /\ UNCHANGED <<fifo, route, tunnel>>
      BY <1>1, <2>1, <2>4 DEF SameRoute
    <2> QED BY <1>11, <1>k, <2>2, <2>3, <2>4 DEF ReturnCatchup, Cells
  <1> QED BY <1>2, <1>3, <1>4, <1>5, <1>6, <1>7, <1>8, <1>9, <1>10, <1>11

-----------------------------------------------------------------------------
(* A task goes back to the main queue.                                     *)
LEMMA BackCalm ==
  ASSUME Base, CalmInv, BackReserve \/ BackCount \/ BackPublish
  PROVE  CalmInv' /\ (OpenInv => OpenInv')
  <1> USE Names, WorkerFacts, PcNames DEF Base
  <1>1. /\ SameRoute /\ UNCHANGED <<tunnel, shut>> /\ target.pc \in {"back", "backCount", "backPublish"}
    BY DEF BackReserve, BackCount, BackPublish, SameRoute, routing, control
  <1>2. target.hand \in Tasks /\ target.tunnel \in Tunnels
    BY <1>1 DEF ShapeInv, TargetHandPc
  <1>3. PICK t \in Tasks, k \in Tunnels : t = target.hand /\ k = target.tunnel
    BY <1>2
  <1>4. route.state \in {"Returning", "LocalCatchup"} /\ route.tunnel = k
    BY <1>1, <1>3 DEF CalmInv, StepInv
  <1>5. SameClosed /\ Empty' \cup {Main} = Empty \cup {Main}
    <2>1. CASE BackReserve
      <3>1. fifo' = [fifo EXCEPT ![Main] = WithReserved(@, t)]
        BY <1>3, <2>1 DEF BackReserve
      <3>2. SameClosed /\ Appends(Main, t)
        BY <3>1, ReservedDoes DEF SameClosed
      <3> QED BY <3>2, AppendQueues
    <2>2. CASE BackCount
      <3>1. fifo' = [fifo EXCEPT ![Main] = WithDepth(@)]
        BY <2>2 DEF BackCount
      <3> QED BY <3>1, CountedDoes, CellsStay DEF SameClosed, SameQueues
    <2>3. CASE BackPublish
      <3>1. fifo' = [fifo EXCEPT ![Main] = WithState(@, t, "published")]
        BY <1>3, <2>3 DEF BackPublish
      <3>2. "published" \in {"published", "poisoned"}
        OBVIOUS
      <3>3. SameClosed /\ Marks(Main, t, "published")
        BY <3>1, <3>2, MarkedDoes DEF SameClosed
      <3> QED BY <3>3, MarkQueues DEF SameQueues
    <2> QED BY <2>1, <2>2, <2>3
  <1>6. SameFlags /\ SameDoors
    BY <1>1, <1>5, FlagsStay, DoorsStay
  <1>7. /\ source' = source /\ target'.tunnel = k
        /\ target'.pc \in {"backCount", "backPublish", "loop"}
    <2>1. TargetTo("backCount", t) \/ TargetTo("backPublish", t) \/ TargetTo("loop", None)
      BY <1>3 DEF BackReserve, BackCount, BackPublish
    <2> QED BY <1>3, <2>1, TargetToDoes
  <1>8. \A j \in Tunnels : Stock(j) \in Empty => Stock(j) \in Empty'
    BY <1>5
  <1>9. \A j \in Tunnels : Incremental(j) \in Empty => Incremental(j) \in Empty'
    BY <1>5
  <1>10. \A j \in Tunnels : QueuesOf(j) \subseteq Empty => QueuesOf(j) \subseteq Empty'
    BY <1>5, QueuesApart
  <1>11. RegisterInv'
    BY <1>1, <1>4, <1>7 DEF CalmInv, RegisterInv, SameRoute, Named, Installing
  <1>12. StepInv'
    BY <1>1, <1>4, <1>7 DEF StepInv, SameRoute, Named
  <1>13. MigrateInv'
    <2>1. source.pc # "finish"
      BY <1>4 DEF CalmInv, RegisterInv
    <2> QED BY <1>1, <1>4, <1>6, <1>7, <2>1
            DEF CalmInv, MigrateInv, SameRoute, SameFlags, SameDoors, Fresh, Installing
  <1>14. ReturnInv'
    BY <1>1, <1>4, <1>7, <1>8, <1>9, <1>10 DEF CalmInv, ReturnInv, SameRoute
  <1> QED BY <1>1, <1>6, <1>7, <1>11, <1>12, <1>13, <1>14, TargetOpenFrame DEF CalmInv

(* Other businesses, and the steps of a stop.                              *)
LEMMA StopCalm ==
  ASSUME Base, CalmInv,
         \/ \E s \in Slots : OtherStarts(s) \/ OtherEnds(s) \/ Shut(s)
         \/ \E m \in Stops : Stop(m)
         \/ UNCHANGED vars
  PROVE  CalmInv' /\ (OpenInv /\ mode = "running" => OpenInv')
  <1> USE Names DEF Base
  <1>1. SameRoute /\ UNCHANGED workers
    BY DEF OtherStarts, OtherEnds, Shut, Stop, SameRoute, routing, vars
  <1>2. CASE UNCHANGED <<fifo, tunnel, shut>>
    <2>1. SameFlags /\ SameDoors /\ SameQueues
      BY <1>2, FlagsStay, FifoStays, DoorsStay
    <2> QED BY <1>1, <1>2, <2>1, CalmFrame, OpenFrame DEF SameDoors
  <1>3. ASSUME NEW s \in Slots, Shut(s) PROVE CalmInv' /\ mode # "running"
    <2> DEFINE inbound == IF s = "target" THEN registered ELSE {}
               C == {p \in Places : p[1] \in inbound}
    <2>1. /\ fifo' = [p \in Places |-> IF p[1] \in inbound THEN WithClosed(fifo[p]) ELSE fifo[p]]
          /\ tunnel' = [k \in Tunnels |-> [tunnel[k] EXCEPT !.accepting = @ /\ k \notin inbound]]
      BY <1>3 DEF Shut
    <2>2. /\ DOMAIN fifo' = Places /\ fifo' = [q \in Places |-> fifo'[q]]
          /\ \A q \in Places : fifo'[q] = IF q \in C THEN WithClosed(fifo[q]) ELSE fifo[q]
      BY <2>1
    <2> HIDE DEF C
    <2>3. SameCells /\ Closes(C)
      BY <2>2, ClosedDoes
    <2>4. \A k \in Tunnels : /\ tunnel'[k].frozen = tunnel[k].frozen
                             /\ tunnel'[k].source_boundary = tunnel[k].source_boundary
                             /\ tunnel'[k].accepting => tunnel[k].accepting
      <3> HIDE DEF inbound
      <3>1. TAKE k \in Tunnels
      <3>2. tunnel[k] \in TunnelType
        BY DEF Types
      <3>3. tunnel'[k] = [tunnel[k] EXCEPT !.accepting = tunnel[k].accepting /\ k \notin inbound]
        BY <2>1
      <3>4. /\ tunnel'[k].frozen = tunnel[k].frozen
            /\ tunnel'[k].source_boundary = tunnel[k].source_boundary
            /\ tunnel'[k].accepting = (tunnel[k].accepting /\ k \notin inbound)
        BY <3>2, <3>3 DEF TunnelType
      <3> QED BY <3>4
    <2>5. SameFlags
      BY <2>4 DEF SameFlags, Frozen, Boundary
    <2>6. StockOpen' \subseteq StockOpen
      <3>1. \A q \in Places : fifo[q].closed => fifo'[q].closed
        <4>1. \A q \in Places : fifo[q].closed \in BOOLEAN
          BY CellsOf DEF Fifo
        <4> QED BY <2>3, <4>1 DEF Closes
      <3> QED BY <2>4, <3>1 DEF StockOpen
    <2>7. mode # "running"
      BY <1>3 DEF Shut
    <2> QED BY <1>1, <2>3, <2>5, <2>6, <2>7, CalmFrame, CellsStay
  <1> QED BY <1>2, <1>3 DEF OtherStarts, OtherEnds, Stop, vars, routing, control

-----------------------------------------------------------------------------
(* What the operations on a FIFO do to the tasks that have a cell.         *)
LEMMA SameStore ==
  ASSUME SameCells
  PROVE  Stored' = Stored /\ \A p \in Places : Claimed(p)' = Claimed(p)
  BY DEF SameCells, Stored, Claimed, Has

LEMMA OtherHas ==
  ASSUME NEW p \in Places, Others(p)
  PROVE  \A q \in Places \ {p} : \A t, s : Has(t, q, s)' <=> Has(t, q, s)
  BY DEF Others, Has

LEMMA AppendStore ==
  ASSUME Types, NEW p \in Places, NEW t \in Tasks, Appends(p, t)
  PROVE  /\ Stored \subseteq Stored' /\ t \in Claimed(p)'
         /\ \A q \in Places : Claimed(q) \subseteq Claimed(q)'
  <1>1. Len(fifo[p].cells) \in Nat
    BY CellsOf
  <1>2. \A u, s : Has(u, p, s) => Has(u, p, s)'
    BY <1>1 DEF Has, Appends
  <1>3. Has(t, p, "reserved")'
    <2>1. Len(fifo'[p].cells) \in 1 .. Len(fifo'[p].cells)
      BY <1>1 DEF Appends
    <2>2. /\ fifo'[p].cells[Len(fifo'[p].cells)].task = t
          /\ fifo'[p].cells[Len(fifo'[p].cells)].state = "reserved"
      BY <1>1 DEF Appends
    <2> QED BY <2>1, <2>2 DEF Has
  <1>4. \A q \in Places : \A u, s : Has(u, q, s) => Has(u, q, s)'
    BY <1>2, OtherHas DEF Appends
  <1> QED BY <1>3, <1>4 DEF Stored, Claimed

LEMMA MarkStore ==
  ASSUME Types, NEW p \in Places, NEW t \in Tasks, NEW s \in {"published", "poisoned"}, Marks(p, t, s)
  PROVE  /\ Stored \subseteq Stored' /\ Claimed(p) \ {t} \subseteq Claimed(p)'
         /\ \A q \in Places \ {p} : Claimed(q) \subseteq Claimed(q)'
         /\ s = "published" /\ t \in Claimed(p) => t \in Stored'
  <1>1. \A u : Has(u, p, "published") => Has(u, p, "published")'
    BY DEF Has, Marks
  <1>2. \A u : u # t /\ Has(u, p, "reserved") => Has(u, p, "reserved")'
    BY DEF Has, Marks
  <1>3. ASSUME s = "published", Has(t, p, "reserved") PROVE Has(t, p, "published")'
    <2>1. PICK i \in 1 .. Len(fifo[p].cells) :
            fifo[p].cells[i].task = t /\ fifo[p].cells[i].state = "reserved"
      BY <1>3 DEF Has
    <2>2. fifo'[p].cells[i] = [task |-> t, state |-> s]
      BY <2>1 DEF Marks
    <2>3. i \in 1 .. Len(fifo'[p].cells)
      BY DEF Marks
    <2> QED BY <1>3, <2>2, <2>3 DEF Has
  <1>4. \A q \in Places \ {p} : \A u, x : Has(u, q, x) => Has(u, q, x)'
    BY OtherHas DEF Marks
  <1>5. \A q \in Places : \A u : Has(u, q, "published") => Has(u, q, "published")'
    BY <1>1, <1>4
  <1>6. Stored \subseteq Stored'
    BY <1>5 DEF Stored
  <1> QED BY <1>2, <1>3, <1>4, <1>6 DEF Stored, Claimed

LEMMA DropStore ==
  ASSUME Types, NEW p \in Places, fifo[p].cells # <<>>, Drops(p), fifo[p].cells[1].state # "reserved"
  PROVE  /\ \A q \in Places : Claimed(q) \subseteq Claimed(q)'
         /\ Stored \ {fifo[p].cells[1].task} \subseteq Stored'
         /\ fifo[p].cells[1].state # "published" => Stored \subseteq Stored'
  <1>1. Len(fifo[p].cells) \in Nat
    BY CellsOf
  <1>2. ASSUME NEW u, NEW s, Has(u, p, s), ~(fifo[p].cells[1].task = u /\ fifo[p].cells[1].state = s)
        PROVE  Has(u, p, s)'
    <2>1. PICK i \in 1 .. Len(fifo[p].cells) : fifo[p].cells[i].task = u /\ fifo[p].cells[i].state = s
      BY <1>2 DEF Has
    <2>2. i # 1
      BY <1>2, <2>1
    <2>3. i - 1 \in 1 .. (Len(fifo[p].cells) - 1) /\ (i - 1) + 1 = i
      BY <1>1, <2>2
    <2>4. i - 1 \in 1 .. Len(fifo'[p].cells) /\ fifo'[p].cells[i - 1] = fifo[p].cells[i]
      BY <2>3 DEF Drops
    <2> QED BY <2>1, <2>4 DEF Has
  <1>3. \A q \in Places \ {p} : \A u, s : Has(u, q, s) => Has(u, q, s)'
    BY OtherHas DEF Drops
  <1>4. \A q \in Places : \A u : Has(u, q, "reserved") => Has(u, q, "reserved")'
    BY <1>2, <1>3
  <1>5. \A q \in Places : \A u : Has(u, q, "published") =>
          \/ Has(u, q, "published")'
          \/ u = fifo[p].cells[1].task /\ fifo[p].cells[1].state = "published"
    BY <1>2, <1>3
  <1> QED BY <1>4, <1>5 DEF Stored, Claimed

(* What they do to the depths of the stocks.                               *)
LEMMA GapStays ==
  ASSUME Types,
         \/ SameCells /\ \A q \in Places : fifo'[q].depth = fifo[q].depth
         \/ \E p \in Places : /\ SameCells
                              /\ \A k \in Tunnels : p # Stock(k)
                              /\ \A q \in Places \ {p} : fifo'[q].depth = fifo[q].depth
         \/ \E p \in Places, t \in Tasks : /\ Appends(p, t)
                                           /\ \A k \in Tunnels : p # Stock(k)
                                           /\ \A q \in Places : fifo'[q].depth = fifo[q].depth
         \/ \E p \in Places, t \in Tasks, s \in {"published", "poisoned"} :
              /\ Marks(p, t, s) /\ \A q \in Places : fifo'[q].depth = fifo[q].depth
         \/ \E p \in Places : /\ Drops(p) /\ fifo'[p].depth = fifo[p].depth - 1
                              /\ \A q \in Places \ {p} : fifo'[q].depth = fifo[q].depth
  PROVE  Gap' = Gap
  <1> SUFFICES ASSUME NEW k \in Tunnels
               PROVE  Len(fifo'[Stock(k)].cells) - fifo'[Stock(k)].depth
                      = Len(fifo[Stock(k)].cells) - fifo[Stock(k)].depth
    BY DEF Gap
  <1>1. Stock(k) \in Places /\ Len(fifo[Stock(k)].cells) \in Nat /\ fifo[Stock(k)].depth \in Int
    BY Names, CellsOf
  <1>2. CASE SameCells /\ \A q \in Places : fifo'[q].depth = fifo[q].depth
    BY <1>1, <1>2 DEF SameCells
  <1>3. ASSUME NEW p \in Places, SameCells, p # Stock(k),
               \A q \in Places \ {p} : fifo'[q].depth = fifo[q].depth
        PROVE  Len(fifo'[Stock(k)].cells) - fifo'[Stock(k)].depth
               = Len(fifo[Stock(k)].cells) - fifo[Stock(k)].depth
    BY <1>1, <1>3 DEF SameCells
  <1>4. ASSUME NEW p \in Places, NEW t \in Tasks, Appends(p, t), p # Stock(k),
               \A q \in Places : fifo'[q].depth = fifo[q].depth
        PROVE  Len(fifo'[Stock(k)].cells) - fifo'[Stock(k)].depth
               = Len(fifo[Stock(k)].cells) - fifo[Stock(k)].depth
    BY <1>1, <1>4 DEF Appends, Others
  <1>5. ASSUME NEW p \in Places, NEW t \in Tasks, NEW s, Marks(p, t, s),
               \A q \in Places : fifo'[q].depth = fifo[q].depth
        PROVE  Len(fifo'[Stock(k)].cells) - fifo'[Stock(k)].depth
               = Len(fifo[Stock(k)].cells) - fifo[Stock(k)].depth
    <2>1. Len(fifo'[Stock(k)].cells) = Len(fifo[Stock(k)].cells)
      BY <1>1, <1>5 DEF Marks, Others
    <2> QED BY <1>1, <1>5, <2>1
  <1>6. ASSUME NEW p \in Places, Drops(p), fifo'[p].depth = fifo[p].depth - 1,
               \A q \in Places \ {p} : fifo'[q].depth = fifo[q].depth
        PROVE  Len(fifo'[Stock(k)].cells) - fifo'[Stock(k)].depth
               = Len(fifo[Stock(k)].cells) - fifo[Stock(k)].depth
    <2>1. CASE p = Stock(k)
      <3>1. Len(fifo'[Stock(k)].cells) = Len(fifo[Stock(k)].cells) - 1
        BY <1>6, <2>1 DEF Drops
      <3>2. fifo'[Stock(k)].depth = fifo[Stock(k)].depth - 1
        BY <1>6, <2>1
      <3> QED BY <1>1, <3>1, <3>2
    <2>2. CASE p # Stock(k)
      <3>1. fifo'[Stock(k)].cells = fifo[Stock(k)].cells /\ fifo'[Stock(k)].depth = fifo[Stock(k)].depth
        BY <1>1, <1>6, <2>2 DEF Drops, Others
      <3> QED BY <3>1
    <2> QED BY <2>1, <2>2
  <1> QED BY <1>2, <1>3, <1>4, <1>5, <1>6

-----------------------------------------------------------------------------
(* Every step keeps a cell for every task, and the depth of the stock.     *)
SourceHolds ==
  /\ source'.hand = source.hand \/ source.hand = None
  /\ source'.pc \in {"count", "publish"} =>
       /\ source.pc \in {"count", "publish"} /\ source'.hand = source.hand
       /\ source'.tunnel = source.tunnel
TargetHolds ==
  /\ target'.hand = target.hand \/ target.hand = None
  /\ target'.pc \in {"backCount", "backPublish"} =>
       target.pc \in {"backCount", "backPublish"} /\ target'.hand = target.hand
PlacesStay ==
  \A u \in Tasks : at'[u] \in {"entered", "reserved"} =>
    at[u] \in {"entered", "reserved"} /\ where'[u] = where[u]
SameDepths == \A q \in Places : fifo'[q].depth = fifo[q].depth
SameLag == Lag' = Lag
StoreInv == KeptInv /\ DepthInv

LEMMA HoldsStill == ASSUME UNCHANGED workers PROVE SourceHolds /\ TargetHolds /\ SameLag
  BY DEF workers, SourceHolds, TargetHolds, SameLag, Lag

LEMMA TasksPlace == ASSUME UNCHANGED tasks PROVE PlacesStay /\ at' = at
  BY DEF tasks, PlacesStay

LEMMA WritersStay ==
  ASSUME PlacesStay, SourceHolds, TargetHolds
  PROVE  \A p \in Places : Writers(p)' \subseteq Writers(p)
  <1> SUFFICES ASSUME NEW p \in Places, NEW u \in Tasks, Writing(u, p)' PROVE Writing(u, p)
    BY DEF Writers
  <1> QED BY DEF Writing, SourceWrites, TargetWrites, PlacesStay, SourceHolds, TargetHolds

LEMMA LooseStays ==
  ASSUME SourceHolds, TargetHolds, Types, \A u \in Tasks : at'[u] = "queued" => at[u] = "queued"
  PROVE  Loose' \subseteq Loose
  BY Names DEF Loose, SourceHolds, TargetHolds

LEMMA DepthFrame ==
  ASSUME DepthInv, Gap' = Gap, SameLag, PlacesStay
  PROVE  DepthInv'
  BY DEF DepthInv, SameLag, PlacesStay

LEMMA StoreStill ==
  ASSUME Types, StoreInv, SameCells, SameDepths, PlacesStay, SourceHolds, TargetHolds, SameLag,
         \A u \in Tasks : at'[u] = "queued" => at[u] = "queued"
  PROVE  StoreInv'
  <1>1. Gap' = Gap
    BY GapStays DEF SameDepths
  <1>2. DepthInv'
    BY <1>1, DepthFrame DEF StoreInv
  <1>3. KeptInv'
    BY WritersStay, LooseStays, SameStore DEF StoreInv, KeptInv
  <1> QED BY <1>2, <1>3 DEF StoreInv

LEMMA StoreQuiet ==
  ASSUME Types, StoreInv, UNCHANGED tasks, SameCells, SameDepths, SourceHolds, TargetHolds, SameLag
  PROVE  StoreInv'
  BY TasksPlace, StoreStill

LEMMA FifoUnmoved == ASSUME UNCHANGED fifo PROVE SameCells /\ SameDepths
  BY DEF SameCells, SameDepths

LEMMA ClosesDepths == ASSUME NEW C, Closes(C) PROVE SameDepths
  BY DEF Closes, SameDepths

(* A task goes on, in no queue that it was not in before.                  *)
LEMMA StoreTask ==
  ASSUME Types, StoreInv, NEW t \in Tasks, NEW x \in Phase \ {"queued", "entered", "reserved"},
         at' = [at EXCEPT ![t] = x], \A u \in Tasks \ {t} : where'[u] = where[u], UNCHANGED fifo,
         SameLag,
         \/ UNCHANGED workers
         \/ /\ source.hand = t /\ source'.hand = None /\ target' = target
            /\ source'.pc \notin {"count", "publish"}
         \/ /\ target.hand = t /\ target'.hand = None /\ source' = source
            /\ target'.pc \notin {"backCount", "backPublish"}
  PROVE  StoreInv'
  <1>1. \A u \in Tasks : at'[u] = IF u = t THEN x ELSE at[u]
    BY DEF Types
  <1>2. PlacesStay
    BY <1>1 DEF PlacesStay
  <1>3. \A u \in Tasks : at'[u] = "queued" => at[u] = "queued" /\ u # t
    BY <1>1
  <1>4. Loose' \subseteq Loose
    BY <1>3, Names DEF Loose, workers
  <1>5. \A p \in Places : Writers(p)' \subseteq Writers(p)
    <2> SUFFICES ASSUME NEW p \in Places, NEW u \in Tasks, Writing(u, p)' PROVE Writing(u, p)
      BY DEF Writers
    <2> QED BY <1>2, Names DEF Writing, SourceWrites, TargetWrites, PlacesStay, workers
  <1>6. SameCells /\ SameDepths
    BY FifoUnmoved
  <1>7. Gap' = Gap
    BY <1>6, GapStays DEF SameDepths
  <1>8. DepthInv'
    BY <1>2, <1>7, DepthFrame DEF StoreInv
  <1>9. KeptInv'
    BY <1>4, <1>5, <1>6, SameStore DEF StoreInv, KeptInv
  <1> QED BY <1>8, <1>9 DEF StoreInv

(* A poll takes the first cell: its task goes to the hand or is settled.   *)
LEMMA StoreDrop ==
  ASSUME Types, StoreInv, NEW p \in Places, fifo[p].cells # <<>>,
         fifo' = [fifo EXCEPT ![p] = WithoutHead(@)], fifo[p].cells[1].state # "reserved",
         PlacesStay, SourceHolds, TargetHolds, SameLag,
         \A u \in Tasks : at'[u] = "queued" => at[u] = "queued",
         NEW t \in Tasks, t = fifo[p].cells[1].task,
         fifo[p].cells[1].state = "published" /\ at'[t] = "queued" => t = source'.hand \/ t = target'.hand
  PROVE  StoreInv'
  <1>1. /\ Drops(p) /\ fifo'[p].depth = fifo[p].depth - 1
        /\ \A q \in Places \ {p} : fifo'[q].depth = fifo[q].depth
    BY DroppedDoes
  <1>2. Gap' = Gap
    BY <1>1, GapStays
  <1>3. DepthInv'
    BY <1>2, DepthFrame DEF StoreInv
  <1>4. /\ \A q \in Places : Claimed(q) \subseteq Claimed(q)'
        /\ Stored \ {t} \subseteq Stored'
        /\ fifo[p].cells[1].state # "published" => Stored \subseteq Stored'
    BY <1>1, DropStore
  <1>5. Loose' \subseteq Loose /\ \A q \in Places : Writers(q)' \subseteq Writers(q)
    BY LooseStays, WritersStay
  <1>6. fifo[p].cells[1].state = "published" => t \notin Loose'
    BY DEF Loose
  <1>7. Loose' \subseteq Stored'
    BY <1>4, <1>5, <1>6 DEF StoreInv, KeptInv
  <1>8. KeptInv'
    BY <1>4, <1>5, <1>7 DEF StoreInv, KeptInv
  <1> QED BY <1>3, <1>8 DEF StoreInv

LEMMA SubmissionStore ==
  ASSUME LaneInv, StoreInv, Types', NEW t \in Tasks, Submission(t) \/ Business(t) \/ Caller(t)
  PROVE  StoreInv'
  <1> USE Names, PhaseNames DEF LaneInv
  <1>h. (at[t] # "queued" => t # source.hand /\ t # target.hand) /\ t # None
    BY DEF PlaceInv, HandInv
  <1>w. UNCHANGED workers /\ SourceHolds /\ TargetHolds /\ SameLag
    BY HoldsStill DEF Submission, Business, Caller, Reserve, Refuse, Count, Publish, Withdraw,
           CancelQueued, CancelWaiting, Lease, LeaseRefused, VoidEnds, Run, Finish, Release, Abort
  <1>1. CASE Reserve(t)
    <2>1. PICK p \in Places : p = Destination
      BY DestinationIs
    <2>2. /\ at[t] = "issued" /\ at' = [at EXCEPT ![t] = "entered"]
          /\ where' = [where EXCEPT ![t] = p]
          /\ fifo' = [fifo EXCEPT ![p] = WithReserved(@, t)]
      BY <1>1, <2>1 DEF Reserve
    <2>3. /\ \A u \in Tasks : at'[u] = IF u = t THEN "entered" ELSE at[u]
          /\ \A u \in Tasks : where'[u] = IF u = t THEN p ELSE where[u]
      BY <2>2 DEF Types, ShapeInv
    <2>4. Appends(p, t) /\ SameDepths
      BY <2>2, ReservedDoes DEF SameDepths
    <2>5. \A k \in Tunnels : p # Stock(k)
      BY <2>1, DestinationCases DEF DestinationCase
    <2>6. Gap' = Gap
      BY <2>4, <2>5, GapStays DEF SameDepths
    <2>7. DepthInv'
      BY <1>w, <2>3, <2>5, <2>6 DEF StoreInv, DepthInv, SameLag
    <2>8. /\ Stored \subseteq Stored' /\ t \in Claimed(p)'
          /\ \A q \in Places : Claimed(q) \subseteq Claimed(q)'
      BY <2>4, AppendStore
    <2>9. Loose' \subseteq Loose
      BY <1>w, <2>3 DEF Loose, workers
    <2>10. ASSUME NEW q \in Places PROVE Writers(q)' \subseteq Claimed(q)'
      <3> SUFFICES ASSUME NEW u \in Tasks, Writing(u, q)', u \notin Claimed(q) PROVE u \in Claimed(q)'
        BY <2>8 DEF Writers
      <3>1. ~Writing(u, q)
        BY DEF StoreInv, KeptInv, Writers
      <3>2. u = t /\ q = p
        BY <1>w, <2>3, <3>1 DEF Writing, SourceWrites, TargetWrites, workers
      <3> QED BY <2>8, <3>2
    <2> QED BY <2>7, <2>8, <2>9, <2>10 DEF StoreInv, KeptInv
  <1>2. CASE Count(t)
    <2>1. PICK p \in Places : p = where[t]
      BY <1>2 DEF Count, ShapeInv
    <2>2. /\ at[t] = "entered" /\ at' = [at EXCEPT ![t] = "reserved"] /\ where' = where
          /\ fifo' = [fifo EXCEPT ![p] = WithDepth(@)]
      BY <1>2, <2>1 DEF Count, TaskTo
    <2>3. \A u \in Tasks : at'[u] = IF u = t THEN "reserved" ELSE at[u]
      BY <2>2 DEF Types
    <2>4. SameCells /\ \A q \in Places \ {p} : fifo'[q].depth = fifo[q].depth
      BY <2>2, CountedDoes
    <2>5. \A k \in Tunnels : p # Stock(k)
      BY <2>1, <2>2 DEF StoreInv, DepthInv
    <2>6. Gap' = Gap
      BY <2>4, <2>5, GapStays
    <2>7. PlacesStay /\ \A u \in Tasks : at'[u] = "queued" => at[u] = "queued"
      BY <2>2, <2>3 DEF PlacesStay
    <2>8. DepthInv'
      BY <1>w, <2>6, <2>7, DepthFrame DEF StoreInv
    <2>9. KeptInv'
      BY <1>w, <2>4, <2>7, WritersStay, LooseStays, SameStore DEF StoreInv, KeptInv
    <2> QED BY <2>8, <2>9 DEF StoreInv
  <1>3. CASE Publish(t) \/ Withdraw(t)
    <2>1. PICK p \in Places : p = where[t]
      BY <1>3 DEF Publish, Withdraw, ShapeInv
    <2>2. PICK s \in {"published", "poisoned"}, x \in {"queued", "settled"} :
            /\ at[t] = "reserved" /\ at' = [at EXCEPT ![t] = x] /\ where' = where
            /\ fifo' = [fifo EXCEPT ![p] = WithState(@, t, s)]
            /\ x = "queued" => s = "published"
      BY <1>3, <2>1 DEF Publish, Withdraw, TaskTo, SettleAs
    <2>3. \A u \in Tasks : at'[u] = IF u = t THEN x ELSE at[u]
      BY <2>2 DEF Types
    <2>4. Marks(p, t, s) /\ SameDepths
      BY <2>2, MarkedDoes DEF SameDepths
    <2>5. Gap' = Gap
      BY <2>4, GapStays DEF SameDepths
    <2>6. PlacesStay
      BY <2>2, <2>3 DEF PlacesStay
    <2>7. DepthInv'
      BY <1>w, <2>5, <2>6, DepthFrame DEF StoreInv
    <2>8. /\ Stored \subseteq Stored' /\ Claimed(p) \ {t} \subseteq Claimed(p)'
          /\ \A q \in Places \ {p} : Claimed(q) \subseteq Claimed(q)'
          /\ s = "published" /\ t \in Claimed(p) => t \in Stored'
      BY <2>4, MarkStore
    <2>9. t \in Claimed(p)
      BY <2>1, <2>2 DEF StoreInv, KeptInv, Writers, Writing
    <2>10. Loose' \subseteq Loose \cup {t} /\ (x # "queued" => t \notin Loose')
      BY <1>w, <2>3 DEF Loose, workers
    <2>11. \A q \in Places : Writers(q)' \subseteq Writers(q)
      BY <1>w, <2>6, WritersStay
    <2>12. t \notin Writers(p)'
      BY <1>w, <1>h, <2>2, <2>3 DEF Writers, Writing, SourceWrites, TargetWrites, workers
    <2>13. Loose' \subseteq Stored'
      BY <2>2, <2>8, <2>9, <2>10 DEF StoreInv, KeptInv
    <2>14. \A q \in Places : Writers(q)' \subseteq Claimed(q)'
      BY <2>8, <2>11, <2>12 DEF StoreInv, KeptInv
    <2> QED BY <2>7, <2>13, <2>14 DEF StoreInv, KeptInv
  <1>4. CASE Refuse(t) \/ CancelQueued(t) \/ CancelWaiting(t) \/ Business(t)
    <2>1. PICK x \in {"refused", "settled", "void", "leased", "running", "ending"} :
            at' = [at EXCEPT ![t] = x] /\ where' = where /\ UNCHANGED fifo
      BY <1>4 DEF Refuse, CancelQueued, CancelWaiting, Business, Lease, LeaseRefused, VoidEnds, Run,
                  Finish, Release, Abort, TaskTo, SettleAs
    <2>2. x \in Phase \ {"queued", "entered", "reserved"}
      OBVIOUS
    <2>3. \A u \in Tasks \ {t} : where'[u] = where[u]
      BY <2>1
    <2> QED BY <1>w, <2>1, <2>2, <2>3, StoreTask
  <1> QED BY <1>1, <1>2, <1>3, <1>4 DEF Submission, Caller

LEMMA IssueStore ==
  ASSUME LaneInv, StoreInv, Issue
  PROVE  StoreInv'
  <1> USE DEF LaneInv
  <1>1. /\ next_issue \in Tasks /\ at' = [at EXCEPT ![next_issue] = "issued"] /\ where' = where
        /\ UNCHANGED <<fifo, workers>>
    BY Names DEF Issue, Types, Tasks
  <1>2. PICK t \in Tasks : t = next_issue
    BY <1>1
  <1>3. "issued" \in Phase \ {"queued", "entered", "reserved"}
    BY PhaseNames
  <1>4. \A u \in Tasks \ {t} : where'[u] = where[u]
    BY <1>1
  <1> QED BY <1>1, <1>2, <1>3, <1>4, HoldsStill, StoreTask

LEMMA DispatchStore ==
  ASSUME LaneInv, StoreInv, NEW t \in Tasks, NEW s \in Slots, Dispatched(t, s), UNCHANGED fifo, SameLag,
         \/ /\ source.hand = t /\ source'.hand = None /\ target' = target
            /\ source'.pc \notin {"count", "publish"}
         \/ /\ target.hand = t /\ target'.hand = None /\ source' = source
            /\ target'.pc \notin {"backCount", "backPublish"}
  PROVE  StoreInv'
  <1> USE DEF LaneInv
  <1>1. PICK x \in {"settled", "waiting"} :
          at' = [at EXCEPT ![t] = x] /\ (where' = where \/ where' = [where EXCEPT ![t] = On(s)])
    BY DEF Dispatched, SettleAs
  <1>2. x \in Phase \ {"queued", "entered", "reserved"}
    BY PhaseNames
  <1>3. \A u \in Tasks \ {t} : where'[u] = where[u]
    BY <1>1 DEF ShapeInv
  <1> QED BY <1>1, <1>2, <1>3, StoreTask

(* The task in a hand gets a number of another queue ...                   *)
LEMMA StoreAppends ==
  ASSUME LaneInv, StoreInv, UNCHANGED tasks, NEW t \in Tasks, NEW p \in Places, Appends(p, t),
         \/ /\ source.hand = t /\ source'.hand = t /\ target' = target
            /\ SourceWrites(t, p)'
         \/ /\ target.hand = t /\ target'.hand = t /\ source' = source
            /\ TargetWrites(t, p)'
  PROVE  KeptInv'
  <1>1. at' = at /\ where' = where
    BY DEF tasks
  <1>2. /\ Stored \subseteq Stored' /\ t \in Claimed(p)'
        /\ \A q \in Places : Claimed(q) \subseteq Claimed(q)'
    BY AppendStore DEF LaneInv
  <1>3. Loose' \subseteq Loose
    BY <1>1 DEF Loose
  <1>4. ASSUME NEW q \in Places PROVE Writers(q)' \subseteq Claimed(q)'
    <2> SUFFICES ASSUME NEW u \in Tasks, Writing(u, q)', u \notin Claimed(q) PROVE u \in Claimed(q)'
      BY <1>2 DEF Writers
    <2>1. ~Writing(u, q)
      BY DEF StoreInv, KeptInv, Writers
    <2>2. u = t /\ q = p
      BY <1>1, <2>1 DEF Writing, SourceWrites, TargetWrites
    <2> QED BY <1>2, <2>2
  <1> QED BY <1>2, <1>3, <1>4 DEF StoreInv, KeptInv

(* ... and is left there.                                                  *)
LEMMA StorePublishes ==
  ASSUME LaneInv, StoreInv, UNCHANGED tasks, NEW t \in Tasks, NEW p \in Places,
         fifo' = [fifo EXCEPT ![p] = WithState(@, t, "published")], SameLag,
         \/ /\ source.hand = t /\ source'.hand = None /\ target' = target
            /\ SourceWrites(t, p) /\ source'.pc \notin {"count", "publish"}
         \/ /\ target.hand = t /\ target'.hand = None /\ source' = source
            /\ TargetWrites(t, p) /\ target'.pc \notin {"backCount", "backPublish"}
  PROVE  StoreInv'
  <1> USE Names DEF LaneInv
  <1>1. at' = at /\ where' = where /\ PlacesStay
    BY TasksPlace DEF tasks
  <1>h. at[t] = "queued"
    BY DEF PlaceInv, HandInv
  <1>2. Marks(p, t, "published") /\ SameDepths
    BY MarkedDoes DEF SameDepths
  <1>3. Gap' = Gap
    BY <1>2, GapStays DEF SameDepths
  <1>4. DepthInv'
    BY <1>1, <1>3, DepthFrame DEF StoreInv
  <1>5. /\ Stored \subseteq Stored' /\ Claimed(p) \ {t} \subseteq Claimed(p)'
        /\ \A q \in Places \ {p} : Claimed(q) \subseteq Claimed(q)'
        /\ t \in Claimed(p) => t \in Stored'
    BY <1>2, MarkStore
  <1>6. t \in Claimed(p)
    BY DEF StoreInv, KeptInv, Writers, Writing
  <1>7. Loose' \subseteq Loose \cup {t}
    BY <1>1 DEF Loose
  <1>8. ASSUME NEW q \in Places PROVE Writers(q)' \subseteq Writers(q) \ {t}
    <2> SUFFICES ASSUME NEW u \in Tasks, Writing(u, q)' PROVE Writing(u, q) /\ u # t
      BY DEF Writers
    <2> QED BY <1>1, <1>h DEF Writing, SourceWrites, TargetWrites, PlaceInv, HandInv
  <1>9. \A q \in Places : Writers(q)' \subseteq Claimed(q)'
    BY <1>5, <1>8 DEF StoreInv, KeptInv
  <1> QED BY <1>4, <1>5, <1>6, <1>7, <1>9 DEF StoreInv, KeptInv

LEMMA SourceStore ==
  ASSUME LaneInv, StoreInv, StealRegister \/ SourceWorker
  PROVE  StoreInv'
  <1> USE Names, PhaseNames, PcNames, WorkerFacts DEF LaneInv
  <1>0. ASSUME NEW pc, NEW k, SourceTo(pc, source.hand, k), UNCHANGED <<tasks, fifo>>,
               source.pc \notin {"count", "publish"}, pc \notin {"count", "publish"}
        PROVE  StoreInv'
    <2>1. SourceHolds /\ TargetHolds /\ SameLag
      BY <1>0 DEF SourceTo, SourceHolds, TargetHolds, SameLag, Lag
    <2> QED BY <1>0, <2>1, FifoUnmoved, StoreQuiet
  <1>1. CASE \/ StealRegister \/ StealInstall \/ SourceIdle \/ SourceRoute \/ SourceMigrate
             \/ SourceFinish \/ SourceExit
    <2>1. UNCHANGED <<tasks, fifo>> /\ source.pc \notin {"count", "publish"}
      BY <1>1 DEF StealRegister, StealInstall, SourceIdle, SourceRoute, SourceMigrate, SourceFinish,
                  SourceExit
    <2>2. CASE StealRegister \/ StealInstall \/ SourceFinish
      BY <1>0, <2>1, <2>2 DEF StealRegister, StealInstall, SourceFinish
    <2>3. CASE SourceIdle \/ SourceExit
      <3>1. \E pc \in {"migrate", "exited"} : SourceTo(pc, source.hand, None)
        BY <2>3 DEF SourceIdle, SourceExit, Deferred
      <3> QED BY <1>0, <2>1, <3>1
    <2>4. CASE SourceRoute \/ SourceMigrate
      <3>1. \E pc \in {"stock", "dispatch", "finish", "loop"}, k \in {route.tunnel, None} :
              SourceTo(pc, source.hand, k)
        BY <2>4 DEF SourceRoute, SourceMigrate
      <3> QED BY <1>0, <2>1, <3>1
    <2> QED BY <1>1, <2>2, <2>3, <2>4
  <1>2. CASE SourceResume
    <2>1. source.hand \in Tasks /\ source.pc \notin {"count", "publish"} /\ UNCHANGED fifo
      BY <1>2 DEF SourceResume, Deferred
    <2>2. CASE mode = "force"
      <3>1. SettleAs(source.hand, "settled") /\ SourceTo("migrate", None, None)
        BY <1>2, <2>2 DEF SourceResume
      <3>2. Dispatched(source.hand, "source") /\ "source" \in Slots
        BY <2>2, <3>1 DEF Dispatched, Slots
      <3>3. source'.hand = None /\ target' = target /\ source'.pc = "migrate"
        BY <3>1 DEF SourceTo
      <3>4. SameLag
        BY <2>1, <3>3 DEF SameLag, Lag
      <3>t. PICK t \in Tasks : t = source.hand
        BY <2>1
      <3> QED BY <2>1, <3>t, <3>2, <3>3, <3>4, DispatchStore
    <2>3. CASE mode # "force"
      <3>1. UNCHANGED tasks /\ SourceTo("route", source.hand, None)
        BY <1>2, <2>3 DEF SourceResume
      <3> QED BY <1>0, <2>1, <3>1
    <2> QED BY <2>2, <2>3
  <1>3. CASE SourceTake
    <2>1. /\ source.hand = None /\ source.pc \notin {"count", "publish"} /\ UNCHANGED tasks
          /\ Poll(Main) \in {"published", "poisoned"}
          /\ fifo' = [fifo EXCEPT ![Main] = WithoutHead(@)]
      BY <1>3 DEF SourceTake, Deferred
    <2>2. fifo[Main].cells # <<>> /\ Poll(Main) = fifo[Main].cells[1].state
      BY <2>1 DEF Poll, Cells, Head1
    <2>3. PICK t \in Tasks : t = fifo[Main].cells[1].task
      BY <2>2, HeadOf
    <2>4. /\ target' = target /\ source'.pc \in {"route", "migrate"}
          /\ fifo[Main].cells[1].state = "published" /\ at[t] = "queued" => source'.hand = t
      BY <1>3, <2>2, <2>3 DEF SourceTake, SourceTo, Head1, Cells
    <2>5. SourceHolds /\ TargetHolds /\ SameLag
      BY <2>1, <2>4 DEF SourceHolds, TargetHolds, SameLag, Lag
    <2>6. PlacesStay /\ at' = at
      BY <2>1, TasksPlace
    <2> QED BY <2>1, <2>2, <2>3, <2>4, <2>5, <2>6, StoreDrop
  <1>4. CASE SourceStock
    <2>1. source.hand \in Tasks /\ source.tunnel \in Tunnels /\ UNCHANGED tasks /\ source.pc = "stock"
      BY <1>4 DEF SourceStock, ShapeInv, SourceHandPc, SourceTunnelPc
    <2>2. PICK t \in Tasks, k \in Tunnels : t = source.hand /\ k = source.tunnel
      BY <2>1
    <2>3. CASE Open(Stock(source.tunnel))
      <3>1. fifo' = [fifo EXCEPT ![Stock(k)] = WithReserved(@, t)] /\ SourceTo("count", t, k)
        BY <1>4, <2>2, <2>3 DEF SourceStock
      <3>2. Stock(k) \in Places
        OBVIOUS
      <3>3. Appends(Stock(k), t) /\ SameDepths
        BY <3>1, <3>2, ReservedDoes DEF SameDepths
      <3>4. /\ source'.hand = t /\ source'.pc = "count" /\ source'.tunnel = k /\ target' = target
        BY <3>1 DEF SourceTo
      <3>5. SourceWrites(t, Stock(k))'
        BY <3>4 DEF SourceWrites
      <3>6. KeptInv'
        BY <2>1, <2>2, <3>2, <3>3, <3>4, <3>5, StoreAppends
      <3>7. Lag = {} /\ Lag' = {k}
        BY <2>1, <3>4 DEF Lag
      <3>8. \A j \in Tunnels : Gap'[j] = IF j = k THEN Gap[j] + 1 ELSE Gap[j]
        <4> SUFFICES ASSUME NEW j \in Tunnels
                     PROVE  Len(fifo'[Stock(j)].cells) - fifo'[Stock(j)].depth
                            = IF j = k THEN (Len(fifo[Stock(j)].cells) - fifo[Stock(j)].depth) + 1
                              ELSE Len(fifo[Stock(j)].cells) - fifo[Stock(j)].depth
          BY DEF Gap
        <4>1. Stock(j) \in Places /\ Len(fifo[Stock(j)].cells) \in Nat /\ fifo[Stock(j)].depth \in Int
          BY CellsOf
        <4>2. fifo'[Stock(j)].depth = fifo[Stock(j)].depth
          BY <3>3, <4>1 DEF SameDepths
        <4>3. Len(fifo'[Stock(j)].cells) = IF j = k THEN Len(fifo[Stock(j)].cells) + 1
                                           ELSE Len(fifo[Stock(j)].cells)
          BY <3>3, <4>1 DEF Appends, Others
        <4> QED BY <4>1, <4>2, <4>3
      <3>9. at' = at /\ where' = where
        BY <2>1 DEF tasks
      <3>10. DepthInv'
        BY <3>7, <3>8, <3>9 DEF StoreInv, DepthInv
      <3> QED BY <3>6, <3>10 DEF StoreInv
    <2>4. CASE ~Open(Stock(source.tunnel))
      <3>1. UNCHANGED fifo /\ SourceTo("dispatch", source.hand, None)
        BY <1>4, <2>4 DEF SourceStock
      <3> QED BY <1>0, <2>1, <3>1
    <2> QED BY <2>3, <2>4
  <1>5. CASE SourceCount
    <2>1. source.tunnel \in Tunnels /\ UNCHANGED tasks /\ source.pc = "count"
      BY <1>5 DEF SourceCount, ShapeInv, SourceTunnelPc
    <2>2. PICK k \in Tunnels : k = source.tunnel
      BY <2>1
    <2>3. fifo' = [fifo EXCEPT ![Stock(k)] = WithDepth(@)] /\ Stock(k) \in Places
      BY <1>5, <2>2 DEF SourceCount
    <2>4. /\ SameCells /\ fifo'[Stock(k)].depth = fifo[Stock(k)].depth + 1
          /\ \A q \in Places \ {Stock(k)} : fifo'[q].depth = fifo[q].depth
      BY <2>3, CountedDoes
    <2>5. /\ source'.pc = "publish" /\ source'.hand = source.hand /\ source'.tunnel = k /\ target' = target
      BY <1>5, <2>2 DEF SourceCount, SourceTo
    <2>6. SourceHolds /\ TargetHolds
      BY <2>1, <2>2, <2>5 DEF SourceHolds, TargetHolds
    <2>7. PlacesStay /\ at' = at /\ where' = where
      BY <2>1, TasksPlace DEF tasks
    <2>8. KeptInv'
      BY <2>4, <2>6, <2>7, WritersStay, LooseStays, SameStore DEF StoreInv, KeptInv
    <2>9. Lag = {k} /\ Lag' = {}
      BY <2>1, <2>2, <2>5 DEF Lag
    <2>10. \A j \in Tunnels : Gap'[j] = IF j = k THEN Gap[j] - 1 ELSE Gap[j]
      <3> SUFFICES ASSUME NEW j \in Tunnels
                   PROVE  Len(fifo'[Stock(j)].cells) - fifo'[Stock(j)].depth
                          = IF j = k THEN (Len(fifo[Stock(j)].cells) - fifo[Stock(j)].depth) - 1
                            ELSE Len(fifo[Stock(j)].cells) - fifo[Stock(j)].depth
        BY DEF Gap
      <3>1. Stock(j) \in Places /\ Len(fifo[Stock(j)].cells) \in Nat /\ fifo[Stock(j)].depth \in Int
        BY CellsOf
      <3>2. fifo'[Stock(j)].cells = fifo[Stock(j)].cells
        BY <2>4, <3>1 DEF SameCells
      <3>3. fifo'[Stock(j)].depth = IF j = k THEN fifo[Stock(j)].depth + 1 ELSE fifo[Stock(j)].depth
        BY <2>4, <3>1
      <3> QED BY <3>1, <3>2, <3>3
    <2>11. DepthInv'
      BY <2>7, <2>9, <2>10 DEF StoreInv, DepthInv
    <2> QED BY <2>8, <2>11 DEF StoreInv
  <1>6. CASE SourcePublish
    <2>1. source.hand \in Tasks /\ source.tunnel \in Tunnels /\ UNCHANGED tasks /\ source.pc = "publish"
      BY <1>6 DEF SourcePublish, ShapeInv, SourceHandPc, SourceTunnelPc
    <2>2. PICK t \in Tasks, k \in Tunnels : t = source.hand /\ k = source.tunnel
      BY <2>1
    <2>3. /\ fifo' = [fifo EXCEPT ![Stock(k)] = WithState(@, t, "published")]
          /\ source'.hand = None /\ source'.pc = "migrate" /\ target' = target
      BY <1>6, <2>2 DEF SourcePublish, SourceTo
    <2>4. Stock(k) \in Places
      OBVIOUS
    <2>5. SameLag
      BY <2>1, <2>3 DEF SameLag, Lag
    <2>6. SourceWrites(t, Stock(k))
      BY <2>1, <2>2 DEF SourceWrites
    <2> QED BY <2>1, <2>2, <2>3, <2>4, <2>5, <2>6, StorePublishes
  <1>7. CASE SourceDispatch
    <2>1. source.hand \in Tasks /\ source.pc = "dispatch" /\ UNCHANGED fifo
      BY <1>7 DEF SourceDispatch, ShapeInv, SourceHandPc
    <2>2. CASE ExecutionAvailable("source")
      <3>1. /\ Dispatched(source.hand, "source") /\ source'.hand = None /\ target' = target
            /\ source'.pc = "migrate"
        BY <1>7, <2>2 DEF SourceDispatch, SourceTo
      <3>2. "source" \in Slots /\ SameLag
        BY <2>1, <3>1 DEF Slots, SameLag, Lag
      <3>t. PICK t \in Tasks : t = source.hand
        BY <2>1
      <3> QED BY <2>1, <3>t, <3>1, <3>2, DispatchStore
    <2>3. CASE ~ExecutionAvailable("source")
      <3>1. UNCHANGED tasks /\ SourceTo("migrate", source.hand, None)
        BY <1>7, <2>3 DEF SourceDispatch
      <3> QED BY <1>0, <2>1, <3>1
    <2> QED BY <2>2, <2>3
  <1> QED BY <1>1, <1>2, <1>3, <1>4, <1>5, <1>6, <1>7 DEF SourceWorker

LEMMA TargetGoes ==
  ASSUME LaneInv, StoreInv, UNCHANGED tasks, SameCells, SameDepths, NEW pc \in Pcs("target"),
         TargetTo(pc, None), target.hand = None, pc \notin {"backCount", "backPublish"}
  PROVE  StoreInv'
  <1>1. source' = source /\ target'.hand = None /\ target'.pc = pc
    BY TargetToDoes, WorkerFacts DEF LaneInv
  <1>2. SourceHolds /\ TargetHolds /\ SameLag
    BY <1>1 DEF SourceHolds, TargetHolds, SameLag, Lag
  <1> QED BY <1>2, StoreQuiet DEF LaneInv

LEMMA TakesStore ==
  ASSUME LaneInv, StoreInv, UNCHANGED tasks, NEW p \in Places, NEW pc \in {"dispatch", "back"},
         NEW otherwise \in {"returns", "loop"}, TargetTakes(p, pc, otherwise), fifo[p].cells # <<>>,
         fifo[p].cells[1].state # "reserved", target.hand = None
  PROVE  StoreInv'
  <1> USE Names, WorkerFacts, PcNames DEF LaneInv
  <1>1. PICK t \in Tasks : t = fifo[p].cells[1].task
    BY HeadOf
  <1>2. PlacesStay /\ at' = at
    BY TasksPlace
  <1>3. fifo' = [fifo EXCEPT ![p] = WithoutHead(@)] /\ Poll(p) = fifo[p].cells[1].state
    BY DEF TargetTakes, Poll, Cells, Head1
  <1>4. CASE Poll(p) = "published" /\ at[t] = "queued"
    <2>1. TargetTo(pc, t)
      BY <1>1, <1>4 DEF TargetTakes, Head1, Cells
    <2>2. target'.hand = t /\ source' = source /\ target'.pc = pc
      BY <2>1, TargetToDoes
    <2>3. SourceHolds /\ TargetHolds /\ SameLag
      BY <2>2 DEF SourceHolds, TargetHolds, SameLag, Lag
    <2> QED BY <1>1, <1>2, <1>3, <2>2, <2>3, StoreDrop
  <1>5. CASE ~(Poll(p) = "published" /\ at[t] = "queued")
    <2>1. TargetTo(otherwise, None)
      BY <1>1, <1>5 DEF TargetTakes, Head1, Cells
    <2>2. target'.hand = None /\ source' = source /\ target'.pc = otherwise
      BY <2>1, TargetToDoes
    <2>3. SourceHolds /\ TargetHolds /\ SameLag
      BY <2>2 DEF SourceHolds, TargetHolds, SameLag, Lag
    <2> QED BY <1>1, <1>2, <1>3, <1>5, <2>2, <2>3, StoreDrop
  <1> QED BY <1>4, <1>5

LEMMA TargetStore ==
  ASSUME LaneInv, StoreInv,
         \/ \E k \in Tunnels : TargetTurn(k)
         \/ TargetStock \/ TargetIncremental \/ TargetDispatch \/ TargetFails \/ TargetFailRoute
         \/ BackReserve \/ BackCount \/ BackPublish \/ TargetExit
  PROVE  StoreInv'
  <1> USE Names, PhaseNames, WorkerFacts, PcNames DEF LaneInv
  <1>1. ASSUME NEW k \in Tunnels, TargetTurn(k) PROVE StoreInv'
    <2>1. /\ UNCHANGED <<tasks, fifo>> /\ source' = source /\ target'.hand = None
          /\ target.pc = "loop" /\ target'.pc \in {"stock", "returns"}
      BY <1>1 DEF TargetTurn
    <2>2. SourceHolds /\ TargetHolds /\ SameLag
      BY <2>1 DEF SourceHolds, TargetHolds, SameLag, Lag, ShapeInv, TargetHandPc
    <2> QED BY <2>1, <2>2, StoreQuiet, FifoUnmoved
  <1>2. CASE TargetStock \/ TargetIncremental
    <2>1. target.tunnel \in Tunnels /\ target.hand = None /\ UNCHANGED tasks
      BY <1>2 DEF TargetStock, TargetIncremental, ShapeInv, TargetHandPc
    <2>2. CASE UNCHANGED fifo /\ \E pc \in {"incremental", "returns"} : TargetTo(pc, None)
      BY <2>1, <2>2, TargetGoes, FifoUnmoved
    <2>3. CASE \E p \in Places : /\ Poll(p) \notin {"empty", "reserved"}
                                 /\ TargetTakes(p, "dispatch", "returns")
      <3>1. PICK p \in Places : /\ Poll(p) \notin {"empty", "reserved"}
                                /\ TargetTakes(p, "dispatch", "returns")
        BY <2>3
      <3>2. fifo[p].cells # <<>> /\ fifo[p].cells[1].state # "reserved"
        BY <3>1 DEF Poll, Cells, Head1
      <3> QED BY <2>1, <3>1, <3>2, TakesStore
    <2> QED BY <1>2, <2>1, <2>2, <2>3 DEF TargetStock, TargetIncremental
  <1>3. CASE TargetDispatch
    <2>1. target.hand \in Tasks /\ UNCHANGED fifo /\ target.pc = "dispatch"
      BY <1>3 DEF TargetDispatch, ShapeInv, TargetHandPc
    <2>2. Dispatched(target.hand, "target") /\ "target" \in Slots /\ TargetTo("returns", None)
      BY <1>3 DEF TargetDispatch, Slots
    <2>3. target'.hand = None /\ source' = source /\ target'.pc = "returns"
      BY <2>2, TargetToDoes
    <2>4. SameLag
      BY <2>3 DEF SameLag, Lag
    <2>t. PICK t \in Tasks : t = target.hand
      BY <2>1
    <2> QED BY <2>1, <2>2, <2>3, <2>4, <2>t, DispatchStore
  <1>4. CASE TargetFails
    <2>1. target.tunnel \in Tunnels /\ target.hand = None /\ UNCHANGED tasks /\ TargetTo("fail", None)
      BY <1>4 DEF TargetFails, ShapeInv, TargetHandPc
    <2>k. PICK k \in Tunnels : k = target.tunnel
      BY <2>1
    <2>2. SameCells /\ Closes(QueuesOf(k))
      BY <1>4, <2>k, AllClosedTypes DEF TargetFails
    <2> QED BY <2>1, <2>2, ClosesDepths, TargetGoes
  <1>5. CASE TargetFailRoute \/ TargetExit
    <2>1. /\ UNCHANGED <<tasks, fifo>> /\ target.hand = None
          /\ \E pc \in {"returns", "exited"} : TargetTo(pc, None)
      BY <1>5 DEF TargetFailRoute, TargetExit, ShapeInv, TargetHandPc
    <2> QED BY <2>1, TargetGoes, FifoUnmoved
  <1>6. CASE BackReserve
    <2>1. target.hand \in Tasks /\ UNCHANGED tasks /\ target.pc = "back"
      BY <1>6 DEF BackReserve, ShapeInv, TargetHandPc
    <2>2. PICK t \in Tasks : t = target.hand
      BY <2>1
    <2>3. fifo' = [fifo EXCEPT ![Main] = WithReserved(@, t)] /\ TargetTo("backCount", t)
      BY <1>6, <2>2 DEF BackReserve
    <2>4. target'.hand = t /\ target'.pc = "backCount" /\ source' = source
      BY <2>3, TargetToDoes
    <2>5. Appends(Main, t) /\ SameDepths
      BY <2>3, ReservedDoes DEF SameDepths
    <2>6. TargetWrites(t, Main)'
      BY <2>4 DEF TargetWrites
    <2>7. KeptInv'
      BY <2>1, <2>2, <2>4, <2>5, <2>6, StoreAppends
    <2>8. Gap' = Gap
      BY <2>5, GapStays DEF SameDepths
    <2>9. SameLag
      BY <2>4 DEF SameLag, Lag
    <2>10. DepthInv'
      BY <2>1, <2>8, <2>9, DepthFrame, TasksPlace DEF StoreInv
    <2> QED BY <2>7, <2>10 DEF StoreInv
  <1>7. CASE BackCount
    <2>1. target.hand \in Tasks /\ UNCHANGED tasks /\ target.pc = "backCount"
      BY <1>7 DEF BackCount, ShapeInv, TargetHandPc
    <2>2. SameCells /\ \A q \in Places \ {Main} : fifo'[q].depth = fifo[q].depth
      BY <1>7, CountedDoes DEF BackCount
    <2>3. target'.hand = target.hand /\ target'.pc = "backPublish" /\ source' = source
      BY <1>7, <2>1, TargetToDoes DEF BackCount
    <2>4. SourceHolds /\ TargetHolds /\ SameLag
      BY <2>1, <2>3 DEF SourceHolds, TargetHolds, SameLag, Lag
    <2>5. PlacesStay /\ at' = at
      BY <2>1, TasksPlace
    <2>6. Gap' = Gap
      BY <2>2, GapStays
    <2>7. DepthInv'
      BY <2>4, <2>5, <2>6, DepthFrame DEF StoreInv
    <2>8. KeptInv'
      BY <2>2, <2>4, <2>5, WritersStay, LooseStays, SameStore DEF StoreInv, KeptInv
    <2> QED BY <2>7, <2>8 DEF StoreInv
  <1>8. CASE BackPublish
    <2>1. target.hand \in Tasks /\ UNCHANGED tasks /\ target.pc = "backPublish"
      BY <1>8 DEF BackPublish, ShapeInv, TargetHandPc
    <2>2. PICK t \in Tasks : t = target.hand
      BY <2>1
    <2>3. fifo' = [fifo EXCEPT ![Main] = WithState(@, t, "published")] /\ TargetTo("loop", None)
      BY <1>8, <2>2 DEF BackPublish
    <2>4. target'.hand = None /\ target'.pc = "loop" /\ source' = source
      BY <2>3, TargetToDoes
    <2>5. SameLag
      BY <2>4 DEF SameLag, Lag
    <2>6. TargetWrites(t, Main)
      BY <2>1, <2>2 DEF TargetWrites
    <2> QED BY <2>1, <2>2, <2>3, <2>4, <2>5, <2>6, StorePublishes
  <1> QED BY <1>1, <1>2, <1>3, <1>4, <1>5, <1>6, <1>7, <1>8

LEMMA ReturnStore ==
  ASSUME LaneInv, StoreInv,
         \/ ReturnWaits \/ ReturnObserve \/ ReturnBegin \/ ReturnCancel \/ ReturnReady
         \/ ReturnClose \/ ReturnMark \/ ReturnDirect \/ ReturnCloseStaging \/ ReturnStaging
         \/ ReturnUnregister \/ ReturnCatchup
  PROVE  StoreInv'
  <1> USE Names, PhaseNames, WorkerFacts, PcNames DEF LaneInv
  <1>0. /\ target.pc \in {"returns", "prepare", "close", "mark", "closeStaging", "unregister"}
        /\ UNCHANGED tasks
    BY DEF ReturnWaits, ReturnObserve, ReturnBegin, ReturnCancel, ReturnReady, ReturnClose,
           ReturnMark, ReturnDirect, ReturnCloseStaging, ReturnStaging, ReturnUnregister,
           ReturnCatchup, OnRoute
  <1>h. target.hand = None
    BY <1>0 DEF ShapeInv, TargetHandPc
  <1>k. PICK k \in Tunnels : k = target.tunnel
    BY <1>0 DEF ShapeInv
  <1>q. Incremental(k) \in Places /\ Staging(k) \in Places /\ Stock(k) \in Places
    OBVIOUS
  <1>p. \A pc \in {"loop", "prepare", "close", "mark", "closeStaging", "unregister"} :
          pc \in Pcs("target") /\ pc \notin {"backCount", "backPublish"}
    OBVIOUS
  <1>1. CASE UNCHANGED fifo /\ \E pc \in {"loop", "prepare", "close", "mark", "closeStaging", "unregister"} :
                                 TargetTo(pc, None)
    BY <1>0, <1>h, <1>p, <1>1, TargetGoes, FifoUnmoved
  <1>2. CASE \E p \in Places, pc \in {"dispatch", "back"} :
               /\ fifo[p].cells # <<>> /\ fifo[p].cells[1].state # "reserved"
               /\ TargetTakes(p, pc, "loop")
    BY <1>0, <1>h, <1>2, TakesStore
  <1>3. CASE SameCells /\ SameDepths /\ (TargetTo("loop", None) \/ TargetTo("mark", None))
    BY <1>0, <1>h, <1>p, <1>3, TargetGoes
  <1>4. CASE ReturnWaits \/ ReturnObserve \/ ReturnBegin \/ ReturnCancel \/ ReturnReady \/ ReturnMark
    BY <1>1, <1>4 DEF ReturnWaits, ReturnObserve, ReturnBegin, ReturnCancel, ReturnReady, ReturnMark,
                      routing
  <1>5. CASE ReturnClose
    <2> DEFINE C == {Stock(k), Incremental(k)}
    <2>1. fifo' = [fifo EXCEPT ![Stock(k)] = WithClosed(@), ![Incremental(k)] = WithClosed(@)]
      BY <1>5, <1>k DEF ReturnClose
    <2>2. \A q \in Places : fifo'[q] = IF q \in C THEN WithClosed(fifo[q]) ELSE fifo[q]
      BY <2>1 DEF Types
    <2>3. DOMAIN fifo' = Places /\ fifo' = [q \in Places |-> fifo'[q]]
      BY <2>1 DEF Types
    <2> HIDE DEF C
    <2>4. SameCells /\ SameDepths
      BY <2>2, <2>3, ClosedDoes, ClosesDepths
    <2> QED BY <1>3, <1>5, <2>4 DEF ReturnClose
  <1>6. CASE ReturnCloseStaging
    <2> DEFINE C == {Staging(k)}
    <2>1. fifo' = [fifo EXCEPT ![Staging(k)] = WithClosed(@)]
      BY <1>6, <1>k DEF ReturnCloseStaging
    <2>2. \A q \in Places : fifo'[q] = IF q \in C THEN WithClosed(fifo[q]) ELSE fifo[q]
      BY <2>1 DEF Types
    <2>3. DOMAIN fifo' = Places /\ fifo' = [q \in Places |-> fifo'[q]]
      BY <2>1 DEF Types
    <2> HIDE DEF C
    <2>4. SameCells /\ SameDepths
      BY <2>2, <2>3, ClosedDoes, ClosesDepths
    <2> QED BY <1>3, <1>6, <2>4 DEF ReturnCloseStaging
  <1>7. CASE ReturnUnregister
    <2>1. SameCells /\ Closes(QueuesOf(k))
      BY <1>k, <1>7, AllClosedTypes DEF ReturnUnregister
    <2> QED BY <1>3, <1>7, <2>1, ClosesDepths DEF ReturnUnregister
  <1>8. CASE ReturnDirect
    <2>1. CASE /\ Poll(Incremental(k)) \in {"published", "poisoned"}
               /\ TargetTakes(Incremental(k), "back", "loop")
      <3>1. fifo[Incremental(k)].cells # <<>> /\ fifo[Incremental(k)].cells[1].state # "reserved"
        BY <2>1 DEF Poll, Cells, Head1
      <3> QED BY <1>2, <1>q, <2>1, <3>1
    <2>2. CASE UNCHANGED fifo /\ (TargetTo("loop", None) \/ TargetTo("closeStaging", None))
      BY <1>1, <2>2
    <2> QED BY <1>8, <1>k, <2>1, <2>2 DEF ReturnDirect
  <1>9. CASE ReturnStaging \/ ReturnCatchup
    <2>1. CASE /\ ~Outstanding(Staging(k)) /\ Cells(Staging(k)) # <<>>
               /\ \E pc \in {"dispatch", "back"} : TargetTakes(Staging(k), pc, "loop")
      <3>1. fifo[Staging(k)].cells # <<>>
        BY <2>1 DEF Cells
      <3>2. 1 \in DOMAIN fifo[Staging(k)].cells
        BY <1>q, <3>1, HeadOf
      <3>3. fifo[Staging(k)].cells[1].state # "reserved"
        BY <2>1, <3>2 DEF Outstanding, Cells
      <3> QED BY <1>2, <1>q, <2>1, <3>1, <3>3
    <2>2. CASE UNCHANGED fifo /\ (TargetTo("loop", None) \/ TargetTo("unregister", None))
      BY <1>1, <2>2
    <2> QED BY <1>9, <1>k, <2>1, <2>2 DEF ReturnStaging, ReturnCatchup
  <1> QED BY <1>4, <1>5, <1>6, <1>7, <1>8, <1>9

LEMMA DrainStore ==
  ASSUME LaneInv, StoreInv,
         \/ DrainChosen \/ DrainClose \/ DrainItem \/ DrainStops \/ DrainDepth \/ DrainProducers
  PROVE  StoreInv'
  <1> USE Names, PhaseNames, WorkerFacts, PcNames DEF LaneInv
  <1>0. /\ target.pc \in {"returns", "drainClose", "drain", "drainDepth", "drainProducers"}
    BY DEF DrainChosen, DrainClose, DrainItem, DrainStops, DrainDepth, DrainProducers
  <1>h. target.hand = None
    BY <1>0 DEF ShapeInv, TargetHandPc
  <1>k. PICK k \in Tunnels : k = target.tunnel
    BY <1>0 DEF ShapeInv
  <1>1. CASE DrainChosen \/ DrainStops \/ DrainDepth \/ DrainProducers
    <2>1. UNCHANGED <<tasks, fifo>> /\ \E pc \in {"drainClose", "drainDepth", "drainProducers", "loop"} :
                                         TargetTo(pc, None)
      BY <1>1 DEF DrainChosen, DrainStops, DrainDepth, DrainProducers
    <2> QED BY <1>h, <2>1, TargetGoes, FifoUnmoved
  <1>2. CASE DrainClose
    <2>1. SameCells /\ Closes(QueuesOf(k)) /\ UNCHANGED tasks /\ TargetTo("drain", None)
      BY <1>k, <1>2, AllClosedTypes DEF DrainClose
    <2> QED BY <1>h, <2>1, ClosesDepths, TargetGoes
  <1>3. CASE DrainItem
    <2>1. PICK p \in Places : p = FailurePoll(k)
      BY FailurePollIs
    <2>2. /\ Poll(p) \in {"published", "poisoned"}
          /\ fifo' = [fifo EXCEPT ![p] = WithoutHead(@)]
          /\ IF Poll(p) = "published" /\ at[Head1(p).task] = "queued"
             THEN SettleAs(Head1(p).task, "settled") ELSE UNCHANGED tasks
          /\ UNCHANGED workers
      BY <1>3, <1>k, <2>1 DEF DrainItem
    <2>3. /\ fifo[p].cells # <<>> /\ Poll(p) = fifo[p].cells[1].state
          /\ Head1(p).task = fifo[p].cells[1].task /\ fifo[p].cells[1].state # "reserved"
      BY <2>2 DEF Poll, Cells, Head1
    <2>4. PICK t \in Tasks : t = fifo[p].cells[1].task
      BY <2>3, HeadOf
    <2>5. SourceHolds /\ TargetHolds /\ SameLag
      BY <2>2, HoldsStill
    <2>6. CASE ~(Poll(p) = "published" /\ at[t] = "queued")
      <3>1. PlacesStay /\ at' = at
        BY <2>2, <2>3, <2>4, <2>6, TasksPlace
      <3> QED BY <2>2, <2>3, <2>4, <2>5, <2>6, <3>1, StoreDrop
    <2>7. CASE Poll(p) = "published" /\ at[t] = "queued"
      <3>1. at' = [at EXCEPT ![t] = "settled"] /\ where' = where
        BY <2>2, <2>3, <2>4, <2>7 DEF SettleAs
      <3>2. \A u \in Tasks : at'[u] = IF u = t THEN "settled" ELSE at[u]
        BY <3>1 DEF Types
      <3>3. PlacesStay /\ \A u \in Tasks : at'[u] = "queued" => at[u] = "queued"
        BY <3>1, <3>2 DEF PlacesStay
      <3>4. at'[t] # "queued"
        BY <3>2
      <3> QED BY <2>2, <2>3, <2>4, <2>5, <3>3, <3>4, StoreDrop
    <2> QED BY <2>6, <2>7
  <1> QED BY <1>1, <1>2, <1>3

LEMMA StopStore ==
  ASSUME LaneInv, StoreInv,
         \/ \E s \in Slots : OtherStarts(s) \/ OtherEnds(s) \/ Shut(s)
         \/ \E m \in Stops : Stop(m)
         \/ UNCHANGED vars
  PROVE  StoreInv'
  <1> USE DEF LaneInv
  <1>w. SourceHolds /\ TargetHolds /\ SameLag /\ UNCHANGED tasks
    BY HoldsStill DEF OtherStarts, OtherEnds, Shut, Stop, vars
  <1>1. ASSUME NEW s \in Slots, Shut(s) PROVE StoreInv'
    <2> DEFINE inbound == IF s = "target" THEN registered ELSE {}
               C == {p \in Places : p[1] \in inbound}
    <2>1. fifo' = [p \in Places |-> IF p[1] \in inbound THEN WithClosed(fifo[p]) ELSE fifo[p]]
      BY <1>1 DEF Shut
    <2>2. /\ DOMAIN fifo' = Places /\ fifo' = [q \in Places |-> fifo'[q]]
          /\ \A q \in Places : fifo'[q] = IF q \in C THEN WithClosed(fifo[q]) ELSE fifo[q]
      BY <2>1
    <2> HIDE DEF C
    <2>3. SameCells /\ SameDepths
      BY <2>2, ClosedDoes, ClosesDepths
    <2> QED BY <1>w, <2>3, StoreQuiet
  <1>2. CASE UNCHANGED fifo
    BY <1>w, <1>2, FifoUnmoved, StoreQuiet
  <1> QED BY <1>1, <1>2 DEF OtherStarts, OtherEnds, Stop, vars

LEMMA StoreKept ==
  ASSUME LaneInv, StoreInv, [Next]_vars
  PROVE  StoreInv'
  <1>1. Types'
    BY TypesKept DEF LaneInv
  <1> QED BY <1>1, IssueStore, SubmissionStore, SourceStore, TargetStore, ReturnStore, DrainStore,
             StopStore DEF Next, TargetWorker

(* Neither a stop nor a failure is taken back.                             *)
LEMMA ControlStays ==
  ASSUME [Next]_vars
  PROVE  /\ failed => failed'
         /\ mode' = "running" => mode = "running"
         /\ mode' # "force" => mode # "force"
  <1>1. CASE \E m \in Stops : Stop(m)
    BY <1>1, RouteAssumption DEF Stop
  <1>2. CASE TargetFailRoute
    BY <1>2 DEF TargetFailRoute
  <1>3. CASE ~TargetFailRoute /\ ~\E m \in Stops : Stop(m)
    <2>1. UNCHANGED <<mode, failed>>
      BY <1>3 DEF Next, Issue, Submission, Business, Caller, Reserve, Refuse, Count, Publish, Withdraw,
           CancelQueued, CancelWaiting, Lease, LeaseRefused, VoidEnds, Run, Finish, Release, Abort,
           StealRegister, SourceWorker, StealInstall, SourceResume, SourceTake, SourceIdle, SourceRoute,
           SourceStock, SourceCount, SourcePublish, SourceDispatch, SourceMigrate, SourceFinish,
           SourceExit, TargetFails, TargetWorker, TargetTurn, TargetStock, TargetIncremental,
           TargetDispatch, ReturnWaits, ReturnObserve, ReturnBegin, ReturnCancel,
           ReturnReady, ReturnClose, ReturnMark, ReturnDirect, ReturnCloseStaging, ReturnStaging,
           ReturnUnregister, ReturnCatchup, BackReserve, BackCount, BackPublish, DrainChosen,
           DrainClose, DrainItem, DrainStops, DrainDepth, DrainProducers, TargetExit, OtherStarts,
           OtherEnds, Shut, control, vars
    <2> QED BY <2>1
  <1> QED BY <1>1, <1>2, <1>3

LEMMA CalmKept ==
  ASSUME LaneInv, DepthInv, ~Overlaps, ~MayFail, Calm, Doors, [Next]_vars
  PROVE  Calm' /\ Doors'
  <1>1. Base
    BY TypesKept DEF Base, LaneInv
  <1>2. (mode' = "running" => mode = "running") /\ (mode' # "force" => mode # "force")
    BY ControlStays
  <1>3. ASSUME mode # "force", CalmInv PROVE CalmInv' /\ (OpenInv /\ mode = "running" => OpenInv')
    BY <1>1, <1>3, SubmissionCalm, SourceCalm, TargetCalm, ReturnCalm, BackCalm, StopCalm
       DEF Next, TargetWorker
  <1> QED BY <1>2, <1>3 DEF Calm, Doors

-----------------------------------------------------------------------------
(* Whom the type turns away.                                               *)
LEMMA RefusedOnly ==
  ASSUME Types, [Next]_vars, NEW t \in Tasks, at'[t] = "refused", at[t] # "refused"
  PROVE  Refuse(t)
  <1> SUFFICES ASSUME ~Refuse(t) PROVE FALSE
    OBVIOUS
  <1>1. \A x : \A u : at' = [at EXCEPT ![u] = x] /\ x # "refused" => at'[t] = at[t] \/ at'[t] = x
    BY DEF Types
  <1>2. CASE UNCHANGED tasks
    BY <1>2 DEF tasks
  <1>3. CASE \E x \in Phase \ {"refused"} : \E u : at' = [at EXCEPT ![u] = x]
    BY <1>1, <1>3
  <1>4. "settled" \in Phase \ {"refused"} /\ "waiting" \in Phase \ {"refused"}
    BY PhaseNames
  <1>5. ASSUME NEW u, NEW s, Dispatched(u, s) PROVE FALSE
    BY <1>3, <1>4, <1>5 DEF Dispatched, SettleAs
  <1>6. CASE Issue
    BY <1>3, <1>6, PhaseNames DEF Issue
  <1>7. ASSUME NEW u \in Tasks, Submission(u) \/ Business(u) \/ Caller(u) PROVE FALSE
    <2>1. CASE Refuse(u)
      <3>1. u # t /\ at' = [at EXCEPT ![u] = "refused"]
        BY <2>1 DEF Refuse, SettleAs
      <3> QED BY <3>1 DEF Types
    <2>2. CASE ~Refuse(u)
      <3>1. \E x \in {"entered", "reserved", "queued", "settled", "void", "leased", "running", "ending"} :
              at' = [at EXCEPT ![u] = x]
        BY <1>7, <2>2 DEF Submission, Business, Caller, Reserve, Count, Publish, Withdraw, CancelQueued,
             CancelWaiting, Lease, LeaseRefused, VoidEnds, Run, Finish, Release, Abort, TaskTo, SettleAs
      <3> QED BY <1>3, <3>1, PhaseNames
    <2> QED BY <2>1, <2>2
  <1>8. CASE StealRegister \/ SourceWorker
    <2>1. CASE SourceResume
      BY <1>2, <1>3, <1>4, <2>1 DEF SourceResume, SettleAs
    <2>2. CASE SourceDispatch
      BY <1>2, <1>5, <2>2 DEF SourceDispatch
    <2> QED BY <1>2, <1>8, <2>1, <2>2 DEF StealRegister, SourceWorker, StealInstall, SourceTake, SourceIdle,
          SourceRoute, SourceStock, SourceCount, SourcePublish, SourceMigrate, SourceFinish, SourceExit
  <1>9. CASE TargetFails \/ TargetWorker
    <2>1. CASE TargetDispatch
      BY <1>5, <2>1 DEF TargetDispatch
    <2>2. CASE DrainItem
      BY <1>2, <1>3, <1>4, <2>2 DEF DrainItem, SettleAs
    <2> QED BY <1>2, <1>9, <2>1, <2>2 DEF TargetFails, TargetWorker, TargetTurn, TargetStock,
          TargetIncremental, TargetFailRoute, ReturnWaits, ReturnObserve, ReturnBegin, ReturnCancel,
          ReturnReady, ReturnClose, ReturnMark, ReturnDirect, ReturnCloseStaging, ReturnStaging,
          ReturnUnregister, ReturnCatchup, BackReserve, BackCount, BackPublish, DrainChosen, DrainClose,
          DrainStops, DrainDepth, DrainProducers, TargetExit
  <1>10. CASE \/ \E s \in Slots : OtherStarts(s) \/ OtherEnds(s) \/ Shut(s)
              \/ \E m \in Stops : Stop(m)
              \/ UNCHANGED vars
    BY <1>2, <1>10 DEF OtherStarts, OtherEnds, Shut, Stop, vars
  <1> QED BY <1>6, <1>7, <1>8, <1>9, <1>10 DEF Next

(* The queue that an unfailed route names is open while the runner runs.   *)
LEMMA DestinationOpen ==
  ASSUME Types, ShapeInv, CalmInv, OpenInv, ~failed
  PROVE  ~PlacementRefused
  <1> USE Names
  <1>1. route.state # "Failed" /\ shut = {}
    BY DEF CalmInv, RegisterInv, OpenInv
  <1>2. PICK d \in Places : d = Destination
    BY DestinationIs
  <1>3. DestinationCase(d)
    BY <1>2, DestinationCases
  <1>4. Open(d)
    <2>1. CASE d = Main
      BY <1>1, <2>1 DEF Open
    <2>2. CASE d # Main
      <3>1. PICK k \in Tunnels : k = route.tunnel
        BY <1>3, <2>2 DEF DestinationCase
      <3>2. CASE d = Incremental(k)
        <4>1. route.state \in {"Migrating", "Stolen", "StolenCatchup"}
          BY <1>3, <3>1, <3>2 DEF DestinationCase
        <4>2. ~fifo[d].closed /\ tunnel[k].accepting
          BY <3>1, <3>2, <4>1 DEF OpenInv, Opened, DirectOpen
        <4>3. d[1] = k
          BY <3>2 DEF Incremental
        <4> QED BY <2>2, <4>2, <4>3 DEF Open
      <3>3. CASE d = Staging(k)
        <4>1. route.state \in {"ReturnPrepare", "Returning"}
          BY <1>1, <1>3, <3>1, <3>3 DEF DestinationCase
        <4>2. ~fifo[d].closed
          BY <3>1, <3>3, <4>1 DEF OpenInv, StagingOpen
        <4>3. d = Staging(d[1])
          BY <3>3 DEF Staging
        <4> QED BY <2>2, <4>2, <4>3 DEF Open
      <3> QED BY <1>3, <2>2, <3>1, <3>2, <3>3 DEF DestinationCase
    <2> QED BY <2>1, <2>2
  <1> QED BY <1>1, <1>2, <1>4 DEF PlacementRefused

RouteInv == LaneInv /\ StoreInv /\ Calm /\ Doors

LEMMA RouteKept ==
  ASSUME ~Overlaps, ~MayFail, RouteInv, [Next]_vars
  PROVE  RouteInv'
  BY LaneKept, StoreKept, CalmKept DEF RouteInv, StoreInv

LEMMA RouteStart == Init => RouteInv
  <1> SUFFICES ASSUME Init PROVE RouteInv
    OBVIOUS
  <1> USE Names
  <1>1. LaneInv
    BY LaneStart
  <1>2. \A p \in Places : fifo[p].cells = <<>> /\ Len(fifo[p].cells) = 0 /\ fifo[p].depth = 0 /\ ~fifo[p].closed
    BY DEF Init, EmptyFifo
  <1>3. Empty = Places /\ MainLen = 0
    BY <1>2 DEF Empty, MainLen
  <1>4. \A k \in Tunnels : tunnel[k].accepting /\ ~tunnel[k].frozen
    BY DEF Init, NewTunnel
  <1>5. StockOpen = Tunnels /\ DirectOpen = Tunnels /\ StagingOpen = Tunnels /\ Frozen = {}
    BY <1>2, <1>4 DEF StockOpen, DirectOpen, StagingOpen, Frozen
  <1>6. /\ source.pc = "loop" /\ target.pc = "loop" /\ source.hand = None /\ target.hand = None
        /\ route.state = "Local" /\ route.tunnel = None /\ registered = {} /\ shut = {} /\ opened = 0
        /\ \A t \in Tasks : at[t] = "new"
    BY DEF Init
  <1>7. RegisterInv
    BY <1>6 DEF RegisterInv
  <1>8. StepInv
    BY <1>6 DEF StepInv
  <1>9. MigrateInv
    BY <1>5, <1>6 DEF MigrateInv
  <1>10. ReturnInv
    <2>1. \A k \in Tunnels : QueuesOf(k) \subseteq Places
      BY DEF QueuesOf
    <2> QED BY <1>3, <1>6, <2>1 DEF ReturnInv
  <1>11. OpenInv
    BY <1>5, <1>6 DEF OpenInv, Fresh, Installing, Opened
  <1>12. DepthInv
    BY <1>2, <1>6 DEF DepthInv, Gap, Lag
  <1>13. KeptInv
    <2>1. Loose = {}
      BY <1>6 DEF Loose
    <2>2. \A p \in Places : Writers(p) = {}
      BY <1>6 DEF Writers, Writing, SourceWrites, TargetWrites
    <2> QED BY <2>1, <2>2 DEF KeptInv
  <1> QED BY <1>1, <1>7, <1>8, <1>9, <1>10, <1>11, <1>12, <1>13
          DEF RouteInv, StoreInv, Calm, Doors, CalmInv

(* A healthy, running type never turns a task away (reserve_placement):    *)
(* whatever step of a steal or a return has been taken, the queue that the *)
(* route names is open.  For any number of tasks and tunnels, with any     *)
(* stop, as long as no queue fails and the target does not run between the *)
(* registration of a tunnel and its installation.                          *)
THEOREM NeverRefused ==
  ASSUME ~Overlaps, ~MayFail
  PROVE  Spec => []NoRefusal
  <1>1. Init => RouteInv /\ NoRefusal
    <2>1. Init => NoRefusal
      BY DEF Init, NoRefusal
    <2> QED BY <2>1, RouteStart
  <1>2. RouteInv /\ NoRefusal /\ [Next]_vars => (RouteInv /\ NoRefusal)'
    <2> SUFFICES ASSUME RouteInv, NoRefusal, [Next]_vars PROVE RouteInv' /\ NoRefusal'
      OBVIOUS
    <2>1. RouteInv'
      BY RouteKept
    <2>2. NoRefusal'
      <3> SUFFICES ASSUME NEW t \in Tasks, at'[t] = "refused", ~failed', mode' = "running" PROVE FALSE
        BY DEF NoRefusal
      <3>1. ~failed /\ mode = "running"
        BY ControlStays
      <3>2. at[t] # "refused"
        BY <3>1 DEF NoRefusal
      <3>3. Refuse(t)
        BY <3>2, RefusedOnly DEF RouteInv, LaneInv
      <3>4. CalmInv /\ OpenInv
        BY <3>1 DEF RouteInv, Calm, Doors
      <3>5. ~PlacementRefused
        BY <3>1, <3>4, DestinationOpen DEF RouteInv, LaneInv
      <3> QED BY <3>3, <3>5 DEF Refuse
    <2> QED BY <2>1, <2>2
  <1> QED BY <1>1, <1>2, PTL DEF Spec

(* An accepted task is always where a worker will still look for it, until *)
(* a forced stop (runner.rs, consume_main and progress_returns): in a      *)
(* hand, in main, or in a queue of a registered tunnel; and what a return  *)
(* no longer polls is empty.                                               *)
THEOREM NeverStranded ==
  ASSUME ~Overlaps, ~MayFail
  PROVE  Spec => [](mode # "force" => NothingStranded)
  <1>1. Init => RouteInv
    BY RouteStart
  <1>2. RouteInv /\ [Next]_vars => RouteInv'
    BY RouteKept
  <1>3. RouteInv => (mode # "force" => NothingStranded)
    <2> SUFFICES ASSUME RouteInv, mode # "force" PROVE NothingStranded
      OBVIOUS
    <2> USE Names
    <2>0. Types /\ ShapeInv /\ CalmInv /\ KeptInv
      BY DEF RouteInv, LaneInv, StoreInv, Calm
    <2>1. ASSUME NEW t \in Tasks, at[t] = "queued", t \notin {source.hand, target.hand}
          PROVE  \E p \in {Main} \cup UNION {QueuesOf(k) : k \in registered} : InCells(t, p)
      <3>1. PICK p \in Places : Has(t, p, "published")
        BY <2>0, <2>1 DEF KeptInv, Loose, Stored
      <3>2. InCells(t, p)
        BY <2>0, <3>1, CellsOf DEF Has, InCells, Cells
      <3>3. p \notin Empty
        BY <2>0, <3>1, EmptyIs DEF Has
      <3>4. p = Main \/ \E k \in Tunnels : p \in QueuesOf(k)
        BY DEF Places
      <3>5. p = Main \/ \E k \in registered : p \in QueuesOf(k)
        BY <2>0, <3>3, <3>4 DEF CalmInv, ReturnInv
      <3> QED BY <3>2, <3>5
    <2>2. route.state # "Local" => route.tunnel \in Tunnels
      BY <2>0 DEF ShapeInv
    <2>3. route.state \in {"Returning", "LocalCatchup"} => Cells(Stock(route.tunnel)) = <<>>
      BY <2>0 DEF CalmInv, ReturnInv, Empty, Cells
    <2>4. route.state = "LocalCatchup" => Cells(Incremental(route.tunnel)) = <<>>
      BY <2>0 DEF CalmInv, ReturnInv, Empty, Cells
    <2> QED BY <2>1, <2>3, <2>4 DEF NothingStranded
  <1> QED BY <1>1, <1>2, <1>3, PTL DEF Spec

(* No accepted task is lost, whatever fails, stops or overlaps: while it   *)
(* is queued it is in a worker's hand or in a published cell of some queue *)
(* of the type (tunnel/strict.rs, move_to_strict and move_to_main of       *)
(* runner.rs publish it before they let go of it).                         *)
Somewhere ==
  \A t \in Tasks : at[t] = "queued" =>
    t \in {source.hand, target.hand} \/ \E p \in Places : InCells(t, p)

THEOREM NeverLost == Spec => []Somewhere
  <1>1. Init => LaneInv /\ StoreInv
    BY RouteStart DEF RouteInv
  <1>2. LaneInv /\ StoreInv /\ [Next]_vars => (LaneInv /\ StoreInv)'
    BY LaneKept, StoreKept
  <1>3. LaneInv /\ StoreInv => Somewhere
    <2> SUFFICES ASSUME LaneInv, StoreInv, NEW t \in Tasks, at[t] = "queued",
                        t \notin {source.hand, target.hand}
                 PROVE  \E p \in Places : InCells(t, p)
      BY DEF Somewhere
    <2>1. PICK p \in Places : Has(t, p, "published")
      BY DEF StoreInv, KeptInv, Loose, Stored
    <2>2. InCells(t, p)
      BY <2>1, CellsOf DEF Has, InCells, Cells, LaneInv
    <2> QED BY <2>2
  <1> QED BY <1>1, <1>2, <1>3, PTL DEF Spec
=============================================================================
