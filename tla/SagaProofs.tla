---------------------------- MODULE SagaProofs ----------------------------
(***************************************************************************)
(* Theorems about one saga (Saga and SagaParticipant), for every number of *)
(* steps, every mode and policy of a step and every attempt budget.        *)
(*                                                                         *)
(* JournalInv needs no assumption on the delivery of messages.  It holds   *)
(* of the database alone: the types, the timer that watches an automatic   *)
(* saga (Timed), and the shape every handler keeps (Shape): the steps that *)
(* acted are a prefix with at most one open step behind it (Front), a plan *)
(* is frozen exactly when the saga runs backwards and lists the succeeded  *)
(* steps, and only a succeeded step is asked to compensate.                *)
(*                                                                         *)
(* SagaInv adds what the journal says of the world.  A row is never more   *)
(* certain than the participant's gate (RowTrue), a gate is true of the    *)
(* world (GateTrue), every answer in a participant's inbox still is        *)
(* (ResultTrue), a step is asked to compensate only when no later effect   *)
(* stands (OrderTrue), and a reversal is asked about only once the         *)
(* participant has answered a compensate command (QueryTrue).  It needs no *)
(* assumption on the order or the number of deliveries; it needs that no   *)
(* answer of a forward query is read once the saga compensates             *)
(* (~StaleAnswers).  A query about the effect which a compensate command   *)
(* overtook (Overtaken) may answer about either, and nobody reads it.      *)
(*                                                                         *)
(* The proof goes primitive by primitive: Kept(t), Told(t) and Extends say *)
(* that a handler's result t, if the transaction commits, has the shape,   *)
(* is true and only appends commands.                                      *)
(***************************************************************************)
EXTENDS Saga, FiniteSetTheorems, WellFoundedInduction, TLAPS

(***************************************************************************)
(* Types.                                                                  *)
(***************************************************************************)
Statuses == Automatic \cup Terminal \cup {Manual}
Directions == {"Forward", "Compensating"}

RowType == [fwd : {"Pending", "Succeeded", "Rejected", "Cancelled", "Unknown", "TimedOut", "Halted"},
            cancel : {"None", "Confirmed", "AlreadyTerminal", "ResolutionPending"},
            comp : {"None", "Pending", "Succeeded", "Unknown", "Halted"},
            res : {"None", "Pending", "Succeeded", "Rejected", "Halted"}]

CommandType == [ph : Phases, n : Nat, rec : BOOLEAN]

TimerType == {NoTimer} \cup [s : Steps, ph : Phases, n : Nat]

BudgetType == [s : Steps, dir : Directions, n : Nat]

DbType == [status : Statuses, dir : Directions, cur : 0 .. N, paused : BOOLEAN,
           frozen : BOOLEAN, plan : Seq(Steps), row : [Steps -> RowType],
           cmds : [Steps -> Seq(CommandType)], timer : TimerType,
           budgets : SUBSET BudgetType, budget : SUBSET BudgetType,
           deadline : BOOLEAN, ok : BOOLEAN]

GateType == [fwd : {"Absent", "Succeeded", "Rejected", "Cancelled", "Unknown", "Halted"},
             cancel : {"None", "Confirmed", "AlreadyTerminal", "ResolutionPending"},
             comp : {"None", "Succeeded", "Unknown", "Halted"},
             res : {"None", "Pending", "Succeeded", "Rejected", "Halted"}]

WorldType == [done : BOOLEAN, undone : BOOLEAN]

(* The outcomes of each phase.                                             *)
Outcomes == [Execute |-> {"Succeeded", "Rejected", "Unknown", "Halted"},
             Cancel |-> {"Confirmed", "LateSucceeded", "LateRejected", "LateHalted", "ResolutionPending"},
             Compensate |-> {"Succeeded", "Unknown", "Halted"},
             Resolve |-> {"Succeeded", "Rejected", "Unknown", "Halted"}]

Types ==
  /\ db \in DbType /\ db.ok /\ db.budget \subseteq db.budgets
  /\ gate \in [Steps -> GateType]
  /\ world \in [Steps -> WorldType]
  /\ ops \in 0 .. Ops
  /\ DOMAIN results = Steps /\ DOMAIN applied = Steps
  /\ \A s \in Steps :
       /\ DOMAIN results[s] \subseteq DOMAIN db.cmds[s]
       /\ applied[s] \subseteq DOMAIN results[s]
       /\ \A i \in DOMAIN results[s] :
            \/ results[s][i] = NoResult
            \/ results[s][i] \in Outcomes[db.cmds[s][i].ph]

(***************************************************************************)
(* The watch over an automatic saga.                                       *)
(***************************************************************************)
Timed(d) ==
  d.status \in Automatic =>
    /\ d.timer # NoTimer /\ d.cur \in Steps
    /\ d.timer.s = d.cur
    /\ d.timer.ph \in Phases /\ Awaits[d.timer.ph] = d.status
    /\ d.timer.n = NextAttempt(d, d.cur, d.timer.ph) - 1

(***************************************************************************)
(* The shape of the journal.                                               *)
(***************************************************************************)
Certain == {"Succeeded", "Rejected", "Cancelled"}

Compensates(d, s) == \E c \in DOMAIN d.cmds[s] : d.cmds[s][c].ph = "Compensate"

(* k is the last step that was ever asked to act.                          *)
Front(d, k) ==
  /\ d.cmds[k] # <<>>
  /\ \A t \in Steps : /\ t < k => d.row[t].fwd = "Succeeded"
                      /\ k < t => d.row[t].fwd = "Pending" /\ d.cmds[t] = <<>>
  /\ d.dir = "Forward" /\ d.cur # 0 => d.cur = k

PlanShape(d) ==
  /\ d.frozen <=> d.dir = "Compensating"
  /\ d.frozen =>
       /\ {d.plan[i] : i \in DOMAIN d.plan} = Succeeded(d)
       /\ \A s \in Steps : d.row[s].fwd \in Certain \/ d.cmds[s] = <<>>

CommandShape(d) ==
  \A s \in Steps : Compensates(d, s) => d.frozen /\ d.row[s].fwd = "Succeeded"

CurrentShape(d) == d.dir = "Compensating" /\ d.cur # 0 => Compensates(d, d.cur)

StatusShape(d) ==
  /\ d.status \in {"Running", "Cancelling", "Completed"} => d.dir = "Forward"
  /\ d.status \in {"Compensating", "Compensated"} => d.dir = "Compensating"
  /\ d.status = "Completed" => \A s \in Steps : d.row[s].fwd = "Succeeded"

Body(d) ==
  (\E k \in Steps : Front(d, k)) /\ PlanShape(d) /\ CommandShape(d) /\ StatusShape(d)

Shape(d) == Body(d) /\ CurrentShape(d)

JournalInv == Types /\ Timed(db) /\ Shape(db)

(***************************************************************************)
(* The truth of the journal.                                               *)
(***************************************************************************)
(* The query at position i was issued after a compensate command.          *)
AsksBack(d, s, i) == \E c \in DOMAIN d.cmds[s] : d.cmds[s][c].ph = "Compensate" /\ c < i
Reversing(s) == \E c \in DOMAIN results[s] : db.cmds[s][c].ph = "Compensate"

RowTrue(d) ==
  \A s \in Steps : /\ d.row[s].fwd \in Certain => gate[s].fwd = d.row[s].fwd
                   /\ d.row[s].comp = "Succeeded" => world[s].undone

OrderTrue(d) ==
  \A s, t \in Steps : Compensates(d, s) /\ s < t /\ world[t].done => world[t].undone

EndTrue(d) == d.status = "Compensated" => \A s \in Steps : world[s].done => world[s].undone

(* A reversal is left open, and asked about, only once the participant has *)
(* answered a compensate command.                                          *)
QueryTrue(d) ==
  /\ d.status = "WaitingResolution" /\ d.dir = "Compensating" => Reversing(d.cur)
  /\ \A s \in Steps :
       /\ d.row[s].comp = "Unknown" => Reversing(s)
       /\ d.dir = "Forward" => ~Compensates(d, s)
       /\ \A i \in DOMAIN d.cmds[s] :
            d.cmds[s][i].ph = "Resolve" /\ AsksBack(d, s, i) => Reversing(s)

Truth(d) == RowTrue(d) /\ OrderTrue(d) /\ EndTrue(d) /\ QueryTrue(d)

(* A query about the effect that a compensate command overtook: what it    *)
(* answers may be about either, and nobody reads it.                       *)
Overtaken(d, s, i) ==
  d.cmds[s][i].ph = "Resolve" /\ Compensates(d, s) /\ ~AsksBack(d, s, i)

GateTrue(g, w, rev) ==
  /\ g.fwd = "Succeeded" => w.done
  /\ g.fwd \in {"Rejected", "Cancelled"} => ~w.done
  /\ w.undone => g.fwd = "Succeeded"
  /\ g.comp = "Succeeded" => w.undone
  /\ rev => /\ g.fwd = "Succeeded"
            /\ g.comp = "None" => g.res = "Rejected"
            /\ g.res = "Succeeded" => w.undone
  /\ ~rev => /\ g.comp = "None"
             /\ g.res \in {"Succeeded", "Rejected"} => g.fwd = g.res

ResultTrue(ph, o, g, w, back) ==
  /\ ph = "Execute" /\ o \in {"Succeeded", "Rejected"} => g.fwd = o
  /\ ph = "Cancel" => /\ o = "LateSucceeded" => g.fwd = "Succeeded"
                      /\ o = "LateRejected" => g.fwd = "Rejected"
                      /\ o = "Confirmed" => g.fwd = "Cancelled"
  /\ ph = "Compensate" /\ o = "Succeeded" => w.undone
  /\ ph = "Resolve" /\ ~back /\ o \in {"Succeeded", "Rejected"} => g.fwd = o
  /\ ph = "Resolve" /\ back /\ o = "Succeeded" => w.undone

(* What a participant's transaction never takes back.                      *)
Moves(g, w, h, v) ==
  /\ g.fwd \in Certain => h.fwd = g.fwd
  /\ g.fwd # "Absent" => v.done = w.done
  /\ w.done => v.done
  /\ w.undone => v.undone

ParticipantInv ==
  \A s \in Steps :
    /\ db.cmds[s] = <<>> => gate[s] = NoGate /\ world[s] = NoWorld
    /\ world[s].undone => Compensates(db, s)
    /\ ~External(Mode[s]) /\ gate[s].fwd = "Absent" => ~world[s].done
    /\ GateTrue(gate[s], world[s], Reversing(s))
    /\ \A i \in DOMAIN results[s] :
         \/ Overtaken(db, s, i)
         \/ ResultTrue(db.cmds[s][i].ph, results[s][i], gate[s], world[s], AsksBack(db, s, i))

SagaInv == JournalInv /\ Truth(db) /\ ParticipantInv
-----------------------------------------------------------------------------
(* Records of the database.                                                *)
Columns == {"fwd", "cancel", "comp", "res"}

LEMMA RowDomain == ASSUME NEW r \in RowType PROVE DOMAIN r = Columns
  BY DEF RowType, Columns

(* A patch names some columns and gives each a value of its type.          *)
Patches(p) ==
  /\ DOMAIN p \subseteq Columns
  /\ "fwd" \in DOMAIN p => p["fwd"] \in {"Pending", "Succeeded", "Rejected", "Cancelled", "Unknown", "TimedOut", "Halted"}
  /\ "cancel" \in DOMAIN p => p["cancel"] \in {"None", "Confirmed", "AlreadyTerminal", "ResolutionPending"}
  /\ "comp" \in DOMAIN p => p["comp"] \in {"None", "Pending", "Succeeded", "Unknown", "Halted"}
  /\ "res" \in DOMAIN p => p["res"] \in {"None", "Pending", "Succeeded", "Rejected", "Halted"}

LEMMA WrittenRow ==
  ASSUME NEW r \in RowType, NEW p, Patches(p)
  PROVE  LET q == Written(r, p) IN
         /\ q \in RowType
         /\ q.fwd = IF "fwd" \in DOMAIN p THEN p["fwd"] ELSE r.fwd
         /\ q.cancel = IF "cancel" \in DOMAIN p THEN p["cancel"] ELSE r.cancel
         /\ q.comp = IF "comp" \in DOMAIN p THEN p["comp"] ELSE r.comp
         /\ q.res = IF "res" \in DOMAIN p THEN p["res"] ELSE r.res
  BY RowDomain DEF Written, Patches, Columns, RowType

LEMMA MergedPatch ==
  ASSUME NEW r \in RowType, NEW p, Patches(p)
  PROVE  LET m == Merge(r, p) IN
         /\ Patches(m) /\ DOMAIN m = DOMAIN p
         /\ \A f \in DOMAIN p : m[f] = IF r[f] \in Open[f] THEN p[f] ELSE r[f]
  BY RowDomain DEF Merge, Patches, Columns, RowType

LEMMA MergedRow ==
  ASSUME NEW r \in RowType, NEW p, Patches(p)
  PROVE  LET q == Written(r, Merge(r, p)) IN
         /\ q \in RowType
         /\ q.fwd = IF "fwd" \in DOMAIN p /\ r.fwd \in {"Pending", "Unknown", "TimedOut"} THEN p["fwd"] ELSE r.fwd
         /\ q.comp = IF "comp" \in DOMAIN p /\ r.comp \in {"None", "Pending", "Unknown"} THEN p["comp"] ELSE r.comp
  <1>1. Patches(Merge(r, p)) /\ DOMAIN Merge(r, p) = DOMAIN p
        /\ \A f \in DOMAIN p : Merge(r, p)[f] = IF r[f] \in Open[f] THEN p[f] ELSE r[f]
    BY MergedPatch
  <1>2. Open["fwd"] = {"Pending", "Unknown", "TimedOut"} /\ Open["comp"] = {"None", "Pending", "Unknown"}
    BY DEF Open
  <1>3. r["fwd"] = r.fwd /\ r["comp"] = r.comp
    BY DEF RowType
  <1> QED BY <1>1, <1>2, <1>3, WrittenRow
-----------------------------------------------------------------------------
(* What the transaction primitives change, and what they leave.  Sound     *)
(* reads the head and the core of the database, Timed the head, the        *)
(* commands and the timer.                                                 *)
Place(d) == <<d.status, d.dir, d.cur>>
Core(d) == <<d.frozen, d.plan, d.row, d.cmds>>
Rest(d) == <<d.paused, d.budgets, d.budget, d.deadline>>

Ready(d) == d \in DbType /\ d.budget \subseteq d.budgets

LEMMA Named ==
  /\ NoTimer \in TimerType
  /\ Automatic \subseteq Statuses /\ Manual \in Statuses /\ Terminal \subseteq Statuses
  /\ Manual \notin Automatic /\ Automatic \cap Terminal = {}
  /\ N \in Nat /\ N > 0 /\ Steps \subseteq 0 .. N /\ 0 \notin Steps /\ 1 \in Steps
  /\ Automatic = {"Running", "Cancelling", "WaitingResolution", "Compensating"}
  /\ \A ph \in Phases : Awaits[ph] \in Automatic
  BY DefinitionAssumption
     DEF NoTimer, TimerType, Statuses, Automatic, Terminal, Manual, Steps, Phases, Awaits

LEMMA AdvanceDoes ==
  ASSUME NEW d, Ready(d), NEW to \in Statuses, NEW dir \in Directions, NEW cur \in 0 .. N
  PROVE  LET t == Advance(d, to, dir, cur) IN
         /\ Ready(t) /\ t.status = to /\ t.dir = dir /\ t.cur = cur /\ t.timer = NoTimer
         /\ Core(t) = Core(d) /\ Rest(t) = Rest(d)
         /\ t.ok => d.ok
  <1>1. NoTimer \in TimerType
    BY Named
  <1>2. (d.ok /\ ~d.paused /\ <<d.status, to>> \in Edges) \in BOOLEAN
    OBVIOUS
  <1> QED BY <1>1, <1>2 DEF Advance, Ready, DbType, Core, Rest

LEMMA EscalateDoes ==
  ASSUME NEW d, Ready(d)
  PROVE  LET t == Escalate(d) IN
         /\ Ready(t) /\ t.status = Manual /\ t.dir = d.dir /\ t.cur = d.cur
         /\ Core(t) = Core(d) /\ Rest(t) = Rest(d)
         /\ t.ok => d.ok
  <1>1. d.dir \in Directions /\ d.cur \in 0 .. N /\ Manual \in Statuses
    BY Named DEF Ready, DbType
  <1> QED BY <1>1, AdvanceDoes DEF Escalate

LEMMA PatchDoes ==
  ASSUME NEW d, Ready(d), NEW s \in Steps, NEW p, Written(d.row[s], p) \in RowType
  PROVE  LET t == Patch(d, s, p) IN
         /\ Ready(t) /\ t.row[s] = Written(d.row[s], p)
         /\ \A r \in Steps \ {s} : t.row[r] = d.row[r]
         /\ Place(t) = Place(d) /\ Rest(t) = Rest(d) /\ t.timer = d.timer /\ t.ok = d.ok
         /\ t.frozen = d.frozen /\ t.plan = d.plan /\ t.cmds = d.cmds
  BY DEF Patch, Ready, DbType, Place, Rest

LEMMA CancelTimerDoes ==
  ASSUME NEW d, Ready(d), NEW s, NEW ph
  PROVE  LET t == CancelTimer(d, s, ph) IN
         /\ Ready(t) /\ Place(t) = Place(d) /\ Core(t) = Core(d) /\ Rest(t) = Rest(d) /\ t.ok = d.ok
         /\ d.timer.s # s \/ d.timer.ph # ph => t = d
  BY Named DEF CancelTimer, Ready, DbType, Place, Core, Rest

LEMMA CancelResolutionTimersDoes ==
  ASSUME NEW d, Ready(d), NEW s
  PROVE  LET t == CancelResolutionTimers(d, s) IN
         /\ Ready(t) /\ Place(t) = Place(d) /\ Core(t) = Core(d) /\ t.ok = d.ok
  <1> DEFINE e == [d EXCEPT !.budget = {b \in d.budget : b.s # s}]
  <1>1. Ready(e) /\ Place(e) = Place(d) /\ Core(e) = Core(d) /\ e.ok = d.ok
    BY DEF Ready, DbType, Place, Core
  <1>2. CancelResolutionTimers(d, s) = CancelTimer(e, s, "Resolve")
    BY DEF CancelResolutionTimers
  <1> HIDE DEF e
  <1> QED BY <1>1, <1>2, CancelTimerDoes

LEMMA ScheduleBudgetDoes ==
  ASSUME NEW d, Ready(d), NEW s \in Steps, NEW dir \in Directions, NEW n \in Nat
  PROVE  LET t == ScheduleBudget(d, s, dir, n) IN
         /\ Ready(t) /\ Place(t) = Place(d) /\ Core(t) = Core(d) /\ t.ok = d.ok
  <1> DEFINE id == [s |-> s, dir |-> dir, n |-> n]
             e == [d EXCEPT !.budgets = d.budgets \cup {id}, !.budget = d.budget \cup {id}]
  <1>1. id \in BudgetType
    BY DEF BudgetType
  <1>2. ScheduleBudget(d, s, dir, n) = d \/ ScheduleBudget(d, s, dir, n) = e
    BY DEF ScheduleBudget
  <1> HIDE DEF id
  <1>3. Ready(e) /\ Place(e) = Place(d) /\ Core(e) = Core(d) /\ e.ok = d.ok
    BY <1>1 DEF Ready, DbType, Place, Core
  <1> QED BY <1>2, <1>3

(* The attempts of a phase, counted.                                       *)
LEMMA AttemptsCounted ==
  ASSUME NEW d, Ready(d), NEW s \in Steps, NEW ph
  PROVE  /\ IsFiniteSet(Attempts(d, s, ph)) /\ Cardinality(Attempts(d, s, ph)) \in Nat
         /\ NextAttempt(d, s, ph) \in Nat \ {0}
  <1>1. d.cmds[s] \in Seq(CommandType)
    BY DEF Ready, DbType
  <1>2. Attempts(d, s, ph) \subseteq 1 .. Len(d.cmds[s]) /\ Len(d.cmds[s]) \in Nat
    BY <1>1 DEF Attempts
  <1>3. IsFiniteSet(1 .. Len(d.cmds[s]))
    BY <1>2, FS_Interval
  <1>4. IsFiniteSet(Attempts(d, s, ph))
    BY <1>2, <1>3, FS_Subset
  <1>5. Cardinality(Attempts(d, s, ph)) \in Nat
    BY <1>4, FS_CardinalityType
  <1> QED BY <1>4, <1>5 DEF NextAttempt

Command(d, s, ph, rec) == [ph |-> ph, n |-> NextAttempt(d, s, ph), rec |-> rec]

(* t is d with the command issued.                                         *)
Issued(d, t, s, ph, rec) ==
  /\ Ready(t) /\ Place(t) = Place(d) /\ Rest(t) = Rest(d) /\ t.ok = d.ok
  /\ t.frozen = d.frozen /\ t.plan = d.plan /\ t.row = d.row
  /\ t.cmds[s] = Append(d.cmds[s], Command(d, s, ph, rec))
  /\ Command(d, s, ph, rec) \in CommandType /\ Command(d, s, ph, rec).ph = ph
  /\ \A r \in Steps \ {s} : t.cmds[r] = d.cmds[r]
  /\ t.timer.s = s /\ t.timer.ph = ph /\ t.timer.n = NextAttempt(d, s, ph)

LEMMA IssueDoes ==
  ASSUME NEW d, Ready(d), NEW s \in Steps, NEW ph \in Phases, NEW rec \in BOOLEAN
  PROVE  Issued(d, Issue(d, s, ph, rec), s, ph, rec)
  <1> DEFINE c == Command(d, s, ph, rec)
             u == [s |-> s, ph |-> ph, n |-> NextAttempt(d, s, ph)]
             q == Append(d.cmds[s], c)
  <1>1. NextAttempt(d, s, ph) \in Nat
    BY AttemptsCounted
  <1>2. c \in CommandType /\ c.ph = ph
    BY <1>1 DEF CommandType, Command
  <1>3. u \in TimerType /\ u.s = s /\ u.ph = ph /\ u.n = NextAttempt(d, s, ph)
    BY <1>1, Named DEF TimerType
  <1>4. q \in Seq(CommandType)
    BY <1>2 DEF Ready, DbType
  <1>5. Issue(d, s, ph, rec) = [d EXCEPT !.cmds[s] = q, !.timer = u]
    BY DEF Issue, Command
  <1> HIDE DEF c, u, q
  <1>6. LET t == [d EXCEPT !.cmds[s] = q, !.timer = u] IN
        /\ Ready(t) /\ Place(t) = Place(d) /\ Rest(t) = Rest(d) /\ t.ok = d.ok
        /\ t.frozen = d.frozen /\ t.plan = d.plan /\ t.row = d.row
        /\ t.cmds[s] = q /\ \A r \in Steps \ {s} : t.cmds[r] = d.cmds[r]
        /\ t.timer = u
    BY <1>3, <1>4 DEF Ready, DbType, Place, Rest
  <1> QED BY <1>2, <1>3, <1>5, <1>6 DEF c, q, Issued

(* The command just issued is the newest attempt of its phase.             *)
LEMMA IssueTimed ==
  ASSUME NEW d, Ready(d), NEW s \in Steps, NEW ph \in Phases, NEW rec \in BOOLEAN,
         d.cur = s, d.status = Awaits[ph]
  PROVE  Timed(Issue(d, s, ph, rec))
  <1> DEFINE t == Issue(d, s, ph, rec)
             c == Command(d, s, ph, rec)
             A == Attempts(d, s, ph)
             new == Len(d.cmds[s]) + 1
  <1>1. /\ Ready(t) /\ Place(t) = Place(d) /\ t.cmds[s] = Append(d.cmds[s], c)
        /\ c \in CommandType /\ c.ph = ph
        /\ t.timer.s = s /\ t.timer.ph = ph /\ t.timer.n = NextAttempt(d, s, ph)
    <2>1. Issued(d, t, s, ph, rec)
      BY IssueDoes
    <2> HIDE DEF t
    <2> QED BY <2>1 DEF Issued
  <1>2. d.cmds[s] \in Seq(CommandType) /\ IsFiniteSet(A) /\ Cardinality(A) \in Nat
        /\ NextAttempt(d, s, ph) = Cardinality(A) + 1
    BY AttemptsCounted DEF Ready, DbType, NextAttempt
  <1>3. Attempts(t, s, ph) = A \cup {new} /\ new \notin A
    BY <1>1, <1>2 DEF Attempts
  <1>4. Cardinality(A \cup {new}) = Cardinality(A) + 1
    BY <1>2, <1>3, FS_AddElement
  <1>5. NextAttempt(t, s, ph) - 1 = NextAttempt(d, s, ph)
    BY <1>2, <1>3, <1>4 DEF NextAttempt
  <1>6. t.timer # NoTimer
    BY <1>1 DEF NoTimer, Phases
  <1>7. t.cur = s /\ t.status = Awaits[ph]
    BY <1>1 DEF Place
  <1> QED BY <1>1, <1>5, <1>6, <1>7 DEF Timed
-----------------------------------------------------------------------------
(* The least of some numbers, found by going down the finite sets 0 .. n.  *)
LEMMA LeastNumber ==
  ASSUME NEW S \in SUBSET Nat, S # {}
  PROVE  \E m \in S : \A k \in S : m <= k
  <1> DEFINE F == {0 .. n : n \in S}
  <1>1. F # {}
    OBVIOUS
  <1>2. ASSUME NEW x \in F PROVE x \in SUBSET Nat /\ IsFiniteSet(x)
    <2>1. PICK n \in S : x = 0 .. n
      OBVIOUS
    <2>2. 0 \in Int /\ n \in Int
      OBVIOUS
    <2>3. IsFiniteSet(0 .. n)
      BY <2>2, FS_Interval
    <2> QED BY <2>1, <2>3
  <1>3. F \subseteq FiniteSubsetsOf(Nat)
    BY <1>2 DEF FiniteSubsetsOf
  <1>4. PICK x \in F : \A y \in F : <<y, x>> \notin StrictSubsetOrdering(Nat)
    <2> HIDE DEF F
    <2> QED BY <1>1, <1>3, FS_StrictSubsetOrderingWellFounded, WFMin
  <1>5. PICK n \in S : x = 0 .. n
    BY <1>4
  <1>6. ASSUME NEW k \in S, ~(n <= k) PROVE FALSE
    <2>1. 0 .. k \in F
      OBVIOUS
    <2>2. 0 .. k \subseteq x /\ 0 .. k # x
      BY <1>5, <1>6, SMT
    <2>3. <<0 .. k, x>> \in StrictSubsetOrdering(Nat)
      BY <1>4, <2>1, <2>2, <1>2 DEF StrictSubsetOrdering
    <2> QED BY <2>1, <2>3, <1>4
  <1> QED BY <1>5, <1>6

-----------------------------------------------------------------------------
(* The plan of a journal whose succeeded steps are the first m.            *)
LEMMA PlanOfPrefix ==
  ASSUME NEW d, NEW m \in Nat, m <= N, Succeeded(d) = 1 .. m
  PROVE  /\ PlanOf(d) \in Seq(Steps) /\ Len(PlanOf(d)) = m /\ DOMAIN PlanOf(d) = 1 .. m
         /\ \A i \in 1 .. m : PlanOf(d)[i] = m + 1 - i
  <1>0. N \in Nat /\ Steps = 1 .. N
    BY Named DEF Steps
  <1>1. Cardinality(1 .. m) = m
    BY FS_Interval
  <1>2. ASSUME NEW s \in 1 .. m
        PROVE  Cardinality({t \in Succeeded(d) : s < t}) = m - s
    <2>1. {t \in Succeeded(d) : s < t} = (s + 1) .. m
      OBVIOUS
    <2>2. s + 1 \in Int /\ m \in Int
      OBVIOUS
    <2>3. Cardinality((s + 1) .. m) = IF s + 1 > m THEN 0 ELSE m - (s + 1) + 1
      BY <2>2, FS_Interval
    <2>4. (IF s + 1 > m THEN 0 ELSE m - (s + 1) + 1) = m - s
      OBVIOUS
    <2> QED BY <2>1, <2>3, <2>4
  <1>3. ASSUME NEW i \in 1 .. m
        PROVE  (CHOOSE s \in Succeeded(d) : Cardinality({t \in Succeeded(d) : s < t}) = i - 1) = m + 1 - i
    <2> DEFINE P(s) == Cardinality({t \in Succeeded(d) : s < t}) = i - 1
               c == CHOOSE s \in 1 .. m : P(s)
    <2>1. m + 1 - i \in 1 .. m
      OBVIOUS
    <2>2. \A s \in 1 .. m : P(s) <=> m - s = i - 1
      BY <1>2
    <2>3. P(m + 1 - i)
      BY <2>1, <2>2
    <2> HIDE DEF P
    <2>4. c \in 1 .. m /\ P(c)
      BY <2>1, <2>3
    <2>5. c = m + 1 - i
      BY <2>2, <2>4
    <2> QED BY <2>5 DEF P
  <1>4. PlanOf(d) = [i \in 1 .. m |-> m + 1 - i]
    BY <1>1, <1>3 DEF PlanOf
  <1> QED BY <1>0, <1>4

LEMMA FrontPrefix ==
  ASSUME NEW d, Ready(d), NEW k \in Steps, Front(d, k)
  PROVE  \E m \in Nat : m <= N /\ Succeeded(d) = 1 .. m
  <1>0. N \in Nat /\ Steps = 1 .. N
    BY Named DEF Steps
  <1>1. CASE d.row[k].fwd = "Succeeded"
    <2>1. Succeeded(d) = 1 .. k
      BY <1>0, <1>1 DEF Succeeded, Front
    <2> QED BY <1>0, <2>1
  <1>2. CASE d.row[k].fwd # "Succeeded"
    <2>1. Succeeded(d) = 1 .. (k - 1)
      BY <1>0, <1>2 DEF Succeeded, Front
    <2> QED BY <1>0, <2>1
  <1> QED BY <1>1, <1>2

(* The first step the plan has not reversed.                               *)
LEMMA NextCompensationIs ==
  ASSUME NEW d, Ready(d), Uncompensated(d) # {}
  PROVE  \E i \in Uncompensated(d) :
           /\ i \in DOMAIN d.plan /\ NextCompensation(d) = d.plan[i] /\ d.plan[i] \in Steps
           /\ \A j \in Uncompensated(d) : i <= j
  <1>1. d.plan \in Seq(Steps)
    BY DEF Ready, DbType
  <1>2. Uncompensated(d) \in SUBSET Nat /\ Uncompensated(d) \subseteq DOMAIN d.plan
    BY <1>1 DEF Uncompensated
  <1>3. \E m \in Uncompensated(d) : \A k \in Uncompensated(d) : m <= k
    BY <1>2, LeastNumber
  <1> DEFINE i == CHOOSE i \in Uncompensated(d) : \A j \in Uncompensated(d) : i <= j
  <1>4. i \in Uncompensated(d) /\ \A j \in Uncompensated(d) : i <= j
    BY <1>3
  <1>5. NextCompensation(d) = d.plan[i]
    BY DEF NextCompensation
  <1>6. d.plan[i] \in Steps
    BY <1>1, <1>2, <1>4
  <1> QED BY <1>2, <1>4, <1>5, <1>6
-----------------------------------------------------------------------------
(* Steps of a transaction that keep the shape.                             *)
Kept(t) == Ready(t) /\ (t.ok => Timed(t) /\ Shape(t))

(* The shape reads the place and the core only.                            *)
LEMMA ShapeReads ==
  ASSUME NEW d, NEW t, Place(t) = Place(d), Core(t) = Core(d), Shape(d)
  PROVE  Shape(t)
  <1>1. t.status = d.status /\ t.dir = d.dir /\ t.cur = d.cur /\ t.frozen = d.frozen
        /\ t.plan = d.plan /\ t.row = d.row /\ t.cmds = d.cmds
    BY DEF Place, Core
  <1>2. \A k \in Steps : Front(d, k) => Front(t, k)
    BY <1>1 DEF Front
  <1>3. PlanShape(t)
    BY <1>1 DEF Shape, Body, PlanShape, Succeeded
  <1>4. CommandShape(t) /\ CurrentShape(t)
    BY <1>1 DEF Shape, Body, CommandShape, CurrentShape, Compensates
  <1>5. StatusShape(t)
    BY <1>1 DEF Shape, Body, StatusShape
  <1> QED BY <1>2, <1>3, <1>4, <1>5 DEF Shape, Body

(* Writing a row of a step that was asked to act.                          *)
LEMMA PatchShape ==
  ASSUME NEW d, Ready(d), Shape(d), NEW s \in Steps, NEW p, Written(d.row[s], p) \in RowType,
         \/ Written(d.row[s], p).fwd = d.row[s].fwd
         \/ d.cmds[s] # <<>> /\ d.row[s].fwd \notin Certain
         \/ d.dir = "Forward" /\ d.cur = s /\ d.status # "Completed"
  PROVE  Ready(Patch(d, s, p)) /\ Shape(Patch(d, s, p))
  <1> DEFINE t == Patch(d, s, p)
  <1>1. /\ Ready(t) /\ t.row[s] = Written(d.row[s], p)
        /\ \A r \in Steps \ {s} : t.row[r] = d.row[r]
        /\ Place(t) = Place(d)
        /\ t.frozen = d.frozen /\ t.plan = d.plan /\ t.cmds = d.cmds
    BY PatchDoes
  <1>2. t.status = d.status /\ t.dir = d.dir /\ t.cur = d.cur
    BY <1>1 DEF Place
  <1>3. PICK k \in Steps : Front(d, k)
    BY DEF Shape, Body
  <1> HIDE DEF t
  <1>0. Steps \subseteq Int /\ 0 \notin Steps
    BY Named DEF Steps
  <1>4. t.row[s].fwd # d.row[s].fwd => s = k /\ ~d.frozen /\ d.status # "Completed"
    <2>1. CASE d.cmds[s] # <<>> /\ d.row[s].fwd \notin Certain
      BY <1>0, <1>3, <2>1 DEF Front, Certain, Shape, Body, PlanShape, StatusShape
    <2>2. CASE d.dir = "Forward" /\ d.cur = s /\ d.status # "Completed"
      BY <1>0, <1>3, <2>2 DEF Front, Shape, Body, PlanShape
    <2> QED BY <1>1, <2>1, <2>2
  <1>5. Front(t, k)
    BY <1>0, <1>1, <1>2, <1>3, <1>4 DEF Front
  <1>6. \A r \in Steps : d.frozen => t.row[r].fwd = d.row[r].fwd
    BY <1>1, <1>4
  <1>7. PlanShape(t)
    <2>1. d.frozen => Succeeded(t) = Succeeded(d)
      BY <1>6 DEF Succeeded
    <2> QED BY <1>1, <1>2, <1>6, <2>1 DEF Shape, Body, PlanShape
  <1>8. CommandShape(t) /\ CurrentShape(t)
    <2>1. \A r \in Steps : Compensates(t, r) <=> Compensates(d, r)
      BY <1>1 DEF Compensates
    <2>2. \A r \in Steps : Compensates(d, r) => d.frozen /\ d.row[r].fwd = "Succeeded"
      BY DEF Shape, Body, CommandShape
    <2>3. d.dir = "Compensating" /\ d.cur # 0 => Compensates(d, d.cur) /\ d.cur \in Steps
      BY Named DEF Shape, CurrentShape, Ready, DbType, Steps
    <2> QED BY <1>1, <1>2, <1>6, <2>1, <2>2, <2>3 DEF CommandShape, CurrentShape
  <1>9. StatusShape(t)
    BY <1>1, <1>2, <1>4 DEF Shape, Body, StatusShape
  <1> QED BY <1>1, <1>5, <1>7, <1>8, <1>9 DEF Shape, Body, t

LEMMA EscalateKeeps ==
  ASSUME NEW d, Ready(d), Shape(d)
  PROVE  Kept(Escalate(d))
  <1> DEFINE t == Escalate(d)
  <1>1. /\ Ready(t) /\ t.status = Manual /\ t.dir = d.dir /\ t.cur = d.cur
        /\ Core(t) = Core(d)
    BY EscalateDoes
  <1> HIDE DEF t
  <1>2. t.frozen = d.frozen /\ t.plan = d.plan /\ t.row = d.row /\ t.cmds = d.cmds
    BY <1>1 DEF Core
  <1>3. \A k \in Steps : Front(d, k) => Front(t, k)
    BY <1>1, <1>2 DEF Front
  <1>4. PlanShape(t)
    BY <1>1, <1>2 DEF Shape, Body, PlanShape, Succeeded
  <1>5. CommandShape(t) /\ CurrentShape(t)
    BY <1>1, <1>2 DEF Shape, Body, CommandShape, CurrentShape, Compensates
  <1>6. StatusShape(t)
    BY <1>1 DEF StatusShape, Manual
  <1>7. Timed(t)
    BY <1>1, Named DEF Timed
  <1> QED BY <1>1, <1>3, <1>4, <1>5, <1>6, <1>7 DEF Shape, Body, Kept, t

LEMMA SameCompensates ==
  ASSUME NEW d, NEW t, NEW s, t.cmds[s] = d.cmds[s]
  PROVE  Compensates(t, s) <=> Compensates(d, s)
  BY DEF Compensates

(* A new place, and a new status, for a saga that keeps its direction.     *)
LEMMA AdvanceBody ==
  ASSUME NEW d, Ready(d), Body(d), NEW to \in Statuses, NEW cur \in 0 .. N,
         d.dir = "Forward" => cur = d.cur \/ cur = 0,
         to \in {"Running", "Cancelling", "Completed"} => d.dir = "Forward",
         to \in {"Compensating", "Compensated"} => d.dir = "Compensating",
         to = "Completed" => \A s \in Steps : d.row[s].fwd = "Succeeded"
  PROVE  LET t == Advance(d, to, d.dir, cur) IN
         /\ Ready(t) /\ Body(t) /\ t.status = to /\ t.dir = d.dir /\ t.cur = cur
         /\ t.frozen = d.frozen /\ t.plan = d.plan /\ t.row = d.row /\ t.cmds = d.cmds
         /\ t.ok => d.ok
  <1> DEFINE t == Advance(d, to, d.dir, cur)
  <1>0. d.dir \in Directions
    BY DEF Ready, DbType
  <1>1. Ready(t) /\ t.status = to /\ t.dir = d.dir /\ t.cur = cur /\ Core(t) = Core(d) /\ (t.ok => d.ok)
    BY <1>0, AdvanceDoes
  <1> HIDE DEF t
  <1>2. t.frozen = d.frozen /\ t.plan = d.plan /\ t.row = d.row /\ t.cmds = d.cmds
    BY <1>1 DEF Core
  <1>3. \A k \in Steps : Front(d, k) => Front(t, k)
    BY <1>1, <1>2 DEF Front
  <1>4. PlanShape(t)
    BY <1>1, <1>2 DEF Body, PlanShape, Succeeded
  <1>5. CommandShape(t)
    BY <1>1, <1>2 DEF Body, CommandShape, Compensates
  <1>6. StatusShape(t)
    BY <1>1, <1>2 DEF StatusShape
  <1> QED BY <1>1, <1>2, <1>3, <1>4, <1>5, <1>6 DEF Body, t

(* A command for a step at or before the front, at the current place.      *)
LEMMA IssueKeeps ==
  ASSUME NEW d, Ready(d), Body(d), NEW s \in Steps, NEW ph \in Phases, NEW rec \in BOOLEAN,
         d.cur = s, d.status = Awaits[ph],
         d.cmds[s] # <<>> \/ d.row[s].fwd # "Pending",
         ph = "Compensate" => d.frozen /\ d.row[s].fwd = "Succeeded",
         ph # "Compensate" => CurrentShape(d)
  PROVE  Kept(Issue(d, s, ph, rec))
  <1> DEFINE t == Issue(d, s, ph, rec)
             c == Command(d, s, ph, rec)
  <1>1. /\ Ready(t) /\ Place(t) = Place(d)
        /\ t.frozen = d.frozen /\ t.plan = d.plan /\ t.row = d.row
        /\ t.cmds[s] = Append(d.cmds[s], c) /\ c \in CommandType /\ c.ph = ph
        /\ \A r \in Steps \ {s} : t.cmds[r] = d.cmds[r]
    <2>1. Issued(d, t, s, ph, rec)
      BY IssueDoes
    <2> HIDE DEF t
    <2> QED BY <2>1 DEF Issued
  <1>2. Timed(t)
    BY IssueTimed
  <1> HIDE DEF t, c
  <1>3. t.status = d.status /\ t.dir = d.dir /\ t.cur = d.cur
    BY <1>1 DEF Place
  <1>4. d.cmds[s] \in Seq(CommandType)
    BY DEF Ready, DbType
  <1>5. t.cmds[s] # <<>>
    BY <1>1, <1>4
  <1>6. \A r \in Steps : Compensates(t, r) <=> Compensates(d, r) \/ (r = s /\ ph = "Compensate")
    <2>1. DOMAIN t.cmds[s] = DOMAIN d.cmds[s] \cup {Len(d.cmds[s]) + 1}
          /\ t.cmds[s][Len(d.cmds[s]) + 1] = c
          /\ \A i \in DOMAIN d.cmds[s] : t.cmds[s][i] = d.cmds[s][i]
      BY <1>1, <1>4
    <2>2. Compensates(t, s) <=> Compensates(d, s) \/ ph = "Compensate"
      BY <1>1, <2>1 DEF Compensates
    <2>3. \A r \in Steps \ {s} : Compensates(t, r) <=> Compensates(d, r)
      BY <1>1, SameCompensates
    <2> QED BY <2>2, <2>3
  <1>7. PICK k \in Steps : Front(d, k)
    BY DEF Body
  <1>8. Steps \subseteq Int
    BY DEF Steps
  <1>9. ~(k < s)
    BY <1>7, <1>8 DEF Front
  <1>10. Front(t, k)
    <2>1. t.cmds[k] # <<>>
      BY <1>1, <1>5, <1>7 DEF Front
    <2> QED BY <1>1, <1>3, <1>7, <1>8, <1>9, <2>1 DEF Front
  <1>11. PlanShape(t)
    <2>1. Succeeded(t) = Succeeded(d)
      BY <1>1 DEF Succeeded
    <2>2. d.frozen => d.row[s].fwd \in Certain
      <3>1. d.frozen => d.row[s].fwd \in Certain \/ d.cmds[s] = <<>>
        BY DEF Body, PlanShape
      <3>2. k = s \/ s < k
        BY <1>8, <1>9
      <3> QED BY <1>7, <3>1, <3>2 DEF Front, Certain
    <2> QED BY <1>1, <1>3, <2>1, <2>2 DEF Body, PlanShape
  <1>12. CommandShape(t)
    BY <1>1, <1>6 DEF Body, CommandShape
  <1>13. StatusShape(t)
    BY <1>1, <1>3 DEF Body, StatusShape
  <1>14. CurrentShape(t)
    BY <1>3, <1>6 DEF CurrentShape
  <1> QED BY <1>1, <1>2, <1>7, <1>10, <1>11, <1>12, <1>13, <1>14 DEF Kept, Shape, Body, t

(* Asking again, or asking something else, at the place the saga is at.    *)
LEMMA AskAgainKeeps ==
  ASSUME NEW d, Ready(d), Shape(d), NEW s \in Steps, NEW ph \in Phases, NEW rec \in BOOLEAN,
         d.cur = s,
         ph = "Compensate" => d.dir = "Compensating",
         ph \in {"Execute", "Cancel"} => d.dir = "Forward"
  PROVE  Kept(Issue(Advance(d, Awaits[ph], d.dir, s), s, ph, rec))
  <1> DEFINE to == Awaits[ph]
             t == Advance(d, to, d.dir, s)
  <1>1. to \in Statuses /\ s \in 0 .. N /\ s # 0
    BY Named
  <1>2. /\ to \in {"Running", "Cancelling", "Completed"} => d.dir = "Forward"
        /\ to \in {"Compensating", "Compensated"} => d.dir = "Compensating"
        /\ to # "Completed"
    BY DEF Awaits, Phases
  <1> HIDE DEF to
  <1>3. /\ Ready(t) /\ Body(t) /\ t.status = to /\ t.dir = d.dir /\ t.cur = s
        /\ t.frozen = d.frozen /\ t.plan = d.plan /\ t.row = d.row /\ t.cmds = d.cmds
    BY <1>1, <1>2, AdvanceBody DEF Shape
  <1> HIDE DEF t
  <1>4. CurrentShape(t)
    BY <1>3 DEF Shape, CurrentShape, Compensates
  <1>5. d.dir \in {"Forward", "Compensating"}
    BY DEF Ready, DbType, Directions
  <1>6. d.dir = "Compensating" => d.frozen /\ d.row[s].fwd = "Succeeded"
    BY <1>1 DEF Shape, Body, CurrentShape, CommandShape, PlanShape
  <1>7. d.dir = "Forward" => d.cmds[s] # <<>>
    BY <1>1 DEF Shape, Body, Front
  <1>8. t.cmds[s] # <<>> \/ t.row[s].fwd # "Pending"
    BY <1>3, <1>5, <1>6, <1>7
  <1>9. ph = "Compensate" => t.frozen /\ t.row[s].fwd = "Succeeded"
    BY <1>3, <1>6
  <1>10. t.status = Awaits[ph]
    BY <1>3 DEF to
  <1> QED BY <1>3, <1>4, <1>8, <1>9, <1>10, IssueKeeps DEF t, to

LEMMA BodyReads ==
  ASSUME NEW d, NEW t, Place(t) = Place(d), Core(t) = Core(d), Body(d)
  PROVE  Body(t)
  <1>1. t.status = d.status /\ t.dir = d.dir /\ t.cur = d.cur /\ t.frozen = d.frozen
        /\ t.plan = d.plan /\ t.row = d.row /\ t.cmds = d.cmds
    BY DEF Place, Core
  <1>2. \A k \in Steps : Front(d, k) => Front(t, k)
    BY <1>1 DEF Front
  <1>3. PlanShape(t)
    BY <1>1 DEF Body, PlanShape, Succeeded
  <1>4. CommandShape(t)
    BY <1>1 DEF Body, CommandShape, Compensates
  <1>5. StatusShape(t)
    BY <1>1 DEF Body, StatusShape
  <1> QED BY <1>2, <1>3, <1>4, <1>5 DEF Body

LEMMA CurrentAsked ==
  ASSUME NEW d, Ready(d), Shape(d), NEW s \in Steps, d.cur = s
  PROVE  /\ d.cmds[s] # <<>> /\ d.dir \in {"Forward", "Compensating"}
         /\ d.dir = "Compensating" => d.frozen /\ d.row[s].fwd = "Succeeded"
  <1>1. s # 0
    BY Named
  <1>2. d.dir \in {"Forward", "Compensating"}
    BY DEF Ready, DbType, Directions
  <1>3. d.dir = "Compensating" => d.frozen /\ d.row[s].fwd = "Succeeded" /\ Compensates(d, s)
    BY <1>1 DEF Shape, Body, CurrentShape, CommandShape, PlanShape
  <1>4. d.dir = "Forward" => d.cmds[s] # <<>>
    BY <1>1 DEF Shape, Body, Front
  <1>5. Compensates(d, s) => d.cmds[s] # <<>>
    BY DEF Compensates
  <1> QED BY <1>2, <1>3, <1>4, <1>5

(* A patch, and what a reader of the patched row finds.                    *)
LEMMA PatchKeeps ==
  ASSUME NEW d, Ready(d), Shape(d), NEW s \in Steps, NEW p, Patches(p),
         \/ "fwd" \notin DOMAIN p
         \/ d.cmds[s] # <<>> /\ d.row[s].fwd \notin Certain
         \/ d.dir = "Forward" /\ d.cur = s /\ d.status # "Completed"
  PROVE  LET t == Patch(d, s, p) IN
         /\ Ready(t) /\ Shape(t) /\ Place(t) = Place(d) /\ t.ok = d.ok /\ t.timer = d.timer
         /\ t.cmds = d.cmds
         /\ t.row[s].fwd = IF "fwd" \in DOMAIN p THEN p["fwd"] ELSE d.row[s].fwd
         /\ t.row[s].comp = IF "comp" \in DOMAIN p THEN p["comp"] ELSE d.row[s].comp
         /\ \A r \in Steps \ {s} : t.row[r] = d.row[r]
  <1>1. d.row[s] \in RowType
    BY DEF Ready, DbType
  <1>2. /\ Written(d.row[s], p) \in RowType
        /\ Written(d.row[s], p).fwd = IF "fwd" \in DOMAIN p THEN p["fwd"] ELSE d.row[s].fwd
        /\ Written(d.row[s], p).comp = IF "comp" \in DOMAIN p THEN p["comp"] ELSE d.row[s].comp
    BY <1>1, WrittenRow
  <1>3. Ready(Patch(d, s, p)) /\ Shape(Patch(d, s, p))
    BY <1>2, PatchShape
  <1>4. LET t == Patch(d, s, p) IN
        /\ t.row[s] = Written(d.row[s], p) /\ Place(t) = Place(d) /\ t.ok = d.ok /\ t.timer = d.timer
        /\ t.cmds = d.cmds /\ \A r \in Steps \ {s} : t.row[r] = d.row[r]
    BY <1>2, PatchDoes
  <1> QED BY <1>2, <1>3, <1>4

LEMMA CancelTimerKeeps ==
  ASSUME NEW d, Ready(d), Shape(d), NEW s, NEW ph
  PROVE  LET t == CancelTimer(d, s, ph) IN
         Ready(t) /\ Shape(t) /\ Place(t) = Place(d) /\ Core(t) = Core(d) /\ t.ok = d.ok
  BY CancelTimerDoes, ShapeReads

LEMMA AskResolutionKeeps ==
  ASSUME NEW d, Ready(d), Shape(d), NEW s \in Steps, NEW n \in Nat, NEW rec \in BOOLEAN, d.cur = s
  PROVE  Kept(AskResolution(d, s, d.dir, n, rec))
  <1> DEFINE a == Advance(d, "WaitingResolution", d.dir, s)
             b == ScheduleBudget(a, s, d.dir, n)
  <1>1. "WaitingResolution" \in Statuses /\ s \in 0 .. N /\ d.dir \in Directions
    BY Named DEF Ready, DbType, Statuses
  <1>2. /\ Ready(a) /\ Body(a) /\ a.status = "WaitingResolution" /\ a.dir = d.dir /\ a.cur = s
        /\ a.row = d.row /\ a.cmds = d.cmds
    BY <1>1, AdvanceBody DEF Shape
  <1> HIDE DEF a
  <1>3. Ready(b) /\ Place(b) = Place(a) /\ Core(b) = Core(a)
    BY <1>1, <1>2, ScheduleBudgetDoes
  <1> HIDE DEF b
  <1>4. Body(b)
    BY <1>2, <1>3, BodyReads
  <1>5. b.cur = s /\ b.status = "WaitingResolution" /\ b.cmds = d.cmds /\ b.dir = d.dir
    BY <1>2, <1>3 DEF Place, Core
  <1>6. CurrentShape(b)
    BY <1>5 DEF Shape, CurrentShape, Compensates
  <1>7. b.cmds[s] # <<>>
    BY <1>5, CurrentAsked
  <1>8. "Resolve" \in Phases /\ Awaits["Resolve"] = "WaitingResolution"
    BY DEF Phases, Awaits
  <1>9. Kept(Issue(b, s, "Resolve", rec))
    BY <1>3, <1>4, <1>5, <1>6, <1>7, <1>8, IssueKeeps
  <1> QED BY <1>9 DEF AskResolution, a, b

LEMMA EnterWaitingKeeps ==
  ASSUME NEW d, Ready(d), Shape(d), NEW s \in Steps, NEW n \in Nat, NEW ph, d.cur = s,
         ph = "Execute" => d.dir = "Forward" /\ d.status # "Completed"
  PROVE  Kept(EnterWaiting(d, s, d.dir, ph, n))
  <1> DEFINE e == IF ph = "Execute" THEN Patch(d, s, [fwd |-> "Unknown"]) ELSE d
             f == Patch(e, s, [res |-> "Pending"])
             g == CancelTimer(f, s, "Execute")
  <1>1. d.cmds[s] # <<>>
    BY CurrentAsked
  <1>2. Patches([fwd |-> "Unknown"]) /\ Patches([res |-> "Pending"]) /\ "fwd" \notin DOMAIN [res |-> "Pending"]
    BY DEF Patches, Columns
  <1>3. Ready(e) /\ Shape(e) /\ Place(e) = Place(d) /\ e.cmds = d.cmds
    <2>1. CASE ph = "Execute"
      <3> DEFINE p == [fwd |-> "Unknown"]
      <3>1. Patches(p)
        BY <1>2
      <3>2. e = Patch(d, s, p)
        BY <2>1
      <3> HIDE DEF p, e
      <3> QED BY <1>1, <2>1, <3>1, <3>2, PatchKeeps
    <2>2. CASE ph # "Execute"
      BY <2>2
    <2> QED BY <2>1, <2>2
  <1> HIDE DEF e
  <1>4. Ready(f) /\ Shape(f) /\ Place(f) = Place(e)
    <2> DEFINE p == [res |-> "Pending"]
    <2>1. Patches(p) /\ "fwd" \notin DOMAIN p
      BY <1>2
    <2> HIDE DEF p
    <2>2. LET t == Patch(e, s, p) IN Ready(t) /\ Shape(t) /\ Place(t) = Place(e)
      BY <1>1, <1>3, <2>1, PatchKeeps
    <2> QED BY <2>2 DEF p
  <1> HIDE DEF f
  <1>5. Ready(g) /\ Shape(g) /\ Place(g) = Place(f)
    BY <1>4, CancelTimerKeeps
  <1> HIDE DEF g
  <1>6. g.cur = s /\ g.dir = d.dir
    BY <1>3, <1>4, <1>5 DEF Place
  <1>7. Kept(AskResolution(g, s, d.dir, n, FALSE))
    <2>1. Kept(AskResolution(g, s, g.dir, n, FALSE))
      BY <1>5, <1>6, AskResolutionKeeps
    <2> QED BY <1>6, <2>1
  <1>8. Kept(Escalate(e))
    BY <1>3, EscalateKeeps
  <1> QED BY <1>7, <1>8 DEF EnterWaiting, e, f, g

LEMMA ReissueKeeps ==
  ASSUME NEW d, Ready(d), Shape(d), NEW s \in Steps, d.cur = s
  PROVE  Kept(ReissueResolve(d, s))
  <1>1. Awaits["Resolve"] = "WaitingResolution" /\ "Resolve" \in Phases
    BY DEF Awaits, Phases
  <1>2. Kept(Issue(Advance(d, Awaits["Resolve"], d.dir, s), s, "Resolve", FALSE))
    BY <1>1, AskAgainKeeps
  <1>3. Kept(Escalate(d))
    BY EscalateKeeps
  <1> QED BY <1>1, <1>2, <1>3 DEF ReissueResolve

LEMMA RetryDeniedKeeps ==
  ASSUME NEW d, Ready(d), Shape(d), NEW s \in Steps, d.cur = s, d.dir = "Compensating"
  PROVE  Kept(RetryDenied(d, s))
  <1>1. Awaits["Compensate"] = "Compensating" /\ "Compensate" \in Phases
    BY DEF Awaits, Phases
  <1>2. Kept(Issue(Advance(d, Awaits["Compensate"], d.dir, s), s, "Compensate", FALSE))
    BY <1>1, AskAgainKeeps
  <1>3. Kept(Escalate(d))
    BY EscalateKeeps
  <1> QED BY <1>1, <1>2, <1>3 DEF RetryDenied
-----------------------------------------------------------------------------
(* The compensation plan.                                                  *)
Marked(d, t, plan) ==
  /\ Ready(t) /\ Place(t) = Place(d) /\ t.ok = d.ok
  /\ t.frozen = TRUE /\ t.plan = plan /\ t.cmds = d.cmds
  /\ \A s \in Steps : /\ t.row[s].fwd = d.row[s].fwd
                      /\ t.row[s].comp = "Succeeded" <=> d.row[s].comp = "Succeeded"
                      /\ t.row[s].comp = "Unknown" => d.row[s].comp = "Unknown"

LEMMA MarkPlanDoes ==
  ASSUME NEW d, Ready(d), NEW plan \in Seq(Steps)
  PROVE  Marked(d, MarkPlan(d, plan), plan)
  <1> DEFINE row == [s \in Steps |->
                      IF \E i \in DOMAIN plan : plan[i] = s /\ d.row[s].comp = "None"
                      THEN [d.row[s] EXCEPT !.comp = "Pending"] ELSE d.row[s]]
             t == [d EXCEPT !.frozen = TRUE, !.plan = plan, !.row = row]
  <1>1. MarkPlan(d, plan) = t
    BY DEF MarkPlan
  <1>2. d.row \in [Steps -> RowType]
    BY DEF Ready, DbType
  <1>3. ASSUME NEW s \in Steps
        PROVE  /\ row[s] \in RowType /\ row[s].fwd = d.row[s].fwd
               /\ row[s].comp = "Succeeded" <=> d.row[s].comp = "Succeeded"
               /\ row[s].comp = "Unknown" => d.row[s].comp = "Unknown"
    <2> DEFINE q == [d.row[s] EXCEPT !.comp = "Pending"]
    <2>1. d.row[s] \in RowType
      BY <1>2
    <2>2. q \in RowType /\ q.fwd = d.row[s].fwd /\ q.comp = "Pending"
      BY <2>1 DEF RowType
    <2> HIDE DEF q
    <2>3. row[s] = d.row[s] \/ (d.row[s].comp = "None" /\ row[s] = q)
      BY DEF q
    <2> HIDE DEF row
    <2> QED BY <2>1, <2>2, <2>3
  <1>4. row \in [Steps -> RowType]
    <2>1. DOMAIN row = Steps /\ row = [s \in Steps |-> row[s]]
      OBVIOUS
    <2> HIDE DEF row
    <2> QED BY <1>3, <2>1
  <1> HIDE DEF row
  <1>5. /\ Ready(t) /\ Place(t) = Place(d) /\ Rest(t) = Rest(d) /\ t.ok = d.ok
        /\ t.frozen = TRUE /\ t.plan = plan /\ t.cmds = d.cmds /\ t.row = row
    BY <1>4 DEF Ready, DbType, Place, Rest
  <1> HIDE DEF t
  <1> QED BY <1>1, <1>3, <1>5 DEF Marked

LEMMA ConvergeKeeps ==
  ASSUME NEW d, Ready(d), Body(d), d.dir = "Compensating"
  PROVE  Kept(Converge(d)) /\ (Converge(d).ok => PlanHolds(d) /\ Uncompensated(d) = {})
         /\ Converge(d).status = "Compensated" /\ Converge(d).dir = "Compensating"
         /\ Converge(d).row = d.row /\ Converge(d).cmds = d.cmds
  <1> DEFINE c == Advance(d, "Compensated", "Compensating", 0)
             b == c.ok /\ PlanHolds(d) /\ Uncompensated(d) = {}
             t == [c EXCEPT !.ok = b, !.deadline = FALSE]
  <1>0. "Compensated" \in Statuses /\ 0 \in 0 .. N /\ Automatic \cap Terminal = {} /\ "Compensated" \in Terminal
    BY Named DEF Statuses, Terminal
  <1>1. /\ Ready(c) /\ Body(c) /\ c.status = "Compensated" /\ c.dir = "Compensating" /\ c.cur = 0
        /\ c.row = d.row /\ c.cmds = d.cmds
    BY <1>0, AdvanceBody
  <1>2. Converge(d) = t
    BY DEF Converge
  <1>3. b \in BOOLEAN
    OBVIOUS
  <1>4. t.ok => b
    BY <1>1 DEF Ready, DbType
  <1>5. b => PlanHolds(d) /\ Uncompensated(d) = {}
    OBVIOUS
  <1> HIDE DEF c, b
  <1>6. Ready(t) /\ Place(t) = Place(c) /\ Core(t) = Core(c)
    BY <1>1, <1>3 DEF Ready, DbType, Place, Core
  <1> HIDE DEF t
  <1>7. Body(t)
    BY <1>1, <1>6, BodyReads
  <1>8. t.status = "Compensated" /\ t.dir = "Compensating" /\ t.cur = 0 /\ t.row = d.row /\ t.cmds = d.cmds
    BY <1>1, <1>6 DEF Place, Core
  <1>9. CurrentShape(t) /\ Timed(t)
    BY <1>0, <1>8 DEF CurrentShape, Timed
  <1> QED BY <1>2, <1>4, <1>5, <1>6, <1>7, <1>8, <1>9 DEF Kept, Shape

(* The plan is frozen once the last step that was asked to act is certain. *)
LEMMA FreezeBody ==
  ASSUME NEW d, Ready(d), Body(d), d.dir = "Forward", d.cur \in Steps,
         d.row[d.cur].fwd # "Pending", Freezable(d), NEW cur \in 0 .. N
  PROVE  LET t == MarkPlan(Advance(d, "Compensating", "Compensating", cur), PlanOf(d)) IN
         /\ Ready(t) /\ Body(t) /\ t.status = "Compensating" /\ t.dir = "Compensating" /\ t.cur = cur
         /\ t.frozen /\ t.plan = PlanOf(d) /\ t.cmds = d.cmds
         /\ \A s \in Steps : /\ t.row[s].fwd = d.row[s].fwd
                             /\ t.row[s].comp = "Succeeded" <=> d.row[s].comp = "Succeeded"
                             /\ t.row[s].comp = "Unknown" => d.row[s].comp = "Unknown"
  <1> DEFINE a == Advance(d, "Compensating", "Compensating", cur)
             t == MarkPlan(a, PlanOf(d))
  <1>0. "Compensating" \in Statuses /\ "Compensating" \in Directions
    BY Named DEF Directions
  <1>1. Ready(a) /\ a.status = "Compensating" /\ a.dir = "Compensating" /\ a.cur = cur /\ Core(a) = Core(d)
    BY <1>0, AdvanceDoes
  <1> HIDE DEF a
  <1>2. a.row = d.row /\ a.cmds = d.cmds
    BY <1>1 DEF Core
  <1>3. PICK k \in Steps : Front(d, k)
    BY DEF Body
  <1>4. 0 \notin Steps /\ Steps \subseteq Int
    BY Named DEF Steps
  <1>5. d.cur = k
    BY <1>3, <1>4 DEF Front
  <1>6. PICK m \in Nat : m <= N /\ Succeeded(d) = 1 .. m
    BY <1>3, FrontPrefix
  <1>7. /\ PlanOf(d) \in Seq(Steps) /\ DOMAIN PlanOf(d) = 1 .. m
        /\ \A i \in 1 .. m : PlanOf(d)[i] = m + 1 - i
    BY <1>6, PlanOfPrefix
  <1>8. /\ Ready(t) /\ Place(t) = Place(a)
        /\ t.frozen = TRUE /\ t.plan = PlanOf(d) /\ t.cmds = a.cmds
        /\ \A s \in Steps : /\ t.row[s].fwd = a.row[s].fwd
                            /\ t.row[s].comp = "Succeeded" <=> a.row[s].comp = "Succeeded"
                            /\ t.row[s].comp = "Unknown" => a.row[s].comp = "Unknown"
    <2> DEFINE plan == PlanOf(d)
    <2>1. plan \in Seq(Steps)
      BY <1>7
    <2> HIDE DEF plan
    <2>2. Marked(a, MarkPlan(a, plan), plan)
      BY <1>1, <2>1, MarkPlanDoes
    <2>3. Marked(a, t, PlanOf(d))
      BY <2>2 DEF plan
    <2> HIDE DEF t
    <2> QED BY <2>3 DEF Marked
  <1> HIDE DEF t
  <1>9. t.status = "Compensating" /\ t.dir = "Compensating" /\ t.cur = cur
    BY <1>1, <1>8 DEF Place
  <1>10. Front(t, k)
    BY <1>2, <1>3, <1>8, <1>9 DEF Front
  <1>11. PlanShape(t)
    <2>1. Succeeded(t) = 1 .. m
      BY <1>2, <1>6, <1>8 DEF Succeeded
    <2>2. {t.plan[i] : i \in DOMAIN t.plan} = 1 .. m
      <3>1. ASSUME NEW x \in 1 .. m PROVE m + 1 - x \in 1 .. m /\ PlanOf(d)[m + 1 - x] = x
        <4>1. m + 1 - x \in 1 .. m /\ m + 1 - (m + 1 - x) = x
          OBVIOUS
        <4> QED BY <1>7, <4>1
      <3>2. ASSUME NEW i \in 1 .. m PROVE PlanOf(d)[i] \in 1 .. m
        BY <1>7
      <3> QED BY <1>7, <1>8, <3>1, <3>2
    <2>3. ASSUME NEW s \in Steps PROVE t.row[s].fwd \in Certain \/ t.cmds[s] = <<>>
      <3>1. d.row[s].fwd \in Certain \cup {"Pending"}
        BY DEF Freezable, Certain
      <3>2. d.row[s].fwd = "Pending" => k < s
        BY <1>3, <1>4, <1>5 DEF Front
      <3> QED BY <1>2, <1>3, <1>8, <3>1, <3>2 DEF Front
    <2> QED BY <1>8, <1>9, <2>1, <2>2, <2>3 DEF PlanShape
  <1>12. CommandShape(t)
    <2>1. \A s \in Steps : ~Compensates(d, s)
      BY DEF Body, CommandShape, PlanShape
    <2> QED BY <1>2, <1>8, <2>1 DEF CommandShape, Compensates
  <1>13. StatusShape(t)
    BY <1>9 DEF StatusShape
  <1> QED BY <1>2, <1>8, <1>9, <1>10, <1>11, <1>12, <1>13 DEF Body, t, a

LEMMA EnterCompensationKeeps ==
  ASSUME NEW d, Ready(d), Shape(d), d.dir = "Forward", d.cur \in Steps, d.row[d.cur].fwd # "Pending"
  PROVE  Kept(EnterCompensation(d))
  <1> DEFINE plan == PlanOf(d)
             t(c) == MarkPlan(Advance(d, "Compensating", "Compensating", c), plan)
  <1>1. CASE ~Freezable(d)
    BY <1>1, EscalateKeeps DEF EnterCompensation
  <1>2. CASE Freezable(d) /\ plan = <<>>
    <2>1. 0 \in 0 .. N
      BY Named
    <2>2. Ready(t(0)) /\ Body(t(0)) /\ t(0).dir = "Compensating"
      BY <1>2, <2>1, FreezeBody DEF Shape
    <2>3. EnterCompensation(d) = Converge(t(0))
      BY <1>2 DEF EnterCompensation
    <2> HIDE DEF t, plan
    <2> QED BY <2>2, <2>3, ConvergeKeeps
  <1>3. CASE Freezable(d) /\ plan # <<>>
    <2>1. PICK k \in Steps : Front(d, k)
      BY DEF Shape, Body
    <2>2. PICK m \in Nat : m <= N /\ Succeeded(d) = 1 .. m
      BY <2>1, FrontPrefix
    <2>3. plan \in Seq(Steps) /\ Len(plan) = m /\ \A i \in 1 .. m : plan[i] = m + 1 - i
      BY <2>2, PlanOfPrefix
    <2>4. m # 0 /\ 1 \in 1 .. m
      BY <1>3, <2>3
    <2>5. plan[1] = m /\ plan[1] \in Succeeded(d)
      BY <2>2, <2>3, <2>4
    <2>6. plan[1] \in Steps /\ d.row[plan[1]].fwd = "Succeeded" /\ plan[1] \in 0 .. N
      BY <2>5, Named DEF Succeeded
    <2> DEFINE s == plan[1]
               u == t(s)
    <2>7. /\ Ready(u) /\ Body(u) /\ u.status = "Compensating" /\ u.cur = s /\ u.frozen
          /\ u.row[s].fwd = "Succeeded"
      BY <1>3, <2>6, FreezeBody DEF Shape
    <2>8. EnterCompensation(d) = Issue(u, s, "Compensate", FALSE)
      BY <1>3 DEF EnterCompensation
    <2>9. "Compensate" \in Phases /\ Awaits["Compensate"] = "Compensating"
      BY DEF Phases, Awaits
    <2> HIDE DEF u, s, plan
    <2>10. s \in Steps
      BY <2>6 DEF s
    <2> QED BY <2>7, <2>8, <2>9, <2>10, IssueKeeps
  <1> QED BY <1>1, <1>2, <1>3

(* The next step to reverse is one of the plan's.                          *)
LEMMA CompensateNextKeeps ==
  ASSUME NEW d, Ready(d), Body(d), d.dir = "Compensating", NEW s \in Steps,
         d.row[s].fwd = "Succeeded", NEW rec \in BOOLEAN
  PROVE  Kept(Issue(Advance(d, "Compensating", "Compensating", s), s, "Compensate", rec))
  <1> DEFINE t == Advance(d, "Compensating", "Compensating", s)
  <1>1. "Compensating" \in Statuses /\ s \in 0 .. N
    BY Named
  <1>2. /\ Ready(t) /\ Body(t) /\ t.status = "Compensating" /\ t.cur = s
        /\ t.frozen = d.frozen /\ t.row = d.row
    BY <1>1, AdvanceBody
  <1>3. d.frozen
    BY DEF Body, PlanShape
  <1>4. "Compensate" \in Phases /\ Awaits["Compensate"] = "Compensating"
    BY DEF Phases, Awaits
  <1> HIDE DEF t
  <1>5. Kept(Issue(t, s, "Compensate", rec))
    BY <1>2, <1>3, <1>4, IssueKeeps
  <1> QED BY <1>5 DEF t

LEMMA NextSucceeded ==
  ASSUME NEW d, Ready(d), Body(d), d.frozen, Uncompensated(d) # {}
  PROVE  NextCompensation(d) \in Steps /\ d.row[NextCompensation(d)].fwd = "Succeeded"
  <1>1. PICK i \in Uncompensated(d) :
           /\ i \in DOMAIN d.plan /\ NextCompensation(d) = d.plan[i] /\ d.plan[i] \in Steps
    BY NextCompensationIs
  <1>2. d.plan[i] \in Succeeded(d)
    BY <1>1 DEF Body, PlanShape
  <1> QED BY <1>1, <1>2 DEF Succeeded

LEMMA ConvergeFromKeeps ==
  ASSUME NEW d, Ready(d), Body(d), d.dir = "Compensating"
  PROVE  LET t == Advance(d, "Compensating", "Compensating", 0) IN
         /\ Kept(Converge(t)) /\ t.row = d.row /\ t.plan = d.plan /\ t.frozen = d.frozen
         /\ Ready(t) /\ Body(t) /\ t.dir = "Compensating" /\ t.cmds = d.cmds
  <1>1. "Compensating" \in Statuses /\ 0 \in 0 .. N
    BY Named
  <1> DEFINE t == Advance(d, "Compensating", "Compensating", 0)
  <1>2. /\ Ready(t) /\ Body(t) /\ t.dir = "Compensating" /\ t.row = d.row /\ t.plan = d.plan
        /\ t.frozen = d.frozen /\ t.cmds = d.cmds
    BY <1>1, AdvanceBody
  <1> HIDE DEF t
  <1>3. Kept(Converge(t))
    BY <1>2, ConvergeKeeps
  <1> QED BY <1>2, <1>3 DEF t

LEMMA ContinueCompensationKeeps ==
  ASSUME NEW d, Ready(d), Shape(d), d.dir = "Compensating"
  PROVE  Kept(ContinueCompensation(d))
  <1> DEFINE s == NextCompensation(d)
  <1>1. CASE ~PlanInStep(d, FALSE)
    BY <1>1, EscalateKeeps DEF ContinueCompensation
  <1>2. CASE PlanInStep(d, FALSE) /\ Uncompensated(d) = {}
    <2>1. ContinueCompensation(d) = Converge(Advance(d, "Compensating", "Compensating", 0))
      BY <1>2 DEF ContinueCompensation
    <2> QED BY <2>1, ConvergeFromKeeps DEF Shape
  <1>3. CASE PlanInStep(d, FALSE) /\ Uncompensated(d) # {}
    <2>1. ContinueCompensation(d)
            = Issue(Advance(d, "Compensating", "Compensating", s), s, "Compensate", FALSE)
      BY <1>3 DEF ContinueCompensation
    <2>2. d.frozen
      BY DEF Shape, Body, PlanShape
    <2>3. s \in Steps /\ d.row[s].fwd = "Succeeded"
      BY <1>3, <2>2, NextSucceeded DEF Shape
    <2> HIDE DEF s
    <2> QED BY <2>1, <2>3, CompensateNextKeeps DEF Shape
  <1> QED BY <1>1, <1>2, <1>3

(* The next step to execute: the front moves on by one, or stays.          *)
ForwardStep(d, s) ==
  /\ s \in Steps /\ d.row[s].fwd = "Pending"
  /\ \A t \in Steps : t < s => d.row[t].fwd = "Succeeded"
  /\ \A t \in Steps : s <= t => d.row[t].fwd = "Pending"

LEMMA ForwardCases ==
  ASSUME NEW d, ForwardInStep(d)
  PROVE  \/ /\ \A s \in Steps : d.row[s].fwd = "Succeeded"
            /\ ProceedForward(d) = [Advance(d, "Completed", "Forward", 0) EXCEPT !.deadline = FALSE]
         \/ \E s \in Steps :
              /\ ForwardStep(d, s)
              /\ ProceedForward(d) = Issue(Advance(d, "Running", "Forward", s), s, "Execute", FALSE)
  <1> DEFINE pending == {s \in Steps : d.row[s].fwd = "Pending"}
             next == CHOOSE s \in pending : \A t \in pending : s <= t
  <1>1. PICK k \in 0 .. N : \A s \in Steps : d.row[s].fwd = IF s <= k THEN "Succeeded" ELSE "Pending"
    BY DEF ForwardInStep
  <1>2. N \in Nat /\ Steps = 1 .. N
    BY Named DEF Steps
  <1>3. CASE k = N
    <2>1. \A s \in Steps : d.row[s].fwd = "Succeeded"
      BY <1>1, <1>2, <1>3
    <2>2. pending = {}
      BY <2>1
    <2>3. ProceedForward(d) = [Advance(d, "Completed", "Forward", 0) EXCEPT !.deadline = FALSE]
      BY <2>2 DEF ProceedForward
    <2> QED BY <2>1, <2>3
  <1>4. CASE k # N
    <2>1. k + 1 \in pending /\ \A t \in pending : k + 1 <= t
      BY <1>1, <1>2, <1>4
    <2>2. next \in pending /\ \A t \in pending : next <= t
      BY <2>1
    <2>3. next = k + 1
      <3>1. next \in Int /\ k + 1 \in Int
        BY <1>2, <2>2
      <3>2. next <= k + 1 /\ k + 1 <= next
        BY <2>1, <2>2
      <3> HIDE DEF next, pending
      <3> QED BY <3>1, <3>2
    <2>4. ProceedForward(d) = Issue(Advance(d, "Running", "Forward", next), next, "Execute", FALSE)
      BY <2>1 DEF ProceedForward
    <2>5. ForwardStep(d, next)
      <3>1. next \in Steps /\ next = k + 1
        BY <2>2, <2>3
      <3> HIDE DEF next
      <3> QED BY <1>1, <1>2, <3>1 DEF ForwardStep
    <2>6. next \in Steps
      BY <2>2
    <2> HIDE DEF next
    <2> QED BY <2>4, <2>5, <2>6
  <1> QED BY <1>3, <1>4

LEMMA ProceedForwardKeeps ==
  ASSUME NEW d, Ready(d), Shape(d), d.dir = "Forward"
  PROVE  Kept(ProceedForward(d))
  <1>1. CASE ~ForwardInStep(d)
    <2> DEFINE t == [d EXCEPT !.ok = FALSE]
    <2>1. ProceedForward(d) = t
      BY <1>1 DEF ProceedForward
    <2>2. Ready(t) /\ t.ok = FALSE
      BY DEF Ready, DbType
    <2> HIDE DEF t
    <2> QED BY <2>1, <2>2 DEF Kept
  <1>2. CASE /\ \A s \in Steps : d.row[s].fwd = "Succeeded"
             /\ ProceedForward(d) = [Advance(d, "Completed", "Forward", 0) EXCEPT !.deadline = FALSE]
    <2> DEFINE a == Advance(d, "Completed", "Forward", 0)
               t == [a EXCEPT !.deadline = FALSE]
    <2>1. "Completed" \in Statuses /\ 0 \in 0 .. N /\ "Completed" \notin Automatic
      BY Named DEF Statuses, Terminal
    <2>2. Ready(a) /\ Body(a) /\ a.status = "Completed" /\ a.dir = "Forward" /\ a.cur = 0
      BY <1>2, <2>1, AdvanceBody DEF Shape
    <2> HIDE DEF a
    <2>3. Ready(t) /\ Place(t) = Place(a) /\ Core(t) = Core(a)
      BY <2>2 DEF Ready, DbType, Place, Core
    <2> HIDE DEF t
    <2>4. Body(t)
      BY <2>2, <2>3, BodyReads
    <2>5. t.status = "Completed" /\ t.dir = "Forward"
      BY <2>2, <2>3 DEF Place
    <2>6. CurrentShape(t) /\ Timed(t)
      BY <2>1, <2>5 DEF CurrentShape, Timed
    <2> QED BY <1>2, <2>3, <2>4, <2>6 DEF Kept, Shape, t, a
  <1>3. ASSUME NEW s \in Steps, ForwardStep(d, s),
               ProceedForward(d) = Issue(Advance(d, "Running", "Forward", s), s, "Execute", FALSE)
        PROVE  Kept(ProceedForward(d))
    <2> DEFINE a == Advance(d, "Running", "Forward", s)
               t == Issue(a, s, "Execute", FALSE)
               c == Command(a, s, "Execute", FALSE)
    <2>1. "Running" \in Statuses /\ s \in 0 .. N /\ "Forward" \in Directions /\ Steps \subseteq Int
          /\ "Execute" \in Phases /\ Awaits["Execute"] = "Running" /\ FALSE \in BOOLEAN
      BY Named DEF Directions, Phases, Awaits, Steps
    <2>2. /\ Ready(a) /\ a.status = "Running" /\ a.dir = "Forward" /\ a.cur = s /\ Core(a) = Core(d)
      BY <2>1, AdvanceDoes
    <2> HIDE DEF a
    <2>3. a.frozen = d.frozen /\ a.plan = d.plan /\ a.row = d.row /\ a.cmds = d.cmds
      BY <2>2 DEF Core
    <2>4. /\ Ready(t) /\ Place(t) = Place(a) /\ t.frozen = a.frozen /\ t.plan = a.plan /\ t.row = a.row
          /\ t.cmds[s] = Append(a.cmds[s], c) /\ c \in CommandType /\ c.ph = "Execute"
          /\ \A r \in Steps \ {s} : t.cmds[r] = a.cmds[r]
      <3>1. Issued(a, t, s, "Execute", FALSE)
        BY <2>1, <2>2, IssueDoes
      <3> HIDE DEF t
      <3> QED BY <3>1 DEF Issued
    <2>5. Timed(t)
      BY <2>1, <2>2, IssueTimed
    <2> HIDE DEF t, c
    <2>6. t.status = "Running" /\ t.dir = "Forward" /\ t.cur = s
      BY <2>2, <2>4 DEF Place
    <2>7. a.cmds[s] \in Seq(CommandType)
      BY <2>2 DEF Ready, DbType
    <2>8. t.cmds[s] # <<>>
      BY <2>4, <2>7
    <2>9. PICK k \in Steps : Front(d, k)
      BY DEF Shape, Body
    <2>10. k <= s
      BY <2>1, <2>9, <1>3 DEF Front, ForwardStep
    <2>11. Front(t, s)
      <3>1. ASSUME NEW r \in Steps, s < r PROVE t.row[r].fwd = "Pending" /\ t.cmds[r] = <<>>
        <4>1. k < r /\ r # s /\ s <= r
          BY <2>1, <2>10, <3>1
        <4>2. d.cmds[r] = <<>>
          BY <2>9, <4>1 DEF Front
        <4>3. t.cmds[r] = d.cmds[r]
          BY <2>3, <2>4, <4>1
        <4> QED BY <1>3, <2>3, <2>4, <4>1, <4>2, <4>3 DEF ForwardStep
      <3>2. ASSUME NEW r \in Steps, r < s PROVE t.row[r].fwd = "Succeeded"
        BY <1>3, <2>3, <2>4, <3>2 DEF ForwardStep
      <3> QED BY <2>6, <2>8, <3>1, <3>2 DEF Front
    <2>12. ~d.frozen
      BY DEF Shape, Body, PlanShape
    <2>13. PlanShape(t)
      BY <2>3, <2>4, <2>6, <2>12 DEF PlanShape
    <2>14. CommandShape(t)
      <3>1. \A r \in Steps : ~Compensates(d, r)
        BY <2>12 DEF Shape, Body, CommandShape
      <3>2. ~Compensates(t, s)
        <4>1. DOMAIN t.cmds[s] = DOMAIN a.cmds[s] \cup {Len(a.cmds[s]) + 1}
              /\ t.cmds[s][Len(a.cmds[s]) + 1] = c
              /\ \A i \in DOMAIN a.cmds[s] : t.cmds[s][i] = a.cmds[s][i]
          BY <2>4, <2>7
        <4> QED BY <2>3, <2>4, <3>1, <4>1 DEF Compensates
      <3>3. \A r \in Steps : ~Compensates(t, r)
        <4>1. \A r \in Steps \ {s} : t.cmds[r] = d.cmds[r]
          BY <2>3, <2>4
        <4>2. \A r \in Steps \ {s} : ~Compensates(t, r)
          BY <3>1, <4>1, SameCompensates
        <4> QED BY <3>2, <4>2
      <3> QED BY <3>3 DEF CommandShape
    <2>15. StatusShape(t) /\ CurrentShape(t)
      BY <2>6 DEF StatusShape, CurrentShape
    <2>16. Kept(t)
      BY <2>4, <2>5, <2>11, <2>13, <2>14, <2>15 DEF Kept, Shape, Body
    <2> QED BY <1>3, <2>16 DEF t, a
  <1>4. CASE ForwardInStep(d)
    BY <1>2, <1>3, <1>4, ForwardCases
  <1> QED BY <1>1, <1>4

LEMMA LateSuccessKeeps ==
  ASSUME NEW d, Ready(d), Shape(d), NEW s \in Steps, d.dir = "Forward", d.cur \in Steps,
         d.row[d.cur].fwd # "Pending"
  PROVE  Kept(LateSuccess(d, s))
  BY ProceedForwardKeeps, EnterCompensationKeeps DEF LateSuccess
-----------------------------------------------------------------------------
(* Results.                                                                *)
LEMMA LateChoice ==
  /\ (CHOOSE f \in LateFacts : Late[f] = "LateSucceeded") = "Succeeded"
  /\ (CHOOSE f \in LateFacts : Late[f] = "LateRejected") = "Rejected"
  /\ (CHOOSE f \in LateFacts : Late[f] = "LateHalted") = "Halted"
  <1>1. LateFacts = {"Succeeded", "Rejected", "Halted"}
    BY DEF LateFacts, Late
  <1>2. Late["Succeeded"] = "LateSucceeded" /\ Late["Rejected"] = "LateRejected" /\ Late["Halted"] = "LateHalted"
    BY DEF Late
  <1> QED BY <1>1, <1>2

(* What a result would write: its columns, and the facts among them.       *)
LEMMA DeferredPatches ==
  ASSUME NEW d, NEW ph \in Phases, NEW o \in Outcomes[ph]
  PROVE  LET p == DeferredPatch(d, ph, o) IN
         /\ Patches(p)
         /\ ph = "Execute" => "comp" \notin DOMAIN p /\ "fwd" \in DOMAIN p /\ p["fwd"] = o
         /\ ph = "Cancel" =>
              /\ "comp" \notin DOMAIN p
              /\ o = "Confirmed" => "fwd" \in DOMAIN p /\ p["fwd"] = "Cancelled"
              /\ o = "LateSucceeded" => "fwd" \in DOMAIN p /\ p["fwd"] = "Succeeded"
              /\ o = "LateRejected" => "fwd" \in DOMAIN p /\ p["fwd"] = "Rejected"
              /\ o = "LateHalted" => "fwd" \in DOMAIN p /\ p["fwd"] = "Halted"
              /\ o = "ResolutionPending" => "fwd" \notin DOMAIN p
         /\ ph = "Compensate" => "fwd" \notin DOMAIN p /\ "comp" \in DOMAIN p /\ p["comp"] = o
         /\ ph = "Resolve" =>
              /\ d.dir = "Forward" => "comp" \notin DOMAIN p /\ "fwd" \in DOMAIN p /\ p["fwd"] = o
              /\ d.dir # "Forward" => /\ "fwd" \notin DOMAIN p /\ "comp" \in DOMAIN p
                                      /\ p["comp"] = IF o = "Rejected" THEN "Pending" ELSE o
  <1>1. CASE ph = "Execute"
    <2>1. DeferredPatch(d, ph, o) = [fwd |-> o] /\ o \in {"Succeeded", "Rejected", "Unknown", "Halted"}
      BY <1>1 DEF DeferredPatch, Outcomes
    <2> QED BY <1>1, <2>1 DEF Patches, Columns
  <1>2. CASE ph = "Compensate"
    <2>1. DeferredPatch(d, ph, o) = [comp |-> o] /\ o \in {"Succeeded", "Unknown", "Halted"}
      BY <1>2 DEF DeferredPatch, Outcomes
    <2> QED BY <1>2, <2>1 DEF Patches, Columns
  <1>3. CASE ph = "Resolve"
    <2> DEFINE res == IF o = "Unknown" THEN "Pending" ELSE o
               comp == IF o = "Rejected" THEN "Pending" ELSE o
    <2>1. o \in {"Succeeded", "Rejected", "Unknown", "Halted"}
      BY <1>3 DEF Outcomes
    <2>2. res \in {"Pending", "Succeeded", "Rejected", "Halted"} /\ comp \in {"Pending", "Succeeded", "Unknown", "Halted"}
      BY <2>1
    <2>3. DeferredPatch(d, ph, o) = IF d.dir = "Forward" THEN [res |-> res, fwd |-> o]
                                    ELSE [res |-> res, comp |-> comp]
      BY <1>3 DEF DeferredPatch
    <2> HIDE DEF res
    <2>4. CASE d.dir = "Forward"
      <3>1. DeferredPatch(d, ph, o) = [res |-> res, fwd |-> o]
        BY <2>3, <2>4
      <3> QED BY <1>3, <2>1, <2>2, <2>4, <3>1 DEF Patches, Columns
    <2>5. CASE d.dir # "Forward"
      <3>1. DeferredPatch(d, ph, o) = [res |-> res, comp |-> comp]
        BY <2>3, <2>5
      <3>2. comp = IF o = "Rejected" THEN "Pending" ELSE o
        OBVIOUS
      <3> HIDE DEF comp
      <3> QED BY <1>3, <2>1, <2>2, <2>5, <3>1, <3>2 DEF Patches, Columns
    <2> QED BY <2>4, <2>5
  <1>4. CASE ph = "Cancel"
    <2>1. o \in {"Confirmed", "LateSucceeded", "LateRejected", "LateHalted", "ResolutionPending"}
      BY <1>4 DEF Outcomes
    <2>2. CASE o = "Confirmed"
      <3>1. DeferredPatch(d, ph, o) = [fwd |-> "Cancelled", cancel |-> "Confirmed"]
        BY <1>4, <2>2 DEF DeferredPatch
      <3> QED BY <1>4, <2>2, <3>1 DEF Patches, Columns
    <2>3. CASE o = "ResolutionPending"
      <3>1. DeferredPatch(d, ph, o) = [cancel |-> "ResolutionPending"]
        BY <1>4, <2>3 DEF DeferredPatch
      <3> QED BY <1>4, <2>3, <3>1 DEF Patches, Columns
    <2>4. ASSUME NEW f \in {"Succeeded", "Rejected", "Halted"},
                 (CHOOSE x \in LateFacts : Late[x] = o) = f, o \notin {"Confirmed", "ResolutionPending"}
          PROVE  LET p == DeferredPatch(d, ph, o) IN
                 Patches(p) /\ "comp" \notin DOMAIN p /\ "fwd" \in DOMAIN p /\ p["fwd"] = f
      <3>1. DeferredPatch(d, ph, o) = [fwd |-> f, cancel |-> "AlreadyTerminal"]
        BY <1>4, <2>4 DEF DeferredPatch
      <3> QED BY <2>4, <3>1 DEF Patches, Columns
    <2>5. CASE o = "LateSucceeded"
      BY <1>4, <2>4, <2>5, LateChoice
    <2>6. CASE o = "LateRejected"
      BY <1>4, <2>4, <2>6, LateChoice
    <2>7. CASE o = "LateHalted"
      BY <1>4, <2>4, <2>7, LateChoice
    <2> QED BY <2>1, <2>2, <2>3, <2>5, <2>6, <2>7
  <1> QED BY <1>1, <1>2, <1>3, <1>4 DEF Phases

(* t is d with the patch p merged into the row of s.                       *)
Merged(d, t, s, p) ==
  /\ Ready(t) /\ Shape(t) /\ Place(t) = Place(d) /\ t.ok = d.ok /\ t.timer = d.timer
  /\ t.cmds = d.cmds /\ t.frozen = d.frozen
  /\ t.row[s].fwd = IF "fwd" \in DOMAIN p /\ d.row[s].fwd \in {"Pending", "Unknown", "TimedOut"}
                    THEN p["fwd"] ELSE d.row[s].fwd
  /\ t.row[s].comp = IF "comp" \in DOMAIN p /\ d.row[s].comp \in {"None", "Pending", "Unknown"}
                     THEN p["comp"] ELSE d.row[s].comp
  /\ \A r \in Steps \ {s} : t.row[r] = d.row[r]

LEMMA ProjectedKeeps ==
  ASSUME NEW d, Ready(d), Shape(d), NEW s \in Steps, NEW p, Patches(p), d.cmds[s] # <<>>
  PROVE  Merged(d, Projected(d, s, p), s, p)
  <1> DEFINE m == Merge(d.row[s], p)
             q == Written(d.row[s], m)
             t == Patch(d, s, m)
  <1>1. d.row[s] \in RowType
    BY DEF Ready, DbType
  <1>2. /\ q \in RowType
        /\ q.fwd = IF "fwd" \in DOMAIN p /\ d.row[s].fwd \in {"Pending", "Unknown", "TimedOut"}
                   THEN p["fwd"] ELSE d.row[s].fwd
        /\ q.comp = IF "comp" \in DOMAIN p /\ d.row[s].comp \in {"None", "Pending", "Unknown"}
                    THEN p["comp"] ELSE d.row[s].comp
    BY <1>1, MergedRow
  <1> HIDE DEF m
  <1>3. q.fwd = d.row[s].fwd \/ d.row[s].fwd \notin Certain
    BY <1>2 DEF Certain
  <1>4. Ready(t) /\ Shape(t)
    BY <1>2, <1>3, PatchShape
  <1>5. /\ t.row[s] = q /\ Place(t) = Place(d) /\ t.ok = d.ok /\ t.timer = d.timer
        /\ t.cmds = d.cmds /\ t.frozen = d.frozen /\ \A r \in Steps \ {s} : t.row[r] = d.row[r]
    BY <1>2, PatchDoes
  <1>6. Projected(d, s, p) = t
    BY DEF Projected, m
  <1> HIDE DEF q, t
  <1> QED BY <1>2, <1>4, <1>5, <1>6 DEF Merged

LEMMA ConflictedKeeps ==
  ASSUME NEW d, Ready(d), Shape(d)
  PROVE  Kept(Conflicted(d))
  <1>1. CASE d.status \in Automatic
    BY <1>1, EscalateKeeps DEF Conflicted
  <1>2. CASE d.status \notin Automatic
    BY <1>2 DEF Conflicted, Kept, Timed
  <1> QED BY <1>1, <1>2

LEMMA DeferKeeps ==
  ASSUME NEW d, Ready(d), Shape(d), Timed(d), NEW s \in Steps, NEW r, r.ph \in Phases,
         r.out \in Outcomes[r.ph], d.cmds[s] # <<>>, d.status # Awaits[r.ph] \/ d.cur # s
  PROVE  Kept(Defer(d, s, r))
  <1> DEFINE p == DeferredPatch(d, r.ph, r.out)
             e == Projected(d, s, p)
             t == CancelTimer(e, s, r.ph)
  <1>1. Patches(p)
    BY DeferredPatches
  <1> HIDE DEF p
  <1>2. Merged(d, e, s, p)
    BY <1>1, ProjectedKeeps
  <1>3. Ready(e) /\ Shape(e) /\ Place(e) = Place(d) /\ e.timer = d.timer /\ e.cmds = d.cmds
    BY <1>2 DEF Merged
  <1> HIDE DEF e
  <1>4. Ready(t) /\ Shape(t) /\ Place(t) = Place(e)
    BY <1>3, CancelTimerKeeps
  <1>5. e.status = d.status /\ e.cur = d.cur /\ t.status = e.status
    BY <1>3, <1>4 DEF Place
  <1>6. Timed(e)
    BY <1>3, <1>5 DEF Timed, NextAttempt, Attempts
  <1>7. Timed(t)
    <2>1. CASE d.status \in Automatic
      <3>1. e.timer.s # s \/ e.timer.ph # r.ph
        BY <1>3, <2>1 DEF Timed
      <3>2. t = e
        BY <1>3, <3>1, CancelTimerDoes
      <3> QED BY <1>6, <3>2
    <2>2. CASE d.status \notin Automatic
      BY <1>5, <2>2 DEF Timed
    <2> QED BY <2>1, <2>2
  <1>8. Kept(t) /\ Kept(d) /\ Kept(Conflicted(d))
    BY <1>4, <1>7, ConflictedKeeps DEF Kept
  <1> QED BY <1>8 DEF Defer, p, e, t

(* A result the saga waits for, phase by phase.                            *)
LEMMA OnExecuteKeeps ==
  ASSUME NEW d, Ready(d), Shape(d), NEW s \in Steps, NEW r, r.n \in Nat,
         r.out \in Outcomes["Execute"], d.status = "Running", d.cur = s
  PROVE  Kept(OnExecute(d, s, r))
  <1> DEFINE p == [fwd |-> r.out]
             b == Patch(d, s, p)
             e == CancelTimer(b, s, "Execute")
  <1>1. d.dir = "Forward" /\ d.cmds[s] # <<>>
    BY CurrentAsked DEF Shape, Body, StatusShape
  <1>2. r.out \in {"Succeeded", "Rejected", "Unknown", "Halted"}
    BY DEF Outcomes
  <1>3. Patches(p) /\ "fwd" \in DOMAIN p /\ p["fwd"] = r.out
    BY <1>2 DEF Patches, Columns
  <1> HIDE DEF p
  <1>4. Ready(b) /\ Shape(b) /\ Place(b) = Place(d) /\ b.row[s].fwd = r.out
    BY <1>1, <1>3, PatchKeeps
  <1> HIDE DEF b
  <1>5. Ready(e) /\ Shape(e) /\ Place(e) = Place(b) /\ Core(e) = Core(b)
    BY <1>4, CancelTimerKeeps
  <1> HIDE DEF e
  <1>6. e.dir = "Forward" /\ e.cur = s /\ e.row[s].fwd = r.out
    BY <1>1, <1>4, <1>5 DEF Place, Core
  <1>7. Kept(ProceedForward(e)) /\ Kept(Escalate(e))
    BY <1>5, <1>6, ProceedForwardKeeps, EscalateKeeps
  <1>8. r.out # "Pending" => Kept(EnterCompensation(e))
    BY <1>5, <1>6, EnterCompensationKeeps
  <1>9. Kept(EnterWaiting(d, s, "Forward", "Execute", r.n))
    <2>1. Kept(EnterWaiting(d, s, d.dir, "Execute", r.n))
      BY <1>1, EnterWaitingKeeps
    <2> QED BY <1>1, <2>1
  <1> QED BY <1>2, <1>7, <1>8, <1>9 DEF OnExecute, e, b, p

LEMMA OnCancelKeeps ==
  ASSUME NEW d, Ready(d), Shape(d), NEW s \in Steps, NEW r, r.n \in Nat,
         r.out \in Outcomes["Cancel"], d.status = "Cancelling", d.cur = s
  PROVE  Kept(OnCancel(d, s, r))
  <1> DEFINE p == DeferredPatch(d, "Cancel", r.out)
             b == Projected(d, s, p)
             e == CancelTimer(b, s, "Cancel")
  <1>1. d.dir = "Forward" /\ d.cmds[s] # <<>>
    BY CurrentAsked DEF Shape, Body, StatusShape
  <1>2. r.out \in {"Confirmed", "LateSucceeded", "LateRejected", "LateHalted", "ResolutionPending"}
    BY DEF Outcomes
  <1>3. Patches(p) /\ (r.out \in {"Confirmed", "LateSucceeded", "LateRejected"} =>
                          "fwd" \in DOMAIN p /\ p["fwd"] # "Pending")
    <2>1. "Cancel" \in Phases
      BY DEF Phases
    <2> QED BY <2>1, DeferredPatches
  <1> HIDE DEF p
  <1>4. Merged(d, b, s, p)
    BY <1>1, <1>3, ProjectedKeeps
  <1> HIDE DEF b
  <1>5. Ready(b) /\ Shape(b) /\ Place(b) = Place(d)
        /\ (r.out \in {"Confirmed", "LateSucceeded", "LateRejected"} => b.row[s].fwd # "Pending")
    BY <1>3, <1>4 DEF Merged
  <1>6. Ready(e) /\ Shape(e) /\ Place(e) = Place(b) /\ Core(e) = Core(b)
    BY <1>5, CancelTimerKeeps
  <1> HIDE DEF e
  <1>7. e.dir = "Forward" /\ e.cur = s /\ e.row[s].fwd = b.row[s].fwd
    BY <1>1, <1>5, <1>6 DEF Place, Core
  <1>8. r.out \in {"Confirmed", "LateRejected"} => Kept(EnterCompensation(e))
    BY <1>5, <1>6, <1>7, EnterCompensationKeeps
  <1>9. r.out = "LateSucceeded" => Kept(LateSuccess(e, s))
    BY <1>5, <1>6, <1>7, LateSuccessKeeps
  <1>10. Kept(EnterWaiting(e, s, "Forward", "Cancel", r.n))
    <2>1. Kept(EnterWaiting(e, s, e.dir, "Cancel", r.n))
      BY <1>6, <1>7, EnterWaitingKeeps
    <2> QED BY <1>7, <2>1
  <1>11. Kept(Escalate(e)) /\ Kept(Conflicted(d))
    BY <1>6, EscalateKeeps, ConflictedKeeps
  <1>12. CASE Conflicts(d, s, p)
    BY <1>11, <1>12 DEF OnCancel, p
  <1>13. CASE ~Conflicts(d, s, p)
    <2>1. CASE r.out \in {"Confirmed", "LateRejected"}
      <3>1. OnCancel(d, s, r) = EnterCompensation(e)
        BY <1>13, <2>1 DEF OnCancel, p, b, e
      <3> QED BY <1>8, <2>1, <3>1
    <2>2. CASE r.out = "LateSucceeded"
      <3>1. OnCancel(d, s, r) = LateSuccess(e, s)
        BY <1>13, <2>2 DEF OnCancel, p, b, e
      <3> QED BY <1>9, <2>2, <3>1
    <2>3. CASE r.out = "LateHalted"
      <3>1. OnCancel(d, s, r) = Escalate(e)
        BY <1>13, <2>3 DEF OnCancel, p, b, e
      <3> QED BY <1>11, <3>1
    <2>4. CASE r.out = "ResolutionPending"
      <3>1. OnCancel(d, s, r) = EnterWaiting(e, s, "Forward", "Cancel", r.n)
        BY <1>13, <2>4 DEF OnCancel, p, b, e
      <3> QED BY <1>10, <3>1
    <2> QED BY <1>2, <2>1, <2>2, <2>3, <2>4
  <1> QED BY <1>12, <1>13

LEMMA OnCompensateKeeps ==
  ASSUME NEW d, Ready(d), Shape(d), NEW s \in Steps, NEW r, r.n \in Nat,
         r.out \in Outcomes["Compensate"], d.status = "Compensating", d.cur = s
  PROVE  Kept(OnCompensate(d, s, r))
  <1> DEFINE p == [comp |-> r.out]
             b == CancelTimer(d, s, "Compensate")
             e == Patch(b, s, p)
  <1>1. d.dir = "Compensating" /\ d.cmds[s] # <<>>
    BY CurrentAsked DEF Shape, Body, StatusShape
  <1>2. r.out \in {"Succeeded", "Unknown", "Halted"}
    BY DEF Outcomes
  <1>3. Patches(p) /\ "fwd" \notin DOMAIN p
    BY <1>2 DEF Patches, Columns
  <1> HIDE DEF p
  <1>4. Ready(b) /\ Shape(b) /\ Place(b) = Place(d) /\ Core(b) = Core(d)
    BY CancelTimerKeeps
  <1> HIDE DEF b
  <1>5. b.cmds[s] # <<>> /\ b.dir = "Compensating" /\ b.cur = s
    BY <1>1, <1>4 DEF Core, Place
  <1>6. Ready(e) /\ Shape(e) /\ Place(e) = Place(b)
    BY <1>3, <1>4, <1>5, PatchKeeps
  <1> HIDE DEF e
  <1>7. e.dir = "Compensating" /\ e.cur = s
    BY <1>5, <1>6 DEF Place
  <1>8. Kept(ContinueCompensation(e)) /\ Kept(Escalate(e))
    BY <1>6, <1>7, ContinueCompensationKeeps, EscalateKeeps
  <1>9. Kept(EnterWaiting(e, s, "Compensating", "Compensate", r.n))
    <2>1. Kept(EnterWaiting(e, s, e.dir, "Compensate", r.n))
      BY <1>6, <1>7, EnterWaitingKeeps
    <2> QED BY <1>7, <2>1
  <1> QED BY <1>2, <1>8, <1>9 DEF OnCompensate, e, b, p

LEMMA SettleCommittedKeeps ==
  ASSUME NEW d, Ready(d), Shape(d), NEW s \in Steps, d.cur = s
  PROVE  Kept(SettleCommitted(d, s))
  <1> DEFINE p == IF d.dir = "Forward" THEN [res |-> "Succeeded", fwd |-> "Succeeded"]
                  ELSE [res |-> "Succeeded", comp |-> "Succeeded"]
             b == Projected(d, s, p)
             e == CancelResolutionTimers(b, s)
  <1>1. d.cmds[s] # <<>> /\ d.dir \in {"Forward", "Compensating"}
    BY CurrentAsked
  <1>2. Patches(p) /\ (d.dir = "Forward" => "fwd" \in DOMAIN p /\ p["fwd"] = "Succeeded")
    BY DEF Patches, Columns
  <1> HIDE DEF p
  <1>3. Merged(d, b, s, p)
    BY <1>1, <1>2, ProjectedKeeps
  <1> HIDE DEF b
  <1>4. Ready(b) /\ Shape(b) /\ Place(b) = Place(d) /\ (d.dir = "Forward" => b.row[s].fwd # "Pending")
    BY <1>2, <1>3 DEF Merged
  <1>5. Ready(e) /\ Place(e) = Place(b) /\ Core(e) = Core(b)
    BY <1>4, CancelResolutionTimersDoes
  <1> HIDE DEF e
  <1>6. Shape(e)
    BY <1>4, <1>5, ShapeReads
  <1>7. e.dir = d.dir /\ e.cur = s /\ e.row[s].fwd = b.row[s].fwd
    BY <1>4, <1>5 DEF Place, Core
  <1>8. d.dir = "Forward" => Kept(LateSuccess(e, s))
    BY <1>4, <1>5, <1>6, <1>7, LateSuccessKeeps
  <1>9. d.dir = "Compensating" => Kept(ContinueCompensation(e))
    BY <1>5, <1>6, <1>7, ContinueCompensationKeeps
  <1>10. Kept(Conflicted(d))
    BY ConflictedKeeps
  <1> QED BY <1>1, <1>8, <1>9, <1>10 DEF SettleCommitted, p, b, e

LEMMA OnResolveKeeps ==
  ASSUME NEW d, Ready(d), Shape(d), NEW s \in Steps, NEW r,
         r.out \in Outcomes["Resolve"], d.status = "WaitingResolution", d.cur = s
  PROVE  Kept(OnResolve(d, s, r))
  <1> DEFINE p == IF r.out = "Halted" THEN [res |-> "Halted"] ELSE DeferredPatch(d, "Resolve", r.out)
             b == Projected(d, s, p)
             e == CancelResolutionTimers(b, s)
  <1>1. d.cmds[s] # <<>> /\ d.dir \in {"Forward", "Compensating"}
    BY CurrentAsked
  <1>2. r.out \in {"Succeeded", "Rejected", "Unknown", "Halted"} /\ "Resolve" \in Phases
    BY DEF Outcomes, Phases
  <1>3. Patches(p) /\ (d.dir = "Forward" /\ r.out # "Halted" => "fwd" \in DOMAIN p /\ p["fwd"] = r.out)
    <2>1. CASE r.out = "Halted"
      <3>1. p = [res |-> "Halted"]
        BY <2>1
      <3> HIDE DEF p
      <3> QED BY <2>1, <3>1 DEF Patches, Columns
    <2>2. CASE r.out # "Halted"
      <3>1. p = DeferredPatch(d, "Resolve", r.out)
        BY <2>2
      <3> HIDE DEF p
      <3> QED BY <1>2, <2>2, <3>1, DeferredPatches
    <2> QED BY <2>1, <2>2
  <1> HIDE DEF p
  <1>4. Merged(d, b, s, p)
    BY <1>1, <1>3, ProjectedKeeps
  <1> HIDE DEF b
  <1>5. /\ Ready(b) /\ Shape(b) /\ Place(b) = Place(d)
        /\ d.dir = "Forward" /\ r.out # "Halted" => b.row[s].fwd # "Pending"
    BY <1>2, <1>3, <1>4 DEF Merged
  <1>6. Ready(e) /\ Place(e) = Place(b) /\ Core(e) = Core(b)
    BY <1>5, CancelResolutionTimersDoes
  <1> HIDE DEF e
  <1>7. Shape(e)
    BY <1>5, <1>6, ShapeReads
  <1>8. e.dir = d.dir /\ e.cur = s /\ e.row[s].fwd = b.row[s].fwd
    BY <1>5, <1>6 DEF Place, Core
  <1>9. CASE CommittedSuccess(d, s)
    BY <1>9, SettleCommittedKeeps DEF OnResolve
  <1>10. CASE ~CommittedSuccess(d, s) /\ r.out = "Unknown"
    BY <1>10, ReissueKeeps DEF OnResolve
  <1>11. CASE ~CommittedSuccess(d, s) /\ r.out # "Unknown" /\ Conflicts(d, s, p)
    BY <1>11, ConflictedKeeps DEF OnResolve, p
  <1>12. CASE ~CommittedSuccess(d, s) /\ r.out = "Halted" /\ ~Conflicts(d, s, p)
    <2>1. OnResolve(d, s, r) = Escalate(b)
      BY <1>12 DEF OnResolve, p, b
    <2> QED BY <1>5, <2>1, EscalateKeeps
  <1>13. CASE ~CommittedSuccess(d, s) /\ r.out \in {"Succeeded", "Rejected"} /\ ~Conflicts(d, s, p)
    <2>1. CASE d.dir = "Forward" /\ r.out = "Succeeded"
      <3>1. OnResolve(d, s, r) = ProceedForward(e)
        BY <1>13, <2>1 DEF OnResolve, p, b, e
      <3> QED BY <1>6, <1>7, <1>8, <2>1, <3>1, ProceedForwardKeeps
    <2>2. CASE d.dir = "Forward" /\ r.out = "Rejected"
      <3>1. OnResolve(d, s, r) = EnterCompensation(e)
        BY <1>13, <2>2 DEF OnResolve, p, b, e
      <3> QED BY <1>5, <1>6, <1>7, <1>8, <2>2, <3>1, EnterCompensationKeeps
    <2>3. CASE d.dir = "Compensating" /\ r.out = "Succeeded"
      <3>1. OnResolve(d, s, r) = ContinueCompensation(e)
        BY <1>13, <2>3 DEF OnResolve, p, b, e
      <3> QED BY <1>6, <1>7, <1>8, <2>3, <3>1, ContinueCompensationKeeps
    <2>4. CASE d.dir = "Compensating" /\ r.out = "Rejected"
      <3>1. OnResolve(d, s, r) = RetryDenied(e, s)
        BY <1>13, <2>4 DEF OnResolve, p, b, e
      <3> QED BY <1>6, <1>7, <1>8, <2>4, <3>1, RetryDeniedKeeps
    <2> QED BY <1>1, <1>13, <2>1, <2>2, <2>3, <2>4
  <1> QED BY <1>2, <1>9, <1>10, <1>11, <1>12, <1>13

LEMMA HandleResultKeeps ==
  ASSUME NEW d, Ready(d), Shape(d), Timed(d), NEW s \in Steps, NEW r, r.ph \in Phases, r.n \in Nat,
         r.out \in Outcomes[r.ph], d.cmds[s] # <<>>
  PROVE  Kept(HandleResult(d, s, r))
  <1>1. CASE d.status # Awaits[r.ph] \/ d.cur # s
    BY <1>1, DeferKeeps DEF HandleResult
  <1>2. CASE d.status = Awaits[r.ph] /\ d.cur = s
    <2>1. CASE r.ph = "Execute"
      <3>1. d.status = "Running" /\ HandleResult(d, s, r) = OnExecute(d, s, r)
        BY <1>2, <2>1 DEF Awaits, HandleResult
      <3> QED BY <1>2, <2>1, <3>1, OnExecuteKeeps
    <2>2. CASE r.ph = "Cancel"
      <3>1. d.status = "Cancelling" /\ HandleResult(d, s, r) = OnCancel(d, s, r)
        BY <1>2, <2>2 DEF Awaits, HandleResult
      <3> QED BY <1>2, <2>2, <3>1, OnCancelKeeps
    <2>3. CASE r.ph = "Compensate"
      <3>1. d.status = "Compensating" /\ HandleResult(d, s, r) = OnCompensate(d, s, r)
        BY <1>2, <2>3 DEF Awaits, HandleResult
      <3> QED BY <1>2, <2>3, <3>1, OnCompensateKeeps
    <2>4. CASE r.ph = "Resolve"
      <3>1. d.status = "WaitingResolution" /\ HandleResult(d, s, r) = OnResolve(d, s, r)
        BY <1>2, <2>4 DEF Awaits, HandleResult
      <3> QED BY <1>2, <2>4, <3>1, OnResolveKeeps
    <2> QED BY <2>1, <2>2, <2>3, <2>4 DEF Phases
  <1> QED BY <1>1, <1>2
-----------------------------------------------------------------------------
(* Timers.                                                                 *)
LEMMA TimedReads ==
  ASSUME NEW d, NEW t, Timed(d), Place(t) = Place(d), t.cmds = d.cmds, t.timer = d.timer
  PROVE  Timed(t)
  <1>1. t.status = d.status /\ t.cur = d.cur
    BY DEF Place
  <1> QED BY <1>1 DEF Timed, NextAttempt, Attempts

LEMMA OnStepTimeoutKeeps ==
  ASSUME NEW d, Ready(d), Shape(d), NEW s \in Steps, NEW n \in Nat, d.status = "Running", d.cur = s
  PROVE  Kept(OnStepTimeout(d, s, n))
  <1>1. d.dir = "Forward"
    BY DEF Shape, Body, StatusShape
  <1>2. ASSUME NEW p, Patches(p)
        PROVE  LET e == Patch(d, s, p) IN Ready(e) /\ Shape(e) /\ e.dir = "Forward" /\ e.cur = s
    <2>1. LET e == Patch(d, s, p) IN Ready(e) /\ Shape(e) /\ Place(e) = Place(d)
      BY <1>1, <1>2, PatchKeeps
    <2> QED BY <1>1, <2>1 DEF Place
  <1>3. CASE Mode[s] = "ResolveOnly"
    <2> DEFINE p == [fwd |-> "Unknown", res |-> "Pending"]
               e == Patch(d, s, p)
    <2>1. Patches(p)
      BY DEF Patches, Columns
    <2>2. OnStepTimeout(d, s, n) = AskResolution(e, s, "Forward", n, FALSE)
      BY <1>3 DEF OnStepTimeout
    <2> HIDE DEF p
    <2>3. Ready(e) /\ Shape(e) /\ e.dir = "Forward" /\ e.cur = s
      BY <1>2, <2>1
    <2> HIDE DEF e
    <2>4. Kept(AskResolution(e, s, e.dir, n, FALSE))
      BY <2>3, AskResolutionKeeps
    <2> QED BY <2>2, <2>3, <2>4
  <1>4. CASE Mode[s] # "ResolveOnly"
    <2> DEFINE p == [fwd |-> "TimedOut"]
               e == Patch(d, s, p)
    <2>1. Patches(p)
      BY DEF Patches, Columns
    <2>2. OnStepTimeout(d, s, n) = Issue(Advance(e, "Cancelling", "Forward", s), s, "Cancel", FALSE)
      BY <1>4 DEF OnStepTimeout
    <2> HIDE DEF p
    <2>3. Ready(e) /\ Shape(e) /\ e.dir = "Forward" /\ e.cur = s
      BY <1>2, <2>1
    <2> HIDE DEF e
    <2>4. "Cancel" \in Phases /\ Awaits["Cancel"] = "Cancelling"
      BY DEF Phases, Awaits
    <2>5. Kept(Issue(Advance(e, Awaits["Cancel"], e.dir, s), s, "Cancel", FALSE))
      BY <2>3, <2>4, AskAgainKeeps
    <2> QED BY <2>2, <2>3, <2>4, <2>5
  <1> QED BY <1>3, <1>4

LEMMA OnPhaseRetryKeeps ==
  ASSUME NEW d, Ready(d), Shape(d), NEW s \in Steps, NEW ph \in Phases, d.status = Awaits[ph], d.cur = s
  PROVE  Kept(OnPhaseRetry(d, s, ph))
  <1>1. /\ ph = "Compensate" => d.dir = "Compensating"
        /\ ph \in {"Execute", "Cancel"} => d.dir = "Forward"
    BY DEF Awaits, Shape, Body, StatusShape
  <1>2. Kept(Issue(Advance(d, Awaits[ph], d.dir, s), s, ph, FALSE))
    BY <1>1, AskAgainKeeps
  <1>3. Kept(Escalate(d))
    BY EscalateKeeps
  <1> QED BY <1>2, <1>3 DEF OnPhaseRetry

LEMMA PhaseTimeoutKeeps ==
  ASSUME NEW d, Ready(d), Shape(d), Timed(d), d.timer # NoTimer
  PROVE  Kept(OnPhaseTimeout([d EXCEPT !.timer = NoTimer], d.timer))
  <1> DEFINE e == [d EXCEPT !.timer = NoTimer]
             u == d.timer
  <1>1. u.s \in Steps /\ u.ph \in Phases /\ u.n \in Nat
    BY DEF Ready, DbType, TimerType
  <1>2. Ready(e) /\ Place(e) = Place(d) /\ Core(e) = Core(d)
    BY Named DEF Ready, DbType, Place, Core
  <1> HIDE DEF e
  <1>3. Shape(e) /\ e.status = d.status /\ e.cur = d.cur
    BY <1>2, ShapeReads DEF Place
  <1>4. CASE e.status # Awaits[u.ph] \/ e.cur # u.s
    <2>1. d.status \notin Automatic
      BY <1>3, <1>4 DEF Timed
    <2>2. Timed(e)
      BY <1>3, <2>1 DEF Timed
    <2>3. OnPhaseTimeout(e, u) = e
      BY <1>4 DEF OnPhaseTimeout
    <2> QED BY <1>2, <1>3, <2>2, <2>3 DEF Kept, e
  <1>5. CASE e.status = Awaits[u.ph] /\ e.cur = u.s /\ u.ph = "Execute"
    <2>1. e.status = "Running"
      BY <1>5 DEF Awaits
    <2>2. OnPhaseTimeout(e, u) = OnStepTimeout(e, u.s, u.n)
      BY <1>5 DEF OnPhaseTimeout
    <2> HIDE DEF u
    <2>3. Kept(OnStepTimeout(e, u.s, u.n))
      BY <1>1, <1>2, <1>3, <1>5, <2>1, OnStepTimeoutKeeps
    <2> QED BY <2>2, <2>3 DEF e, u
  <1>6. CASE e.status = Awaits[u.ph] /\ e.cur = u.s /\ u.ph # "Execute"
    <2>1. OnPhaseTimeout(e, u) = OnPhaseRetry(e, u.s, u.ph)
      BY <1>6 DEF OnPhaseTimeout
    <2> HIDE DEF u
    <2>2. Kept(OnPhaseRetry(e, u.s, u.ph))
      BY <1>1, <1>2, <1>3, <1>6, OnPhaseRetryKeeps
    <2> QED BY <2>1, <2>2 DEF e, u
  <1> QED BY <1>4, <1>5, <1>6

LEMMA BudgetKeeps ==
  ASSUME NEW d, Ready(d), Shape(d), Timed(d), NEW b
  PROVE  Kept(OnBudget([d EXCEPT !.budget = @ \ {b}]))
  <1> DEFINE e == [d EXCEPT !.budget = @ \ {b}]
  <1>1. Ready(e) /\ Place(e) = Place(d) /\ Core(e) = Core(d) /\ e.timer = d.timer /\ e.cmds = d.cmds
    BY DEF Ready, DbType, Place, Core
  <1> HIDE DEF e
  <1>2. Shape(e) /\ Timed(e)
    BY <1>1, ShapeReads, TimedReads
  <1>3. Kept(Escalate(e)) /\ Kept(e)
    BY <1>1, <1>2, EscalateKeeps DEF Kept
  <1>4. Kept(OnBudget(e))
    BY <1>3 DEF OnBudget
  <1> QED BY <1>4 DEF e

LEMMA DeadlineKeeps ==
  ASSUME NEW d, Ready(d), Shape(d), Timed(d)
  PROVE  Kept(OnDeadline([d EXCEPT !.deadline = FALSE]))
  <1> DEFINE e == [d EXCEPT !.deadline = FALSE]
  <1>1. Ready(e) /\ Place(e) = Place(d) /\ Core(e) = Core(d) /\ e.timer = d.timer /\ e.cmds = d.cmds
    BY DEF Ready, DbType, Place, Core
  <1> HIDE DEF e
  <1>2. Shape(e) /\ Timed(e)
    BY <1>1, ShapeReads, TimedReads
  <1>3. Kept(Escalate(e)) /\ Kept(e)
    BY <1>1, <1>2, EscalateKeeps DEF Kept
  <1>4. e.status = "Running" => Kept(OnStepTimeout(e, e.cur, 1))
    <2>1. "Running" \in Automatic /\ 1 \in Nat
      BY Named
    <2>2. e.status = "Running" => e.cur \in Steps
      BY <1>2, <2>1 DEF Timed
    <2> QED BY <1>1, <1>2, <2>1, <2>2, OnStepTimeoutKeeps
  <1>5. Kept(OnDeadline(e))
    BY <1>3, <1>4 DEF OnDeadline
  <1> QED BY <1>5 DEF e

-----------------------------------------------------------------------------
(* Management operations.                                                  *)
LEMMA PauseKeeps ==
  ASSUME NEW d, Ready(d), Shape(d), Timed(d), NEW b \in BOOLEAN
  PROVE  Kept([d EXCEPT !.paused = b])
  <1> DEFINE e == [d EXCEPT !.paused = b]
  <1>1. Ready(e) /\ Place(e) = Place(d) /\ Core(e) = Core(d) /\ e.timer = d.timer /\ e.cmds = d.cmds
    BY DEF Ready, DbType, Place, Core
  <1> HIDE DEF e
  <1>2. Shape(e) /\ Timed(e)
    BY <1>1, ShapeReads, TimedReads
  <1> QED BY <1>1, <1>2 DEF Kept, e

LEMMA ReopenKeeps ==
  ASSUME NEW d, Ready(d), Shape(d), NEW s \in Steps
  PROVE  LET e == ReopenCompensation(d, s) IN
         /\ Ready(e) /\ Shape(e) /\ Place(e) = Place(d) /\ e.cmds = d.cmds /\ e.ok = d.ok
         /\ e.row[s].fwd = d.row[s].fwd /\ \A r \in Steps \ {s} : e.row[r] = d.row[r]
         /\ e.row[s].comp = "Succeeded" => d.row[s].comp = "Succeeded"
         /\ e.row[s].comp = "Unknown" => d.row[s].comp = "Unknown"
  <1> DEFINE p == [comp |-> "Pending", res |-> "None"]
             e == Patch(d, s, p)
  <1>1. Patches(p) /\ "fwd" \notin DOMAIN p /\ "comp" \in DOMAIN p /\ p["comp"] = "Pending"
    BY DEF Patches, Columns
  <1>2. ReopenCompensation(d, s) = d \/ ReopenCompensation(d, s) = e
    BY DEF ReopenCompensation
  <1> HIDE DEF p
  <1>3. /\ Ready(e) /\ Shape(e) /\ Place(e) = Place(d) /\ e.cmds = d.cmds /\ e.ok = d.ok
        /\ e.row[s].fwd = d.row[s].fwd /\ \A r \in Steps \ {s} : e.row[r] = d.row[r]
        /\ e.row[s].comp = "Pending"
    BY <1>1, PatchKeeps
  <1> HIDE DEF e
  <1> QED BY <1>2, <1>3

LEMMA RetryCompensationKeeps ==
  ASSUME NEW d, Ready(d), Shape(d), PlanInStep(d, TRUE)
  PROVE  Kept(OnRetryCompensation(d))
  <1>1. d.frozen /\ d.dir = "Compensating"
    BY DEF PlanInStep, PlanHolds, Shape, Body, PlanShape
  <1>2. CASE Uncompensated(d) = {}
    <2>1. OnRetryCompensation(d) = Converge(Advance(d, "Compensating", "Compensating", 0))
      BY <1>2 DEF OnRetryCompensation
    <2> QED BY <1>1, <2>1, ConvergeFromKeeps DEF Shape
  <1>3. CASE Uncompensated(d) # {}
    <2> DEFINE s == NextCompensation(d)
               e == ReopenCompensation(d, s)
    <2>1. s \in Steps /\ d.row[s].fwd = "Succeeded"
      BY <1>1, <1>3, NextSucceeded DEF Shape
    <2>2. OnRetryCompensation(d)
            = Issue(Advance(e, "Compensating", "Compensating", s), s, "Compensate", TRUE)
      BY <1>3 DEF OnRetryCompensation
    <2> HIDE DEF s
    <2>3. Ready(e) /\ Shape(e) /\ Place(e) = Place(d) /\ e.row[s].fwd = d.row[s].fwd
      BY <2>1, ReopenKeeps
    <2> HIDE DEF e
    <2>4. e.dir = "Compensating"
      BY <1>1, <2>3 DEF Place
    <2> QED BY <2>1, <2>2, <2>3, <2>4, CompensateNextKeeps DEF Shape
  <1> QED BY <1>2, <1>3

LEMMA RetryResolutionKeeps ==
  ASSUME NEW d, Ready(d), Shape(d), d.cur \in Steps
  PROVE  Kept(OnRetryResolution(d))
  <1> DEFINE s == d.cur
             p == [res |-> "Pending"]
             e == Patch(d, s, p)
             n == NextAttempt(d, s, "Resolve")
  <1>1. Patches(p) /\ "fwd" \notin DOMAIN p
    BY DEF Patches, Columns
  <1>2. OnRetryResolution(d) = AskResolution(e, s, d.dir, n, TRUE)
    BY DEF OnRetryResolution
  <1>3. n \in Nat
    BY AttemptsCounted
  <1> HIDE DEF p, n
  <1>4. Ready(e) /\ Shape(e) /\ Place(e) = Place(d)
    BY <1>1, PatchKeeps
  <1> HIDE DEF e
  <1>5. e.cur = s /\ e.dir = d.dir
    BY <1>4 DEF Place
  <1>6. Kept(AskResolution(e, s, e.dir, n, TRUE))
    BY <1>3, <1>4, <1>5, AskResolutionKeeps
  <1> QED BY <1>2, <1>5, <1>6

LEMMA ManualCloseKeeps ==
  ASSUME NEW d, Ready(d), Shape(d)
  PROVE  Kept(OnManualClose(d))
  <1> DEFINE a == Advance(d, "ManuallyClosed", d.dir, 0)
             t == [a EXCEPT !.deadline = FALSE]
  <1>1. "ManuallyClosed" \in Statuses /\ 0 \in 0 .. N /\ "ManuallyClosed" \notin Automatic
    BY Named DEF Statuses, Terminal
  <1>2. Ready(a) /\ Body(a) /\ a.status = "ManuallyClosed" /\ a.cur = 0
    BY <1>1, AdvanceBody DEF Shape
  <1> HIDE DEF a
  <1>3. Ready(t) /\ Place(t) = Place(a) /\ Core(t) = Core(a)
    BY <1>2 DEF Ready, DbType, Place, Core
  <1> HIDE DEF t
  <1>4. Body(t) /\ t.status = "ManuallyClosed" /\ t.cur = 0
    BY <1>2, <1>3, BodyReads DEF Place
  <1>5. CurrentShape(t) /\ Timed(t)
    BY <1>1, <1>4 DEF CurrentShape, Timed
  <1> QED BY <1>3, <1>4, <1>5 DEF Kept, Shape, OnManualClose, t, a
-----------------------------------------------------------------------------
(* A transaction only appends to the command journals.                     *)
Journals(d) == "cmds" \in DOMAIN d /\ d.cmds \in [Steps -> Seq(CommandType)]

Extends(q, p) ==
  \A s \in Steps : \A i \in DOMAIN q[s] : i \in DOMAIN p[s] /\ p[s][i] = q[s][i]

SameJournals(d, t) == Journals(t) /\ t.cmds = d.cmds

LEMMA PrimitivesKeepJournals ==
  ASSUME NEW d, Journals(d)
  PROVE  /\ \A to, dir, cur : SameJournals(d, Advance(d, to, dir, cur))
         /\ SameJournals(d, Escalate(d)) /\ SameJournals(d, Conflicted(d)) /\ SameJournals(d, Converge(d))
         /\ \A s, p : SameJournals(d, Patch(d, s, p)) /\ SameJournals(d, Projected(d, s, p))
         /\ \A s, ph : SameJournals(d, CancelTimer(d, s, ph))
         /\ \A s : SameJournals(d, CancelResolutionTimers(d, s)) /\ SameJournals(d, ReopenCompensation(d, s))
         /\ \A s, dir, n : SameJournals(d, ScheduleBudget(d, s, dir, n))
         /\ \A plan : SameJournals(d, MarkPlan(d, plan))
         /\ \A b : SameJournals(d, [d EXCEPT !.ok = b]) /\ SameJournals(d, [d EXCEPT !.paused = b])
         /\ \A b : SameJournals(d, [d EXCEPT !.deadline = b]) /\ SameJournals(d, [d EXCEPT !.timer = b])
         /\ \A b : SameJournals(d, [d EXCEPT !.budget = b])
  <1>1. ASSUME NEW e, Journals(e), NEW to, NEW dir, NEW cur
        PROVE  SameJournals(e, Advance(e, to, dir, cur))
    BY <1>1 DEF Journals, SameJournals, Advance
  <1>2. ASSUME NEW e, Journals(e), NEW s, NEW p PROVE SameJournals(e, Patch(e, s, p))
    BY <1>2 DEF Journals, SameJournals, Patch
  <1>3. ASSUME NEW e, Journals(e), NEW s, NEW ph PROVE SameJournals(e, CancelTimer(e, s, ph))
    BY <1>3 DEF Journals, SameJournals, CancelTimer
  <1>4. ASSUME NEW s, NEW dir, NEW n PROVE SameJournals(d, ScheduleBudget(d, s, dir, n))
    BY DEF Journals, SameJournals, ScheduleBudget
  <1>5. ASSUME NEW plan PROVE SameJournals(d, MarkPlan(d, plan))
    BY DEF Journals, SameJournals, MarkPlan
  <1>6. ASSUME NEW e, Journals(e), NEW b
        PROVE  /\ SameJournals(e, [e EXCEPT !.ok = b]) /\ SameJournals(e, [e EXCEPT !.paused = b])
               /\ SameJournals(e, [e EXCEPT !.deadline = b]) /\ SameJournals(e, [e EXCEPT !.timer = b])
               /\ SameJournals(e, [e EXCEPT !.budget = b])
    BY <1>6 DEF Journals, SameJournals
  <1>7. ASSUME NEW s PROVE SameJournals(d, CancelResolutionTimers(d, s))
    <2> DEFINE e == [d EXCEPT !.budget = {b \in d.budget : b.s # s}]
    <2>1. CancelResolutionTimers(d, s) = CancelTimer(e, s, "Resolve")
      BY DEF CancelResolutionTimers
    <2>2. SameJournals(d, e)
      BY <1>6
    <2> HIDE DEF e
    <2> QED BY <1>3, <2>1, <2>2 DEF SameJournals
  <1>8. SameJournals(d, Converge(d))
    <2> DEFINE c == Advance(d, "Compensated", "Compensating", 0)
               b == c.ok /\ PlanHolds(d) /\ Uncompensated(d) = {}
    <2>1. Converge(d) = [c EXCEPT !.ok = b, !.deadline = FALSE]
      BY DEF Converge
    <2>2. SameJournals(d, c)
      BY <1>1
    <2> HIDE DEF c, b
    <2> QED BY <2>1, <2>2 DEF Journals, SameJournals
  <1>9. SameJournals(d, d)
    BY DEF SameJournals
  <1> QED
    BY <1>1, <1>2, <1>3, <1>4, <1>5, <1>6, <1>7, <1>8, <1>9
       DEF Escalate, Conflicted, Projected, ReopenCompensation

LEMMA IssueAppends ==
  ASSUME NEW d, Journals(d), NEW s, NEW ph, NEW rec
  PROVE  Extends(d.cmds, Issue(d, s, ph, rec).cmds)
  <1> DEFINE c == [ph |-> ph, n |-> NextAttempt(d, s, ph), rec |-> rec]
             q == [d.cmds EXCEPT ![s] = Append(d.cmds[s], c)]
  <1>1. Issue(d, s, ph, rec).cmds = q
    BY DEF Issue, Journals
  <1> HIDE DEF c
  <1>2. Extends(d.cmds, q)
    BY DEF Extends, Journals
  <1> QED BY <1>1, <1>2

(* The same, for what is built on an unchanged journal.                    *)
LEMMA IssueOn ==
  ASSUME NEW d, Journals(d), NEW e, SameJournals(d, e)
  PROVE  /\ Extends(d.cmds, e.cmds)
         /\ \A s, ph, rec : Extends(d.cmds, Issue(e, s, ph, rec).cmds)
         /\ \A x : SameJournals(e, x) => SameJournals(d, x)
  <1>1. Extends(d.cmds, d.cmds)
    BY DEF Extends
  <1> QED BY <1>1, IssueAppends DEF SameJournals

LEMMA ProceedAppends ==
  ASSUME NEW d, Journals(d)
  PROVE  /\ Extends(d.cmds, ProceedForward(d).cmds)
         /\ Extends(d.cmds, EnterCompensation(d).cmds)
         /\ Extends(d.cmds, ContinueCompensation(d).cmds)
         /\ \A s : Extends(d.cmds, LateSuccess(d, s).cmds)
         /\ \A s, dir, n, rec : Extends(d.cmds, AskResolution(d, s, dir, n, rec).cmds)
         /\ \A s, dir, ph, n : Extends(d.cmds, EnterWaiting(d, s, dir, ph, n).cmds)
         /\ \A s : Extends(d.cmds, ReissueResolve(d, s).cmds) /\ Extends(d.cmds, RetryDenied(d, s).cmds)
  <1>1. SameJournals(d, d) /\ SameJournals(d, Escalate(d)) /\ SameJournals(d, [d EXCEPT !.ok = FALSE])
    BY PrimitivesKeepJournals DEF SameJournals
  <1>2. Extends(d.cmds, ProceedForward(d).cmds)
    <2>1. ASSUME NEW to, NEW cur
          PROVE  LET a == Advance(d, to, "Forward", cur) IN
                 SameJournals(d, a) /\ SameJournals(d, [a EXCEPT !.deadline = FALSE])
      <3> DEFINE a == Advance(d, to, "Forward", cur)
      <3>1. SameJournals(d, a)
        BY PrimitivesKeepJournals
      <3> HIDE DEF a
      <3>2. SameJournals(a, [a EXCEPT !.deadline = FALSE])
        BY <3>1, PrimitivesKeepJournals DEF SameJournals
      <3> QED BY <3>1, <3>2, IssueOn DEF a
    <2> QED BY <1>1, <2>1, IssueOn DEF ProceedForward
  <1>3. Extends(d.cmds, EnterCompensation(d).cmds)
    <2>1. ASSUME NEW cur, NEW plan
          PROVE  LET m == MarkPlan(Advance(d, "Compensating", "Compensating", cur), plan) IN
                 SameJournals(d, m) /\ SameJournals(d, Converge(m))
      <3> DEFINE a == Advance(d, "Compensating", "Compensating", cur)
                 m == MarkPlan(a, plan)
      <3>1. SameJournals(d, a)
        BY PrimitivesKeepJournals
      <3>2. SameJournals(a, m)
        BY <3>1, PrimitivesKeepJournals DEF SameJournals
      <3> HIDE DEF a, m
      <3>3. SameJournals(m, Converge(m))
        BY <3>2, PrimitivesKeepJournals DEF SameJournals
      <3> QED BY <3>1, <3>2, <3>3, IssueOn DEF a, m
    <2> QED BY <1>1, <2>1, IssueOn DEF EnterCompensation
  <1>4. ASSUME NEW cur
        PROVE  LET a == Advance(d, "Compensating", "Compensating", cur) IN
               SameJournals(d, a) /\ SameJournals(d, Converge(a))
    <2> DEFINE a == Advance(d, "Compensating", "Compensating", cur)
    <2>1. SameJournals(d, a)
      BY PrimitivesKeepJournals
    <2> HIDE DEF a
    <2>2. SameJournals(a, Converge(a))
      BY <2>1, PrimitivesKeepJournals DEF SameJournals
    <2> QED BY <2>1, <2>2, IssueOn DEF a
  <1>5. Extends(d.cmds, ContinueCompensation(d).cmds)
    BY <1>1, <1>4, IssueOn DEF ContinueCompensation
  <1>6. ASSUME NEW s PROVE Extends(d.cmds, LateSuccess(d, s).cmds)
    BY <1>2, <1>3 DEF LateSuccess
  <1>7. ASSUME NEW e, SameJournals(d, e), NEW s, NEW dir, NEW n, NEW rec
        PROVE  Extends(d.cmds, AskResolution(e, s, dir, n, rec).cmds)
    <2> DEFINE a == Advance(e, "WaitingResolution", dir, s)
               b == ScheduleBudget(a, s, dir, n)
    <2>0. Journals(e)
      BY <1>7 DEF SameJournals
    <2>1. SameJournals(e, a)
      BY <2>0, PrimitivesKeepJournals
    <2>a. Journals(a)
      BY <2>1 DEF SameJournals
    <2>2. SameJournals(a, b)
      BY <2>a, PrimitivesKeepJournals
    <2>3. AskResolution(e, s, dir, n, rec) = Issue(b, s, "Resolve", rec)
      BY DEF AskResolution
    <2> HIDE DEF a, b
    <2>4. SameJournals(d, b)
      BY <1>7, <2>1, <2>2 DEF SameJournals
    <2> QED BY <2>3, <2>4, IssueOn
  <1>8. ASSUME NEW s, NEW dir, NEW ph, NEW n PROVE Extends(d.cmds, EnterWaiting(d, s, dir, ph, n).cmds)
    <2> DEFINE e == IF ph = "Execute" THEN Patch(d, s, [fwd |-> "Unknown"]) ELSE d
               f == Patch(e, s, [res |-> "Pending"])
               g == CancelTimer(f, s, "Execute")
    <2>1. SameJournals(d, e)
      BY <1>1, PrimitivesKeepJournals
    <2>2. EnterWaiting(d, s, dir, ph, n) \in {Escalate(e), AskResolution(g, s, dir, n, FALSE)}
      BY DEF EnterWaiting
    <2> HIDE DEF e
    <2>a. Journals(e)
      BY <2>1 DEF SameJournals
    <2>3. SameJournals(e, f) /\ SameJournals(e, Escalate(e))
      BY <2>a, PrimitivesKeepJournals
    <2> HIDE DEF f
    <2>b. Journals(f)
      BY <2>3 DEF SameJournals
    <2>4. SameJournals(f, g)
      BY <2>b, PrimitivesKeepJournals
    <2> HIDE DEF g
    <2>5. SameJournals(d, g) /\ SameJournals(d, Escalate(e))
      BY <2>1, <2>3, <2>4 DEF SameJournals
    <2> QED BY <1>7, <2>2, <2>5, IssueOn
  <1>9. ASSUME NEW s
        PROVE  Extends(d.cmds, ReissueResolve(d, s).cmds) /\ Extends(d.cmds, RetryDenied(d, s).cmds)
    <2>1. SameJournals(d, Advance(d, "WaitingResolution", d.dir, s))
          /\ SameJournals(d, Advance(d, "Compensating", "Compensating", s))
      BY PrimitivesKeepJournals
    <2> QED BY <1>1, <2>1, IssueOn DEF ReissueResolve, RetryDenied
  <1> QED BY <1>1, <1>2, <1>3, <1>5, <1>6, <1>7, <1>8, <1>9

(* The same for a handler that works on e, whose journals are those of d.  *)
LEMMA ProceedOn ==
  ASSUME NEW d, NEW e, SameJournals(d, e)
  PROVE  /\ Journals(e) /\ Extends(d.cmds, e.cmds) /\ Extends(d.cmds, Escalate(e).cmds)
         /\ Extends(d.cmds, Conflicted(e).cmds)
         /\ Extends(d.cmds, ProceedForward(e).cmds) /\ Extends(d.cmds, EnterCompensation(e).cmds)
         /\ Extends(d.cmds, ContinueCompensation(e).cmds)
         /\ \A s : Extends(d.cmds, LateSuccess(e, s).cmds)
         /\ \A s, dir, n, rec : Extends(d.cmds, AskResolution(e, s, dir, n, rec).cmds)
         /\ \A s, dir, ph, n : Extends(d.cmds, EnterWaiting(e, s, dir, ph, n).cmds)
         /\ \A s : Extends(d.cmds, ReissueResolve(e, s).cmds) /\ Extends(d.cmds, RetryDenied(e, s).cmds)
  <1>1. Journals(e) /\ d.cmds = e.cmds
    BY DEF SameJournals
  <1>2. Extends(e.cmds, e.cmds)
    BY DEF Extends
  <1>3. Extends(e.cmds, Escalate(e).cmds) /\ Extends(e.cmds, Conflicted(e).cmds)
    BY <1>1, <1>2, PrimitivesKeepJournals DEF SameJournals
  <1> QED BY <1>1, <1>2, <1>3, ProceedAppends

LEMMA ResultAppends ==
  ASSUME NEW d, Journals(d), NEW s, NEW r, r.ph \in Phases, r.out \in Outcomes[r.ph],
         d.dir \in Directions
  PROVE  Extends(d.cmds, HandleResult(d, s, r).cmds)
  <1>0. SameJournals(d, d)
    BY DEF SameJournals
  <1>1. ASSUME NEW p, NEW ph
        PROVE  /\ SameJournals(d, CancelTimer(Patch(d, s, p), s, ph))
               /\ SameJournals(d, CancelTimer(Projected(d, s, p), s, ph))
               /\ SameJournals(d, Patch(CancelTimer(d, s, ph), s, p))
               /\ SameJournals(d, CancelResolutionTimers(Projected(d, s, p), s))
               /\ SameJournals(d, Projected(d, s, p))
    <2>1. /\ SameJournals(d, Patch(d, s, p)) /\ SameJournals(d, Projected(d, s, p))
          /\ SameJournals(d, CancelTimer(d, s, ph))
      BY PrimitivesKeepJournals
    <2>2. Journals(Patch(d, s, p)) /\ Journals(Projected(d, s, p)) /\ Journals(CancelTimer(d, s, ph))
      BY <2>1 DEF SameJournals
    <2>3. /\ SameJournals(Patch(d, s, p), CancelTimer(Patch(d, s, p), s, ph))
          /\ SameJournals(Projected(d, s, p), CancelTimer(Projected(d, s, p), s, ph))
          /\ SameJournals(Projected(d, s, p), CancelResolutionTimers(Projected(d, s, p), s))
          /\ SameJournals(CancelTimer(d, s, ph), Patch(CancelTimer(d, s, ph), s, p))
      BY <2>2, PrimitivesKeepJournals
    <2> QED BY <2>1, <2>3, IssueOn
  <1>2. Extends(d.cmds, Defer(d, s, r).cmds)
    BY <1>0, <1>1, ProceedOn DEF Defer
  <1>3. r.ph = "Execute" => Extends(d.cmds, OnExecute(d, s, r).cmds)
    BY <1>0, <1>1, ProceedOn DEF OnExecute, Outcomes
  <1>4. r.ph = "Cancel" => Extends(d.cmds, OnCancel(d, s, r).cmds)
    BY <1>0, <1>1, ProceedOn DEF OnCancel, Outcomes
  <1>5. r.ph = "Compensate" => Extends(d.cmds, OnCompensate(d, s, r).cmds)
    BY <1>0, <1>1, ProceedOn DEF OnCompensate, Outcomes
  <1>6. Extends(d.cmds, SettleCommitted(d, s).cmds)
    BY <1>0, <1>1, ProceedOn DEF SettleCommitted
  <1>7. r.ph = "Resolve" => Extends(d.cmds, OnResolve(d, s, r).cmds)
    <2> DEFINE p == IF r.out = "Halted" THEN [res |-> "Halted"] ELSE DeferredPatch(d, "Resolve", r.out)
               b == Projected(d, s, p)
               e == CancelResolutionTimers(b, s)
    <2> SUFFICES ASSUME r.ph = "Resolve" PROVE Extends(d.cmds, OnResolve(d, s, r).cmds)
      OBVIOUS
    <2>1. r.out \in {"Succeeded", "Rejected", "Unknown", "Halted"} /\ d.dir \in {"Forward", "Compensating"}
      BY DEF Outcomes, Directions
    <2>2. OnResolve(d, s, r) \in {SettleCommitted(d, s), ReissueResolve(d, s), Conflicted(d), Escalate(b),
             ProceedForward(e), EnterCompensation(e), ContinueCompensation(e), RetryDenied(e, s)}
      BY <2>1 DEF OnResolve
    <2> HIDE DEF p
    <2>3. SameJournals(d, b) /\ SameJournals(d, e)
      BY <1>1
    <2> HIDE DEF b, e
    <2> QED BY <1>0, <1>6, <2>2, <2>3, ProceedOn
  <1> QED BY <1>2, <1>3, <1>4, <1>5, <1>7 DEF HandleResult, Phases

LEMMA TimeoutAppends ==
  ASSUME NEW d, Journals(d)
  PROVE  /\ \A t : Extends(d.cmds, OnPhaseTimeout([d EXCEPT !.timer = NoTimer], t).cmds)
         /\ \A b : Extends(d.cmds, OnBudget([d EXCEPT !.budget = b]).cmds)
         /\ Extends(d.cmds, OnDeadline([d EXCEPT !.deadline = FALSE]).cmds)
  <1>1. ASSUME NEW e, SameJournals(d, e), NEW s, NEW n
        PROVE  Extends(d.cmds, OnStepTimeout(e, s, n).cmds)
    <2>0. Journals(e)
      BY <1>1 DEF SameJournals
    <2>1. ASSUME NEW p PROVE SameJournals(d, Patch(e, s, p))
      BY <1>1, <2>0, PrimitivesKeepJournals, IssueOn
    <2>2. ASSUME NEW p PROVE SameJournals(d, Advance(Patch(e, s, p), "Cancelling", "Forward", s))
      <3> DEFINE x == Patch(e, s, p)
      <3>1. SameJournals(d, x) /\ Journals(x)
        BY <2>1 DEF SameJournals
      <3> HIDE DEF x
      <3>2. SameJournals(d, Advance(x, "Cancelling", "Forward", s))
        BY <3>1, PrimitivesKeepJournals, IssueOn
      <3> QED BY <3>2 DEF x
    <2> QED BY <2>1, <2>2, ProceedOn, IssueOn DEF OnStepTimeout
  <1>2. ASSUME NEW e, SameJournals(d, e), NEW s, NEW ph
        PROVE  Extends(d.cmds, OnPhaseRetry(e, s, ph).cmds)
    <2>0. Journals(e)
      BY <1>2 DEF SameJournals
    <2>1. SameJournals(d, Advance(e, e.status, e.dir, s))
      BY <1>2, <2>0, PrimitivesKeepJournals, IssueOn
    <2> QED BY <1>2, <2>1, ProceedOn, IssueOn DEF OnPhaseRetry
  <1>3. ASSUME NEW t PROVE Extends(d.cmds, OnPhaseTimeout([d EXCEPT !.timer = NoTimer], t).cmds)
    <2>1. SameJournals(d, [d EXCEPT !.timer = NoTimer])
      BY PrimitivesKeepJournals
    <2> QED BY <1>1, <1>2, <2>1, ProceedOn DEF OnPhaseTimeout
  <1>4. ASSUME NEW b PROVE Extends(d.cmds, OnBudget([d EXCEPT !.budget = b]).cmds)
    <2>1. SameJournals(d, [d EXCEPT !.budget = b])
      BY PrimitivesKeepJournals
    <2> QED BY <2>1, ProceedOn DEF OnBudget
  <1>5. Extends(d.cmds, OnDeadline([d EXCEPT !.deadline = FALSE]).cmds)
    <2>1. SameJournals(d, [d EXCEPT !.deadline = FALSE])
      BY PrimitivesKeepJournals
    <2> QED BY <1>1, <2>1, ProceedOn DEF OnDeadline
  <1> QED BY <1>3, <1>4, <1>5

LEMMA OperationsAppend ==
  ASSUME NEW d, Journals(d)
  PROVE  /\ \A b : Extends(d.cmds, [d EXCEPT !.paused = b].cmds)
         /\ Extends(d.cmds, OnRetryCompensation(d).cmds)
         /\ Extends(d.cmds, OnRetryResolution(d).cmds)
         /\ Extends(d.cmds, OnManualClose(d).cmds)
  <1>1. ASSUME NEW b PROVE Extends(d.cmds, [d EXCEPT !.paused = b].cmds)
    BY PrimitivesKeepJournals, IssueOn
  <1>2. ASSUME NEW e, SameJournals(d, e), NEW to, NEW dir, NEW cur
        PROVE  LET a == Advance(e, to, dir, cur) IN
               /\ SameJournals(d, a) /\ SameJournals(d, Converge(a))
               /\ SameJournals(d, [a EXCEPT !.deadline = FALSE])
    <2> DEFINE a == Advance(e, to, dir, cur)
    <2>0. Journals(e)
      BY <1>2 DEF SameJournals
    <2>1. SameJournals(d, a)
      BY <1>2, <2>0, PrimitivesKeepJournals, IssueOn
    <2> HIDE DEF a
    <2>2. Journals(a)
      BY <2>1 DEF SameJournals
    <2>3. SameJournals(a, Converge(a)) /\ SameJournals(a, [a EXCEPT !.deadline = FALSE])
      BY <2>2, PrimitivesKeepJournals
    <2> QED BY <2>1, <2>3, IssueOn DEF a
  <1>3. SameJournals(d, d) /\ \A s : SameJournals(d, ReopenCompensation(d, s))
    BY PrimitivesKeepJournals DEF SameJournals
  <1>4. Extends(d.cmds, OnRetryCompensation(d).cmds)
    BY <1>2, <1>3, IssueOn DEF OnRetryCompensation
  <1>5. Extends(d.cmds, OnRetryResolution(d).cmds)
    <2>1. \A s, p : SameJournals(d, Patch(d, s, p))
      BY PrimitivesKeepJournals
    <2> QED BY <2>1, ProceedOn DEF OnRetryResolution
  <1>6. Extends(d.cmds, OnManualClose(d).cmds)
    BY <1>2, <1>3, IssueOn DEF OnManualClose
  <1> QED BY <1>1, <1>4, <1>5, <1>6
-----------------------------------------------------------------------------
(* What a participant's transaction commits.                               *)
Committed(x, ph) ==
  /\ x.gate \in GateType /\ x.world \in WorldType
  /\ x.out = NoResult \/ x.out \in Outcomes[ph]

LEMMA ExecuteAnswersAre ==
  ASSUME NEW mode, NEW w \in WorldType, NEW a \in ExecuteAnswers(mode, w)
  PROVE  /\ a.w \in WorldType /\ a.o \in {"Succeeded", "Rejected", "Unknown", "Halted"}
         /\ a.w.undone = w.undone
         /\ a.o = "Succeeded" => a.w.done
         /\ a.o = "Rejected" => ~a.w.done
         /\ w.done => a.w.done
  <1> DEFINE v(b) == [w EXCEPT !.done = b]
  <1>0. w.done \in BOOLEAN /\ (w.done \/ External(mode)) \in BOOLEAN
    BY DEF WorldType, External
  <1>1. \A b \in BOOLEAN : v(b) \in WorldType /\ v(b).done = b /\ v(b).undone = w.undone
    BY DEF WorldType
  <1>2. \/ a = [w |-> v(TRUE), o |-> "Succeeded"]
        \/ ~w.done /\ a = [w |-> w, o |-> "Rejected"]
        \/ \E b \in {w.done, w.done \/ External(mode)}, o \in {"Unknown", "Halted"} : a = [w |-> v(b), o |-> o]
    BY DEF ExecuteAnswers
  <1> HIDE DEF v
  <1>3. CASE a = [w |-> v(TRUE), o |-> "Succeeded"]
    BY <1>1, <1>3
  <1>4. CASE ~w.done /\ a = [w |-> w, o |-> "Rejected"]
    BY <1>4
  <1>5. CASE \E b \in {w.done, w.done \/ External(mode)}, o \in {"Unknown", "Halted"} : a = [w |-> v(b), o |-> o]
    <2>1. PICK b \in {w.done, w.done \/ External(mode)}, o \in {"Unknown", "Halted"} : a = [w |-> v(b), o |-> o]
      BY <1>5
    <2>2. b \in BOOLEAN /\ (w.done => b)
      BY <1>0
    <2> QED BY <1>1, <2>1, <2>2
  <1> QED BY <1>2, <1>3, <1>4, <1>5

LEMMA CompensateAnswersAre ==
  ASSUME NEW mode, NEW w \in WorldType, NEW a \in CompensateAnswers(mode, w)
  PROVE  /\ a.w \in WorldType /\ a.o \in {"Succeeded", "Unknown", "Halted"}
         /\ a.w.done = w.done
         /\ a.o = "Succeeded" => a.w.undone
         /\ w.undone => a.w.undone
  <1> DEFINE v(b) == [w EXCEPT !.undone = b]
  <1>0. w.undone \in BOOLEAN /\ (w.undone \/ External(mode)) \in BOOLEAN
    BY DEF WorldType, External
  <1>1. \A b \in BOOLEAN : v(b) \in WorldType /\ v(b).undone = b /\ v(b).done = w.done
    BY DEF WorldType
  <1>2. \/ a = [w |-> v(TRUE), o |-> "Succeeded"]
        \/ \E b \in {w.undone, w.undone \/ External(mode)}, o \in {"Unknown", "Halted"} : a = [w |-> v(b), o |-> o]
    BY DEF CompensateAnswers
  <1> HIDE DEF v
  <1>3. CASE a = [w |-> v(TRUE), o |-> "Succeeded"]
    BY <1>1, <1>3
  <1>5. CASE \E b \in {w.undone, w.undone \/ External(mode)}, o \in {"Unknown", "Halted"} : a = [w |-> v(b), o |-> o]
    <2>1. PICK b \in {w.undone, w.undone \/ External(mode)}, o \in {"Unknown", "Halted"} : a = [w |-> v(b), o |-> o]
      BY <1>5
    <2>2. b \in BOOLEAN /\ (w.undone => b)
      BY <1>0
    <2> QED BY <1>1, <2>1, <2>2
  <1> QED BY <1>2, <1>3, <1>5

LEMMA ExecuteTypes ==
  ASSUME NEW mode, NEW g \in GateType, NEW w \in WorldType, NEW x \in HandleExecute(mode, g, w)
  PROVE  Committed(x, "Execute")
  <1>1. CASE g.fwd = "Absent"
    <2>1. PICK a \in ExecuteAnswers(mode, w) : x = Executed(mode, a)
      BY <1>1 DEF HandleExecute
    <2>2. a.w \in WorldType /\ a.o \in {"Succeeded", "Rejected", "Unknown", "Halted"}
      BY ExecuteAnswersAre
    <2>3. NoGate \in GateType
      BY DEF NoGate, GateType
    <2> DEFINE fact == IF a.o = "Unknown" /\ ~External(mode) THEN "Halted" ELSE a.o
    <2>4. fact \in {"Succeeded", "Rejected", "Unknown", "Halted"}
      BY <2>2
    <2>5. x = [gate |-> [NoGate EXCEPT !.fwd = fact], world |-> a.w, out |-> fact]
      BY <2>1 DEF Executed, Commit
    <2> HIDE DEF fact
    <2>6. [NoGate EXCEPT !.fwd = fact] \in GateType
      BY <2>3, <2>4 DEF GateType
    <2> QED BY <2>2, <2>4, <2>5, <2>6 DEF Committed, Outcomes
  <1>2. CASE g.fwd # "Absent"
    BY <1>2 DEF HandleExecute, Commit, Committed, Outcomes, GateType
  <1> QED BY <1>1, <1>2

LEMMA AdjudicatedTypes ==
  ASSUME NEW f \in {"Succeeded", "Rejected", "Cancelled", "Unknown", "Halted"}
  PROVE  LET a == Adjudicated(f) IN
         /\ a.cancel \in {"Confirmed", "AlreadyTerminal", "ResolutionPending"}
         /\ a.out \in Outcomes["Cancel"]
         /\ a.out = "Confirmed" <=> f = "Cancelled"
         /\ a.out = "LateSucceeded" <=> f = "Succeeded"
         /\ a.out = "LateRejected" <=> f = "Rejected"
  BY DEF Adjudicated, LateFacts, Late, Outcomes

LEMMA CancelTypes ==
  ASSUME NEW mode, NEW g \in GateType, NEW w \in WorldType, NEW x \in HandleCancel(mode, g, w)
  PROVE  Committed(x, "Cancel")
  <1>1. CASE ~External(mode)
    <2> DEFINE g0 == IF g.fwd = "Absent" THEN [g EXCEPT !.fwd = "Cancelled"] ELSE g
               a == Adjudicated(g0.fwd)
    <2>1. x = Commit([g0 EXCEPT !.cancel = a.cancel], w, a.out)
      BY <1>1 DEF HandleCancel, HandleCancelLocal
    <2>2. g0 \in GateType /\ g0.fwd \in {"Succeeded", "Rejected", "Cancelled", "Unknown", "Halted"}
      BY DEF GateType
    <2> HIDE DEF g0
    <2>3. a.cancel \in {"Confirmed", "AlreadyTerminal", "ResolutionPending"} /\ a.out \in Outcomes["Cancel"]
      BY <2>2, AdjudicatedTypes
    <2> HIDE DEF a
    <2>4. [g0 EXCEPT !.cancel = a.cancel] \in GateType
      BY <2>2, <2>3 DEF GateType
    <2> QED BY <2>1, <2>3, <2>4 DEF Committed, Commit
  <1>2. CASE External(mode)
    <2>0. x \in HandleCancelExternal(g, w)
      BY <1>2 DEF HandleCancel
    <2>1. CASE g.cancel = "ResolutionPending"
      BY <2>0, <2>1 DEF HandleCancelExternal, Commit, Committed, Outcomes
    <2>2. CASE g.cancel # "ResolutionPending" /\ g.fwd \in LateFacts \cup {"Cancelled"}
      <3> DEFINE a == Adjudicated(g.fwd)
      <3>1. x = Commit([g EXCEPT !.cancel = a.cancel], w, a.out)
        BY <2>0, <2>2 DEF HandleCancelExternal
      <3>2. a.cancel \in {"Confirmed", "AlreadyTerminal", "ResolutionPending"} /\ a.out \in Outcomes["Cancel"]
        BY <2>2, AdjudicatedTypes DEF LateFacts, Late
      <3> HIDE DEF a
      <3>4. [g EXCEPT !.cancel = a.cancel] \in GateType
        BY <3>2 DEF GateType
      <3> QED BY <3>1, <3>2, <3>4 DEF Committed, Commit
    <2>3. CASE g.cancel # "ResolutionPending" /\ g.fwd \notin LateFacts \cup {"Cancelled"}
      <3>1. PICK o \in CancelAnswers(w) : x = Commit(SettleCancel(g, o), w, o)
        BY <2>0, <2>3 DEF HandleCancelExternal
      <3>2. o \in {"LateSucceeded", "LateRejected", "LateHalted", "ResolutionPending", "Confirmed"}
        BY DEF CancelAnswers
      <3>3. SettleCancel(g, o) \in GateType
        <4> DEFINE f == CHOOSE f \in LateFacts : Late[f] = o
                   h == [g EXCEPT !.fwd = f, !.cancel = "AlreadyTerminal"]
        <4>1. o \in {"LateSucceeded", "LateRejected", "LateHalted"} => f \in {"Succeeded", "Rejected", "Halted"}
          BY LateChoice
        <4>2. o \in {"LateSucceeded", "LateRejected", "LateHalted"} => SettleCancel(g, o) = h
          BY DEF SettleCancel
        <4> HIDE DEF f
        <4>3. o \in {"LateSucceeded", "LateRejected", "LateHalted"} => h \in GateType
          BY <4>1 DEF GateType
        <4>4. o \in {"ResolutionPending", "Confirmed"} => SettleCancel(g, o) \in GateType
          BY DEF SettleCancel, GateType
        <4> QED BY <3>2, <4>2, <4>3, <4>4
      <3> QED BY <3>1, <3>2, <3>3 DEF Committed, Commit, Outcomes
    <2> QED BY <2>1, <2>2, <2>3
  <1> QED BY <1>1, <1>2

LEMMA CompensateTypes ==
  ASSUME NEW mode, NEW rec, NEW g \in GateType, NEW w \in WorldType, NEW x \in HandleCompensate(mode, rec, g, w)
  PROVE  Committed(x, "Compensate")
  <1>1. CASE g.fwd = "Absent"
    <2> DEFINE h == [g EXCEPT !.fwd = "Halted", !.comp = "Halted"]
    <2>1. x = [gate |-> h, world |-> w, out |-> "Halted"]
      BY <1>1 DEF HandleCompensate, Commit
    <2>2. h \in GateType
      BY DEF GateType
    <2> HIDE DEF h
    <2> QED BY <2>1, <2>2 DEF Committed, Outcomes
  <1>2. CASE g.fwd # "Absent" /\ CompensationReplays(rec, g)
    <2>1. x = [gate |-> g, world |-> w, out |-> g.comp]
      BY <1>2 DEF HandleCompensate, Commit
    <2>2. g.comp \in {"Succeeded", "Unknown", "Halted"}
      BY <1>2 DEF CompensationReplays
    <2> QED BY <2>1, <2>2 DEF Committed, Outcomes
  <1>3. CASE g.fwd # "Absent" /\ ~CompensationReplays(rec, g) /\ g.fwd # "Succeeded"
    BY <1>3 DEF HandleCompensate, Commit, Committed, Outcomes, GateType
  <1>4. CASE g.fwd # "Absent" /\ ~CompensationReplays(rec, g) /\ g.fwd = "Succeeded"
    <2>1. PICK a \in CompensateAnswers(mode, w) : x = Commit([g EXCEPT !.comp = a.o, !.res = "None"], a.w, a.o)
      BY <1>4 DEF HandleCompensate
    <2>2. a.w \in WorldType /\ a.o \in {"Succeeded", "Unknown", "Halted"}
      BY CompensateAnswersAre
    <2>3. [g EXCEPT !.comp = a.o, !.res = "None"] \in GateType
      BY <2>2 DEF GateType
    <2> QED BY <2>1, <2>2, <2>3 DEF Committed, Commit, Outcomes
  <1> QED BY <1>1, <1>2, <1>3, <1>4

LEMMA ResolveTypes ==
  ASSUME NEW rec, NEW g \in GateType, NEW w \in WorldType, NEW x \in HandleResolve(rec, g, w)
  PROVE  Committed(x, "Resolve")
  <1>1. CASE g.fwd = "Absent"
    <2> DEFINE h == [g EXCEPT !.fwd = "Halted", !.res = "Halted"]
    <2>1. x = [gate |-> h, world |-> w, out |-> "Halted"]
      BY <1>1 DEF HandleResolve, Commit
    <2>2. h \in GateType
      BY DEF GateType
    <2> HIDE DEF h
    <2> QED BY <2>1, <2>2 DEF Committed, Outcomes
  <1>2. CASE g.fwd # "Absent" /\ ResolutionReplays(rec, g)
    BY <1>2 DEF HandleResolve, Commit, Committed, Outcomes, ResolutionReplays
  <1> DEFINE settled == g.res = "None" /\ g.comp = "None" /\ g.fwd \in {"Succeeded", "Rejected"}
  <1>3. CASE g.fwd # "Absent" /\ ~ResolutionReplays(rec, g) /\ settled
    <2>1. x = Commit([g EXCEPT !.res = g.fwd], w, g.fwd)
      BY <1>3 DEF HandleResolve
    <2> QED BY <1>3, <2>1 DEF Commit, Committed, Outcomes, GateType
  <1>4. CASE g.fwd # "Absent" /\ ~ResolutionReplays(rec, g) /\ ~settled /\ g.comp = "Unknown"
    <2>1. PICK o \in ResolveAnswers(w.undone) : x = Commit(SettleCompensation(g, o), w, o)
      BY <1>4 DEF HandleResolve
    <2>2. o \in {"Succeeded", "Rejected", "Unknown", "Halted"}
      BY DEF ResolveAnswers
    <2>3. SettleCompensation(g, o) \in GateType
      BY <2>2 DEF SettleCompensation, GateType
    <2> QED BY <2>1, <2>2, <2>3 DEF Committed, Commit, Outcomes
  <1>5. CASE g.fwd # "Absent" /\ ~ResolutionReplays(rec, g) /\ ~settled /\ g.comp # "Unknown" /\ g.fwd = "Unknown"
    <2>1. PICK o \in ResolveAnswers(w.done) : x = Commit(SettleForward(g, o), w, o)
      BY <1>5 DEF HandleResolve
    <2>2. o \in {"Succeeded", "Rejected", "Unknown", "Halted"}
      BY DEF ResolveAnswers
    <2>3. SettleForward(g, o) \in GateType
      BY <2>2 DEF SettleForward, GateType
    <2> QED BY <2>1, <2>2, <2>3 DEF Committed, Commit, Outcomes
  <1>6. CASE g.fwd # "Absent" /\ ~ResolutionReplays(rec, g) /\ ~settled /\ g.comp # "Unknown" /\ g.fwd # "Unknown"
    BY <1>6 DEF HandleResolve, Commit, Committed, Outcomes, GateType
  <1> QED BY <1>1, <1>2, <1>3, <1>4, <1>5, <1>6

LEMMA ParticipantTypes ==
  ASSUME NEW mode, NEW c \in CommandType, NEW g \in GateType, NEW w \in WorldType
  PROVE  /\ \A x \in Handle(mode, c, g, w) : Committed(x, c.ph)
         /\ \A v \in Interrupted(mode, c, g, w) : v \in WorldType
  <1>1. c.ph \in {"Execute", "Cancel", "Compensate", "Resolve"}
    BY DEF CommandType, Phases
  <1>2. ASSUME NEW x \in Handle(mode, c, g, w) PROVE Committed(x, c.ph)
    BY <1>1, ExecuteTypes, CancelTypes, CompensateTypes, ResolveTypes DEF Handle
  <1>3. ASSUME NEW v \in Interrupted(mode, c, g, w) PROVE v \in WorldType
    BY DEF Interrupted, WorldType
  <1> QED BY <1>2, <1>3
-----------------------------------------------------------------------------
(* Every transaction keeps the journal's invariant.                        *)
LEMMA OrchestratorKeeps ==
  ASSUME JournalInv, Kept(db'), db'.ok, Extends(db.cmds, db'.cmds), UNCHANGED <<gate, world, results>>,
         DOMAIN applied' = Steps, \A s \in Steps : applied'[s] \subseteq DOMAIN results[s], ops' \in 0 .. Ops
  PROVE  JournalInv'
  <1>1. Types'
    <2>1. db' \in DbType /\ db'.budget \subseteq db'.budgets
      BY DEF Kept, Ready
    <2>2. ASSUME NEW s \in Steps
          PROVE  /\ DOMAIN results[s] \subseteq DOMAIN db'.cmds[s]
                 /\ \A i \in DOMAIN results[s] :
                      \/ results[s][i] = NoResult
                      \/ results[s][i] \in Outcomes[db'.cmds[s][i].ph]
      BY DEF JournalInv, Types, Extends
    <2> QED BY <2>1, <2>2 DEF JournalInv, Types
  <1>2. Timed(db') /\ Shape(db')
    BY DEF Kept
  <1> QED BY <1>1, <1>2 DEF JournalInv

LEMMA DbReads ==
  ASSUME JournalInv
  PROVE  /\ Ready(db) /\ Shape(db) /\ Timed(db) /\ Journals(db) /\ db.ok /\ db.dir \in Directions
         /\ \A s \in Steps : \A i \in DOMAIN db.cmds[s] : db.cmds[s][i] \in CommandType /\ db.cmds[s] # <<>>
  <1>1. Ready(db) /\ Shape(db) /\ Timed(db) /\ db.ok
    BY DEF JournalInv, Types, Ready
  <1>2. db.cmds \in [Steps -> Seq(CommandType)] /\ "cmds" \in DOMAIN db /\ db.dir \in Directions
    BY <1>1 DEF Ready, DbType
  <1>3. ASSUME NEW s \in Steps, NEW i \in DOMAIN db.cmds[s]
        PROVE  db.cmds[s][i] \in CommandType /\ db.cmds[s] # <<>>
    BY <1>2
  <1> QED BY <1>1, <1>2, <1>3 DEF Journals

LEMMA InitJournal ==
  ASSUME Init
  PROVE  JournalInv
  <1> DEFINE row == [s \in Steps |-> [fwd |-> "Pending", cancel |-> "None", comp |-> "None", res |-> "None"]]
             cmds == [s \in Steps |-> <<>>]
             empty == [status |-> "Running", dir |-> "Forward", cur |-> 1, paused |-> FALSE,
                       frozen |-> FALSE, plan |-> <<>>, row |-> row,
                       cmds |-> cmds, timer |-> NoTimer,
                       budgets |-> {}, budget |-> {}, deadline |-> Deadline, ok |-> TRUE]
  <1>1. db = Issue(empty, 1, "Execute", FALSE)
    BY DEF Init, Started
  <1>2. /\ 1 \in Steps /\ 1 \in 0 .. N /\ Steps = 1 .. N /\ N \in Nat /\ NoTimer \in TimerType
        /\ Deadline \in BOOLEAN /\ Ops \in Nat
    BY Named, BoundAssumption DEF Steps
  <1>3. /\ row \in [Steps -> RowType] /\ cmds \in [Steps -> Seq(CommandType)]
        /\ \A s \in Steps : row[s].fwd = "Pending" /\ cmds[s] = <<>>
    BY DEF RowType
  <1> HIDE DEF row, cmds
  <1>4. Ready(empty)
    <2>1. <<>> \in Seq(Steps) /\ "Running" \in Statuses /\ "Forward" \in Directions
      BY DEF Statuses, Automatic, Directions
    <2> QED BY <1>2, <1>3, <2>1 DEF Ready, DbType
  <1>5. /\ empty.status = "Running" /\ empty.dir = "Forward" /\ empty.cur = 1 /\ empty.ok
        /\ ~empty.frozen /\ empty.row = row /\ empty.cmds = cmds /\ empty.plan = <<>>
    OBVIOUS
  <1> HIDE DEF empty
  <1>6. "Execute" \in Phases /\ Awaits["Execute"] = "Running"
    BY DEF Phases, Awaits
  <1>7. Timed(db)
    BY <1>1, <1>2, <1>4, <1>5, <1>6, IssueTimed
  <1>8. /\ Ready(db) /\ Place(db) = Place(empty) /\ db.ok /\ ~db.frozen /\ db.row = row
        /\ db.cmds[1] = Append(<<>>, Command(empty, 1, "Execute", FALSE))
        /\ Command(empty, 1, "Execute", FALSE).ph = "Execute"
        /\ Command(empty, 1, "Execute", FALSE) \in CommandType
        /\ \A r \in Steps \ {1} : db.cmds[r] = <<>>
    <2>1. Issued(empty, db, 1, "Execute", FALSE)
      BY <1>1, <1>2, <1>4, <1>6, IssueDoes
    <2> QED BY <1>2, <1>3, <1>5, <2>1 DEF Issued
  <1>9. db.status = "Running" /\ db.dir = "Forward" /\ db.cur = 1
    BY <1>5, <1>8 DEF Place
  <1>10. Shape(db)
    <2>1. db.cmds[1] # <<>>
      BY <1>8
    <2>2. Front(db, 1)
      BY <1>2, <1>3, <1>8, <1>9, <2>1 DEF Front
    <2>3. PlanShape(db) /\ CurrentShape(db) /\ StatusShape(db)
      BY <1>8, <1>9 DEF PlanShape, CurrentShape, StatusShape
    <2>4. ASSUME NEW s \in Steps, Compensates(db, s) PROVE FALSE
      <3>1. PICK c \in DOMAIN db.cmds[s] : db.cmds[s][c].ph = "Compensate"
        BY <2>4 DEF Compensates
      <3>2. s = 1
        BY <1>8, <3>1
      <3> DEFINE x == Command(empty, 1, "Execute", FALSE)
      <3>3. x.ph = "Execute" /\ x \in CommandType /\ db.cmds[1] = Append(<<>>, x)
        BY <1>8
      <3> HIDE DEF x
      <3>4. DOMAIN Append(<<>>, x) = {1} /\ Append(<<>>, x)[1] = x
        BY <3>3
      <3> QED BY <3>1, <3>2, <3>3, <3>4
    <2> QED BY <1>2, <2>2, <2>3, <2>4 DEF Shape, Body, CommandShape
  <1>11. Types
    <2>1. NoGate \in GateType /\ NoWorld \in WorldType
      BY DEF NoGate, GateType, NoWorld, WorldType
    <2>2. gate \in [Steps -> GateType] /\ world \in [Steps -> WorldType] /\ ops \in 0 .. Ops
      BY <1>2, <2>1 DEF Init
    <2>3. \A s \in Steps : results[s] = <<>> /\ applied[s] = {}
      BY DEF Init
    <2>4. DOMAIN results = Steps /\ DOMAIN applied = Steps
      BY DEF Init
    <2>5. DOMAIN <<>> = {}
      OBVIOUS
    <2> QED BY <1>8, <2>2, <2>3, <2>4, <2>5 DEF Types, Ready
  <1> QED BY <1>7, <1>10, <1>11 DEF JournalInv

LEMMA HandlesKeeps ==
  ASSUME JournalInv, NEW s \in Steps, NEW i \in DOMAIN db.cmds[s], ParticipantHandles(s, i)
  PROVE  JournalInv'
  <1>1. PICK x \in Handle(Mode[s], db.cmds[s][i], gate[s], world[s]) :
          /\ gate' = [gate EXCEPT ![s] = x.gate]
          /\ world' = [world EXCEPT ![s] = x.world]
          /\ results' = [results EXCEPT ![s] = Answered(@, i, x.out)]
    BY DEF ParticipantHandles
  <1>2. UNCHANGED <<db, applied, ops>>
    BY DEF ParticipantHandles
  <1>3. db.cmds[s][i] \in CommandType /\ gate[s] \in GateType /\ world[s] \in WorldType
    BY DbReads DEF JournalInv, Types
  <1>4. /\ x.gate \in GateType /\ x.world \in WorldType
        /\ x.out = NoResult \/ x.out \in Outcomes[db.cmds[s][i].ph]
    BY <1>3, ParticipantTypes DEF Committed
  <1>5. gate' \in [Steps -> GateType] /\ world' \in [Steps -> WorldType]
    BY <1>1, <1>4 DEF JournalInv, Types
  <1>6. /\ DOMAIN results' = Steps /\ \A r \in Steps \ {s} : results'[r] = results[r]
        /\ DOMAIN results'[s] = DOMAIN results[s] \cup {i}
        /\ \A j \in DOMAIN results'[s] : results'[s][j] = IF j = i THEN x.out ELSE results[s][j]
    BY <1>1 DEF JournalInv, Types, Answered
  <1>7. ASSUME NEW r \in Steps
        PROVE  /\ DOMAIN results'[r] \subseteq DOMAIN db.cmds[r]
               /\ applied[r] \subseteq DOMAIN results'[r]
               /\ \A j \in DOMAIN results'[r] :
                    \/ results'[r][j] = NoResult
                    \/ results'[r][j] \in Outcomes[db.cmds[r][j].ph]
    <2>1. CASE r = s
      BY <1>4, <1>6, <2>1 DEF JournalInv, Types
    <2>2. CASE r # s
      BY <1>6, <2>2 DEF JournalInv, Types
    <2> QED BY <2>1, <2>2
  <1>8. Types'
    BY <1>2, <1>5, <1>6, <1>7 DEF JournalInv, Types
  <1>9. Timed(db)' /\ Shape(db)'
    BY <1>2 DEF JournalInv
  <1> QED BY <1>8, <1>9 DEF JournalInv

LEMMA DiesKeeps ==
  ASSUME JournalInv, NEW s \in Steps, NEW i \in DOMAIN db.cmds[s], ParticipantDies(s, i)
  PROVE  JournalInv'
  <1>1. PICK v \in Interrupted(Mode[s], db.cmds[s][i], gate[s], world[s]) : world' = [world EXCEPT ![s] = v]
    BY DEF ParticipantDies
  <1>2. UNCHANGED <<db, gate, results, applied, ops>>
    BY DEF ParticipantDies
  <1>3. db.cmds[s][i] \in CommandType /\ gate[s] \in GateType /\ world[s] \in WorldType
    BY DbReads DEF JournalInv, Types
  <1>4. v \in WorldType
    BY <1>3, ParticipantTypes
  <1>5. world' \in [Steps -> WorldType]
    BY <1>1, <1>4 DEF JournalInv, Types
  <1>6. Types'
    BY <1>2, <1>5 DEF JournalInv, Types
  <1>7. Timed(db)' /\ Shape(db)'
    BY <1>2 DEF JournalInv
  <1> QED BY <1>6, <1>7 DEF JournalInv

LEMMA ArrivesKeeps ==
  ASSUME JournalInv, NEW s \in Steps, NEW i \in DOMAIN results[s], ResultArrives(s, i)
  PROVE  JournalInv'
  <1> DEFINE r == [ph |-> db.cmds[s][i].ph, n |-> db.cmds[s][i].n, out |-> results[s][i]]
             t == HandleResult(db, s, r)
  <1>0. DOMAIN results[s] \subseteq DOMAIN db.cmds[s] /\ i \in DOMAIN db.cmds[s]
    BY DEF JournalInv, Types
  <1>1. db' = t /\ t.ok /\ UNCHANGED <<gate, world, results, ops>>
    BY DEF ResultArrives, Commits
  <1>2. db.cmds[s][i] \in CommandType /\ db.cmds[s] # <<>>
    BY <1>0, DbReads
  <1>3. results[s][i] \in Outcomes[db.cmds[s][i].ph]
    BY DEF ResultArrives, Withheld, JournalInv, Types
  <1>4. r.ph \in Phases /\ r.n \in Nat /\ r.out \in Outcomes[r.ph]
    BY <1>2, <1>3 DEF CommandType
  <1> HIDE DEF r
  <1>5. Kept(t)
    BY <1>2, <1>4, DbReads, HandleResultKeeps
  <1>6. Extends(db.cmds, t.cmds)
    BY <1>4, DbReads, ResultAppends
  <1>7. DOMAIN applied' = Steps /\ \A q \in Steps : applied'[q] \subseteq DOMAIN results[q]
    BY DEF ResultArrives, JournalInv, Types
  <1>8. ops' \in 0 .. Ops
    BY <1>1 DEF JournalInv, Types
  <1> HIDE DEF t
  <1> QED BY <1>1, <1>5, <1>6, <1>7, <1>8, OrchestratorKeeps

(* A step of the orchestrator that takes no result.                        *)
LEMMA OrchestratorOnlyKeeps ==
  ASSUME JournalInv, NEW t, Kept(t), Commits(t), Extends(db.cmds, t.cmds), OrchestratorOnly, ops' \in 0 .. Ops
  PROVE  JournalInv'
  <1>1. db' = t /\ t.ok /\ UNCHANGED <<gate, world, results, applied>>
    BY DEF Commits, OrchestratorOnly
  <1>2. DOMAIN applied' = Steps /\ \A q \in Steps : applied'[q] \subseteq DOMAIN results[q]
    BY <1>1 DEF JournalInv, Types
  <1> QED BY <1>1, <1>2, OrchestratorKeeps

LEMMA NextJournal ==
  ASSUME JournalInv, [Next]_vars
  PROVE  JournalInv'
  <1>0. /\ Ready(db) /\ Shape(db) /\ Timed(db) /\ Journals(db) /\ db.ok
        /\ ops \in 0 .. Ops /\ Ops \in Nat
    BY DbReads, BoundAssumption DEF JournalInv, Types
  <1>1. CASE \E s \in Steps : \E i \in DOMAIN db.cmds[s] : ParticipantHandles(s, i)
    BY <1>1, HandlesKeeps
  <1>2. CASE \E s \in Steps : \E i \in DOMAIN db.cmds[s] : ParticipantDies(s, i)
    BY <1>2, DiesKeeps
  <1>3. CASE \E s \in Steps : \E i \in DOMAIN results[s] : ResultArrives(s, i)
    BY <1>3, ArrivesKeeps
  <1>4. CASE PhaseTimeout
    <2> DEFINE t == OnPhaseTimeout([db EXCEPT !.timer = NoTimer], db.timer)
    <2>1. Kept(t) /\ Extends(db.cmds, t.cmds)
      BY <1>0, <1>4, PhaseTimeoutKeeps, TimeoutAppends DEF PhaseTimeout
    <2>2. Commits(t) /\ OrchestratorOnly /\ ops' \in 0 .. Ops
      BY <1>0, <1>4 DEF PhaseTimeout
    <2> HIDE DEF t
    <2> QED BY <2>1, <2>2, OrchestratorOnlyKeeps
  <1>5. CASE BudgetTimeout
    <2>0. PICK b \in db.budget : Commits(OnBudget([db EXCEPT !.budget = @ \ {b}]))
      BY <1>5 DEF BudgetTimeout
    <2> DEFINE t == OnBudget([db EXCEPT !.budget = db.budget \ {b}])
    <2>1. Kept(t) /\ Extends(db.cmds, t.cmds)
      BY <1>0, BudgetKeeps, TimeoutAppends
    <2>2. Commits(t) /\ OrchestratorOnly /\ ops' \in 0 .. Ops
      BY <1>0, <1>5, <2>0 DEF BudgetTimeout
    <2> HIDE DEF t
    <2> QED BY <2>1, <2>2, OrchestratorOnlyKeeps
  <1>6. CASE DeadlineTimeout
    <2> DEFINE t == OnDeadline([db EXCEPT !.deadline = FALSE])
    <2>1. Kept(t) /\ Extends(db.cmds, t.cmds)
      BY <1>0, DeadlineKeeps, TimeoutAppends
    <2>2. Commits(t) /\ OrchestratorOnly /\ ops' \in 0 .. Ops
      BY <1>0, <1>6 DEF DeadlineTimeout
    <2> HIDE DEF t
    <2> QED BY <2>1, <2>2, OrchestratorOnlyKeeps
  <1>7. CASE Pause
    <2> DEFINE t == [db EXCEPT !.paused = TRUE]
    <2>1. Kept(t) /\ Extends(db.cmds, t.cmds)
      BY <1>0, PauseKeeps, OperationsAppend
    <2>2. Commits(t) /\ OrchestratorOnly /\ ops' \in 0 .. Ops
      BY <1>0, <1>7 DEF Pause, Operate
    <2> HIDE DEF t
    <2> QED BY <2>1, <2>2, OrchestratorOnlyKeeps
  <1>8. CASE Resume
    <2> DEFINE t == [db EXCEPT !.paused = FALSE]
    <2>1. Kept(t) /\ Extends(db.cmds, t.cmds)
      BY <1>0, PauseKeeps, OperationsAppend
    <2>2. t.ok
      BY <1>0 DEF Ready, DbType
    <2>3. Commits(t) /\ OrchestratorOnly /\ ops' \in 0 .. Ops
      BY <1>0, <1>8, <2>2 DEF Resume, Commits
    <2> HIDE DEF t
    <2> QED BY <2>1, <2>3, OrchestratorOnlyKeeps
  <1>9. CASE RetryCompensation
    <2> DEFINE t == OnRetryCompensation(db)
    <2>1. Kept(t) /\ Extends(db.cmds, t.cmds)
      BY <1>0, <1>9, RetryCompensationKeeps, OperationsAppend DEF RetryCompensation
    <2>2. Commits(t) /\ OrchestratorOnly /\ ops' \in 0 .. Ops
      BY <1>0, <1>9 DEF RetryCompensation, Operate
    <2> HIDE DEF t
    <2> QED BY <2>1, <2>2, OrchestratorOnlyKeeps
  <1>10. CASE RetryResolution
    <2> DEFINE t == OnRetryResolution(db)
    <2>1. Kept(t) /\ Extends(db.cmds, t.cmds)
      BY <1>0, <1>10, RetryResolutionKeeps, OperationsAppend DEF RetryResolution
    <2>2. Commits(t) /\ OrchestratorOnly /\ ops' \in 0 .. Ops
      BY <1>0, <1>10 DEF RetryResolution, Operate
    <2> HIDE DEF t
    <2> QED BY <2>1, <2>2, OrchestratorOnlyKeeps
  <1>11. CASE ManualClose
    <2> DEFINE t == OnManualClose(db)
    <2>1. Kept(t) /\ Extends(db.cmds, t.cmds)
      BY <1>0, ManualCloseKeeps, OperationsAppend
    <2>2. Commits(t) /\ OrchestratorOnly /\ ops' \in 0 .. Ops
      BY <1>0, <1>11 DEF ManualClose, Operate
    <2> HIDE DEF t
    <2> QED BY <2>1, <2>2, OrchestratorOnlyKeeps
  <1>12. CASE UNCHANGED vars
    BY <1>12 DEF vars, JournalInv, Types, Timed, Shape, Body, Front, PlanShape, CommandShape, StatusShape,
                 CurrentShape, Compensates, Succeeded, NextAttempt, Attempts
  <1> QED BY <1>1, <1>2, <1>3, <1>4, <1>5, <1>6, <1>7, <1>8, <1>9, <1>10, <1>11, <1>12 DEF Next

(* The invariant of the journal: its types, the timer that watches over an *)
(* automatic saga, and the shape the handlers keep.                        *)
THEOREM JournalSafe == Spec => []JournalInv
  <1>1. Init => JournalInv
    BY InitJournal
  <1>2. JournalInv /\ [Next]_vars => JournalInv'
    BY NextJournal
  <1> QED BY <1>1, <1>2, PTL DEF Spec

(* Every transaction of the orchestrator that leaves the saga in an        *)
(* automatic status leaves the timeout of the current step's newest        *)
(* attempt behind (schedule_phase_timeout in issue_command): no reordering *)
(* of messages, stale answer or crash of a participant strands a saga.     *)
THEOREM SagaAlwaysTimed == Spec => []AlwaysTimed
  <1>1. JournalInv => AlwaysTimed
    BY DEF JournalInv, Timed, AlwaysTimed
  <1> QED BY <1>1, JournalSafe, PTL

(* The tables keep their types; a result answers a command that was        *)
(* issued, and a result is claimed once.                                   *)
THEOREM SagaTypes == Spec => []TypeOK
  <1>1. JournalInv => TypeOK
    BY DEF JournalInv, Types, TypeOK, DbType, RowType, Statuses, Directions
  <1> QED BY <1>1, JournalSafe, PTL
-----------------------------------------------------------------------------
(* The truth of the journal, kept by the orchestrator's transactions: they *)
(* leave the gates and the world alone.                                    *)
Gates == \A s \in Steps : gate[s].fwd \in {"Rejected", "Cancelled"} => ~world[s].done

Quiet(d) == \A s \in Steps : d.cmds[s] = <<>> => ~world[s].done

Sound(d) == Truth(d) /\ Quiet(d) /\ Gates

Told(t) == t.ok => Sound(t)

(* No later effect stands.                                                 *)
Later(s) == \A t \in Steps : s < t /\ world[t].done => world[t].undone

(* What the patch holds as certain of step s is so.                        *)
PatchTrue(s, p) ==
  /\ "fwd" \in DOMAIN p /\ p["fwd"] \in Certain => gate[s].fwd = p["fwd"]
  /\ "comp" \in DOMAIN p /\ p["comp"] = "Succeeded" => world[s].undone
  /\ "comp" \in DOMAIN p /\ p["comp"] = "Unknown" => Reversing(s)

(* The instance may go to status to, direction dir and step cur.           *)
MayEnter(d, to, dir, cur) ==
  /\ to = "WaitingResolution" /\ dir = "Compensating" => Reversing(cur)
  /\ dir = "Forward" => d.dir = "Forward"

(* In direction dir a command of phase ph may be issued to step s.         *)
MayIssue(dir, s, ph) ==
  /\ ph = "Compensate" => Later(s) /\ dir = "Compensating"
  /\ ph = "Resolve" => dir = "Forward" \/ Reversing(s)

(* A query may be asked of step s in direction dir.                        *)
MayAsk(d, s, dir) == IF dir = "Forward" THEN d.dir = "Forward" ELSE Reversing(s)

LEMMA SoundReads ==
  ASSUME NEW d, NEW t, Sound(d), t.cmds = d.cmds, t.status = d.status \/ t.status # "Compensated",
         MayEnter(d, t.status, t.dir, t.cur),
         \A s \in Steps : /\ t.row[s].fwd = d.row[s].fwd
                          /\ t.row[s].comp = "Succeeded" <=> d.row[s].comp = "Succeeded"
                          /\ t.row[s].comp = "Unknown" => d.row[s].comp = "Unknown"
  PROVE  Sound(t)
  <1>1. RowTrue(t)
    BY DEF Sound, Truth, RowTrue
  <1>2. OrderTrue(t)
    BY DEF Sound, Truth, OrderTrue, Compensates
  <1>3. EndTrue(t)
    BY DEF Sound, Truth, EndTrue
  <1>4. Quiet(t)
    BY DEF Sound, Quiet
  <1>5. QueryTrue(t)
    BY DEF Sound, Truth, QueryTrue, MayEnter, Compensates, AsksBack
  <1> QED BY <1>1, <1>2, <1>3, <1>4, <1>5 DEF Sound, Truth

LEMMA SoundCore ==
  ASSUME NEW d, NEW t, Sound(d), Core(t) = Core(d), t.status = d.status \/ t.status # "Compensated",
         MayEnter(d, t.status, t.dir, t.cur)
  PROVE  Sound(t)
  <1>1. t.row = d.row /\ t.cmds = d.cmds
    BY DEF Core
  <1> QED BY <1>1, SoundReads

LEMMA SoundPlace ==
  ASSUME NEW d, NEW t, Sound(d), Core(t) = Core(d), Place(t) = Place(d)
  PROVE  Sound(t)
  <1>1. t.status = d.status /\ t.dir = d.dir /\ t.cur = d.cur
    BY DEF Place
  <1>2. MayEnter(d, t.status, t.dir, t.cur)
    BY <1>1 DEF MayEnter, Sound, Truth, QueryTrue
  <1> QED BY <1>1, <1>2, SoundCore

LEMMA SoundRow ==
  ASSUME NEW d, NEW t, Sound(d), NEW s \in Steps, t.cmds = d.cmds, Place(t) = Place(d),
         \A r \in Steps \ {s} : t.row[r] = d.row[r],
         t.row[s].fwd = d.row[s].fwd \/ (t.row[s].fwd \in Certain => gate[s].fwd = t.row[s].fwd),
         \/ t.row[s].comp = d.row[s].comp
         \/ /\ t.row[s].comp = "Succeeded" => world[s].undone
            /\ t.row[s].comp = "Unknown" => Reversing(s)
  PROVE  Sound(t)
  <1>0. t.status = d.status /\ t.dir = d.dir /\ t.cur = d.cur
    BY DEF Place
  <1>1. RowTrue(t)
    BY DEF Sound, Truth, RowTrue
  <1>2. OrderTrue(t)
    BY DEF Sound, Truth, OrderTrue, Compensates
  <1>3. EndTrue(t)
    BY <1>0 DEF Sound, Truth, EndTrue
  <1>4. Quiet(t)
    BY DEF Sound, Quiet
  <1>5. QueryTrue(t)
    BY <1>0 DEF Sound, Truth, QueryTrue, Compensates, AsksBack
  <1> QED BY <1>1, <1>2, <1>3, <1>4, <1>5 DEF Sound, Truth

LEMMA PatchSound ==
  ASSUME NEW d, Ready(d), Sound(d), NEW s \in Steps, NEW p, Patches(p), PatchTrue(s, p)
  PROVE  Sound(Patch(d, s, p))
  <1> DEFINE t == Patch(d, s, p)
  <1>1. d.row[s] \in RowType
    BY DEF Ready, DbType
  <1>2. /\ Written(d.row[s], p) \in RowType
        /\ Written(d.row[s], p).fwd = IF "fwd" \in DOMAIN p THEN p["fwd"] ELSE d.row[s].fwd
        /\ Written(d.row[s], p).comp = IF "comp" \in DOMAIN p THEN p["comp"] ELSE d.row[s].comp
    BY <1>1, WrittenRow
  <1>3. /\ t.row[s] = Written(d.row[s], p) /\ Place(t) = Place(d)
        /\ t.cmds = d.cmds /\ \A r \in Steps \ {s} : t.row[r] = d.row[r]
    BY <1>2, PatchDoes
  <1> HIDE DEF t
  <1>4. /\ t.row[s].fwd = d.row[s].fwd \/ (t.row[s].fwd \in Certain => gate[s].fwd = t.row[s].fwd)
        /\ \/ t.row[s].comp = d.row[s].comp
           \/ /\ t.row[s].comp = "Succeeded" => world[s].undone
              /\ t.row[s].comp = "Unknown" => Reversing(s)
    BY <1>2, <1>3 DEF PatchTrue
  <1>5. Sound(t)
    BY <1>3, <1>4, SoundRow
  <1> QED BY <1>5 DEF t

LEMMA MergedSound ==
  ASSUME NEW d, NEW t, Sound(d), NEW s \in Steps, NEW p, Merged(d, t, s, p), PatchTrue(s, p)
  PROVE  Sound(t)
  <1>1. /\ Place(t) = Place(d) /\ t.cmds = d.cmds /\ \A r \in Steps \ {s} : t.row[r] = d.row[r]
        /\ t.row[s].fwd = d.row[s].fwd \/ (t.row[s].fwd \in Certain => gate[s].fwd = t.row[s].fwd)
        /\ \/ t.row[s].comp = d.row[s].comp
           \/ /\ t.row[s].comp = "Succeeded" => world[s].undone
              /\ t.row[s].comp = "Unknown" => Reversing(s)
    BY DEF Merged, PatchTrue
  <1> QED BY <1>1, SoundRow

LEMMA IssueSound ==
  ASSUME NEW d, Ready(d), Sound(d), NEW s \in Steps, NEW ph \in Phases, NEW rec \in BOOLEAN,
         MayIssue(d.dir, s, ph)
  PROVE  Sound(Issue(d, s, ph, rec))
  <1> DEFINE t == Issue(d, s, ph, rec)
             c == Command(d, s, ph, rec)
  <1>1. /\ Place(t) = Place(d) /\ t.row = d.row
        /\ t.cmds[s] = Append(d.cmds[s], c) /\ c \in CommandType /\ c.ph = ph
        /\ \A r \in Steps \ {s} : t.cmds[r] = d.cmds[r]
    <2>1. Issued(d, t, s, ph, rec)
      BY IssueDoes
    <2> HIDE DEF t
    <2> QED BY <2>1 DEF Issued
  <1>2. d.cmds[s] \in Seq(CommandType)
    BY DEF Ready, DbType
  <1> HIDE DEF t, c
  <1>3. /\ DOMAIN t.cmds[s] = DOMAIN d.cmds[s] \cup {Len(d.cmds[s]) + 1} /\ t.cmds[s] # <<>>
        /\ t.cmds[s][Len(d.cmds[s]) + 1] = c
        /\ \A i \in DOMAIN d.cmds[s] : t.cmds[s][i] = d.cmds[s][i]
    BY <1>1, <1>2
  <1>4. \A r \in Steps : Compensates(t, r) => Compensates(d, r) \/ (r = s /\ Later(s) /\ d.dir = "Compensating")
    <2>1. ASSUME NEW r \in Steps, Compensates(t, r)
          PROVE  Compensates(d, r) \/ (r = s /\ Later(s) /\ d.dir = "Compensating")
      <3>1. PICK i \in DOMAIN t.cmds[r] : t.cmds[r][i].ph = "Compensate"
        BY <2>1 DEF Compensates
      <3>2. CASE r # s
        BY <1>1, <3>1, <3>2 DEF Compensates
      <3>3. CASE r = s
        BY <1>1, <1>3, <3>1, <3>3 DEF Compensates, MayIssue
      <3> QED BY <3>2, <3>3
    <2> QED BY <2>1
  <1>5. OrderTrue(t)
    BY <1>4 DEF Sound, Truth, OrderTrue, Later
  <1>6. RowTrue(t)
    BY <1>1 DEF Sound, Truth, RowTrue
  <1>7. EndTrue(t)
    BY <1>1 DEF Sound, Truth, EndTrue, Place
  <1>8. Quiet(t)
    BY <1>1, <1>3 DEF Sound, Quiet
  <1>9. QueryTrue(t)
    <2>1. t.status = d.status /\ t.dir = d.dir /\ t.cur = d.cur
      BY <1>1 DEF Place
    <2>2. ASSUME NEW r \in Steps, NEW i \in DOMAIN t.cmds[r], t.cmds[r][i].ph = "Resolve", AsksBack(t, r, i)
          PROVE  Reversing(r)
      <3>1. CASE r # s
        BY <1>1, <2>2, <3>1 DEF Sound, Truth, QueryTrue, AsksBack
      <3>2. CASE r = s /\ i \in DOMAIN d.cmds[s]
        <4>1. AsksBack(d, s, i)
          BY <1>2, <1>3, <2>2, <3>2 DEF AsksBack
        <4> QED BY <1>3, <2>2, <3>2, <4>1 DEF Sound, Truth, QueryTrue
      <3>3. CASE r = s /\ i = Len(d.cmds[s]) + 1
        <4>1. ph = "Resolve"
          BY <1>1, <1>3, <2>2, <3>3
        <4>2. Compensates(t, s)
          BY <2>2, <3>3 DEF AsksBack, Compensates
        <4>3. Compensates(d, s) \/ d.dir = "Compensating"
          BY <1>4, <4>2
        <4>4. d.dir # "Forward"
          BY <4>3 DEF Sound, Truth, QueryTrue
        <4> QED BY <3>3, <4>1, <4>4 DEF MayIssue
      <3> QED BY <1>3, <2>2, <3>1, <3>2, <3>3
    <2> QED BY <1>1, <1>4, <2>1, <2>2 DEF Sound, Truth, QueryTrue
  <1>10. Sound(t)
    BY <1>5, <1>6, <1>7, <1>8, <1>9 DEF Sound, Truth
  <1> QED BY <1>10 DEF t

LEMMA AdvanceSound ==
  ASSUME NEW d, Ready(d), Sound(d), NEW to \in Statuses, NEW dir \in Directions, NEW cur \in 0 .. N,
         to # "Compensated", MayEnter(d, to, dir, cur)
  PROVE  LET t == Advance(d, to, dir, cur) IN Ready(t) /\ Sound(t) /\ Core(t) = Core(d) /\ t.dir = dir
  <1> DEFINE t == Advance(d, to, dir, cur)
  <1>1. Ready(t) /\ t.status = to /\ t.dir = dir /\ t.cur = cur /\ Core(t) = Core(d)
    BY AdvanceDoes
  <1> HIDE DEF t
  <1>2. Sound(t)
    BY <1>1, SoundCore
  <1> QED BY <1>1, <1>2 DEF t

LEMMA EscalateSound ==
  ASSUME NEW d, Ready(d), Sound(d)
  PROVE  Told(Escalate(d)) /\ Told(Conflicted(d))
  <1>1. d.dir \in Directions /\ d.cur \in 0 .. N /\ Manual \in Statuses /\ Manual # "Compensated"
    BY Named DEF Ready, DbType, Manual
  <1>a. MayEnter(d, Manual, d.dir, d.cur)
    BY DEF MayEnter, Manual
  <1>2. Sound(Escalate(d))
    BY <1>1, <1>a, AdvanceSound DEF Escalate
  <1> QED BY <1>2 DEF Told, Conflicted

(* An issue after the compare-and-set on the instance.                     *)
LEMMA AdvanceIssueSound ==
  ASSUME NEW d, Ready(d), Sound(d), NEW to \in Automatic, NEW dir \in Directions, NEW s \in Steps,
         NEW ph \in Phases, NEW rec \in BOOLEAN, MayEnter(d, to, dir, s), MayIssue(dir, s, ph)
  PROVE  Told(Issue(Advance(d, to, dir, s), s, ph, rec))
  <1> DEFINE a == Advance(d, to, dir, s)
  <1>1. to \in Statuses /\ s \in 0 .. N /\ to # "Compensated"
    BY Named DEF Terminal
  <1>2. Ready(a) /\ Sound(a) /\ a.dir = dir
    BY <1>1, AdvanceSound
  <1> HIDE DEF a
  <1>3. Sound(Issue(a, s, ph, rec))
    BY <1>2, IssueSound
  <1> QED BY <1>3 DEF Told, a

LEMMA AskResolutionSound ==
  ASSUME NEW d, Ready(d), Sound(d), NEW s \in Steps, NEW dir \in Directions, NEW n \in Nat, NEW rec \in BOOLEAN,
         MayAsk(d, s, dir)
  PROVE  Told(AskResolution(d, s, dir, n, rec))
  <1> DEFINE a == Advance(d, "WaitingResolution", dir, s)
             b == ScheduleBudget(a, s, dir, n)
  <1>1. "WaitingResolution" \in Statuses /\ s \in 0 .. N
    BY Named DEF Statuses
  <1>a. MayEnter(d, "WaitingResolution", dir, s) /\ MayIssue(dir, s, "Resolve")
    BY DEF MayAsk, MayEnter, MayIssue, Directions
  <1>2. Ready(a) /\ Sound(a) /\ a.dir = dir
    BY <1>1, <1>a, AdvanceSound
  <1> HIDE DEF a
  <1>3. Ready(b) /\ Place(b) = Place(a) /\ Core(b) = Core(a)
    BY <1>2, ScheduleBudgetDoes
  <1> HIDE DEF b
  <1>4. Sound(b) /\ b.dir = dir
    BY <1>2, <1>3, SoundPlace DEF Place
  <1>5. "Resolve" \in Phases
    BY DEF Phases
  <1>6. Sound(Issue(b, s, "Resolve", rec))
    BY <1>a, <1>3, <1>4, <1>5, IssueSound
  <1> QED BY <1>6 DEF AskResolution, Told, a, b

LEMMA EnterWaitingSound ==
  ASSUME NEW d, Ready(d), Sound(d), NEW s \in Steps, NEW dir \in Directions, NEW n \in Nat, NEW ph,
         MayAsk(d, s, dir)
  PROVE  Told(EnterWaiting(d, s, dir, ph, n))
  <1> DEFINE p == [fwd |-> "Unknown"]
             q == [res |-> "Pending"]
             e == IF ph = "Execute" THEN Patch(d, s, p) ELSE d
             f == Patch(e, s, q)
             g == CancelTimer(f, s, "Execute")
  <1>1. Patches(p) /\ PatchTrue(s, p) /\ Patches(q) /\ PatchTrue(s, q)
    BY DEF Patches, Columns, PatchTrue, Certain
  <1>2. EnterWaiting(d, s, dir, ph, n) \in {Escalate(e), AskResolution(g, s, dir, n, FALSE)}
    BY DEF EnterWaiting
  <1> HIDE DEF p, q
  <1>3. ASSUME NEW x, Ready(x), Sound(x), NEW y, Patches(y), PatchTrue(s, y)
        PROVE  Ready(Patch(x, s, y)) /\ Sound(Patch(x, s, y)) /\ Place(Patch(x, s, y)) = Place(x)
    <2>1. x.row[s] \in RowType
      BY <1>3 DEF Ready, DbType
    <2>2. Written(x.row[s], y) \in RowType
      BY <1>3, <2>1, WrittenRow
    <2> QED BY <1>3, <2>2, PatchDoes, PatchSound
  <1>4. Ready(e) /\ Sound(e) /\ Place(e) = Place(d)
    BY <1>1, <1>3
  <1> HIDE DEF e
  <1>5. Ready(f) /\ Sound(f) /\ Place(f) = Place(e)
    BY <1>1, <1>3, <1>4
  <1> HIDE DEF f
  <1>6. Ready(g) /\ Place(g) = Place(f) /\ Core(g) = Core(f)
    BY <1>5, CancelTimerDoes
  <1> HIDE DEF g
  <1>7. Sound(g) /\ MayAsk(g, s, dir)
    BY <1>4, <1>5, <1>6, SoundPlace DEF Place, MayAsk
  <1>8. Told(Escalate(e)) /\ Told(AskResolution(g, s, dir, n, FALSE))
    BY <1>4, <1>6, <1>7, EscalateSound, AskResolutionSound
  <1> QED BY <1>2, <1>8

LEMMA ReissueSound ==
  ASSUME NEW d, Ready(d), Sound(d), NEW s \in Steps, MayAsk(d, s, d.dir)
  PROVE  Told(ReissueResolve(d, s))
  <1>1. "Resolve" \in Phases /\ "WaitingResolution" \in Automatic /\ d.dir \in Directions
    BY DEF Phases, Automatic, Ready, DbType
  <1>a. MayEnter(d, "WaitingResolution", d.dir, s) /\ MayIssue(d.dir, s, "Resolve")
    BY <1>1 DEF MayAsk, MayEnter, MayIssue, Directions
  <1>2. Told(Issue(Advance(d, "WaitingResolution", d.dir, s), s, "Resolve", FALSE))
    BY <1>1, <1>a, AdvanceIssueSound
  <1> QED BY <1>2, EscalateSound DEF ReissueResolve

(* Backwards the instance goes to any step, and asks for a reversal.       *)
LEMMA MayReverse ==
  ASSUME NEW d, NEW to, to # "WaitingResolution", NEW cur
  PROVE  /\ MayEnter(d, to, "Compensating", cur)
         /\ \A s \in Steps : Later(s) => MayIssue("Compensating", s, "Compensate")
  BY DEF MayEnter, MayIssue

(* A compensation that was asked for once may be asked for again.          *)
LEMMA AskedLater ==
  ASSUME NEW d, Sound(d), NEW s \in Steps, Compensates(d, s)
  PROVE  Later(s)
  BY DEF Sound, Truth, OrderTrue, Later

LEMMA RetryDeniedSound ==
  ASSUME NEW d, Ready(d), Sound(d), NEW s \in Steps, Compensates(d, s)
  PROVE  Told(RetryDenied(d, s))
  <1>1. "Compensate" \in Phases /\ "Compensating" \in Automatic /\ "Compensating" \in Directions
    BY DEF Phases, Automatic, Directions
  <1>2. Later(s)
    BY AskedLater
  <1>3. Told(Issue(Advance(d, "Compensating", "Compensating", s), s, "Compensate", FALSE))
    BY <1>1, <1>2, MayReverse, AdvanceIssueSound
  <1> QED BY <1>3, EscalateSound DEF RetryDenied

LEMMA ProceedForwardSound ==
  ASSUME NEW d, Ready(d), Sound(d), d.dir = "Forward"
  PROVE  Told(ProceedForward(d))
  <1>0. /\ \A to, cur : MayEnter(d, to, "Forward", cur)
        /\ \A s \in Steps : MayIssue("Forward", s, "Execute")
    BY DEF MayEnter, MayIssue
  <1>1. CASE ~ForwardInStep(d)
    <2>1. ProceedForward(d) = [d EXCEPT !.ok = FALSE]
      BY <1>1 DEF ProceedForward
    <2>2. [d EXCEPT !.ok = FALSE].ok = FALSE
      BY DEF Ready, DbType
    <2> QED BY <2>1, <2>2 DEF Told
  <1>2. CASE ProceedForward(d) = [Advance(d, "Completed", "Forward", 0) EXCEPT !.deadline = FALSE]
    <2> DEFINE a == Advance(d, "Completed", "Forward", 0)
               t == [a EXCEPT !.deadline = FALSE]
    <2>1. "Completed" \in Statuses /\ 0 \in 0 .. N /\ "Forward" \in Directions
      BY Named DEF Statuses, Terminal, Directions
    <2>2. Ready(a) /\ Sound(a)
      BY <1>0, <2>1, AdvanceSound
    <2> HIDE DEF a
    <2>3. Place(t) = Place(a) /\ Core(t) = Core(a)
      BY <2>2 DEF Ready, DbType, Place, Core
    <2> HIDE DEF t
    <2>4. Sound(t)
      BY <2>2, <2>3, SoundPlace
    <2> QED BY <1>2, <2>4 DEF Told, t, a
  <1>3. ASSUME NEW s \in Steps,
               ProceedForward(d) = Issue(Advance(d, "Running", "Forward", s), s, "Execute", FALSE)
        PROVE  Told(ProceedForward(d))
    <2>1. "Execute" \in Phases /\ "Running" \in Automatic /\ "Forward" \in Directions
      BY DEF Phases, Automatic, Directions
    <2>2. Told(Issue(Advance(d, "Running", "Forward", s), s, "Execute", FALSE))
      BY <1>0, <2>1, AdvanceIssueSound
    <2> QED BY <1>3, <2>2
  <1> QED BY <1>1, <1>2, <1>3, ForwardCases

(* Once the plan is frozen, an effect that exists is a step of the plan:   *)
(* every other step that was asked to act is certain not to have acted.    *)
LEMMA DoneSucceeded ==
  ASSUME NEW d, Body(d), d.frozen, Sound(d), NEW s \in Steps, world[s].done
  PROVE  s \in Succeeded(d)
  <1>1. d.cmds[s] # <<>>
    BY DEF Sound, Quiet
  <1>2. d.row[s].fwd \in Certain
    BY <1>1 DEF Body, PlanShape
  <1>3. gate[s].fwd = d.row[s].fwd
    BY <1>2 DEF Sound, Truth, RowTrue
  <1>4. gate[s].fwd \notin {"Rejected", "Cancelled"}
    BY DEF Sound, Gates
  <1> QED BY <1>2, <1>3, <1>4 DEF Certain, Succeeded

LEMMA ConvergeSound ==
  ASSUME NEW d, Ready(d), Body(d), d.dir = "Compensating", Sound(d)
  PROVE  Told(Converge(d))
  <1> DEFINE t == Converge(d)
  <1>1. /\ t.ok => PlanHolds(d) /\ Uncompensated(d) = {}
        /\ t.row = d.row /\ t.cmds = d.cmds /\ t.status = "Compensated" /\ t.dir = "Compensating"
    BY ConvergeKeeps
  <1> HIDE DEF t
  <1>2. d.frozen
    BY DEF Body, PlanShape
  <1>3. t.ok => \A s \in Steps : world[s].done => world[s].undone
    <2> SUFFICES ASSUME t.ok, NEW s \in Steps, world[s].done PROVE world[s].undone
      OBVIOUS
    <2>1. s \in Succeeded(d)
      BY <1>2, DoneSucceeded
    <2>2. PICK i \in DOMAIN d.plan : d.plan[i] = s
      BY <1>2, <2>1 DEF Body, PlanShape
    <2>3. d.row[s].comp = "Succeeded"
      BY <1>1, <2>2 DEF Uncompensated
    <2> QED BY <2>3 DEF Sound, Truth, RowTrue
  <1>4. RowTrue(t) /\ OrderTrue(t) /\ Quiet(t)
    BY <1>1 DEF Sound, Truth, RowTrue, OrderTrue, Compensates, Quiet
  <1>5. t.ok => EndTrue(t)
    BY <1>3 DEF EndTrue
  <1>6. QueryTrue(t)
    BY <1>1 DEF Sound, Truth, QueryTrue, Compensates, AsksBack
  <1>7. Told(t)
    BY <1>4, <1>5, <1>6 DEF Told, Sound, Truth
  <1> QED BY <1>7 DEF t

(* The plan runs front to back, from the last step down: when its next     *)
(* step is reversed, no later effect stands.                               *)
LEMMA NextLater ==
  ASSUME NEW d, Ready(d), Body(d), d.frozen, d.plan = PlanOf(d), Uncompensated(d) # {}, Sound(d)
  PROVE  Later(NextCompensation(d))
  <1>1. PICK i \in Uncompensated(d) :
           /\ i \in DOMAIN d.plan /\ NextCompensation(d) = d.plan[i]
           /\ \A j \in Uncompensated(d) : i <= j
    BY NextCompensationIs
  <1>2. PICK k \in Steps : Front(d, k)
    BY DEF Body
  <1>3. PICK m \in Nat : m <= N /\ Succeeded(d) = 1 .. m
    BY <1>2, FrontPrefix
  <1>4. DOMAIN d.plan = 1 .. m /\ \A j \in 1 .. m : d.plan[j] = m + 1 - j
    <2>1. DOMAIN PlanOf(d) = 1 .. m /\ \A j \in 1 .. m : PlanOf(d)[j] = m + 1 - j
      BY <1>3, PlanOfPrefix
    <2> QED BY <2>1
  <1>5. NextCompensation(d) = m + 1 - i /\ i \in 1 .. m
    BY <1>1, <1>4
  <1>6. ASSUME NEW t \in Steps, m + 1 - i < t, world[t].done PROVE world[t].undone
    <2>1. t \in 1 .. m
      BY <1>3, <1>6, DoneSucceeded
    <2>2. m + 1 - t \in 1 .. m /\ m + 1 - (m + 1 - t) = t /\ ~(i <= m + 1 - t)
      BY <1>5, <1>6, <2>1
    <2>3. d.plan[m + 1 - t] = t /\ m + 1 - t \in DOMAIN d.plan
      BY <1>4, <2>2
    <2>4. m + 1 - t \notin Uncompensated(d)
      BY <1>1, <2>2
    <2>5. d.row[t].comp = "Succeeded"
      BY <2>3, <2>4 DEF Uncompensated
    <2> QED BY <2>5 DEF Sound, Truth, RowTrue
  <1> QED BY <1>5, <1>6 DEF Later

LEMMA ConvergeFromSound ==
  ASSUME NEW d, Ready(d), Body(d), d.dir = "Compensating", Sound(d)
  PROVE  Told(Converge(Advance(d, "Compensating", "Compensating", 0)))
  <1> DEFINE t == Advance(d, "Compensating", "Compensating", 0)
  <1>1. "Compensating" \in Statuses /\ 0 \in 0 .. N /\ "Compensating" \in Directions
    BY Named DEF Directions
  <1>2. Ready(t) /\ Body(t) /\ t.dir = "Compensating"
    BY ConvergeFromKeeps
  <1>3. Sound(t)
    BY <1>1, MayReverse, AdvanceSound
  <1> HIDE DEF t
  <1>4. Told(Converge(t))
    BY <1>2, <1>3, ConvergeSound
  <1> QED BY <1>4 DEF t

LEMMA ContinueCompensationSound ==
  ASSUME NEW d, Ready(d), Shape(d), d.dir = "Compensating", Sound(d)
  PROVE  Told(ContinueCompensation(d))
  <1> DEFINE s == NextCompensation(d)
  <1>1. CASE ~PlanInStep(d, FALSE)
    BY <1>1, EscalateSound DEF ContinueCompensation
  <1>2. CASE PlanInStep(d, FALSE) /\ Uncompensated(d) = {}
    <2>1. ContinueCompensation(d) = Converge(Advance(d, "Compensating", "Compensating", 0))
      BY <1>2 DEF ContinueCompensation
    <2> QED BY <2>1, ConvergeFromSound DEF Shape
  <1>3. CASE PlanInStep(d, FALSE) /\ Uncompensated(d) # {}
    <2>1. ContinueCompensation(d)
            = Issue(Advance(d, "Compensating", "Compensating", s), s, "Compensate", FALSE)
      BY <1>3 DEF ContinueCompensation
    <2>2. d.frozen /\ d.plan = PlanOf(d) /\ Body(d)
      BY <1>3 DEF PlanInStep, PlanHolds, Shape
    <2>3. s \in Steps /\ Later(s)
      BY <1>3, <2>2, NextSucceeded, NextLater
    <2>4. "Compensate" \in Phases /\ "Compensating" \in Automatic /\ "Compensating" \in Directions
      BY DEF Phases, Automatic, Directions
    <2> HIDE DEF s
    <2> QED BY <2>1, <2>3, <2>4, MayReverse, AdvanceIssueSound
  <1> QED BY <1>1, <1>2, <1>3

LEMMA EnterCompensationSound ==
  ASSUME NEW d, Ready(d), Shape(d), d.dir = "Forward", d.cur \in Steps, d.row[d.cur].fwd # "Pending",
         Sound(d)
  PROVE  Told(EnterCompensation(d))
  <1> DEFINE plan == PlanOf(d)
             t(c) == MarkPlan(Advance(d, "Compensating", "Compensating", c), plan)
  <1>1. CASE ~Freezable(d)
    BY <1>1, EscalateSound DEF EnterCompensation
  <1>2. ASSUME Freezable(d), NEW c \in 0 .. N
        PROVE  /\ Ready(t(c)) /\ Body(t(c)) /\ t(c).dir = "Compensating" /\ t(c).frozen
               /\ Succeeded(t(c)) = Succeeded(d) /\ Sound(t(c))
    <2> DEFINE u == t(c)
    <2>1. /\ Ready(u) /\ Body(u) /\ u.status = "Compensating" /\ u.dir = "Compensating"
          /\ u.frozen /\ u.cmds = d.cmds
          /\ \A s \in Steps : /\ u.row[s].fwd = d.row[s].fwd
                              /\ u.row[s].comp = "Succeeded" <=> d.row[s].comp = "Succeeded"
                              /\ u.row[s].comp = "Unknown" => d.row[s].comp = "Unknown"
      BY <1>2, FreezeBody DEF Shape
    <2> HIDE DEF u
    <2>2. Sound(u)
      BY <2>1, MayReverse, SoundReads
    <2>3. Succeeded(u) = Succeeded(d)
      BY <2>1 DEF Succeeded
    <2> QED BY <2>1, <2>2, <2>3 DEF u
  <1>3. CASE Freezable(d) /\ plan = <<>>
    <2>1. 0 \in 0 .. N
      BY Named
    <2>2. EnterCompensation(d) = Converge(t(0))
      BY <1>3 DEF EnterCompensation
    <2> HIDE DEF t, plan
    <2> QED BY <1>2, <1>3, <2>1, <2>2, ConvergeSound
  <1>4. CASE Freezable(d) /\ plan # <<>>
    <2>1. PICK k \in Steps : Front(d, k)
      BY DEF Shape, Body
    <2>2. PICK m \in Nat : m <= N /\ Succeeded(d) = 1 .. m
      BY <2>1, FrontPrefix
    <2>3. plan \in Seq(Steps) /\ Len(plan) = m /\ \A i \in 1 .. m : plan[i] = m + 1 - i
      BY <2>2, PlanOfPrefix
    <2>4. m # 0 /\ 1 \in 1 .. m
      BY <1>4, <2>3
    <2>5. plan[1] = m /\ m \in Succeeded(d)
      BY <2>2, <2>3, <2>4
    <2>6. m \in Steps /\ m \in 0 .. N /\ Steps \subseteq Int
      BY <2>5, Named DEF Succeeded, Steps
    <2> DEFINE u == t(m)
    <2>7. EnterCompensation(d) = Issue(u, m, "Compensate", FALSE)
      BY <1>4, <2>5 DEF EnterCompensation
    <2>8. Ready(u) /\ Body(u) /\ u.frozen /\ u.dir = "Compensating" /\ Succeeded(u) = Succeeded(d) /\ Sound(u)
      BY <1>2, <1>4, <2>6
    <2> HIDE DEF u, plan, t
    <2>9. Later(m)
      <3>1. ASSUME NEW x \in Steps, m < x, world[x].done PROVE FALSE
        <4>1. x \in 1 .. m
          BY <2>2, <2>8, <3>1, DoneSucceeded
        <4> QED BY <2>6, <3>1, <4>1
      <3> QED BY <3>1 DEF Later
    <2>10. "Compensate" \in Phases
      BY DEF Phases
    <2>11. Sound(Issue(u, m, "Compensate", FALSE))
      BY <2>6, <2>8, <2>9, <2>10, MayReverse, IssueSound
    <2> QED BY <2>7, <2>11 DEF Told
  <1> QED BY <1>1, <1>3, <1>4

LEMMA LateSuccessSound ==
  ASSUME NEW d, Ready(d), Shape(d), NEW s \in Steps, d.dir = "Forward", d.cur \in Steps,
         d.row[d.cur].fwd # "Pending", Sound(d)
  PROVE  Told(LateSuccess(d, s))
  BY ProceedForwardSound, EnterCompensationSound DEF LateSuccess
-----------------------------------------------------------------------------
(* A result that reports what is so leaves the journal true.  What a query *)
(* is about depends on the direction it is read in.                        *)
AnswerTrue(d, s, r) ==
  /\ r.ph = "Execute" /\ r.out \in {"Succeeded", "Rejected"} => gate[s].fwd = r.out
  /\ r.ph = "Cancel" => /\ r.out = "LateSucceeded" => gate[s].fwd = "Succeeded"
                        /\ r.out = "LateRejected" => gate[s].fwd = "Rejected"
                        /\ r.out = "Confirmed" => gate[s].fwd = "Cancelled"
  /\ r.ph = "Compensate" /\ r.out = "Succeeded" => world[s].undone
  /\ r.ph = "Resolve" /\ d.dir = "Forward" /\ r.out \in {"Succeeded", "Rejected"} => gate[s].fwd = r.out
  /\ r.ph = "Resolve" /\ d.dir = "Compensating" /\ r.out = "Succeeded" => world[s].undone
  /\ r.ph = "Compensate" \/ (r.ph = "Resolve" /\ d.dir = "Compensating") => Reversing(s)

LEMMA AnswerPatch ==
  ASSUME NEW d, d.dir \in Directions, NEW s \in Steps, NEW r, r.ph \in Phases, r.out \in Outcomes[r.ph],
         AnswerTrue(d, s, r)
  PROVE  Patches(DeferredPatch(d, r.ph, r.out)) /\ PatchTrue(s, DeferredPatch(d, r.ph, r.out))
  <1> DEFINE p == DeferredPatch(d, r.ph, r.out)
             o == r.out
             ph == r.ph
  <1>1. /\ Patches(p)
        /\ ph = "Execute" => "comp" \notin DOMAIN p /\ "fwd" \in DOMAIN p /\ p["fwd"] = o
        /\ ph = "Cancel" =>
              /\ "comp" \notin DOMAIN p
              /\ o = "Confirmed" => "fwd" \in DOMAIN p /\ p["fwd"] = "Cancelled"
              /\ o = "LateSucceeded" => "fwd" \in DOMAIN p /\ p["fwd"] = "Succeeded"
              /\ o = "LateRejected" => "fwd" \in DOMAIN p /\ p["fwd"] = "Rejected"
              /\ o = "LateHalted" => "fwd" \in DOMAIN p /\ p["fwd"] = "Halted"
              /\ o = "ResolutionPending" => "fwd" \notin DOMAIN p
        /\ ph = "Compensate" => "fwd" \notin DOMAIN p /\ "comp" \in DOMAIN p /\ p["comp"] = o
        /\ ph = "Resolve" =>
              /\ d.dir = "Forward" => "comp" \notin DOMAIN p /\ "fwd" \in DOMAIN p /\ p["fwd"] = o
              /\ d.dir # "Forward" => /\ "fwd" \notin DOMAIN p /\ "comp" \in DOMAIN p
                                      /\ p["comp"] = IF o = "Rejected" THEN "Pending" ELSE o
    BY DeferredPatches
  <1> HIDE DEF p
  <1>2. CASE ph = "Execute"
    <2>1. o \in {"Succeeded", "Rejected", "Unknown", "Halted"}
      BY <1>2 DEF Outcomes
    <2>2. PatchTrue(s, p)
      BY <1>1, <1>2, <2>1 DEF PatchTrue, AnswerTrue, Certain
    <2> QED BY <1>1, <2>2 DEF p
  <1>3. CASE ph = "Cancel"
    <2>1. o \in {"Confirmed", "LateSucceeded", "LateRejected", "LateHalted", "ResolutionPending"}
      BY <1>3 DEF Outcomes
    <2>2. PatchTrue(s, p)
      BY <1>1, <1>3, <2>1 DEF PatchTrue, AnswerTrue, Certain
    <2> QED BY <1>1, <2>2 DEF p
  <1>4. CASE ph = "Compensate"
    <2>1. PatchTrue(s, p)
      BY <1>1, <1>4 DEF PatchTrue, AnswerTrue
    <2> QED BY <1>1, <2>1 DEF p
  <1>5. CASE ph = "Resolve"
    <2>1. o \in {"Succeeded", "Rejected", "Unknown", "Halted"} /\ d.dir \in {"Forward", "Compensating"}
      BY <1>5 DEF Outcomes, Directions
    <2>2. PatchTrue(s, p)
      BY <1>1, <1>5, <2>1 DEF PatchTrue, AnswerTrue, Certain
    <2> QED BY <1>1, <2>2 DEF p
  <1> QED BY <1>2, <1>3, <1>4, <1>5 DEF Phases

(* A projected patch and a cancelled timer.                                *)
LEMMA ProjectedSound ==
  ASSUME NEW d, Ready(d), Shape(d), Sound(d), NEW s \in Steps, NEW p, Patches(p), PatchTrue(s, p),
         d.cmds[s] # <<>>
  PROVE  LET b == Projected(d, s, p) IN
         /\ Merged(d, b, s, p) /\ Sound(b)
         /\ \A ph : LET e == CancelTimer(b, s, ph) IN
                    Ready(e) /\ Shape(e) /\ Sound(e) /\ Place(e) = Place(b) /\ Core(e) = Core(b)
         /\ LET e == CancelResolutionTimers(b, s) IN
            Ready(e) /\ Shape(e) /\ Sound(e) /\ Place(e) = Place(b) /\ Core(e) = Core(b)
  <1> DEFINE b == Projected(d, s, p)
  <1>1. Merged(d, b, s, p)
    BY ProjectedKeeps
  <1> HIDE DEF b
  <1>2. Sound(b) /\ Ready(b) /\ Shape(b)
    BY <1>1, MergedSound DEF Merged
  <1>3. ASSUME NEW ph
        PROVE  LET e == CancelTimer(b, s, ph) IN
               Ready(e) /\ Shape(e) /\ Sound(e) /\ Place(e) = Place(b) /\ Core(e) = Core(b)
    <2> DEFINE e == CancelTimer(b, s, ph)
    <2>1. Ready(e) /\ Shape(e) /\ Place(e) = Place(b) /\ Core(e) = Core(b)
      BY <1>2, CancelTimerKeeps
    <2> HIDE DEF e
    <2>2. Sound(e)
      BY <1>2, <2>1, SoundPlace
    <2> QED BY <2>1, <2>2 DEF e
  <1>4. LET e == CancelResolutionTimers(b, s) IN
        Ready(e) /\ Shape(e) /\ Sound(e) /\ Place(e) = Place(b) /\ Core(e) = Core(b)
    <2> DEFINE e == CancelResolutionTimers(b, s)
    <2>1. Ready(e) /\ Place(e) = Place(b) /\ Core(e) = Core(b)
      BY <1>2, CancelResolutionTimersDoes
    <2> HIDE DEF e
    <2>2. Sound(e) /\ Shape(e)
      BY <1>2, <2>1, SoundPlace, ShapeReads
    <2> QED BY <2>1, <2>2 DEF e
  <1> QED BY <1>1, <1>2, <1>3, <1>4 DEF b

LEMMA DeferSound ==
  ASSUME NEW d, Ready(d), Shape(d), Sound(d), NEW s \in Steps, NEW r, r.ph \in Phases,
         r.out \in Outcomes[r.ph], d.cmds[s] # <<>>, AnswerTrue(d, s, r)
  PROVE  Told(Defer(d, s, r))
  <1> DEFINE p == DeferredPatch(d, r.ph, r.out)
             t == CancelTimer(Projected(d, s, p), s, r.ph)
  <1>0. d.dir \in Directions
    BY DEF Ready, DbType
  <1>1. Patches(p) /\ PatchTrue(s, p)
    BY <1>0, AnswerPatch
  <1> HIDE DEF p
  <1>2. Sound(t)
    BY <1>1, ProjectedSound
  <1>3. Told(t) /\ Told(d) /\ Told(Conflicted(d))
    BY <1>2, EscalateSound DEF Told
  <1> HIDE DEF t
  <1>4. Defer(d, s, r) \in {t, d, Conflicted(d)}
    BY DEF Defer, p, t
  <1> QED BY <1>3, <1>4

LEMMA OnExecuteSound ==
  ASSUME NEW d, Ready(d), Shape(d), Sound(d), NEW s \in Steps, NEW r, r.n \in Nat, r.ph = "Execute",
         r.out \in Outcomes["Execute"], d.status = "Running", d.cur = s, AnswerTrue(d, s, r)
  PROVE  Told(OnExecute(d, s, r))
  <1> DEFINE p == [fwd |-> r.out]
             b == Patch(d, s, p)
             e == CancelTimer(b, s, "Execute")
  <1>1. d.dir = "Forward" /\ d.cmds[s] # <<>> /\ "Forward" \in Directions
    BY CurrentAsked DEF Shape, Body, StatusShape, Directions
  <1>2. r.out \in {"Succeeded", "Rejected", "Unknown", "Halted"}
    BY DEF Outcomes
  <1>3. Patches(p) /\ "fwd" \in DOMAIN p /\ p["fwd"] = r.out /\ "comp" \notin DOMAIN p
    BY <1>2 DEF Patches, Columns
  <1> HIDE DEF p
  <1>a. PatchTrue(s, p)
    BY <1>2, <1>3 DEF PatchTrue, AnswerTrue, Certain
  <1>4. Ready(b) /\ Shape(b) /\ Place(b) = Place(d) /\ b.row[s].fwd = r.out
    BY <1>1, <1>3, PatchKeeps
  <1>b. Sound(b)
    BY <1>3, <1>a, PatchSound
  <1> HIDE DEF b
  <1>5. Ready(e) /\ Shape(e) /\ Place(e) = Place(b) /\ Core(e) = Core(b)
    BY <1>4, CancelTimerKeeps
  <1> HIDE DEF e
  <1>c. Sound(e)
    BY <1>b, <1>5, SoundPlace
  <1>6. e.dir = "Forward" /\ e.cur = s /\ e.row[s].fwd = r.out
    BY <1>1, <1>4, <1>5 DEF Place, Core
  <1>7. Told(ProceedForward(e)) /\ Told(Escalate(e))
    BY <1>5, <1>6, <1>c, ProceedForwardSound, EscalateSound
  <1>8. r.out # "Pending" => Told(EnterCompensation(e))
    BY <1>5, <1>6, <1>c, EnterCompensationSound
  <1>9. Told(EnterWaiting(d, s, "Forward", "Execute", r.n))
    BY <1>1, EnterWaitingSound DEF MayAsk
  <1> QED BY <1>2, <1>7, <1>8, <1>9 DEF OnExecute, e, b, p

LEMMA OnCancelSound ==
  ASSUME NEW d, Ready(d), Shape(d), Sound(d), NEW s \in Steps, NEW r, r.n \in Nat, r.ph = "Cancel",
         r.out \in Outcomes["Cancel"], d.status = "Cancelling", d.cur = s, AnswerTrue(d, s, r)
  PROVE  Told(OnCancel(d, s, r))
  <1> DEFINE p == DeferredPatch(d, "Cancel", r.out)
             b == Projected(d, s, p)
             e == CancelTimer(b, s, "Cancel")
  <1>1. d.dir = "Forward" /\ d.cmds[s] # <<>> /\ "Forward" \in Directions /\ "Cancel" \in Phases
    BY CurrentAsked DEF Shape, Body, StatusShape, Directions, Phases
  <1>2. r.out \in {"Confirmed", "LateSucceeded", "LateRejected", "LateHalted", "ResolutionPending"}
    BY DEF Outcomes
  <1>3. r.out \in {"Confirmed", "LateSucceeded", "LateRejected"} => "fwd" \in DOMAIN p /\ p["fwd"] # "Pending"
    BY <1>1, DeferredPatches
  <1>4. Patches(p) /\ PatchTrue(s, p)
    BY <1>1, AnswerPatch
  <1>5. OnCancel(d, s, r) = Conflicted(d) \/
          CASE r.out \in {"Confirmed", "LateRejected"} -> OnCancel(d, s, r) = EnterCompensation(e)
            [] r.out = "LateSucceeded" -> OnCancel(d, s, r) = LateSuccess(e, s)
            [] r.out = "LateHalted" -> OnCancel(d, s, r) = Escalate(e)
            [] r.out = "ResolutionPending" -> OnCancel(d, s, r) = EnterWaiting(e, s, "Forward", "Cancel", r.n)
    BY <1>2 DEF OnCancel
  <1> HIDE DEF p
  <1>6. Merged(d, b, s, p) /\ Ready(e) /\ Shape(e) /\ Sound(e) /\ Place(e) = Place(b) /\ Core(e) = Core(b)
    BY <1>1, <1>4, ProjectedSound
  <1> HIDE DEF b, e
  <1>7. Place(b) = Place(d) /\ (r.out \in {"Confirmed", "LateSucceeded", "LateRejected"} => b.row[s].fwd # "Pending")
    BY <1>3, <1>6 DEF Merged
  <1>8. e.dir = "Forward" /\ e.cur = s /\ e.row[s].fwd = b.row[s].fwd
    BY <1>1, <1>6, <1>7 DEF Place, Core
  <1>9. r.out \in {"Confirmed", "LateRejected"} => Told(EnterCompensation(e))
    BY <1>6, <1>7, <1>8, EnterCompensationSound
  <1>10. r.out = "LateSucceeded" => Told(LateSuccess(e, s))
    BY <1>6, <1>7, <1>8, LateSuccessSound
  <1>11. Told(EnterWaiting(e, s, "Forward", "Cancel", r.n))
    BY <1>1, <1>6, <1>8, EnterWaitingSound DEF MayAsk
  <1>12. Told(Escalate(e)) /\ Told(Conflicted(d))
    BY <1>6, EscalateSound
  <1> QED BY <1>2, <1>5, <1>9, <1>10, <1>11, <1>12

LEMMA OnCompensateSound ==
  ASSUME NEW d, Ready(d), Shape(d), Sound(d), NEW s \in Steps, NEW r, r.n \in Nat, r.ph = "Compensate",
         r.out \in Outcomes["Compensate"], d.status = "Compensating", d.cur = s, AnswerTrue(d, s, r)
  PROVE  Told(OnCompensate(d, s, r))
  <1> DEFINE p == [comp |-> r.out]
             b == CancelTimer(d, s, "Compensate")
             e == Patch(b, s, p)
  <1>1. d.dir = "Compensating" /\ d.cmds[s] # <<>> /\ "Compensating" \in Directions
    BY CurrentAsked DEF Shape, Body, StatusShape, Directions
  <1>2. r.out \in {"Succeeded", "Unknown", "Halted"}
    BY DEF Outcomes
  <1>3. Patches(p) /\ "fwd" \notin DOMAIN p /\ "comp" \in DOMAIN p /\ p["comp"] = r.out
    BY <1>2 DEF Patches, Columns
  <1> HIDE DEF p
  <1>a. PatchTrue(s, p)
    BY <1>3 DEF PatchTrue, AnswerTrue
  <1>4. Ready(b) /\ Shape(b) /\ Place(b) = Place(d) /\ Core(b) = Core(d)
    BY CancelTimerKeeps
  <1> HIDE DEF b
  <1>b. Sound(b)
    BY <1>4, SoundPlace
  <1>5. b.cmds[s] # <<>> /\ b.dir = "Compensating" /\ b.cur = s
    BY <1>1, <1>4 DEF Core, Place
  <1>6. Ready(e) /\ Shape(e) /\ Place(e) = Place(b)
    BY <1>3, <1>4, <1>5, PatchKeeps
  <1>c. Sound(e)
    BY <1>3, <1>4, <1>a, <1>b, PatchSound
  <1> HIDE DEF e
  <1>7. e.dir = "Compensating" /\ e.cur = s
    BY <1>5, <1>6 DEF Place
  <1>8. Told(ContinueCompensation(e)) /\ Told(Escalate(e))
    BY <1>6, <1>7, <1>c, ContinueCompensationSound, EscalateSound
  <1>9. Told(EnterWaiting(e, s, "Compensating", "Compensate", r.n))
    <2>1. MayAsk(e, s, "Compensating")
      BY DEF AnswerTrue, MayAsk
    <2> QED BY <1>1, <1>6, <1>c, <2>1, EnterWaitingSound
  <1> QED BY <1>2, <1>8, <1>9 DEF OnCompensate, e, b, p

LEMMA SettleCommittedSound ==
  ASSUME NEW d, Ready(d), Shape(d), Sound(d), NEW s \in Steps, d.cur = s, CommittedSuccess(d, s)
  PROVE  Told(SettleCommitted(d, s))
  <1> DEFINE p == IF d.dir = "Forward" THEN [res |-> "Succeeded", fwd |-> "Succeeded"]
                  ELSE [res |-> "Succeeded", comp |-> "Succeeded"]
             b == Projected(d, s, p)
             e == CancelResolutionTimers(b, s)
  <1>1. d.cmds[s] # <<>> /\ d.dir \in {"Forward", "Compensating"}
    BY CurrentAsked
  <1>2. Patches(p) /\ (d.dir = "Forward" => "fwd" \in DOMAIN p /\ p["fwd"] = "Succeeded")
    BY DEF Patches, Columns
  <1>3. /\ "fwd" \in DOMAIN p => d.dir = "Forward" /\ p["fwd"] = "Succeeded"
        /\ "comp" \in DOMAIN p => d.dir # "Forward"
    OBVIOUS
  <1> HIDE DEF p
  <1>4. PatchTrue(s, p)
    <2>1. "comp" \in DOMAIN p => p["comp"] = "Succeeded"
      BY <1>1 DEF p
    <2> QED BY <1>3, <2>1 DEF PatchTrue, CommittedSuccess, Sound, Truth, RowTrue, Certain
  <1>5. Merged(d, b, s, p) /\ Ready(e) /\ Shape(e) /\ Sound(e) /\ Place(e) = Place(b) /\ Core(e) = Core(b)
    BY <1>1, <1>2, <1>4, ProjectedSound
  <1> HIDE DEF b, e
  <1>6. Place(b) = Place(d) /\ (d.dir = "Forward" => b.row[s].fwd # "Pending")
    BY <1>2, <1>5 DEF Merged
  <1>7. e.dir = d.dir /\ e.cur = s /\ e.row[s].fwd = b.row[s].fwd
    BY <1>5, <1>6 DEF Place, Core
  <1>8. d.dir = "Forward" => Told(LateSuccess(e, s))
    BY <1>5, <1>6, <1>7, LateSuccessSound
  <1>9. d.dir = "Compensating" => Told(ContinueCompensation(e))
    BY <1>5, <1>7, ContinueCompensationSound
  <1>10. Told(Conflicted(d))
    BY EscalateSound
  <1> QED BY <1>1, <1>8, <1>9, <1>10 DEF SettleCommitted, p, b, e

LEMMA OnResolveSound ==
  ASSUME NEW d, Ready(d), Shape(d), Sound(d), NEW s \in Steps, NEW r, r.ph = "Resolve",
         r.out \in Outcomes["Resolve"], d.status = "WaitingResolution", d.cur = s, AnswerTrue(d, s, r)
  PROVE  Told(OnResolve(d, s, r))
  <1> DEFINE p == IF r.out = "Halted" THEN [res |-> "Halted"] ELSE DeferredPatch(d, "Resolve", r.out)
             b == Projected(d, s, p)
             e == CancelResolutionTimers(b, s)
  <1>1. d.cmds[s] # <<>> /\ d.dir \in {"Forward", "Compensating"} /\ d.dir \in Directions
    BY CurrentAsked DEF Directions
  <1>2. r.out \in {"Succeeded", "Rejected", "Unknown", "Halted"} /\ "Resolve" \in Phases
    BY DEF Outcomes, Phases
  <1>3. /\ Patches(p) /\ PatchTrue(s, p)
        /\ d.dir = "Forward" /\ r.out # "Halted" => "fwd" \in DOMAIN p /\ p["fwd"] = r.out
    <2>1. CASE r.out = "Halted"
      <3>1. p = [res |-> "Halted"]
        BY <2>1
      <3> HIDE DEF p
      <3> QED BY <2>1, <3>1 DEF Patches, Columns, PatchTrue
    <2>2. CASE r.out # "Halted"
      <3>1. p = DeferredPatch(d, "Resolve", r.out)
        BY <2>2
      <3> HIDE DEF p
      <3>2. Patches(p) /\ PatchTrue(s, p)
        BY <1>1, <1>2, <3>1, AnswerPatch
      <3> QED BY <1>2, <2>2, <3>1, <3>2, DeferredPatches
    <2> QED BY <2>1, <2>2
  <1> HIDE DEF p
  <1>4. /\ Merged(d, b, s, p) /\ Sound(b)
        /\ Ready(e) /\ Shape(e) /\ Sound(e) /\ Place(e) = Place(b) /\ Core(e) = Core(b)
    BY <1>1, <1>3, ProjectedSound
  <1> HIDE DEF b, e
  <1>5. /\ Ready(b) /\ Place(b) = Place(d)
        /\ d.dir = "Forward" /\ r.out # "Halted" => b.row[s].fwd # "Pending"
    BY <1>2, <1>3, <1>4 DEF Merged
  <1>8. e.dir = d.dir /\ e.cur = s /\ e.row[s].fwd = b.row[s].fwd
    BY <1>4, <1>5 DEF Place, Core
  <1>9. CASE CommittedSuccess(d, s)
    BY <1>9, SettleCommittedSound DEF OnResolve
  <1>10. CASE ~CommittedSuccess(d, s) /\ r.out = "Unknown"
    <2>1. MayAsk(d, s, d.dir)
      BY <1>1 DEF MayAsk, Sound, Truth, QueryTrue
    <2> QED BY <1>10, <2>1, ReissueSound DEF OnResolve
  <1>11. CASE ~CommittedSuccess(d, s) /\ r.out # "Unknown" /\ Conflicts(d, s, p)
    BY <1>11, EscalateSound DEF OnResolve, p
  <1>12. CASE ~CommittedSuccess(d, s) /\ r.out = "Halted" /\ ~Conflicts(d, s, p)
    <2>1. OnResolve(d, s, r) = Escalate(b)
      BY <1>12 DEF OnResolve, p, b
    <2> QED BY <1>4, <1>5, <2>1, EscalateSound
  <1>13. CASE ~CommittedSuccess(d, s) /\ r.out \in {"Succeeded", "Rejected"} /\ ~Conflicts(d, s, p)
    <2>1. CASE d.dir = "Forward" /\ r.out = "Succeeded"
      <3>1. OnResolve(d, s, r) = ProceedForward(e)
        BY <1>13, <2>1 DEF OnResolve, p, b, e
      <3> QED BY <1>4, <1>8, <2>1, <3>1, ProceedForwardSound
    <2>2. CASE d.dir = "Forward" /\ r.out = "Rejected"
      <3>1. OnResolve(d, s, r) = EnterCompensation(e)
        BY <1>13, <2>2 DEF OnResolve, p, b, e
      <3> QED BY <1>4, <1>5, <1>8, <2>2, <3>1, EnterCompensationSound
    <2>3. CASE d.dir = "Compensating" /\ r.out = "Succeeded"
      <3>1. OnResolve(d, s, r) = ContinueCompensation(e)
        BY <1>13, <2>3 DEF OnResolve, p, b, e
      <3> QED BY <1>4, <1>8, <2>3, <3>1, ContinueCompensationSound
    <2>4. CASE d.dir = "Compensating" /\ r.out = "Rejected"
      <3>1. OnResolve(d, s, r) = RetryDenied(e, s)
        BY <1>13, <2>4 DEF OnResolve, p, b, e
      <3>2. Compensates(e, s)
        BY <1>4, <1>8, <2>4, Named DEF Shape, CurrentShape
      <3> QED BY <1>4, <3>1, <3>2, RetryDeniedSound
    <2> QED BY <1>1, <1>13, <2>1, <2>2, <2>3, <2>4
  <1> QED BY <1>2, <1>9, <1>10, <1>11, <1>12, <1>13

LEMMA HandleResultSound ==
  ASSUME NEW d, Ready(d), Shape(d), Sound(d), NEW s \in Steps, NEW r, r.ph \in Phases, r.n \in Nat,
         r.out \in Outcomes[r.ph], d.cmds[s] # <<>>, AnswerTrue(d, s, r)
  PROVE  Told(HandleResult(d, s, r))
  <1>1. CASE d.status # Awaits[r.ph] \/ d.cur # s
    BY <1>1, DeferSound DEF HandleResult
  <1>2. CASE d.status = Awaits[r.ph] /\ d.cur = s
    <2>1. CASE r.ph = "Execute"
      <3>1. d.status = "Running" /\ HandleResult(d, s, r) = OnExecute(d, s, r)
        BY <1>2, <2>1 DEF Awaits, HandleResult
      <3> QED BY <1>2, <2>1, <3>1, OnExecuteSound
    <2>2. CASE r.ph = "Cancel"
      <3>1. d.status = "Cancelling" /\ HandleResult(d, s, r) = OnCancel(d, s, r)
        BY <1>2, <2>2 DEF Awaits, HandleResult
      <3> QED BY <1>2, <2>2, <3>1, OnCancelSound
    <2>3. CASE r.ph = "Compensate"
      <3>1. d.status = "Compensating" /\ HandleResult(d, s, r) = OnCompensate(d, s, r)
        BY <1>2, <2>3 DEF Awaits, HandleResult
      <3> QED BY <1>2, <2>3, <3>1, OnCompensateSound
    <2>4. CASE r.ph = "Resolve"
      <3>1. d.status = "WaitingResolution" /\ HandleResult(d, s, r) = OnResolve(d, s, r)
        BY <1>2, <2>4 DEF Awaits, HandleResult
      <3> QED BY <1>2, <2>4, <3>1, OnResolveSound
    <2> QED BY <2>1, <2>2, <2>3, <2>4 DEF Phases
  <1> QED BY <1>1, <1>2
-----------------------------------------------------------------------------
(* Timers and management operations leave the journal true.                *)
LEMMA OnStepTimeoutSound ==
  ASSUME NEW d, Ready(d), Sound(d), NEW s \in Steps, NEW n \in Nat, d.dir = "Forward"
  PROVE  Told(OnStepTimeout(d, s, n))
  <1> DEFINE p == [fwd |-> "Unknown", res |-> "Pending"]
             q == [fwd |-> "TimedOut"]
  <1>0. "Forward" \in Directions /\ "Cancelling" \in Automatic /\ "Cancel" \in Phases
    BY DEF Directions, Automatic, Phases
  <1>1. Patches(p) /\ Patches(q) /\ PatchTrue(s, p) /\ PatchTrue(s, q)
    BY DEF Patches, Columns, PatchTrue, Certain
  <1>2. OnStepTimeout(d, s, n) \in {AskResolution(Patch(d, s, p), s, "Forward", n, FALSE),
          Issue(Advance(Patch(d, s, q), "Cancelling", "Forward", s), s, "Cancel", FALSE)}
    BY DEF OnStepTimeout
  <1> HIDE DEF p, q
  <1>3. ASSUME NEW x, Patches(x), PatchTrue(s, x)
        PROVE  Ready(Patch(d, s, x)) /\ Sound(Patch(d, s, x)) /\ Patch(d, s, x).dir = "Forward"
    <2>1. d.row[s] \in RowType
      BY DEF Ready, DbType
    <2>2. Written(d.row[s], x) \in RowType
      BY <1>3, <2>1, WrittenRow
    <2>3. Place(Patch(d, s, x)) = Place(d)
      BY <2>2, PatchDoes
    <2>4. Patch(d, s, x).dir = "Forward"
      BY <2>3 DEF Place
    <2> QED BY <1>3, <2>2, <2>4, PatchDoes, PatchSound
  <1>4. Told(AskResolution(Patch(d, s, p), s, "Forward", n, FALSE))
    <2> DEFINE x == Patch(d, s, p)
    <2>1. Ready(x) /\ Sound(x) /\ x.dir = "Forward"
      BY <1>1, <1>3
    <2> HIDE DEF x
    <2>2. Told(AskResolution(x, s, "Forward", n, FALSE))
      BY <1>0, <2>1, AskResolutionSound DEF MayAsk
    <2> QED BY <2>2 DEF x
  <1>5. Told(Issue(Advance(Patch(d, s, q), "Cancelling", "Forward", s), s, "Cancel", FALSE))
    <2> DEFINE x == Patch(d, s, q)
    <2>1. Ready(x) /\ Sound(x) /\ x.dir = "Forward"
      BY <1>1, <1>3
    <2> HIDE DEF x
    <2>2. MayEnter(x, "Cancelling", "Forward", s) /\ MayIssue("Forward", s, "Cancel")
      BY <2>1 DEF MayEnter, MayIssue
    <2>3. Told(Issue(Advance(x, "Cancelling", "Forward", s), s, "Cancel", FALSE))
      BY <1>0, <2>1, <2>2, AdvanceIssueSound
    <2> QED BY <2>3 DEF x
  <1> QED BY <1>2, <1>4, <1>5

LEMMA OnPhaseRetrySound ==
  ASSUME NEW d, Ready(d), Shape(d), Sound(d), NEW s \in Steps, NEW ph \in Phases, d.status = Awaits[ph],
         d.cur = s
  PROVE  Told(OnPhaseRetry(d, s, ph))
  <1>1. ph = "Compensate" => Later(s) /\ d.dir = "Compensating"
    <2> SUFFICES ASSUME ph = "Compensate" PROVE Later(s) /\ d.dir = "Compensating"
      OBVIOUS
    <2>1. d.dir = "Compensating"
      BY DEF Awaits, Shape, Body, StatusShape
    <2>2. Compensates(d, s)
      BY <2>1, Named DEF Shape, CurrentShape
    <2> QED BY <2>1, <2>2, AskedLater
  <1>2. d.status \in Automatic /\ d.dir \in Directions
    BY Named DEF Ready, DbType
  <1>a. MayEnter(d, d.status, d.dir, s)
    BY DEF MayEnter, Sound, Truth, QueryTrue
  <1>b. MayIssue(d.dir, s, ph)
    <2>1. ph = "Resolve" => d.status = "WaitingResolution"
      BY DEF Awaits
    <2> QED BY <1>1, <1>2, <2>1 DEF MayIssue, Directions, Sound, Truth, QueryTrue
  <1>3. Told(Issue(Advance(d, d.status, d.dir, s), s, ph, FALSE))
    BY <1>2, <1>a, <1>b, AdvanceIssueSound
  <1> QED BY <1>3, EscalateSound DEF OnPhaseRetry

LEMMA PhaseTimeoutSound ==
  ASSUME NEW d, Ready(d), Shape(d), Sound(d), d.timer # NoTimer
  PROVE  Told(OnPhaseTimeout([d EXCEPT !.timer = NoTimer], d.timer))
  <1> DEFINE e == [d EXCEPT !.timer = NoTimer]
             u == d.timer
  <1>1. u.s \in Steps /\ u.ph \in Phases /\ u.n \in Nat
    BY DEF Ready, DbType, TimerType
  <1>2. Ready(e) /\ Place(e) = Place(d) /\ Core(e) = Core(d)
    BY Named DEF Ready, DbType, Place, Core
  <1> HIDE DEF e, u
  <1>3. Shape(e) /\ Sound(e)
    BY <1>2, ShapeReads, SoundPlace
  <1>4. e.status = Awaits[u.ph] /\ u.ph = "Execute" => Told(OnStepTimeout(e, u.s, u.n))
    <2>1. e.status = Awaits[u.ph] /\ u.ph = "Execute" => e.dir = "Forward"
      BY <1>3 DEF Awaits, Shape, Body, StatusShape
    <2> QED BY <1>1, <1>2, <1>3, <2>1, OnStepTimeoutSound
  <1>5. e.status = Awaits[u.ph] /\ e.cur = u.s => Told(OnPhaseRetry(e, u.s, u.ph))
    BY <1>1, <1>2, <1>3, OnPhaseRetrySound
  <1>6. Told(e)
    BY <1>3 DEF Told
  <1>7. Told(OnPhaseTimeout(e, u))
    BY <1>4, <1>5, <1>6 DEF OnPhaseTimeout
  <1> QED BY <1>7 DEF e, u

LEMMA BudgetSound ==
  ASSUME NEW d, Ready(d), Sound(d), NEW b
  PROVE  Told(OnBudget([d EXCEPT !.budget = @ \ {b}]))
  <1> DEFINE e == [d EXCEPT !.budget = @ \ {b}]
  <1>1. Ready(e) /\ Place(e) = Place(d) /\ Core(e) = Core(d)
    BY DEF Ready, DbType, Place, Core
  <1> HIDE DEF e
  <1>2. Sound(e)
    BY <1>1, SoundPlace
  <1>3. Told(Escalate(e)) /\ Told(e)
    BY <1>1, <1>2, EscalateSound DEF Told
  <1>4. Told(OnBudget(e))
    BY <1>3 DEF OnBudget
  <1> QED BY <1>4 DEF e

LEMMA DeadlineSound ==
  ASSUME NEW d, Ready(d), Shape(d), Timed(d), Sound(d)
  PROVE  Told(OnDeadline([d EXCEPT !.deadline = FALSE]))
  <1> DEFINE e == [d EXCEPT !.deadline = FALSE]
  <1>1. Ready(e) /\ Place(e) = Place(d) /\ Core(e) = Core(d)
    BY DEF Ready, DbType, Place, Core
  <1> HIDE DEF e
  <1>2. Sound(e) /\ e.status = d.status /\ e.dir = d.dir /\ e.cur = d.cur
    BY <1>1, SoundPlace DEF Place
  <1>3. Told(Escalate(e)) /\ Told(e)
    BY <1>1, <1>2, EscalateSound DEF Told
  <1>4. e.status = "Running" => Told(OnStepTimeout(e, e.cur, 1))
    <2>1. "Running" \in Automatic /\ 1 \in Nat
      BY Named
    <2>2. e.status = "Running" => e.cur \in Steps /\ e.dir = "Forward"
      BY <1>2, <2>1 DEF Timed, Shape, Body, StatusShape
    <2> QED BY <1>1, <1>2, <2>1, <2>2, OnStepTimeoutSound
  <1>5. Told(OnDeadline(e))
    BY <1>3, <1>4 DEF OnDeadline
  <1> QED BY <1>5 DEF e

LEMMA PauseSound ==
  ASSUME NEW d, Ready(d), Sound(d), NEW b \in BOOLEAN
  PROVE  Told([d EXCEPT !.paused = b])
  <1> DEFINE e == [d EXCEPT !.paused = b]
  <1>1. Place(e) = Place(d) /\ Core(e) = Core(d)
    BY DEF Ready, DbType, Place, Core
  <1> HIDE DEF e
  <1>2. Told(e)
    BY <1>1, SoundPlace DEF Told
  <1> QED BY <1>2 DEF e

LEMMA RetryCompensationSound ==
  ASSUME NEW d, Ready(d), Shape(d), Sound(d), PlanInStep(d, TRUE)
  PROVE  Told(OnRetryCompensation(d))
  <1>1. d.frozen /\ d.dir = "Compensating" /\ d.plan = PlanOf(d) /\ Body(d)
    BY DEF PlanInStep, PlanHolds, Shape, Body, PlanShape
  <1>2. CASE Uncompensated(d) = {}
    <2>1. OnRetryCompensation(d) = Converge(Advance(d, "Compensating", "Compensating", 0))
      BY <1>2 DEF OnRetryCompensation
    <2> QED BY <1>1, <2>1, ConvergeFromSound
  <1>3. CASE Uncompensated(d) # {}
    <2> DEFINE s == NextCompensation(d)
               e == ReopenCompensation(d, s)
    <2>1. s \in Steps
      BY <1>1, <1>3, NextSucceeded
    <2>2. OnRetryCompensation(d)
            = Issue(Advance(e, "Compensating", "Compensating", s), s, "Compensate", TRUE)
      BY <1>3 DEF OnRetryCompensation
    <2>3. Later(s)
      BY <1>1, <1>3, NextLater
    <2> HIDE DEF s
    <2>4. /\ Ready(e) /\ Place(e) = Place(d) /\ e.cmds = d.cmds
          /\ e.row[s].fwd = d.row[s].fwd /\ \A r \in Steps \ {s} : e.row[r] = d.row[r]
          /\ e.row[s].comp = "Succeeded" => d.row[s].comp = "Succeeded"
          /\ e.row[s].comp = "Unknown" => d.row[s].comp = "Unknown"
      BY <2>1, ReopenKeeps
    <2> HIDE DEF e
    <2>5. (e.row[s].comp = "Succeeded" => world[s].undone) /\ (e.row[s].comp = "Unknown" => Reversing(s))
      BY <2>1, <2>4 DEF Sound, Truth, RowTrue, QueryTrue
    <2>6. Sound(e)
      BY <2>1, <2>4, <2>5, SoundRow
    <2>7. "Compensate" \in Phases /\ "Compensating" \in Automatic /\ "Compensating" \in Directions
      BY DEF Phases, Automatic, Directions
    <2> QED BY <2>1, <2>2, <2>3, <2>4, <2>6, <2>7, MayReverse, AdvanceIssueSound
  <1> QED BY <1>2, <1>3

LEMMA RetryResolutionSound ==
  ASSUME NEW d, Ready(d), Sound(d), d.cur \in Steps, UnknownEffect(d, d.cur)
  PROVE  Told(OnRetryResolution(d))
  <1> DEFINE s == d.cur
             p == [res |-> "Pending"]
             e == Patch(d, s, p)
             n == NextAttempt(d, s, "Resolve")
  <1>1. Patches(p) /\ PatchTrue(s, p)
    BY DEF Patches, Columns, PatchTrue
  <1>2. OnRetryResolution(d) = AskResolution(e, s, d.dir, n, TRUE)
    BY DEF OnRetryResolution
  <1>3. n \in Nat
    BY AttemptsCounted
  <1> HIDE DEF p, n
  <1>4. d.row[s] \in RowType /\ d.dir \in Directions
    BY DEF Ready, DbType
  <1>5. Written(d.row[s], p) \in RowType
    BY <1>1, <1>4, WrittenRow
  <1>6. Ready(e) /\ Sound(e) /\ Place(e) = Place(d)
    BY <1>1, <1>5, PatchDoes, PatchSound
  <1> HIDE DEF e
  <1>7. MayAsk(e, s, d.dir)
    BY <1>6 DEF MayAsk, Place, UnknownEffect, Sound, Truth, QueryTrue
  <1> QED BY <1>2, <1>3, <1>4, <1>6, <1>7, AskResolutionSound

LEMMA ManualCloseSound ==
  ASSUME NEW d, Ready(d), Sound(d)
  PROVE  Told(OnManualClose(d))
  <1> DEFINE a == Advance(d, "ManuallyClosed", d.dir, 0)
             t == [a EXCEPT !.deadline = FALSE]
  <1>1. "ManuallyClosed" \in Statuses /\ 0 \in 0 .. N /\ d.dir \in Directions
    BY Named DEF Statuses, Terminal, Ready, DbType
  <1>2. Ready(a) /\ Sound(a)
    BY <1>1, AdvanceSound DEF MayEnter
  <1> HIDE DEF a
  <1>3. Place(t) = Place(a) /\ Core(t) = Core(a)
    BY <1>2 DEF Ready, DbType, Place, Core
  <1> HIDE DEF t
  <1>4. Told(t)
    BY <1>2, <1>3, SoundPlace DEF Told
  <1> QED BY <1>4 DEF OnManualClose, t, a
-----------------------------------------------------------------------------
(* What a participant's transaction does to its gate and to the world.     *)
Faithful(mode, ph, g, w, rev, x) ==
  /\ Moves(g, w, x.gate, x.world)
  /\ GateTrue(x.gate, x.world, rev \/ ph = "Compensate")
  /\ ResultTrue(ph, x.out, x.gate, x.world, rev)
  /\ x.world.undone => w.undone \/ ph = "Compensate"
  /\ External(mode) \/ x.gate.fwd # "Absent"

LEMMA ExecuteFaithful ==
  ASSUME NEW mode, NEW g \in GateType, NEW w \in WorldType, NEW rev \in BOOLEAN, GateTrue(g, w, rev),
         NEW x \in HandleExecute(mode, g, w)
  PROVE  Faithful(mode, "Execute", g, w, rev, x)
  <1>1. CASE g.fwd = "Absent"
    <2>1. PICK a \in ExecuteAnswers(mode, w) : x = Executed(mode, a)
      BY <1>1 DEF HandleExecute
    <2>2. /\ a.w \in WorldType /\ a.o \in {"Succeeded", "Rejected", "Unknown", "Halted"}
          /\ a.w.undone = w.undone
          /\ a.o = "Succeeded" => a.w.done
          /\ a.o = "Rejected" => ~a.w.done
          /\ w.done => a.w.done
      BY ExecuteAnswersAre
    <2> DEFINE fact == IF a.o = "Unknown" /\ ~External(mode) THEN "Halted" ELSE a.o
               h == [NoGate EXCEPT !.fwd = fact]
    <2>3. /\ fact \in {"Succeeded", "Rejected", "Unknown", "Halted"}
          /\ fact \in {"Succeeded", "Rejected"} => fact = a.o
      BY <2>2
    <2>4. x = [gate |-> h, world |-> a.w, out |-> fact]
      BY <2>1 DEF Executed, Commit
    <2> HIDE DEF fact
    <2>5. h.fwd = fact /\ h.comp = "None" /\ h.res = "None"
      BY DEF NoGate
    <2> HIDE DEF h
    <2>6. x.gate = h /\ x.world = a.w /\ x.out = fact
      BY <2>4
    <2>7. ~rev /\ ~w.undone
      BY <1>1 DEF GateTrue
    <2>8. Moves(g, w, h, a.w)
      BY <1>1, <2>2 DEF Moves, Certain
    <2>9. GateTrue(h, a.w, rev) /\ ResultTrue("Execute", fact, h, a.w, rev)
      BY <2>2, <2>3, <2>5, <2>7 DEF GateTrue, ResultTrue
    <2> QED BY <2>2, <2>3, <2>5, <2>6, <2>7, <2>8, <2>9 DEF Faithful
  <1>2. CASE g.fwd # "Absent"
    <2>1. x.gate = g /\ x.world = w /\ (x.out = g.fwd \/ x.out = NoResult)
      BY <1>2 DEF HandleExecute, Commit
    <2>2. Moves(g, w, g, w)
      BY DEF Moves
    <2>3. ResultTrue("Execute", x.out, g, w, rev)
      BY <2>1 DEF ResultTrue, NoResult
    <2> QED BY <1>2, <2>1, <2>2, <2>3 DEF Faithful
  <1> QED BY <1>1, <1>2

LEMMA CancelFaithful ==
  ASSUME NEW mode, NEW g \in GateType, NEW w \in WorldType, NEW rev \in BOOLEAN, GateTrue(g, w, rev),
         ~External(mode) /\ g.fwd = "Absent" => ~w.done,
         NEW x \in HandleCancel(mode, g, w)
  PROVE  Faithful(mode, "Cancel", g, w, rev, x)
  <1>1. CASE ~External(mode)
    <2> DEFINE g0 == IF g.fwd = "Absent" THEN [g EXCEPT !.fwd = "Cancelled"] ELSE g
               a == Adjudicated(g0.fwd)
               h == [g0 EXCEPT !.cancel = a.cancel]
    <2>1. x = Commit(h, w, a.out)
      BY <1>1 DEF HandleCancel, HandleCancelLocal
    <2>2. /\ g0 \in GateType /\ g0.fwd \in {"Succeeded", "Rejected", "Cancelled", "Unknown", "Halted"}
          /\ g0.comp = g.comp /\ g0.res = g.res
          /\ g.fwd = "Absent" => g0.fwd = "Cancelled"
          /\ g.fwd # "Absent" => g0.fwd = g.fwd
      BY DEF GateType
    <2> HIDE DEF g0
    <2>3. /\ a.out \in Outcomes["Cancel"]
          /\ a.out = "Confirmed" <=> g0.fwd = "Cancelled"
          /\ a.out = "LateSucceeded" <=> g0.fwd = "Succeeded"
          /\ a.out = "LateRejected" <=> g0.fwd = "Rejected"
      BY <2>2, AdjudicatedTypes
    <2> HIDE DEF a
    <2>4. h.fwd = g0.fwd /\ h.comp = g.comp /\ h.res = g.res
      BY <2>2 DEF GateType
    <2> HIDE DEF h
    <2>5. x.gate = h /\ x.world = w /\ x.out = a.out
      BY <2>1 DEF Commit
    <2>6. Moves(g, w, h, w)
      BY <2>2, <2>4 DEF Moves, Certain
    <2>7. GateTrue(h, w, rev)
      BY <1>1, <2>2, <2>4 DEF GateTrue
    <2>8. ResultTrue("Cancel", a.out, h, w, rev)
      BY <2>3, <2>4 DEF ResultTrue
    <2> QED BY <2>2, <2>4, <2>5, <2>6, <2>7, <2>8 DEF Faithful
  <1>2. CASE External(mode)
    <2>0. x \in HandleCancelExternal(g, w)
      BY <1>2 DEF HandleCancel
    <2>1. CASE g.cancel = "ResolutionPending"
      <3>1. x.gate = g /\ x.world = w /\ x.out = "ResolutionPending"
        BY <2>0, <2>1 DEF HandleCancelExternal, Commit
      <3> QED BY <1>2, <3>1 DEF Faithful, Moves, ResultTrue
    <2>2. CASE g.cancel # "ResolutionPending" /\ g.fwd \in LateFacts \cup {"Cancelled"}
      <3> DEFINE a == Adjudicated(g.fwd)
                 h == [g EXCEPT !.cancel = a.cancel]
      <3>1. x = Commit(h, w, a.out)
        BY <2>0, <2>2 DEF HandleCancelExternal
      <3>2. /\ a.out = "Confirmed" <=> g.fwd = "Cancelled"
            /\ a.out = "LateSucceeded" <=> g.fwd = "Succeeded"
            /\ a.out = "LateRejected" <=> g.fwd = "Rejected"
        BY <2>2, AdjudicatedTypes DEF LateFacts, Late
      <3> HIDE DEF a
      <3>3. h.fwd = g.fwd /\ h.comp = g.comp /\ h.res = g.res
        BY DEF GateType
      <3> HIDE DEF h
      <3>4. x.gate = h /\ x.world = w /\ x.out = a.out
        BY <3>1 DEF Commit
      <3>5. Moves(g, w, h, w) /\ GateTrue(h, w, rev) /\ ResultTrue("Cancel", a.out, h, w, rev)
        BY <3>2, <3>3 DEF Moves, GateTrue, ResultTrue
      <3> QED BY <1>2, <3>4, <3>5 DEF Faithful
    <2>3. CASE g.cancel # "ResolutionPending" /\ g.fwd \notin LateFacts \cup {"Cancelled"}
      <3>0. g.fwd \in {"Absent", "Unknown"}
        BY <2>3 DEF GateType, LateFacts, Late
      <3>1. PICK o \in CancelAnswers(w) : x = Commit(SettleCancel(g, o), w, o)
        BY <2>0, <2>3 DEF HandleCancelExternal
      <3>2. /\ o \in {"LateSucceeded", "LateRejected", "LateHalted", "ResolutionPending", "Confirmed"}
            /\ o = "LateSucceeded" => w.done
            /\ o \in {"LateRejected", "Confirmed"} => ~w.done
        BY DEF CancelAnswers
      <3> DEFINE f == CHOOSE f \in LateFacts : Late[f] = o
                 h == SettleCancel(g, o)
      <3>3. /\ o = "LateSucceeded" => f = "Succeeded"
            /\ o = "LateRejected" => f = "Rejected"
            /\ o = "LateHalted" => f = "Halted"
        BY LateChoice
      <3>4. /\ o \in {"LateSucceeded", "LateRejected", "LateHalted"} => h.fwd = f
            /\ o = "Confirmed" => h.fwd = "Cancelled"
            /\ o = "ResolutionPending" => h.fwd = "Unknown"
            /\ h.comp = g.comp /\ h.res = g.res
        BY <3>2 DEF SettleCancel, GateType
      <3> HIDE DEF f, h
      <3>5. x.gate = h /\ x.world = w /\ x.out = o
        BY <3>1 DEF Commit, h
      <3>6. ~rev /\ ~w.undone /\ g.res \notin {"Succeeded", "Rejected"}
        BY <3>0 DEF GateTrue
      <3>7. Moves(g, w, h, w)
        BY <3>0 DEF Moves, Certain
      <3>8. GateTrue(h, w, rev) /\ ResultTrue("Cancel", o, h, w, rev)
        BY <3>2, <3>3, <3>4, <3>6 DEF GateTrue, ResultTrue
      <3> QED BY <1>2, <3>5, <3>6, <3>7, <3>8 DEF Faithful
    <2> QED BY <2>1, <2>2, <2>3
  <1> QED BY <1>1, <1>2

LEMMA CompensateFaithful ==
  ASSUME NEW mode, NEW rec, NEW g \in GateType, NEW w \in WorldType, NEW rev \in BOOLEAN,
         GateTrue(g, w, rev), g.fwd = "Succeeded", NEW x \in HandleCompensate(mode, rec, g, w)
  PROVE  Faithful(mode, "Compensate", g, w, rev, x)
  <1>2. CASE CompensationReplays(rec, g)
    <2>1. x.gate = g /\ x.world = w /\ x.out = g.comp
      BY <1>2 DEF HandleCompensate, Commit
    <2>2. g.comp # "None" /\ rev
      BY <1>2 DEF CompensationReplays, GateTrue
    <2>3. GateTrue(g, w, TRUE) /\ ResultTrue("Compensate", g.comp, g, w, rev) /\ Moves(g, w, g, w)
      BY <2>2 DEF GateTrue, ResultTrue, Moves
    <2> QED BY <2>1, <2>3 DEF Faithful
  <1>4. CASE ~CompensationReplays(rec, g)
    <2>1. PICK a \in CompensateAnswers(mode, w) : x = Commit([g EXCEPT !.comp = a.o, !.res = "None"], a.w, a.o)
      BY <1>4 DEF HandleCompensate
    <2>2. /\ a.w \in WorldType /\ a.o \in {"Succeeded", "Unknown", "Halted"}
          /\ a.w.done = w.done
          /\ a.o = "Succeeded" => a.w.undone
          /\ w.undone => a.w.undone
      BY CompensateAnswersAre
    <2> DEFINE h == [g EXCEPT !.comp = a.o, !.res = "None"]
    <2>3. h.fwd = "Succeeded" /\ h.comp = a.o /\ h.res = "None"
      BY DEF GateType
    <2>4. x.gate = h /\ x.world = a.w /\ x.out = a.o
      BY <2>1 DEF Commit
    <2> HIDE DEF h
    <2>5. w.done
      BY DEF GateTrue
    <2>6. Moves(g, w, h, a.w)
      BY <2>2, <2>3 DEF Moves
    <2>7. GateTrue(h, a.w, TRUE) /\ ResultTrue("Compensate", a.o, h, a.w, rev)
      BY <2>2, <2>3, <2>5 DEF GateTrue, ResultTrue
    <2> QED BY <2>3, <2>4, <2>6, <2>7 DEF Faithful
  <1> QED BY <1>2, <1>4

LEMMA ResolveFaithful ==
  ASSUME NEW mode, NEW rec, NEW g \in GateType, NEW w \in WorldType, NEW rev \in BOOLEAN,
         GateTrue(g, w, rev), NEW x \in HandleResolve(rec, g, w)
  PROVE  Faithful(mode, "Resolve", g, w, rev, x)
  <1> DEFINE settled == g.res = "None" /\ g.comp = "None" /\ g.fwd \in {"Succeeded", "Rejected"}
  <1>0. ASSUME NEW h, x.gate = h, x.world = w, Moves(g, w, h, w), GateTrue(h, w, rev),
               ResultTrue("Resolve", x.out, h, w, rev), h.fwd # "Absent"
        PROVE  Faithful(mode, "Resolve", g, w, rev, x)
    BY <1>0 DEF Faithful
  <1>1. CASE g.fwd = "Absent"
    <2> DEFINE h == [g EXCEPT !.fwd = "Halted", !.res = "Halted"]
    <2>1. x.gate = h /\ x.world = w /\ x.out = "Halted"
      BY <1>1 DEF HandleResolve, Commit
    <2>2. h.fwd = "Halted" /\ h.res = "Halted" /\ h.comp = g.comp
      BY DEF GateType
    <2> HIDE DEF h
    <2>3. ~rev /\ ~w.undone
      BY <1>1 DEF GateTrue
    <2>4. Moves(g, w, h, w) /\ GateTrue(h, w, rev) /\ ResultTrue("Resolve", x.out, h, w, rev)
      BY <1>1, <2>1, <2>2, <2>3 DEF Moves, GateTrue, ResultTrue, Certain
    <2> QED BY <1>0, <2>1, <2>2, <2>4
  <1>2. CASE g.fwd # "Absent" /\ ResolutionReplays(rec, g)
    <2>1. x.gate = g /\ x.world = w /\ x.out = g.res
      BY <1>2 DEF HandleResolve, Commit
    <2>2. Moves(g, w, g, w) /\ ResultTrue("Resolve", g.res, g, w, rev)
      BY DEF Moves, GateTrue, ResultTrue
    <2> QED BY <1>0, <1>2, <2>1, <2>2
  <1>3. CASE g.fwd # "Absent" /\ ~ResolutionReplays(rec, g) /\ settled
    <2> DEFINE h == [g EXCEPT !.res = g.fwd]
    <2>1. x.gate = h /\ x.world = w /\ x.out = g.fwd
      BY <1>3 DEF HandleResolve, Commit
    <2>2. h.fwd = g.fwd /\ h.res = g.fwd /\ h.comp = g.comp
      BY DEF GateType
    <2> HIDE DEF h
    <2>3. ~rev
      BY <1>3 DEF GateTrue
    <2>4. Moves(g, w, h, w) /\ GateTrue(h, w, rev) /\ ResultTrue("Resolve", x.out, h, w, rev)
      BY <2>1, <2>2, <2>3 DEF Moves, GateTrue, ResultTrue
    <2> QED BY <1>0, <1>3, <2>1, <2>2, <2>4
  <1>4. CASE g.fwd # "Absent" /\ ~ResolutionReplays(rec, g) /\ ~settled /\ g.comp = "Unknown"
    <2>1. PICK o \in ResolveAnswers(w.undone) : x = Commit(SettleCompensation(g, o), w, o)
      BY <1>4 DEF HandleResolve
    <2>2. o \in {"Succeeded", "Rejected", "Unknown", "Halted"} /\ (o = "Succeeded" => w.undone)
      BY DEF ResolveAnswers
    <2> DEFINE h == SettleCompensation(g, o)
    <2>3. /\ h.fwd = g.fwd /\ h.res = IF o = "Unknown" THEN "Pending" ELSE o
          /\ o = "Succeeded" => h.comp = "Succeeded"
          /\ o = "Rejected" => h.comp = "None"
          /\ o \in {"Unknown", "Halted"} => h.comp = "Unknown"
      BY <1>4, <2>2 DEF SettleCompensation, GateType
    <2>4. x.gate = h /\ x.world = w /\ x.out = o
      BY <2>1 DEF Commit
    <2> HIDE DEF h
    <2>5. rev
      BY <1>4 DEF GateTrue
    <2>6. Moves(g, w, h, w)
      BY <2>3 DEF Moves
    <2>7. GateTrue(h, w, rev) /\ ResultTrue("Resolve", o, h, w, rev)
      BY <2>2, <2>3, <2>5 DEF GateTrue, ResultTrue
    <2> QED BY <1>0, <1>4, <2>3, <2>4, <2>6, <2>7
  <1>5. CASE g.fwd # "Absent" /\ ~ResolutionReplays(rec, g) /\ ~settled /\ g.comp # "Unknown" /\ g.fwd = "Unknown"
    <2>1. PICK o \in ResolveAnswers(w.done) : x = Commit(SettleForward(g, o), w, o)
      BY <1>5 DEF HandleResolve
    <2>2. /\ o \in {"Succeeded", "Rejected", "Unknown", "Halted"}
          /\ o = "Succeeded" => w.done
          /\ o = "Rejected" => ~w.done
      BY DEF ResolveAnswers
    <2> DEFINE h == SettleForward(g, o)
    <2>3. /\ o \in {"Succeeded", "Rejected"} => h.res = o /\ h.fwd = o
          /\ o = "Unknown" => h.res = "Pending" /\ h.fwd = g.fwd
          /\ o = "Halted" => h.res = "Halted" /\ h.fwd = g.fwd
          /\ h.comp = g.comp
      BY <2>2 DEF SettleForward, GateType
    <2>4. x.gate = h /\ x.world = w /\ x.out = o
      BY <2>1 DEF Commit
    <2> HIDE DEF h
    <2>5. ~rev /\ ~w.undone
      BY <1>5 DEF GateTrue
    <2>6. Moves(g, w, h, w)
      BY <1>5 DEF Moves, Certain
    <2>7. GateTrue(h, w, rev) /\ ResultTrue("Resolve", o, h, w, rev) /\ h.fwd # "Absent"
      BY <1>5, <2>2, <2>3, <2>5 DEF GateTrue, ResultTrue
    <2> QED BY <1>0, <2>4, <2>6, <2>7
  <1>6. CASE g.fwd # "Absent" /\ ~ResolutionReplays(rec, g) /\ ~settled /\ g.comp # "Unknown" /\ g.fwd # "Unknown"
    <2> DEFINE h == [g EXCEPT !.res = "Halted"]
    <2>1. x.gate = h /\ x.world = w /\ x.out = "Halted"
      BY <1>6 DEF HandleResolve, Commit
    <2>2. h.fwd = g.fwd /\ h.res = "Halted" /\ h.comp = g.comp
      BY DEF GateType
    <2> HIDE DEF h
    <2>3. rev => g.comp # "None"
      BY <1>6 DEF GateTrue, ResolutionReplays
    <2>4. Moves(g, w, h, w) /\ GateTrue(h, w, rev) /\ ResultTrue("Resolve", x.out, h, w, rev)
      BY <2>1, <2>2, <2>3 DEF Moves, GateTrue, ResultTrue
    <2> QED BY <1>0, <1>6, <2>1, <2>2, <2>4
  <1> QED BY <1>1, <1>2, <1>3, <1>4, <1>5, <1>6

LEMMA HandleFaithful ==
  ASSUME NEW mode, NEW c \in CommandType, NEW g \in GateType, NEW w \in WorldType, NEW rev \in BOOLEAN,
         GateTrue(g, w, rev), ~External(mode) /\ g.fwd = "Absent" => ~w.done,
         c.ph = "Compensate" => g.fwd = "Succeeded"
  PROVE  /\ \A x \in Handle(mode, c, g, w) : Faithful(mode, c.ph, g, w, rev, x)
         /\ \A v \in Interrupted(mode, c, g, w) :
              /\ Moves(g, w, g, v) /\ GateTrue(g, v, rev) /\ External(mode)
              /\ v.undone => w.undone \/ c.ph = "Compensate"
  <1>1. c.ph \in {"Execute", "Cancel", "Compensate", "Resolve"}
    BY DEF CommandType, Phases
  <1>2. ASSUME NEW x \in Handle(mode, c, g, w) PROVE Faithful(mode, c.ph, g, w, rev, x)
    BY <1>1, ExecuteFaithful, CancelFaithful, CompensateFaithful, ResolveFaithful DEF Handle
  <1>3. ASSUME NEW v \in Interrupted(mode, c, g, w)
        PROVE  /\ Moves(g, w, g, v) /\ GateTrue(g, v, rev) /\ External(mode)
               /\ v.undone => w.undone \/ c.ph = "Compensate"
    <2>1. \/ g.fwd = "Absent" /\ v = [w EXCEPT !.done = TRUE]
          \/ g.fwd = "Succeeded" /\ c.ph = "Compensate" /\ v = [w EXCEPT !.undone = TRUE]
      BY <1>1 DEF Interrupted
    <2>2. CASE g.fwd = "Absent" /\ v = [w EXCEPT !.done = TRUE]
      <3>1. v.done = TRUE /\ v.undone = w.undone
        BY <2>2 DEF WorldType
      <3> QED BY <1>3, <2>2, <3>1 DEF Moves, GateTrue, Certain, Interrupted
    <2>3. CASE g.fwd = "Succeeded" /\ c.ph = "Compensate" /\ v = [w EXCEPT !.undone = TRUE]
      <3>1. v.undone = TRUE /\ v.done = w.done
        BY <2>3 DEF WorldType
      <3> QED BY <1>3, <2>3, <3>1 DEF Moves, GateTrue, Certain, Interrupted
    <2> QED BY <2>1, <2>2, <2>3
  <1> QED BY <1>2, <1>3
-----------------------------------------------------------------------------
(* Every step keeps the invariant of the saga.                             *)
LEMMA SagaReads ==
  ASSUME SagaInv
  PROVE  JournalInv /\ Truth(db) /\ ParticipantInv /\ Sound(db)
  <1>1. Quiet(db)
    BY DEF SagaInv, ParticipantInv, Quiet, NoWorld
  <1>2. Gates
    BY DEF SagaInv, ParticipantInv, GateTrue, Gates
  <1> QED BY <1>1, <1>2 DEF SagaInv, Sound

(* A command for a step whose effect is decided finds the gate settled.    *)
LEMMA FrozenGate ==
  ASSUME SagaInv, NEW s \in Steps, NEW i \in DOMAIN db.cmds[s]
  PROVE  /\ db.frozen => gate[s].fwd \in Certain
         /\ Compensates(db, s) => gate[s].fwd = "Succeeded" /\ db.frozen
  <1>1. Shape(db) /\ db.cmds[s] # <<>>
    BY SagaReads, DbReads
  <1>2. db.frozen => db.row[s].fwd \in Certain
    BY <1>1 DEF Shape, Body, PlanShape
  <1>3. Compensates(db, s) => db.row[s].fwd = "Succeeded" /\ db.frozen
    BY <1>1 DEF Shape, Body, CommandShape
  <1>4. db.row[s].fwd \in Certain => gate[s].fwd = db.row[s].fwd
    BY SagaReads DEF Truth, RowTrue
  <1> QED BY <1>2, <1>3, <1>4 DEF Certain

LEMMA ResultStands ==
  ASSUME NEW ph, NEW o, NEW g, NEW w, NEW h, NEW v, NEW back, ResultTrue(ph, o, g, w, back), Moves(g, w, h, v)
  PROVE  ResultTrue(ph, o, h, v, back)
  BY DEF ResultTrue, Moves, Certain

(* A participant's step moves one gate and one piece of the world forward. *)
LEMMA MoveTrue ==
  ASSUME SagaInv, UNCHANGED db, NEW s \in Steps, NEW i \in DOMAIN db.cmds[s], NEW h, NEW v,
         gate' = [gate EXCEPT ![s] = h], world' = [world EXCEPT ![s] = v], Moves(gate[s], world[s], h, v),
         \A r \in Steps : Reversing(r) => Reversing(r)'
  PROVE  Truth(db)'
  <1>0. JournalInv /\ Truth(db)
    BY SagaReads
  <1>1. /\ gate'[s] = h /\ world'[s] = v
        /\ \A r \in Steps \ {s} : gate'[r] = gate[r] /\ world'[r] = world[r]
    BY <1>0 DEF JournalInv, Types
  <1>2. db.frozen => v.done = world[s].done
    <2>1. db.frozen => gate[s].fwd # "Absent"
      BY FrozenGate DEF Certain
    <2> QED BY <2>1 DEF Moves
  <1>3. world[s].undone => v.undone
    BY DEF Moves
  <1>4. RowTrue(db)'
    <2> SUFFICES ASSUME NEW r \in Steps
                 PROVE  /\ db.row[r].fwd \in Certain => gate'[r].fwd = db.row[r].fwd
                        /\ db.row[r].comp = "Succeeded" => world'[r].undone
      BY DEF RowTrue
    <2>1. /\ db.row[r].fwd \in Certain => gate[r].fwd = db.row[r].fwd
          /\ db.row[r].comp = "Succeeded" => world[r].undone
      BY <1>0 DEF Truth, RowTrue
    <2> QED BY <1>1, <2>1 DEF Moves
  <1>5. db.frozen => \A r \in Steps : (world[r].done => world[r].undone) => (world'[r].done => world'[r].undone)
    BY <1>1, <1>2, <1>3
  <1>6. OrderTrue(db)'
    <2> SUFFICES ASSUME NEW a \in Steps, NEW t \in Steps, Compensates(db, a), a < t, world'[t].done
                 PROVE  world'[t].undone
      BY DEF OrderTrue, Compensates
    <2>1. db.frozen
      BY <1>0 DEF JournalInv, Shape, Body, CommandShape
    <2>2. world[t].done => world[t].undone
      BY <1>0 DEF Truth, OrderTrue
    <2> QED BY <1>5, <2>1, <2>2
  <1>7. EndTrue(db)'
    <2> SUFFICES ASSUME db.status = "Compensated", NEW t \in Steps, world'[t].done PROVE world'[t].undone
      BY DEF EndTrue
    <2>1. db.frozen
      BY <1>0 DEF JournalInv, Shape, Body, StatusShape, PlanShape
    <2>2. world[t].done => world[t].undone
      BY <1>0 DEF Truth, EndTrue
    <2> QED BY <1>5, <2>1, <2>2
  <1>8. QueryTrue(db)'
    <2>1. db.status = "WaitingResolution" => db.cur \in Steps
      BY <1>0 DEF JournalInv, Timed, Automatic
    <2> QED BY <1>0, <2>1 DEF Truth, QueryTrue, Compensates, AsksBack
  <1> QED BY <1>4, <1>6, <1>7, <1>8 DEF Truth

LEMMA HandlesTrue ==
  ASSUME SagaInv, NEW s \in Steps, NEW i \in DOMAIN db.cmds[s], ParticipantHandles(s, i)
  PROVE  SagaInv'
  <1>0. JournalInv /\ Truth(db) /\ ParticipantInv
    BY SagaReads
  <1>1. PICK x \in Handle(Mode[s], db.cmds[s][i], gate[s], world[s]) :
          /\ gate' = [gate EXCEPT ![s] = x.gate]
          /\ world' = [world EXCEPT ![s] = x.world]
          /\ results' = [results EXCEPT ![s] = Answered(@, i, x.out)]
    BY DEF ParticipantHandles
  <1>2. UNCHANGED <<db, applied, ops>> /\ i \notin DOMAIN results[s]
    BY DEF ParticipantHandles, Deliverable
  <1> DEFINE ph == db.cmds[s][i].ph
             g == gate[s]
             w == world[s]
             rev == Reversing(s)
  <1>3. /\ db.cmds[s][i] \in CommandType /\ g \in GateType /\ w \in WorldType /\ rev \in BOOLEAN
        /\ db.cmds[s] # <<>> /\ db.cmds[s] \in Seq(CommandType) /\ DOMAIN results[s] \subseteq DOMAIN db.cmds[s]
    BY <1>0, DbReads DEF JournalInv, Types, Reversing, DbType
  <1>4. GateTrue(g, w, rev) /\ (~External(Mode[s]) /\ g.fwd = "Absent" => ~w.done)
    BY <1>0 DEF ParticipantInv
  <1>5. ph = "Compensate" => Compensates(db, s) /\ g.fwd = "Succeeded"
    <2>1. ph = "Compensate" => Compensates(db, s)
      BY DEF Compensates
    <2> QED BY <2>1, FrozenGate
  <1>6. Faithful(Mode[s], ph, g, w, rev, x)
    <2> DEFINE c == db.cmds[s][i]
               mode == Mode[s]
    <2>1. c \in CommandType /\ (c.ph = "Compensate" => g.fwd = "Succeeded") /\ x \in Handle(mode, c, g, w)
      BY <1>3, <1>5
    <2>2. g \in GateType /\ w \in WorldType /\ rev \in BOOLEAN /\ GateTrue(g, w, rev)
          /\ (~External(mode) /\ g.fwd = "Absent" => ~w.done)
      BY <1>3, <1>4
    <2> HIDE DEF rev, g, w, c, mode
    <2>3. \A y \in Handle(mode, c, g, w) : Faithful(mode, c.ph, g, w, rev, y)
      BY <2>1, <2>2, HandleFaithful
    <2>4. Faithful(mode, c.ph, g, w, rev, x)
      BY <2>1, <2>3
    <2> QED BY <2>4 DEF c, mode
  <1>7. rev => Compensates(db, s)
    BY <1>3 DEF Reversing, Compensates
  <1>8. ph = "Resolve" => Overtaken(db, s, i) \/ (AsksBack(db, s, i) <=> rev)
    BY <1>0, <1>7 DEF Overtaken, AsksBack, Compensates, Truth, QueryTrue
  <1>9. /\ \A r \in Steps \ {s} : gate'[r] = gate[r] /\ world'[r] = world[r] /\ results'[r] = results[r]
        /\ gate'[s] = x.gate /\ world'[s] = x.world
        /\ DOMAIN results'[s] = DOMAIN results[s] \cup {i}
        /\ \A j \in DOMAIN results'[s] : results'[s][j] = IF j = i THEN x.out ELSE results[s][j]
    BY <1>0, <1>1 DEF JournalInv, Types, Answered
  <1>10. /\ \A r \in Steps \ {s} : Reversing(r)' <=> Reversing(r)
         /\ Reversing(s)' <=> (rev \/ ph = "Compensate")
    BY <1>2, <1>9 DEF Reversing
  <1>11. JournalInv'
    BY <1>0, HandlesKeeps
  <1> HIDE DEF rev
  <1>12. Truth(db)'
    <2>1. \A r \in Steps : Reversing(r) => Reversing(r)'
      BY <1>10 DEF rev
    <2> QED BY <1>1, <1>2, <1>6, <2>1, MoveTrue DEF Faithful
  <1>13. ParticipantInv'
    <2> SUFFICES ASSUME NEW r \in Steps
                 PROVE  /\ db.cmds[r] = <<>> => gate'[r] = NoGate /\ world'[r] = NoWorld
                        /\ world'[r].undone => Compensates(db, r)
                        /\ ~External(Mode[r]) /\ gate'[r].fwd = "Absent" => ~world'[r].done
                        /\ GateTrue(gate'[r], world'[r], Reversing(r)')
                        /\ \A j \in DOMAIN results'[r] :
                             \/ Overtaken(db, r, j)
                             \/ ResultTrue(db.cmds[r][j].ph, results'[r][j], gate'[r], world'[r], AsksBack(db, r, j))
      BY <1>2 DEF ParticipantInv, Compensates, AsksBack, Overtaken
    <2>1. CASE r # s
      BY <1>0, <1>9, <1>10, <2>1 DEF ParticipantInv, GateTrue
    <2>2. CASE r = s
      <3>1. world'[s].undone => Compensates(db, s)
        BY <1>0, <1>5, <1>6, <1>9 DEF Faithful, ParticipantInv
      <3>2. ~External(Mode[s]) => gate'[s].fwd # "Absent"
        BY <1>6, <1>9 DEF Faithful
      <3>3. GateTrue(gate'[s], world'[s], Reversing(s)')
        BY <1>6, <1>9, <1>10 DEF Faithful, GateTrue
      <3>4. ASSUME NEW j \in DOMAIN results'[s]
            PROVE  \/ Overtaken(db, s, j)
                   \/ ResultTrue(db.cmds[s][j].ph, results'[s][j], gate'[s], world'[s], AsksBack(db, s, j))
        <4>1. CASE j = i
          <5>1. Overtaken(db, s, i) \/ ResultTrue(ph, x.out, x.gate, x.world, AsksBack(db, s, i))
            BY <1>6, <1>8 DEF Faithful, ResultTrue
          <5> QED BY <1>9, <4>1, <5>1
        <4>2. CASE j # i
          <5>0. j \in DOMAIN results[s] /\ results'[s][j] = results[s][j]
            BY <1>9, <4>2
          <5>1. Overtaken(db, s, j) \/ ResultTrue(db.cmds[s][j].ph, results[s][j], g, w, AsksBack(db, s, j))
            BY <1>0, <5>0 DEF ParticipantInv
          <5>2. Moves(g, w, x.gate, x.world)
            BY <1>6 DEF Faithful
          <5>3. Overtaken(db, s, j) \/ ResultTrue(db.cmds[s][j].ph, results[s][j], x.gate, x.world, AsksBack(db, s, j))
            BY <5>1, <5>2, ResultStands
          <5> QED BY <1>9, <5>0, <5>3
        <4> QED BY <4>1, <4>2
      <3> QED BY <1>3, <2>2, <3>1, <3>2, <3>3, <3>4
    <2> QED BY <2>1, <2>2
  <1> QED BY <1>11, <1>12, <1>13 DEF SagaInv

LEMMA DiesTrue ==
  ASSUME SagaInv, NEW s \in Steps, NEW i \in DOMAIN db.cmds[s], ParticipantDies(s, i)
  PROVE  SagaInv'
  <1>0. JournalInv /\ ParticipantInv
    BY SagaReads
  <1>1. PICK v \in Interrupted(Mode[s], db.cmds[s][i], gate[s], world[s]) : world' = [world EXCEPT ![s] = v]
    BY DEF ParticipantDies
  <1>2. UNCHANGED <<db, gate, results, applied, ops>>
    BY DEF ParticipantDies
  <1> DEFINE ph == db.cmds[s][i].ph
             g == gate[s]
             w == world[s]
             rev == Reversing(s)
  <1>3. /\ db.cmds[s][i] \in CommandType /\ g \in GateType /\ w \in WorldType /\ rev \in BOOLEAN
        /\ db.cmds[s] # <<>>
    BY <1>0, DbReads DEF JournalInv, Types, Reversing, DbType
  <1>4. GateTrue(g, w, rev) /\ (~External(Mode[s]) /\ g.fwd = "Absent" => ~w.done)
    BY <1>0 DEF ParticipantInv
  <1>5. ph = "Compensate" => Compensates(db, s) /\ g.fwd = "Succeeded"
    <2>1. ph = "Compensate" => Compensates(db, s)
      BY DEF Compensates
    <2> QED BY <2>1, FrozenGate
  <1>6. /\ Moves(g, w, g, v) /\ GateTrue(g, v, rev) /\ External(Mode[s])
        /\ v.undone => w.undone \/ ph = "Compensate"
    BY <1>3, <1>4, <1>5, HandleFaithful
  <1>9. world'[s] = v /\ \A r \in Steps \ {s} : world'[r] = world[r]
    BY <1>0, <1>1 DEF JournalInv, Types
  <1>10. \A r \in Steps : Reversing(r)' <=> Reversing(r)
    BY <1>2 DEF Reversing
  <1>11. JournalInv'
    BY <1>0, DiesKeeps
  <1> HIDE DEF rev
  <1>12. Truth(db)'
    <2>1. gate' = [gate EXCEPT ![s] = g]
      BY <1>0, <1>2 DEF JournalInv, Types
    <2> QED BY <1>1, <1>2, <1>6, <1>10, <2>1, MoveTrue
  <1>13. ParticipantInv'
    <2> SUFFICES ASSUME NEW r \in Steps
                 PROVE  /\ db.cmds[r] = <<>> => gate[r] = NoGate /\ world'[r] = NoWorld
                        /\ world'[r].undone => Compensates(db, r)
                        /\ ~External(Mode[r]) /\ gate[r].fwd = "Absent" => ~world'[r].done
                        /\ GateTrue(gate[r], world'[r], Reversing(r)')
                        /\ \A j \in DOMAIN results[r] :
                             \/ Overtaken(db, r, j)
                             \/ ResultTrue(db.cmds[r][j].ph, results[r][j], gate[r], world'[r], AsksBack(db, r, j))
      BY <1>2 DEF ParticipantInv, Compensates, AsksBack, Overtaken
    <2>1. CASE r # s
      BY <1>0, <1>9, <1>10, <2>1 DEF ParticipantInv, GateTrue
    <2>2. CASE r = s
      <3>1. world'[s].undone => Compensates(db, s)
        BY <1>0, <1>5, <1>6, <1>9 DEF ParticipantInv
      <3>3. GateTrue(gate[s], world'[s], Reversing(s)')
        BY <1>6, <1>9, <1>10 DEF rev, GateTrue
      <3>4. ASSUME NEW j \in DOMAIN results[s]
            PROVE  \/ Overtaken(db, s, j)
                   \/ ResultTrue(db.cmds[s][j].ph, results[s][j], gate[s], world'[s], AsksBack(db, s, j))
        <4>1. Overtaken(db, s, j) \/ ResultTrue(db.cmds[s][j].ph, results[s][j], g, w, AsksBack(db, s, j))
          BY <1>0 DEF ParticipantInv
        <4>2. Overtaken(db, s, j) \/ ResultTrue(db.cmds[s][j].ph, results[s][j], g, v, AsksBack(db, s, j))
          BY <1>6, <4>1, ResultStands
        <4> QED BY <1>9, <4>2
      <3> QED BY <1>3, <1>6, <2>2, <3>1, <3>3, <3>4
    <2> QED BY <2>1, <2>2
  <1> QED BY <1>11, <1>12, <1>13 DEF SagaInv

(* A transaction of the orchestrator leaves gates, world and results       *)
(* alone and appends commands, none of them before a command answered.     *)
LEMMA OrchestratorTrue ==
  ASSUME SagaInv, JournalInv', NEW t, Commits(t), Told(t), Extends(db.cmds, t.cmds),
         UNCHANGED <<gate, world, results>>
  PROVE  SagaInv'
  <1>0. /\ JournalInv /\ ParticipantInv /\ Sound(t) /\ db' = t
        /\ Journals(db) /\ Journals(db') /\ Extends(db.cmds, db'.cmds)
    <2>1. t.ok /\ db' = t
      BY DEF Commits
    <2>2. Sound(t) /\ JournalInv /\ ParticipantInv /\ Journals(db)
      BY <2>1, SagaReads, DbReads DEF Told
    <2>3. db'.cmds \in [Steps -> Seq(CommandType)] /\ "cmds" \in DOMAIN db'
      BY DEF JournalInv, Types, DbType
    <2> QED BY <2>1, <2>2, <2>3 DEF Journals
  <1>a. \A s \in Steps : Reversing(s)' <=> Reversing(s)
    <2>1. \A s \in Steps : DOMAIN results[s] \subseteq DOMAIN db.cmds[s]
      BY <1>0 DEF JournalInv, Types
    <2> QED BY <1>0, <2>1 DEF Reversing, Extends
  <1>1. Truth(db)'
    <2>1. RowTrue(db)'
      BY <1>0 DEF Sound, Truth, RowTrue
    <2>2. OrderTrue(db)'
      BY <1>0 DEF Sound, Truth, OrderTrue, Compensates
    <2>3. EndTrue(db)'
      BY <1>0 DEF Sound, Truth, EndTrue
    <2>4. QueryTrue(db)'
      <3>1. db'.status = "WaitingResolution" => db'.cur \in Steps
        BY DEF JournalInv, Timed, Automatic
      <3>2. QueryTrue(t)
        BY <1>0 DEF Sound, Truth
      <3> QED BY <1>0, <1>a, <3>1, <3>2 DEF QueryTrue, Compensates, AsksBack
    <2> QED BY <2>1, <2>2, <2>3, <2>4 DEF Truth
  <1> DEFINE q == db.cmds
             p == db'.cmds
  <1>2. /\ \A s \in Steps : DOMAIN results[s] \subseteq DOMAIN q[s]
        /\ q \in [Steps -> Seq(CommandType)] /\ p \in [Steps -> Seq(CommandType)] /\ Extends(q, p)
    BY <1>0 DEF JournalInv, Types, Journals
  <1>3. ASSUME NEW s \in Steps PROVE p[s] = <<>> => q[s] = <<>>
    <2> HIDE DEF p, q
    <2> SUFFICES ASSUME p[s] = <<>>, q[s] # <<>> PROVE FALSE
      OBVIOUS
    <2>1. q[s] \in Seq(CommandType) /\ p[s] \in Seq(CommandType)
      BY <1>2
    <2>2. 1 \in DOMAIN q[s]
      BY <2>1
    <2>3. 1 \in DOMAIN p[s]
      BY <1>2, <2>2 DEF Extends
    <2> QED BY <2>3
  <1>4. \A s \in Steps : Compensates(db, s) => Compensates(db, s)'
    BY <1>2 DEF Compensates, Extends
  <1>6. ASSUME NEW s \in Steps, NEW i \in DOMAIN results[s]
        PROVE  (AsksBack(db, s, i)' <=> AsksBack(db, s, i)) /\ p[s][i].ph = q[s][i].ph
    <2>1. i \in DOMAIN q[s] /\ q[s] \in Seq(CommandType) /\ p[s] \in Seq(CommandType)
      BY <1>2, <1>6
    <2>2. \A c \in DOMAIN p[s] : c < i => c \in DOMAIN q[s]
      <3> HIDE DEF p, q
      <3> QED BY <2>1
    <2>3. \A c \in DOMAIN q[s] : c \in DOMAIN p[s] /\ p[s][c] = q[s][c]
      BY <1>2 DEF Extends
    <2> QED BY <2>1, <2>2, <2>3 DEF AsksBack
  <1>7. ParticipantInv'
    <2> SUFFICES ASSUME NEW s \in Steps
                 PROVE  /\ p[s] = <<>> => gate[s] = NoGate /\ world[s] = NoWorld
                        /\ world[s].undone => Compensates(db, s)'
                        /\ ~External(Mode[s]) /\ gate[s].fwd = "Absent" => ~world[s].done
                        /\ GateTrue(gate[s], world[s], Reversing(s)')
                        /\ \A i \in DOMAIN results[s] :
                             \/ Overtaken(db, s, i)'
                             \/ ResultTrue(p[s][i].ph, results[s][i], gate[s], world[s], AsksBack(db, s, i)')
      BY DEF ParticipantInv
    <2>1. /\ p[s] = <<>> => gate[s] = NoGate /\ world[s] = NoWorld
          /\ world[s].undone => Compensates(db, s)'
          /\ ~External(Mode[s]) /\ gate[s].fwd = "Absent" => ~world[s].done
      BY <1>0, <1>3, <1>4 DEF ParticipantInv
    <2>2. GateTrue(gate[s], world[s], Reversing(s)')
      BY <1>0, <1>a DEF ParticipantInv, GateTrue
    <2>3. ASSUME NEW i \in DOMAIN results[s]
          PROVE  \/ Overtaken(db, s, i)'
                 \/ ResultTrue(p[s][i].ph, results[s][i], gate[s], world[s], AsksBack(db, s, i)')
      <3>1. \/ Overtaken(db, s, i)
            \/ ResultTrue(q[s][i].ph, results[s][i], gate[s], world[s], AsksBack(db, s, i))
        BY <1>0 DEF ParticipantInv
      <3>2. Overtaken(db, s, i) => Overtaken(db, s, i)'
        BY <1>4, <1>6 DEF Overtaken
      <3> QED BY <1>6, <3>1, <3>2 DEF ResultTrue
    <2> QED BY <2>1, <2>2, <2>3
  <1> QED BY <1>1, <1>7 DEF SagaInv

(* A result that is delivered reports what is so, in the direction it is   *)
(* read in.                                                                *)
LEMMA ArrivesTrue ==
  ASSUME ~StaleAnswers, SagaInv, NEW s \in Steps, NEW i \in DOMAIN results[s], ResultArrives(s, i)
  PROVE  SagaInv'
  <1> DEFINE r == [ph |-> db.cmds[s][i].ph, n |-> db.cmds[s][i].n, out |-> results[s][i]]
             t == HandleResult(db, s, r)
  <1>0. JournalInv /\ ParticipantInv /\ Sound(db) /\ Ready(db) /\ Shape(db) /\ Journals(db) /\ db.dir \in Directions
    BY SagaReads, DbReads
  <1>1. i \in DOMAIN db.cmds[s] /\ db.cmds[s] \in Seq(CommandType)
    BY <1>0 DEF JournalInv, Types, Journals
  <1>2. Commits(t) /\ UNCHANGED <<gate, world, results>> /\ i \notin Withheld(s)
    BY DEF ResultArrives
  <1>3. db.cmds[s][i] \in CommandType /\ db.cmds[s] # <<>>
    BY <1>0, <1>1, DbReads
  <1>4. results[s][i] \in Outcomes[db.cmds[s][i].ph]
    BY <1>0, <1>2 DEF Withheld, JournalInv, Types
  <1>5. r.ph \in Phases /\ r.n \in Nat /\ r.out \in Outcomes[r.ph]
    BY <1>3, <1>4 DEF CommandType
  <1>6. r.ph = db.cmds[s][i].ph /\ r.out = results[s][i]
    OBVIOUS
  <1> HIDE DEF r
  <1>7. Overtaken(db, s, i) \/ ResultTrue(r.ph, r.out, gate[s], world[s], AsksBack(db, s, i))
    BY <1>0, <1>6 DEF ParticipantInv
  <1>8. r.ph = "Resolve" => (AsksBack(db, s, i) <=> db.dir = "Compensating")
    <2> SUFFICES ASSUME r.ph = "Resolve" PROVE AsksBack(db, s, i) <=> db.dir = "Compensating"
      OBVIOUS
    <2>1. AsksBack(db, s, i) => db.dir = "Compensating"
      <3>1. AsksBack(db, s, i) => Compensates(db, s)
        BY DEF AsksBack, Compensates
      <3> QED BY <1>0, <3>1 DEF Shape, Body, CommandShape, PlanShape
    <2>2. ASSUME db.dir = "Compensating" PROVE AsksBack(db, s, i)
      <3>1. PICK c \in Attempts(db, s, "Compensate") : ~(i < c)
        BY <1>2, <1>6, <2>2 DEF Withheld
      <3>2. c \in DOMAIN db.cmds[s] /\ db.cmds[s][c].ph = "Compensate" /\ c # i
        BY <1>6, <3>1 DEF Attempts
      <3>3. c < i
        BY <1>1, <3>1, <3>2
      <3> QED BY <3>2, <3>3 DEF AsksBack
    <2> QED BY <2>1, <2>2
  <1>a. ~Overtaken(db, s, i)
    <2>1. Compensates(db, s) => db.dir = "Compensating"
      BY <1>0 DEF Shape, Body, CommandShape, PlanShape
    <2> QED BY <1>6, <1>8, <2>1 DEF Overtaken
  <1>b. r.ph = "Compensate" \/ (r.ph = "Resolve" /\ db.dir = "Compensating") => Reversing(s)
    <2>1. r.ph = "Compensate" => Reversing(s)
      BY <1>6 DEF Reversing
    <2>2. r.ph = "Resolve" /\ db.dir = "Compensating" => Reversing(s)
      BY <1>0, <1>1, <1>6, <1>8 DEF Sound, Truth, QueryTrue
    <2> QED BY <2>1, <2>2
  <1>9. AnswerTrue(db, s, r)
    BY <1>7, <1>8, <1>a, <1>b DEF ResultTrue, AnswerTrue
  <1>10. Told(t)
    BY <1>0, <1>3, <1>5, <1>9, HandleResultSound
  <1>11. Extends(db.cmds, t.cmds)
    BY <1>0, <1>5, ResultAppends
  <1>12. JournalInv'
    BY <1>0, ArrivesKeeps
  <1> HIDE DEF t
  <1> QED BY <1>2, <1>10, <1>11, <1>12, OrchestratorTrue

LEMMA InitSaga ==
  ASSUME Init
  PROVE  SagaInv
  <1>1. JournalInv
    BY InitJournal
  <1>2. /\ \A s \in Steps : gate[s] = NoGate /\ world[s] = NoWorld /\ results[s] = <<>>
        /\ DOMAIN <<>> = {}
    BY DEF Init
  <1> DEFINE row == [s \in Steps |-> [fwd |-> "Pending", cancel |-> "None", comp |-> "None", res |-> "None"]]
             empty == [status |-> "Running", dir |-> "Forward", cur |-> 1, paused |-> FALSE,
                       frozen |-> FALSE, plan |-> <<>>, row |-> row,
                       cmds |-> [s \in Steps |-> <<>>], timer |-> NoTimer,
                       budgets |-> {}, budget |-> {}, deadline |-> Deadline, ok |-> TRUE]
  <1>3. db.row = row /\ db.status = "Running"
    BY DEF Init, Started, Issue
  <1>4. \A s \in Steps : row[s].fwd = "Pending" /\ row[s].comp = "None"
    OBVIOUS
  <1>5. \A s \in Steps : db.row[s].fwd = "Pending" /\ db.row[s].comp = "None"
    BY <1>3, <1>4
  <1>a. \A s \in Steps : ~Compensates(db, s) /\ \A i : ~AsksBack(db, s, i)
    <2>1. db.dir = "Forward" /\ ~db.frozen
      BY <1>1, <1>3 DEF JournalInv, Shape, Body, StatusShape, PlanShape
    <2>2. \A s \in Steps : ~Compensates(db, s)
      BY <1>1, <2>1 DEF JournalInv, Shape, Body, CommandShape
    <2> QED BY <2>2 DEF AsksBack, Compensates
  <1>6. Truth(db)
    BY <1>2, <1>3, <1>5, <1>a DEF Truth, RowTrue, OrderTrue, EndTrue, QueryTrue, Certain, NoWorld
  <1>7. ParticipantInv
    <2>1. \A s \in Steps : ~Reversing(s)
      BY <1>2 DEF Reversing
    <2>2. \A s \in Steps : GateTrue(gate[s], world[s], Reversing(s))
      BY <1>2, <2>1 DEF GateTrue, NoGate, NoWorld
    <2> QED BY <1>2, <2>2 DEF ParticipantInv, NoWorld
  <1> QED BY <1>1, <1>6, <1>7 DEF SagaInv

LEMMA NextSaga ==
  ASSUME ~StaleAnswers, SagaInv, [Next]_vars
  PROVE  SagaInv'
  <1>0. /\ JournalInv /\ Ready(db) /\ Shape(db) /\ Timed(db) /\ Journals(db) /\ db.ok /\ Sound(db)
    BY SagaReads, DbReads
  <1>a. JournalInv'
    BY <1>0, NextJournal
  <1>b. ASSUME NEW t, Commits(t), Told(t), Extends(db.cmds, t.cmds), OrchestratorOnly
        PROVE  SagaInv'
    BY <1>a, <1>b, OrchestratorTrue DEF OrchestratorOnly
  <1>1. CASE \E s \in Steps : \E i \in DOMAIN db.cmds[s] : ParticipantHandles(s, i)
    BY <1>1, HandlesTrue
  <1>2. CASE \E s \in Steps : \E i \in DOMAIN db.cmds[s] : ParticipantDies(s, i)
    BY <1>2, DiesTrue
  <1>3. CASE \E s \in Steps : \E i \in DOMAIN results[s] : ResultArrives(s, i)
    BY <1>3, ArrivesTrue
  <1>4. CASE PhaseTimeout
    <2> DEFINE t == OnPhaseTimeout([db EXCEPT !.timer = NoTimer], db.timer)
    <2>1. Told(t) /\ Extends(db.cmds, t.cmds)
      BY <1>0, <1>4, PhaseTimeoutSound, TimeoutAppends DEF PhaseTimeout
    <2>2. Commits(t) /\ OrchestratorOnly
      BY <1>4 DEF PhaseTimeout
    <2> HIDE DEF t
    <2> QED BY <1>b, <2>1, <2>2
  <1>5. CASE BudgetTimeout
    <2>0. PICK b \in db.budget : Commits(OnBudget([db EXCEPT !.budget = @ \ {b}]))
      BY <1>5 DEF BudgetTimeout
    <2> DEFINE t == OnBudget([db EXCEPT !.budget = db.budget \ {b}])
    <2>1. Told(t) /\ Extends(db.cmds, t.cmds)
      BY <1>0, BudgetSound, TimeoutAppends
    <2>2. Commits(t) /\ OrchestratorOnly
      BY <1>5, <2>0 DEF BudgetTimeout
    <2> HIDE DEF t
    <2> QED BY <1>b, <2>1, <2>2
  <1>6. CASE DeadlineTimeout
    <2> DEFINE t == OnDeadline([db EXCEPT !.deadline = FALSE])
    <2>1. Told(t) /\ Extends(db.cmds, t.cmds)
      BY <1>0, DeadlineSound, TimeoutAppends
    <2>2. Commits(t) /\ OrchestratorOnly
      BY <1>6 DEF DeadlineTimeout
    <2> HIDE DEF t
    <2> QED BY <1>b, <2>1, <2>2
  <1>7. CASE Pause
    <2> DEFINE t == [db EXCEPT !.paused = TRUE]
    <2>1. Told(t) /\ Extends(db.cmds, t.cmds)
      BY <1>0, PauseSound, OperationsAppend
    <2>2. Commits(t) /\ OrchestratorOnly
      BY <1>7 DEF Pause, Operate
    <2> HIDE DEF t
    <2> QED BY <1>b, <2>1, <2>2
  <1>8. CASE Resume
    <2> DEFINE t == [db EXCEPT !.paused = FALSE]
    <2>1. Told(t) /\ Extends(db.cmds, t.cmds)
      BY <1>0, PauseSound, OperationsAppend
    <2>2. t.ok
      BY <1>0 DEF Ready, DbType
    <2>3. Commits(t) /\ OrchestratorOnly
      BY <1>8, <2>2 DEF Resume, Commits
    <2> HIDE DEF t
    <2> QED BY <1>b, <2>1, <2>3
  <1>9. CASE RetryCompensation
    <2> DEFINE t == OnRetryCompensation(db)
    <2>1. Told(t) /\ Extends(db.cmds, t.cmds)
      BY <1>0, <1>9, RetryCompensationSound, OperationsAppend DEF RetryCompensation
    <2>2. Commits(t) /\ OrchestratorOnly
      BY <1>9 DEF RetryCompensation, Operate
    <2> HIDE DEF t
    <2> QED BY <1>b, <2>1, <2>2
  <1>10. CASE RetryResolution
    <2> DEFINE t == OnRetryResolution(db)
    <2>1. Told(t) /\ Extends(db.cmds, t.cmds)
      BY <1>0, <1>10, RetryResolutionSound, OperationsAppend DEF RetryResolution
    <2>2. Commits(t) /\ OrchestratorOnly
      BY <1>10 DEF RetryResolution, Operate
    <2> HIDE DEF t
    <2> QED BY <1>b, <2>1, <2>2
  <1>11. CASE ManualClose
    <2> DEFINE t == OnManualClose(db)
    <2>1. Told(t) /\ Extends(db.cmds, t.cmds)
      BY <1>0, ManualCloseSound, OperationsAppend
    <2>2. Commits(t) /\ OrchestratorOnly
      BY <1>11 DEF ManualClose, Operate
    <2> HIDE DEF t
    <2> QED BY <1>b, <2>1, <2>2
  <1>12. CASE UNCHANGED vars
    <2>1. Truth(db)'
      BY <1>12 DEF vars, SagaInv, Truth, RowTrue, OrderTrue, EndTrue, QueryTrue, Compensates, AsksBack, Reversing
    <2>2. ParticipantInv'
      BY <1>12 DEF vars, SagaInv, ParticipantInv, Compensates, Reversing, AsksBack, Overtaken
    <2> QED BY <1>a, <2>1, <2>2 DEF SagaInv
  <1> QED BY <1>1, <1>2, <1>3, <1>4, <1>5, <1>6, <1>7, <1>8, <1>9, <1>10, <1>11, <1>12 DEF Next

(* The invariant of the saga: its journal is true of the gates and of the  *)
(* world, and every answer a participant committed is too.                 *)
THEOREM SagaSafe ==
  ASSUME ~StaleAnswers
  PROVE  Spec => []SagaInv
  <1>1. Init => SagaInv
    BY InitSaga
  <1>2. SagaInv /\ [Next]_vars => SagaInv'
    BY NextSaga
  <1> QED BY <1>1, <1>2, PTL DEF Spec

(* A step the journal holds as succeeded acted, one it holds as rejected   *)
(* or cancelled did not and never will, and a compensation it holds as     *)
(* succeeded happened: whatever path wrote the fact (record_result, the    *)
(* cancellation barrier, a query, apply_monotonic_projection).             *)
THEOREM SagaJournalIsTrue ==
  ASSUME ~StaleAnswers
  PROVE  Spec => []JournalIsTrue
  <1>1. SagaInv => JournalIsTrue
    BY DEF SagaInv, Truth, RowTrue, ParticipantInv, GateTrue, JournalIsTrue, Certain
  <1> QED BY <1>1, SagaSafe, PTL

(* No step acts before its predecessors, and none is reversed while a      *)
(* later effect stands (next_pending_forward, next_pending_compensation).  *)
THEOREM SagaEffectOrder ==
  ASSUME ~StaleAnswers
  PROVE  Spec => []EffectOrder
  <1>1. ASSUME SagaInv PROVE EffectOrder
    <2>0. JournalInv /\ Truth(db) /\ ParticipantInv /\ Sound(db) /\ Shape(db)
      BY <1>1, SagaReads, DbReads
    <2>1. PICK k \in Steps : Front(db, k)
      BY <2>0 DEF Shape, Body
    <2>2. Steps \subseteq Int
      BY DEF Steps
    <2> SUFFICES ASSUME NEW s \in Steps, NEW t \in Steps, s < t
                 PROVE  /\ world[t].done => world[s].done
                        /\ world[s].undone /\ world[t].done => world[t].undone
      BY DEF EffectOrder
    <2>3. world[t].done => world[s].done
      <3> SUFFICES ASSUME world[t].done PROVE world[s].done
        OBVIOUS
      <3>1. db.cmds[t] # <<>>
        BY <2>0 DEF Sound, Quiet
      <3>2. s < k
        BY <2>1, <2>2, <3>1 DEF Front
      <3>3. gate[s].fwd = "Succeeded"
        BY <2>0, <2>1, <3>2 DEF Front, Truth, RowTrue, Certain
      <3> QED BY <2>0, <3>3 DEF ParticipantInv, GateTrue
    <2>4. world[s].undone /\ world[t].done => world[t].undone
      BY <2>0 DEF ParticipantInv, Truth, OrderTrue
    <2> QED BY <2>3, <2>4
  <1> QED BY <1>1, SagaSafe, PTL

(* The plan frozen by mark_compensation_plan is exactly the set of effects *)
(* that exist, and only a member of it is ever reversed.                   *)
THEOREM SagaPlanIsTheEffects ==
  ASSUME ~StaleAnswers
  PROVE  Spec => []PlanIsTheEffects
  <1>1. ASSUME SagaInv PROVE PlanIsTheEffects
    <2>0. JournalInv /\ Truth(db) /\ ParticipantInv /\ Sound(db) /\ Shape(db)
      BY <1>1, SagaReads, DbReads
    <2>1. db.frozen => {db.plan[i] : i \in DOMAIN db.plan} = {s \in Steps : world[s].done}
      <3> SUFFICES ASSUME db.frozen
                   PROVE  {db.plan[i] : i \in DOMAIN db.plan} = {s \in Steps : world[s].done}
        OBVIOUS
      <3>1. {db.plan[i] : i \in DOMAIN db.plan} = Succeeded(db)
        BY <2>0 DEF Shape, Body, PlanShape
      <3>2. \A s \in Steps : world[s].done => s \in Succeeded(db)
        BY <2>0, DoneSucceeded DEF Shape
      <3>3. \A s \in Succeeded(db) : s \in Steps /\ world[s].done
        BY <2>0 DEF Succeeded, Truth, RowTrue, Certain, ParticipantInv, GateTrue
      <3> HIDE DEF Succeeded
      <3> QED BY <3>1, <3>2, <3>3
    <2>2. ASSUME NEW s \in Steps, world[s].undone PROVE db.frozen /\ world[s].done
      BY <2>0, <2>2 DEF ParticipantInv, GateTrue, Shape, Body, CommandShape
    <2> QED BY <2>1, <2>2 DEF PlanIsTheEffects
  <1> QED BY <1>1, SagaSafe, PTL

(* COMPLETED means every effect stands, COMPENSATED that none does: the    *)
(* status advance of next_pending_forward and converge_compensated tells   *)
(* the truth about the world outside.                                      *)
THEOREM SagaTerminalIsTrue ==
  ASSUME ~StaleAnswers
  PROVE  Spec => []TerminalIsTrue
  <1>1. ASSUME SagaInv PROVE TerminalIsTrue
    <2>0. JournalInv /\ Truth(db) /\ ParticipantInv /\ Shape(db)
      BY <1>1, SagaReads, DbReads
    <2>1. ASSUME db.status = "Completed", NEW s \in Steps PROVE world[s].done /\ ~world[s].undone
      <3>1. db.row[s].fwd = "Succeeded" /\ db.dir = "Forward"
        BY <2>0, <2>1 DEF Shape, Body, StatusShape
      <3>2. world[s].done
        BY <2>0, <3>1 DEF Truth, RowTrue, Certain, ParticipantInv, GateTrue
      <3>3. ~Compensates(db, s)
        BY <2>0, <3>1 DEF Shape, Body, CommandShape, PlanShape
      <3> QED BY <2>0, <3>2, <3>3 DEF ParticipantInv
    <2>2. db.status = "Compensated" => \A s \in Steps : world[s].done => world[s].undone
      BY <2>0 DEF Truth, EndTrue
    <2> QED BY <2>1, <2>2 DEF TerminalIsTrue
  <1> QED BY <1>1, SagaSafe, PTL
=============================================================================
