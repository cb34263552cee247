------------------------ MODULE RunnerLifecycleProofs ------------------------
(***************************************************************************)
(* Proofs about RunnerLifecycle: the types of a generation's state, for    *)
(* every way to stop it, and, when nobody stops it before start has        *)
(* returned, that the exit of a worker and the shutdown report are final.  *)
(***************************************************************************)
EXTENDS RunnerLifecycle, FiniteSetTheorems, TLAPS

Stages == {"new", "counted", "entered", "refused"} \cup Accepted
WorkerPc == {"unborn", "turn", "check", "idle", "parked", "exited"}
Worker == [pc : WorkerPc, progressed : BOOLEAN, tick : BOOLEAN, deferred : {0} \cup Tasks]

Types ==
  /\ phase \in {"Starting", "Accepting", "Stopping", "Stopped", "Failed"}
  /\ mode \in {"Running", "Graceful", "Force"}
  /\ task \in [Tasks -> Stages]
  /\ main \in [Slots -> Seq(Tasks)]
  /\ worker \in [Slots -> Worker]
  /\ helper \in {"unborn", "running", "failing", "ended"}

(* The tasks whose submitter RunnerInner::producers counts.                *)
CountedPc == {"counted", "entered", "reserved"}
Counted == {t \in Tasks : task[t] \in CountedPc}

CountInv == producers = Cardinality(Counted)

(* A main queue holds exactly the reserved and the published tasks of its  *)
(* slot, each once.                                                        *)
Queued == {"reserved", "queued"}

QueueInv ==
  /\ \A s \in Slots : \A i \in DOMAIN main[s] :
       /\ Home[main[s][i]] = s /\ task[main[s][i]] \in Queued
       /\ \A j \in DOMAIN main[s] : main[s][i] = main[s][j] => i = j
  /\ \A t \in Tasks : task[t] \in Queued => \E i \in DOMAIN main[Home[t]] : main[Home[t]][i] = t

(* A worker keeps one task of its slot, and every kept task is kept.       *)
DeferredInv ==
  /\ \A s \in Slots : LET t == worker[s].deferred IN t # 0 => task[t] = "deferred" /\ Home[t] = s
  /\ \A t \in Tasks : task[t] = "deferred" => worker[Home[t]].deferred = t

TypeInv == Types /\ CountInv /\ QueueInv /\ DeferredInv

-----------------------------------------------------------------------------
(* What wakes a worker changes neither what it keeps nor whether it has    *)
(* left.                                                                   *)
SameWorkers ==
  /\ worker' \in [Slots -> Worker]
  /\ \A s \in Slots : /\ worker'[s].deferred = worker[s].deferred
                      /\ worker'[s].pc = "exited" <=> worker[s].pc = "exited"
                      /\ worker'[s].pc = "unborn" <=> worker[s].pc = "unborn"

LEMMA UnparkedFields ==
  ASSUME NEW w \in Worker
  PROVE  /\ Unparked(w) \in Worker /\ Unparked(w).pc = "turn"
         /\ Unparked(w).deferred = w.deferred
  BY DEF Unparked, Worker, WorkerPc

LEMMA OneWorkerMoves ==
  ASSUME worker \in [Slots -> Worker], NEW s \in Slots, NEW w \in Worker,
         worker' = [worker EXCEPT ![s] = w], w.deferred = worker[s].deferred,
         w.pc \notin {"exited", "unborn"}, worker[s].pc \notin {"exited", "unborn"}
  PROVE  SameWorkers
  BY DEF SameWorkers

LEMMA NotifyOneKeeps ==
  ASSUME worker \in [Slots -> Worker], NEW s \in Slots, NotifyOne(s)
  PROVE  SameWorkers
  <1>1. CASE worker[s].pc = "parked"
    <2>1. worker' = [worker EXCEPT ![s] = Unparked(worker[s])] /\ worker[s] \in Worker
      BY <1>1 DEF NotifyOne
    <2> QED BY <1>1, <2>1, UnparkedFields, OneWorkerMoves
  <1>2. CASE worker[s].pc # "parked"
    BY <1>2 DEF NotifyOne, SameWorkers
  <1> QED BY <1>1, <1>2

LEMMA NotifyAllKeeps ==
  ASSUME worker \in [Slots -> Worker], NotifyAll
  PROVE  SameWorkers
  <1>1. \A s \in Slots : worker'[s] = IF worker[s].pc = "parked" THEN Unparked(worker[s]) ELSE worker[s]
    BY DEF NotifyAll
  <1>2. \A s \in Slots : worker[s] \in Worker
    OBVIOUS
  <1>3. worker' \in [Slots -> Worker]
    BY <1>2, UnparkedFields DEF NotifyAll
  <1> QED BY <1>1, <1>2, <1>3, UnparkedFields DEF SameWorkers

LEMMA StillWorkers ==
  ASSUME worker \in [Slots -> Worker], UNCHANGED worker
  PROVE  SameWorkers
  BY DEF SameWorkers

(* Steps that leave every task, and what the workers keep, as it is.       *)
LEMMA QuietStep ==
  ASSUME TypeInv, UNCHANGED submission,
         \A s \in Slots : worker'[s].deferred = worker[s].deferred
  PROVE  CountInv' /\ QueueInv' /\ DeferredInv'
  <1>1. UNCHANGED <<task, producers, main>>
    BY DEF submission
  <1>2. CountInv'
    BY <1>1 DEF TypeInv, CountInv, Counted
  <1>3. QueueInv'
    BY <1>1 DEF TypeInv, QueueInv
  <1>4. DeferredInv'
    <2>1. \A t \in Tasks : Home[t] \in Slots
      BY LifecycleAssumption DEF Tasks
    <2> QED BY <1>1, <2>1 DEF TypeInv, DeferredInv
  <1> QED BY <1>2, <1>3, <1>4

(* A task moves between stages that no queue and no worker knows of, or    *)
(* within its queue.                                                       *)
LEMMA StageStep ==
  ASSUME TypeInv, NEW t \in Tasks, NEW to \in Stages, Stage(t, to),
         UNCHANGED main, \A s \in Slots : worker'[s].deferred = worker[s].deferred,
         task[t] \in Queued <=> to \in Queued, task[t] # "deferred", to # "deferred"
  PROVE  task' \in [Tasks -> Stages] /\ QueueInv' /\ DeferredInv'
  <1>0. \A u \in Tasks : Home[u] \in Slots
    BY LifecycleAssumption DEF Tasks
  <1>1. task' \in [Tasks -> Stages] /\ \A u \in Tasks : task'[u] = IF u = t THEN to ELSE task[u]
    BY DEF TypeInv, Types, Stage
  <1>2. \A u \in Tasks : task'[u] \in Queued <=> task[u] \in Queued
    BY <1>1
  <1>3. \A u \in Tasks : task'[u] = "deferred" <=> task[u] = "deferred"
    BY <1>1
  <1>4. \A s \in Slots : main[s] \in Seq(Tasks) /\ \A i \in DOMAIN main[s] : main[s][i] \in Tasks
    BY DEF TypeInv, Types
  <1>5. QueueInv'
    <2>1. ASSUME NEW s \in Slots, NEW i \in DOMAIN main[s]
          PROVE  /\ Home[main[s][i]] = s /\ task'[main[s][i]] \in Queued
                 /\ \A j \in DOMAIN main[s] : main[s][i] = main[s][j] => i = j
      BY <1>2, <1>4 DEF TypeInv, QueueInv
    <2>2. ASSUME NEW u \in Tasks, task'[u] \in Queued
          PROVE  \E i \in DOMAIN main[Home[u]] : main[Home[u]][i] = u
      BY <1>2, <2>2 DEF TypeInv, QueueInv
    <2> QED BY <2>1, <2>2 DEF QueueInv
  <1>6. DeferredInv'
    <2>1. ASSUME NEW s \in Slots, worker'[s].deferred # 0
          PROVE  task'[worker'[s].deferred] = "deferred" /\ Home[worker'[s].deferred] = s
      <3>1. worker[s] \in Worker
        BY DEF TypeInv, Types
      <3>2. worker[s].deferred \in Tasks
        BY <2>1, <3>1 DEF Worker
      <3> QED BY <1>3, <2>1, <3>2 DEF TypeInv, DeferredInv
    <2> QED BY <1>0, <1>3, <2>1 DEF TypeInv, DeferredInv
  <1> QED BY <1>1, <1>5, <1>6

(* The producer count moves with the stage of the task.                    *)
LEMMA CountStep ==
  ASSUME TypeInv, NEW t \in Tasks, NEW to \in Stages, Stage(t, to),
         \/ (task[t] \in CountedPc <=> to \in CountedPc) /\ producers' = producers
         \/ task[t] \notin CountedPc /\ to \in CountedPc /\ producers' = producers + 1
         \/ task[t] \in CountedPc /\ to \notin CountedPc /\ producers' = producers - 1
  PROVE  CountInv'
  <1>0. IsFiniteSet(Counted) /\ Cardinality(Counted) \in Nat
    <2>1. IsFiniteSet(Tasks)
      BY LifecycleAssumption, FS_Interval DEF Tasks
    <2>2. IsFiniteSet(Counted)
      BY <2>1, FS_Subset DEF Counted
    <2> QED BY <2>2, FS_CardinalityType
  <1>1. \A u \in Tasks : task'[u] = IF u = t THEN to ELSE task[u]
    BY DEF TypeInv, Types, Stage
  <1>2. CASE task[t] \in CountedPc <=> to \in CountedPc
    <2>1. Counted' = Counted
      BY <1>1, <1>2 DEF Counted
    <2> QED BY <1>2, <2>1 DEF TypeInv, CountInv
  <1>3. CASE task[t] \notin CountedPc /\ to \in CountedPc
    <2>1. Counted' = Counted \cup {t} /\ t \notin Counted
      BY <1>1, <1>3 DEF Counted
    <2>2. Cardinality(Counted') = Cardinality(Counted) + 1
      BY <1>0, <2>1, FS_AddElement
    <2> QED BY <1>3, <2>2 DEF TypeInv, CountInv
  <1>4. CASE task[t] \in CountedPc /\ to \notin CountedPc
    <2>1. Counted' = Counted \ {t} /\ t \in Counted
      BY <1>1, <1>4 DEF Counted
    <2>2. Cardinality(Counted') = Cardinality(Counted) - 1
      BY <1>0, <2>1, FS_RemoveElement
    <2> QED BY <1>4, <2>2 DEF TypeInv, CountInv
  <1> QED BY <1>2, <1>3, <1>4

(* reserve_main appends a task that no queue holds.                        *)
LEMMA AppendStep ==
  ASSUME TypeInv, NEW t \in Tasks, task[t] = "entered", Stage(t, "reserved"),
         main' = [main EXCEPT ![Home[t]] = Append(@, t)],
         \A s \in Slots : worker'[s].deferred = worker[s].deferred
  PROVE  task' \in [Tasks -> Stages] /\ main' \in [Slots -> Seq(Tasks)] /\ QueueInv' /\ DeferredInv'
  <1> DEFINE h == Home[t]
  <1>0. h \in Slots /\ \A u \in Tasks : Home[u] \in Slots
    BY LifecycleAssumption DEF Tasks
  <1>1. task' \in [Tasks -> Stages] /\ \A u \in Tasks : task'[u] = IF u = t THEN "reserved" ELSE task[u]
    BY DEF TypeInv, Types, Stage, Stages, Accepted
  <1>2. main[h] \in Seq(Tasks) /\ \A s \in Slots : main[s] \in Seq(Tasks) /\ \A i \in DOMAIN main[s] : main[s][i] \in Tasks
    BY <1>0 DEF TypeInv, Types
  <1>3. \A s \in Slots : main'[s] = IF s = h THEN Append(main[h], t) ELSE main[s]
    BY <1>0 DEF TypeInv, Types
  <1>4. main' \in [Slots -> Seq(Tasks)]
    BY <1>0, <1>2 DEF TypeInv, Types
  <1> HIDE DEF h
  <1>5. /\ DOMAIN main[h] = 1 .. Len(main[h]) /\ Len(main[h]) \in Nat
        /\ DOMAIN main'[h] = 1 .. Len(main[h]) + 1 /\ main'[h][Len(main[h]) + 1] = t
        /\ \A i \in DOMAIN main[h] : i \in DOMAIN main'[h] /\ main'[h][i] = main[h][i]
    <2>1. main'[h] = Append(main[h], t)
      BY <1>0, <1>3
    <2>2. main[h] \in Seq(Tasks)
      BY <1>2
    <2> HIDE DEF Tasks
    <2> QED BY <2>1, <2>2
  <1>6. \A s \in Slots : \A i \in DOMAIN main[s] : main[s][i] # t
    BY DEF TypeInv, QueueInv, Queued
  <1>7. h = Home[t]
    BY DEF h
  <1>8. QueueInv'
    <2>1. ASSUME NEW s \in Slots, NEW i \in DOMAIN main'[s]
          PROVE  /\ Home[main'[s][i]] = s /\ task'[main'[s][i]] \in Queued
                 /\ \A j \in DOMAIN main'[s] : main'[s][i] = main'[s][j] => i = j
      <3>1. CASE s # h
        <4>1. main'[s] = main[s]
          BY <1>3, <3>1
        <4>2. main[s][i] \in Tasks /\ main[s][i] # t
          BY <1>2, <1>6, <2>1, <4>1
        <4>3. /\ Home[main[s][i]] = s /\ task[main[s][i]] \in Queued
              /\ \A j \in DOMAIN main[s] : main[s][i] = main[s][j] => i = j
          BY <2>1, <4>1 DEF TypeInv, QueueInv
        <4> QED BY <1>1, <4>1, <4>2, <4>3
      <3>2. CASE s = h
        <4>1. \A j \in DOMAIN main'[h] : j \in DOMAIN main[h] \/ j = Len(main[h]) + 1
          BY <1>5
        <4>2. CASE i \in DOMAIN main[h]
          <5>1. main'[s][i] = main[h][i] /\ main[h][i] # t /\ main[h][i] \in Tasks
            BY <1>0, <1>2, <1>5, <1>6, <3>2, <4>2
          <5>2. Home[main[h][i]] = h /\ task[main[h][i]] \in Queued
            BY <1>0, <4>2 DEF TypeInv, QueueInv
          <5>3. ASSUME NEW j \in DOMAIN main'[h], main'[h][i] = main'[h][j] PROVE i = j
            <6>1. j \in DOMAIN main[h]
              BY <1>5, <3>2, <4>1, <5>1, <5>3
            <6>2. main[h][i] = main[h][j]
              BY <1>5, <4>2, <5>3, <6>1
            <6> QED BY <1>0, <4>2, <6>1, <6>2 DEF TypeInv, QueueInv
          <5> QED BY <1>1, <3>2, <5>1, <5>2, <5>3
        <4>3. CASE i = Len(main[h]) + 1
          <5>1. main'[s][i] = t
            BY <1>5, <3>2, <4>3
          <5>2. ASSUME NEW j \in DOMAIN main'[h], main'[h][j] = t PROVE j = i
            BY <1>0, <1>5, <1>6, <4>1, <4>3, <5>2
          <5> QED BY <1>1, <1>7, <3>2, <5>1, <5>2 DEF Queued
        <4> QED BY <2>1, <3>2, <4>1, <4>2, <4>3
      <3> QED BY <3>1, <3>2
    <2>2. ASSUME NEW u \in Tasks, task'[u] \in Queued
          PROVE  \E i \in DOMAIN main'[Home[u]] : main'[Home[u]][i] = u
      <3>1. CASE u = t
        <4>1. Len(main[h]) + 1 \in DOMAIN main'[h]
          BY <1>5
        <4> QED BY <1>5, <1>7, <3>1, <4>1
      <3>2. CASE u # t
        <4>1. PICK i \in DOMAIN main[Home[u]] : main[Home[u]][i] = u
          BY <1>1, <2>2, <3>2 DEF TypeInv, QueueInv
        <4>2. i \in DOMAIN main'[Home[u]] /\ main'[Home[u]][i] = u
          BY <1>0, <1>3, <1>5, <4>1
        <4> QED BY <4>2
      <3> QED BY <3>1, <3>2
    <2> QED BY <2>1, <2>2 DEF QueueInv
  <1>9. DeferredInv'
    <2>1. \A u \in Tasks : task'[u] = "deferred" <=> task[u] = "deferred"
      BY <1>1
    <2>2. ASSUME NEW s \in Slots, worker'[s].deferred # 0
          PROVE  task'[worker'[s].deferred] = "deferred" /\ Home[worker'[s].deferred] = s
      <3>1. worker[s] \in Worker
        BY DEF TypeInv, Types
      <3>2. worker[s].deferred \in Tasks
        BY <2>2, <3>1 DEF Worker
      <3> QED BY <2>1, <2>2, <3>2 DEF TypeInv, DeferredInv
    <2> QED BY <1>0, <2>1, <2>2 DEF TypeInv, DeferredInv
  <1> QED BY <1>1, <1>4, <1>8, <1>9

(* The head of a main queue, and what is behind it.                        *)
LEMMA HeadOfMain ==
  ASSUME TypeInv, NEW s \in Slots, main[s] # <<>>
  PROVE  /\ Head(main[s]) \in Tasks /\ Home[Head(main[s])] = s
         /\ task[Head(main[s])] \in Queued
         /\ Tail(main[s]) \in Seq(Tasks)
         /\ \A i \in DOMAIN Tail(main[s]) :
              i + 1 \in DOMAIN main[s] /\ Tail(main[s])[i] = main[s][i + 1]
              /\ Tail(main[s])[i] # Head(main[s])
         /\ \A i \in DOMAIN main[s] : main[s][i] # Head(main[s]) =>
              i - 1 \in DOMAIN Tail(main[s]) /\ Tail(main[s])[i - 1] = main[s][i]
  <1> DEFINE q == main[s]
  <1>1. q \in Seq(Tasks) /\ q # <<>>
    BY DEF TypeInv, Types
  <1>2. \A i \in DOMAIN q : Home[q[i]] = s /\ task[q[i]] \in Queued
                             /\ \A j \in DOMAIN q : q[i] = q[j] => i = j
    BY DEF TypeInv, QueueInv
  <1> HIDE DEF q, Tasks
  <1>3. Head(q) = q[1] /\ 1 \in DOMAIN q /\ Head(q) \in Tasks
    BY <1>1
  <1>4. Tail(q) \in Seq(Tasks) /\ DOMAIN q = 1 .. Len(q) /\ Len(q) \in Nat
        /\ DOMAIN Tail(q) = 1 .. Len(q) - 1
    BY <1>1
  <1>5. \A i \in DOMAIN Tail(q) : i + 1 \in DOMAIN q /\ Tail(q)[i] = q[i + 1] /\ i + 1 # 1
    BY <1>1, <1>4
  <1>6. \A i \in DOMAIN q : i # 1 => i - 1 \in DOMAIN Tail(q) /\ (i - 1) + 1 = i
    BY <1>4
  <1>7. \A i \in DOMAIN q : q[i] # Head(q) => i - 1 \in DOMAIN Tail(q) /\ Tail(q)[i - 1] = q[i]
    BY <1>3, <1>5, <1>6
  <1>8. \A i \in DOMAIN Tail(q) : Tail(q)[i] # Head(q)
    BY <1>2, <1>3, <1>5
  <1> QED BY <1>2, <1>3, <1>4, <1>5, <1>7, <1>8 DEF q

(* consume_main: the head leaves its queue.                                *)
LEMMA TailStep ==
  ASSUME TypeInv, NEW s \in Slots, main[s] # <<>>,
         NEW to \in Stages \ Queued, Stage(Head(main[s]), to),
         main' = [main EXCEPT ![s] = Tail(@)],
         \A r \in Slots \ {s} : worker'[r].deferred = worker[r].deferred,
         \/ to # "deferred" /\ worker'[s].deferred = worker[s].deferred
         \/ to = "deferred" /\ worker[s].deferred = 0 /\ worker'[s].deferred = Head(main[s])
  PROVE  task' \in [Tasks -> Stages] /\ main' \in [Slots -> Seq(Tasks)] /\ QueueInv' /\ DeferredInv'
  <1> DEFINE t == Head(main[s])
  <1>h. /\ t \in Tasks /\ Home[t] = s /\ task[t] \in Queued
        /\ Tail(main[s]) \in Seq(Tasks)
    BY HeadOfMain
  <1>0. \A u \in Tasks : Home[u] \in Slots
    BY LifecycleAssumption DEF Tasks
  <1>1. task' \in [Tasks -> Stages] /\ \A u \in Tasks : task'[u] = IF u = t THEN to ELSE task[u]
    BY <1>h DEF TypeInv, Types, Stage
  <1>2. \A r \in Slots : main[r] \in Seq(Tasks) /\ \A i \in DOMAIN main[r] : main[r][i] \in Tasks
    BY DEF TypeInv, Types
  <1>3. \A r \in Slots : main'[r] = IF r = s THEN Tail(main[s]) ELSE main[r]
    BY DEF TypeInv, Types
  <1>4. main' \in [Slots -> Seq(Tasks)]
    BY <1>h DEF TypeInv, Types
  <1>5. \A i \in DOMAIN Tail(main[s]) : /\ i \in Int /\ i + 1 \in DOMAIN main[s]
                                         /\ Tail(main[s])[i] = main[s][i + 1] /\ Tail(main[s])[i] # t
    BY <1>h, HeadOfMain
  <1>6. \A i \in DOMAIN main[s] : main[s][i] # t =>
          i - 1 \in DOMAIN Tail(main[s]) /\ Tail(main[s])[i - 1] = main[s][i]
    BY HeadOfMain
  <1> HIDE DEF t
  <1>8. QueueInv'
    <2>1. ASSUME NEW r \in Slots, NEW i \in DOMAIN main'[r]
          PROVE  /\ Home[main'[r][i]] = r /\ task'[main'[r][i]] \in Queued
                 /\ \A j \in DOMAIN main'[r] : main'[r][i] = main'[r][j] => i = j
      <3>1. CASE r # s
        <4>1. main'[r] = main[r]
          BY <1>3, <3>1
        <4>2. /\ Home[main[r][i]] = r /\ task[main[r][i]] \in Queued /\ main[r][i] \in Tasks
              /\ \A j \in DOMAIN main[r] : main[r][i] = main[r][j] => i = j
          BY <1>2, <2>1, <4>1 DEF TypeInv, QueueInv
        <4> QED BY <1>1, <1>h, <3>1, <4>1, <4>2
      <3>2. CASE r = s
        <4>1. main'[s] = Tail(main[s])
          BY <1>3
        <4>2. i + 1 \in DOMAIN main[s] /\ main'[s][i] = main[s][i + 1] /\ main'[s][i] # t
          BY <1>5, <2>1, <3>2, <4>1
        <4>3. /\ Home[main[s][i + 1]] = s /\ task[main[s][i + 1]] \in Queued /\ main[s][i + 1] \in Tasks
          BY <1>2, <4>2 DEF TypeInv, QueueInv
        <4>4. ASSUME NEW j \in DOMAIN main'[s], main'[s][i] = main'[s][j] PROVE i = j
          <5>1. j + 1 \in DOMAIN main[s] /\ main'[s][j] = main[s][j + 1]
            BY <1>5, <4>1, <4>4
          <5>2. i + 1 = j + 1
            <6>1. \A a, b \in DOMAIN main[s] : main[s][a] = main[s][b] => a = b
              BY DEF TypeInv, QueueInv
            <6> QED BY <4>2, <4>4, <5>1, <6>1
          <5>3. i \in Int /\ j \in Int
            BY <1>5, <2>1, <3>2, <4>1, <4>4
          <5> QED BY <5>2, <5>3
        <4> QED BY <1>1, <3>2, <4>2, <4>3, <4>4
      <3> QED BY <3>1, <3>2
    <2>2. ASSUME NEW u \in Tasks, task'[u] \in Queued
          PROVE  \E i \in DOMAIN main'[Home[u]] : main'[Home[u]][i] = u
      <3>0. u # t /\ task[u] \in Queued
        BY <1>1, <2>2
      <3>1. PICK i \in DOMAIN main[Home[u]] : main[Home[u]][i] = u
        BY <3>0 DEF TypeInv, QueueInv
      <3>2. CASE Home[u] = s
        <4>1. i - 1 \in DOMAIN main'[s] /\ main'[s][i - 1] = u
          <5>1. main'[s] = Tail(main[s])
            BY <1>3
          <5>2. i \in DOMAIN main[s] /\ main[s][i] = u
            BY <3>1, <3>2
          <5> QED BY <1>6, <3>0, <5>1, <5>2
        <4> QED BY <3>2, <4>1
      <3>3. CASE Home[u] # s
        BY <1>0, <1>3, <3>1, <3>3
      <3> QED BY <3>2, <3>3
    <2> QED BY <2>1, <2>2 DEF QueueInv
  <1>9. DeferredInv'
    <2>0. \A u \in Tasks : u # 0
      BY LifecycleAssumption DEF Tasks
    <2>t. task[t] # "deferred" /\ (worker'[s].deferred = t \/ worker'[s].deferred = worker[s].deferred)
      BY <1>h DEF Queued, t
    <2>1. ASSUME NEW r \in Slots, worker'[r].deferred # 0
          PROVE  task'[worker'[r].deferred] = "deferred" /\ Home[worker'[r].deferred] = r
      <3>1. CASE worker'[r].deferred = worker[r].deferred
        <4>1. worker[r] \in Worker
          BY DEF TypeInv, Types
        <4>2. worker[r].deferred \in Tasks
          BY <2>1, <3>1, <4>1 DEF Worker
        <4>3. task[worker[r].deferred] = "deferred" /\ Home[worker[r].deferred] = r
          BY <2>1, <3>1 DEF TypeInv, DeferredInv
        <4> QED BY <1>1, <2>t, <3>1, <4>2, <4>3
      <3>2. CASE r = s /\ to = "deferred" /\ worker'[s].deferred = t
        BY <1>1, <1>h, <3>2
      <3> QED BY <3>1, <3>2 DEF t
    <2>2. ASSUME NEW u \in Tasks, task'[u] = "deferred"
          PROVE  worker'[Home[u]].deferred = u
      <3>1. CASE u = t
        BY <1>1, <1>h, <2>2, <3>1 DEF t
      <3>2. CASE u # t
        <4>1. worker[Home[u]].deferred = u /\ u # 0
          BY <1>1, <2>0, <2>2, <3>2 DEF TypeInv, DeferredInv
        <4> QED BY <1>0, <4>1
      <3> QED BY <3>1, <3>2
    <2> QED BY <2>1, <2>2 DEF DeferredInv
  <1> QED BY <1>1, <1>4, <1>8, <1>9

(* The kept task goes on, or is frozen.                                    *)
LEMMA ResumeStep ==
  ASSUME TypeInv, NEW s \in Slots, worker[s].deferred # 0,
         NEW to \in Stages \ Queued, to # "deferred", Stage(worker[s].deferred, to),
         UNCHANGED main,
         \A r \in Slots \ {s} : worker'[r].deferred = worker[r].deferred,
         worker'[s].deferred = 0
  PROVE  task' \in [Tasks -> Stages] /\ QueueInv' /\ DeferredInv'
  <1> DEFINE t == worker[s].deferred
  <1>0. \A u \in Tasks : Home[u] \in Slots /\ u # 0
    BY LifecycleAssumption DEF Tasks
  <1>1. t \in Tasks /\ task[t] = "deferred" /\ Home[t] = s
    <2>1. worker[s] \in Worker
      BY DEF TypeInv, Types
    <2>2. worker[s].deferred \in Tasks
      BY <2>1 DEF Worker
    <2> QED BY <2>2 DEF TypeInv, DeferredInv
  <1>2. task' \in [Tasks -> Stages] /\ \A u \in Tasks : task'[u] = IF u = t THEN to ELSE task[u]
    BY <1>1 DEF TypeInv, Types, Stage
  <1> HIDE DEF t
  <1>3. \A u \in Tasks : task'[u] \in Queued <=> task[u] \in Queued
    BY <1>1, <1>2 DEF Queued
  <1>4. \A r \in Slots : \A i \in DOMAIN main[r] : main[r][i] \in Tasks
    BY DEF TypeInv, Types
  <1>5. QueueInv'
    <2>1. ASSUME NEW r \in Slots, NEW i \in DOMAIN main[r]
          PROVE  /\ Home[main[r][i]] = r /\ task'[main[r][i]] \in Queued
                 /\ \A j \in DOMAIN main[r] : main[r][i] = main[r][j] => i = j
      BY <1>3, <1>4 DEF TypeInv, QueueInv
    <2>2. ASSUME NEW u \in Tasks, task'[u] \in Queued
          PROVE  \E i \in DOMAIN main[Home[u]] : main[Home[u]][i] = u
      BY <1>3, <2>2 DEF TypeInv, QueueInv
    <2> QED BY <2>1, <2>2 DEF QueueInv
  <1>6. DeferredInv'
    <2>1. ASSUME NEW r \in Slots, worker'[r].deferred # 0
          PROVE  task'[worker'[r].deferred] = "deferred" /\ Home[worker'[r].deferred] = r
      <3>1. r # s /\ worker'[r].deferred = worker[r].deferred
        BY <2>1
      <3>2. worker[r] \in Worker
        BY DEF TypeInv, Types
      <3>3. worker[r].deferred \in Tasks
        BY <2>1, <3>1, <3>2 DEF Worker
      <3>4. task[worker[r].deferred] = "deferred" /\ Home[worker[r].deferred] = r
        BY <2>1, <3>1 DEF TypeInv, DeferredInv
      <3> QED BY <1>1, <1>2, <3>1, <3>3, <3>4
    <2>2. ASSUME NEW u \in Tasks, task'[u] = "deferred"
          PROVE  worker'[Home[u]].deferred = u
      <3>1. u # t /\ worker[Home[u]].deferred = u
        BY <1>2, <2>2 DEF TypeInv, DeferredInv
      <3> QED BY <1>0, <3>1 DEF t
    <2> QED BY <2>1, <2>2 DEF DeferredInv
  <1> QED BY <1>2, <1>5, <1>6

-----------------------------------------------------------------------------
(* Who moves the workers: a turn changes what its worker keeps, a check    *)
(* lets its worker leave, start gives birth to them all, and everything    *)
(* else at most wakes them.                                                *)
Leaves(s) ==
  /\ WorkerShouldExit(s) /\ worker[s].pc = "check" /\ worker[s].deferred = 0
  /\ worker'[s].pc = "exited" /\ worker'[s].deferred = 0
  /\ \A r \in Slots \ {s} : worker'[r] = worker[r]
  /\ UNCHANGED <<stopping, starter, submission, helper>>

TurnEnds(s) ==
  /\ worker[s].pc = "turn" /\ worker'[s].pc = "check"
  /\ \A r \in Slots \ {s} : worker'[r] = worker[r]

LEMMA TurnMoves ==
  ASSUME TypeInv, NEW s \in Slots, WorkerTurn(s)
  PROVE  worker' \in [Slots -> Worker] /\ TurnEnds(s)
  <1>0. worker \in [Slots -> Worker] /\ worker[s] \in Worker
    BY DEF TypeInv, Types
  <1>1. CASE Resume(s)
    <2>1. worker' = [worker EXCEPT ![s] = [worker[s] EXCEPT !.pc = "check", !.progressed = TRUE, !.deferred = 0]]
      BY <1>0, <1>1 DEF Resume
    <2>2. [worker[s] EXCEPT !.pc = "check", !.progressed = TRUE, !.deferred = 0] \in Worker
      BY <1>0 DEF Worker, WorkerPc
    <2> QED BY <1>0, <2>1, <2>2 DEF TurnEnds, WorkerTurn, Worker
  <1>2. CASE Consume(s)
    <2> DEFINE t == Head(main[s])
               w == [worker[s] EXCEPT !.pc = "check", !.progressed = TRUE]
    <2>0. t \in Tasks
      BY <1>2, HeadOfMain DEF Consume, HasItem
    <2>1. w \in Worker /\ w.pc = "check"
      BY <1>0 DEF Worker, WorkerPc
    <2>2. [w EXCEPT !.deferred = t] \in Worker /\ [w EXCEPT !.deferred = t].pc = "check"
      BY <2>0, <2>1 DEF Worker, WorkerPc
    <2>3. \/ worker' = [worker EXCEPT ![s] = w]
          \/ worker' = [worker EXCEPT ![s] = [w EXCEPT !.deferred = t]]
      BY <1>0, <1>2 DEF Consume
    <2> HIDE DEF t, w
    <2>4. worker[s].pc = "turn"
      BY DEF WorkerTurn
    <2> QED BY <1>0, <2>1, <2>2, <2>3, <2>4 DEF TurnEnds
  <1>3. CASE NoProgress(s)
    <2>1. worker' = [worker EXCEPT ![s] = [worker[s] EXCEPT !.pc = "check"]]
      BY <1>0, <1>3 DEF NoProgress
    <2>2. [worker[s] EXCEPT !.pc = "check"] \in Worker
      BY <1>0 DEF Worker, WorkerPc
    <2> QED BY <1>0, <2>1, <2>2 DEF TurnEnds, WorkerTurn, Worker
  <1> QED BY <1>1, <1>2, <1>3 DEF WorkerTurn

LEMMA CheckMoves ==
  ASSUME TypeInv, NEW s \in Slots, WorkerCheck(s)
  PROVE  worker' \in [Slots -> Worker] /\ (SameWorkers \/ Leaves(s))
  <1>0. worker \in [Slots -> Worker] /\ worker[s] \in Worker
    BY DEF TypeInv, Types
  <1>1. worker[s].pc = "check"
    BY DEF WorkerCheck
  <1>2. CASE WorkerShouldExit(s) /\ worker[s].deferred = 0
    <2> DEFINE w == [worker[s] EXCEPT !.pc = "exited", !.progressed = FALSE]
    <2>1. worker' = [worker EXCEPT ![s] = w]
      BY <1>0, <1>2 DEF WorkerCheck
    <2>2. w \in Worker /\ w.pc = "exited" /\ w.deferred = 0
      BY <1>0, <1>2 DEF Worker, WorkerPc
    <2>3. UNCHANGED <<stopping, starter, submission, helper>>
      BY DEF WorkerCheck
    <2> HIDE DEF w
    <2> QED BY <1>0, <1>1, <1>2, <2>1, <2>2, <2>3 DEF Leaves
  <1>3. CASE ~(WorkerShouldExit(s) /\ worker[s].deferred = 0)
    <2> DEFINE w == IF worker[s].progressed THEN Unparked(worker[s]) ELSE [worker[s] EXCEPT !.pc = "idle"]
    <2>1. worker' = [worker EXCEPT ![s] = w]
      BY <1>3 DEF WorkerCheck
    <2>2. w \in Worker /\ w.pc \notin {"exited", "unborn"} /\ w.deferred = worker[s].deferred
      BY <1>0, UnparkedFields DEF Worker, WorkerPc
    <2> HIDE DEF w
    <2>3. SameWorkers
      BY <1>0, <1>1, <2>1, <2>2, OneWorkerMoves
    <2> QED BY <2>3 DEF SameWorkers
  <1> QED BY <1>2, <1>3

LEMMA ParkMoves ==
  ASSUME TypeInv, NEW s \in Slots, WorkerPark(s) \/ WorkerTick(s)
  PROVE  SameWorkers
  <1>0. worker \in [Slots -> Worker] /\ worker[s] \in Worker
    BY DEF TypeInv, Types
  <1>1. worker[s].pc \in {"idle", "parked"}
    BY DEF WorkerPark, WorkerTick
  <1> DEFINE w == [worker[s] EXCEPT !.pc = "parked", !.tick = main[s] # <<>>]
  <1>2. w \in Worker /\ w.pc = "parked" /\ w.deferred = worker[s].deferred
    BY <1>0 DEF Worker, WorkerPc
  <1>3. worker' = [worker EXCEPT ![s] = Unparked(worker[s])] \/ worker' = [worker EXCEPT ![s] = w]
    BY <1>0 DEF WorkerPark, WorkerTick
  <1> HIDE DEF w
  <1> QED BY <1>0, <1>1, <1>2, <1>3, UnparkedFields, OneWorkerMoves

LEMMA WorkersMove ==
  ASSUME TypeInv, [Next]_vars
  PROVE  /\ worker' \in [Slots -> Worker]
         /\ \/ SameWorkers
            \/ \E s \in Slots : WorkerTurn(s) /\ TurnEnds(s)
            \/ \E s \in Slots : Leaves(s)
            \/ /\ StartChildren
               /\ \A s \in Slots : worker'[s].deferred = worker[s].deferred /\ worker'[s].pc = "turn"
  <1>0. worker \in [Slots -> Worker] /\ \A t \in Tasks : Home[t] \in Slots
    BY LifecycleAssumption DEF TypeInv, Types, Tasks
  <1>1. ASSUME StartChildren
        PROVE  /\ worker' \in [Slots -> Worker]
               /\ \A s \in Slots : worker'[s].deferred = worker[s].deferred /\ worker'[s].pc = "turn"
    BY <1>0, <1>1, UnparkedFields DEF StartChildren
  <1>2. ASSUME NEW t \in Tasks, Submit(t) \/ Recheck(t) \/ BusinessStarts(t) PROVE UNCHANGED worker
    BY <1>2 DEF Submit, Recheck, BusinessStarts, waking
  <1>3. ASSUME NEW t \in Tasks, Reserve(t) \/ Publish(t) \/ BusinessEnds(t) \/ BusinessAborted(t)
        PROVE  UNCHANGED worker \/ NotifyOne(Home[t])
    BY <1>3 DEF Reserve, Publish, BusinessEnds, BusinessAborted, waking
  <1>4. ASSUME Open \/ HelperExits \/ SupervisorRests \/ SupervisorTick \/ FailControlPlane
               \/ UNCHANGED vars
        PROVE  UNCHANGED worker
    BY <1>4 DEF Open, HelperExits, SupervisorRests, SupervisorTick, FailControlPlane, waking, vars
  <1>5. ASSUME Supervise PROVE UNCHANGED worker \/ NotifyAll
    BY <1>5 DEF Supervise, ForceWakes, waking
  <1>6. ASSUME NEW c \in Controllers, Claim(c) \/ Close(c) PROVE UNCHANGED worker \/ NotifyAll
    BY <1>6 DEF Claim, Close, waking
  <1>7. ASSUME NEW s \in Slots, WorkerStep(s)
        PROVE  /\ worker' \in [Slots -> Worker]
               /\ SameWorkers \/ (WorkerTurn(s) /\ TurnEnds(s)) \/ Leaves(s)
    <2>1. CASE WorkerTurn(s)
      BY <2>1, TurnMoves
    <2>2. CASE WorkerCheck(s)
      BY <2>2, CheckMoves
    <2>3. CASE WorkerPark(s) \/ WorkerTick(s)
      BY <2>3, ParkMoves DEF SameWorkers
    <2> QED BY <1>7, <2>1, <2>2, <2>3 DEF WorkerStep
  <1>8. SameWorkers => worker' \in [Slots -> Worker]
    BY DEF SameWorkers
  <1>9. ASSUME NEW t \in Tasks, Submit(t) \/ Producer(t) \/ BusinessStep(t) PROVE SameWorkers
    BY <1>0, <1>2, <1>3, <1>9, StillWorkers, NotifyOneKeeps DEF Producer, BusinessStep
  <1>10. ASSUME UNCHANGED worker \/ NotifyAll PROVE SameWorkers
    BY <1>0, <1>10, StillWorkers, NotifyAllKeeps
  <1> QED BY <1>1, <1>4, <1>5, <1>6, <1>7, <1>8, <1>9, <1>10 DEF Next, Start, SupervisorStep

-----------------------------------------------------------------------------
LEMMA TypeInvInit == Init => TypeInv
  <1> SUFFICES ASSUME Init PROVE TypeInv
    OBVIOUS
  <1>0. \A t \in Tasks : Home[t] \in Slots /\ task[t] = "new"
    BY LifecycleAssumption DEF Init, Tasks
  <1>1. \A s \in Slots : main[s] = <<>> /\ worker[s].deferred = 0
    BY DEF Init
  <1>2. Types
    <2>1. task \in [Tasks -> Stages] /\ main \in [Slots -> Seq(Tasks)] /\ worker \in [Slots -> Worker]
      BY DEF Init, Stages, Worker, WorkerPc
    <2> QED BY <2>1 DEF Types, Init
  <1>3. CountInv
    <2>1. Counted = {}
      BY <1>0 DEF Counted, CountedPc
    <2> QED BY <2>1, FS_EmptySet DEF CountInv, Init
  <1>4. QueueInv
    BY <1>0, <1>1 DEF QueueInv, Queued
  <1>5. DeferredInv
    BY <1>0, <1>1 DEF DeferredInv
  <1> QED BY <1>2, <1>3, <1>4, <1>5 DEF TypeInv

(* The plain variables.                                                    *)
LEMMA PlainTypes ==
  ASSUME TypeInv, [Next]_vars
  PROVE  /\ phase' \in {"Starting", "Accepting", "Stopping", "Stopped", "Failed"}
         /\ mode' \in {"Running", "Graceful", "Force"}
         /\ helper' \in {"unborn", "running", "failing", "ended"}
  <1> USE DEF TypeInv, Types, stopping
  <1>1. ASSUME NEW t \in Tasks, Submit(t) \/ Producer(t) \/ BusinessStep(t)
        PROVE  UNCHANGED <<phase, mode, helper>>
    BY <1>1 DEF Submit, Producer, BusinessStep, Recheck, Reserve, Publish,
        BusinessStarts, BusinessEnds, BusinessAborted
  <1>2. ASSUME NEW s \in Slots, WorkerStep(s) PROVE UNCHANGED <<phase, mode, helper>>
    BY <1>2 DEF WorkerStep, WorkerTurn, WorkerCheck, WorkerPark, WorkerTick
  <1>3. ASSUME NEW c \in Controllers, Claim(c) \/ Close(c)
        PROVE  /\ phase' \in {phase, "Stopping"} /\ mode' \in {mode, "Graceful", "Force"}
               /\ helper' \in {helper, "ended"}
    BY <1>3 DEF Claim, Close
  <1>4. ASSUME Start \/ HelperExits \/ SupervisorStep \/ FailControlPlane \/ UNCHANGED vars
        PROVE  /\ phase' \in {phase, "Accepting", "Stopping", "Stopped", "Failed"} /\ mode' = mode
               /\ helper' \in {helper, "running", "failing", "ended"}
    BY <1>4 DEF Start, StartChildren, Open, HelperExits, SupervisorStep, Supervise, SupervisorRests,
        SupervisorTick, FailControlPlane, vars
  <1> QED BY <1>1, <1>2, <1>3, <1>4 DEF Next

LEMMA TypeInvStep == TypeInv /\ [Next]_vars => TypeInv'
  <1> SUFFICES ASSUME TypeInv, [Next]_vars PROVE TypeInv'
    OBVIOUS
  <1> USE DEF submission
  <1> DEFINE Rest == task' \in [Tasks -> Stages] /\ main' \in [Slots -> Seq(Tasks)]
                     /\ CountInv' /\ QueueInv' /\ DeferredInv'
  <1>0. /\ task \in [Tasks -> Stages] /\ main \in [Slots -> Seq(Tasks)]
        /\ \A t \in Tasks : Home[t] \in Slots
    BY LifecycleAssumption DEF TypeInv, Types, Tasks
  <1>1. worker' \in [Slots -> Worker]
    BY WorkersMove
  <1>k. SameWorkers => \A s \in Slots : worker'[s].deferred = worker[s].deferred
    BY DEF SameWorkers
  <1>q. ASSUME UNCHANGED submission, \A s \in Slots : worker'[s].deferred = worker[s].deferred
        PROVE  Rest
    BY <1>0, <1>q, QuietStep
  <1>2. ASSUME NEW t \in Tasks, Submit(t) \/ Recheck(t) \/ BusinessStarts(t) PROVE Rest
    <2>1. UNCHANGED <<main, worker>>
      BY <1>2 DEF Submit, Recheck, BusinessStarts, waking
    <2>2. PICK to \in {"counted", "entered", "refused", "running"} :
            /\ Stage(t, to) /\ task[t] \in {"new", "counted", "spawned"}
            /\ \/ (task[t] \in CountedPc <=> to \in CountedPc) /\ producers' = producers
               \/ task[t] \notin CountedPc /\ to \in CountedPc /\ producers' = producers + 1
               \/ task[t] \in CountedPc /\ to \notin CountedPc /\ producers' = producers - 1
      BY <1>2 DEF Submit, Recheck, BusinessStarts, CountedPc
    <2>3. to \in Stages
      BY DEF Stages, Accepted
    <2>4. CountInv'
      BY <2>2, <2>3, CountStep
    <2> QED BY <1>0, <2>1, <2>2, <2>3, <2>4, StageStep DEF Queued
  <1>3. ASSUME NEW t \in Tasks, Publish(t) \/ BusinessEnds(t) \/ BusinessAborted(t) PROVE Rest
    <2>1. UNCHANGED main /\ (UNCHANGED worker \/ NotifyOne(Home[t]))
      BY <1>3 DEF Publish, BusinessEnds, BusinessAborted, waking
    <2>2. \A s \in Slots : worker'[s].deferred = worker[s].deferred
      BY <1>0, <1>k, <2>1, NotifyOneKeeps DEF TypeInv, Types
    <2>3. PICK to \in {"queued", "done", "aborted", "dropped"} :
            /\ Stage(t, to)
            /\ \/ task[t] = "reserved" /\ to = "queued" /\ producers' = producers - 1
               \/ task[t] \in {"running", "spawned"} /\ to # "queued" /\ producers' = producers
      BY <1>3 DEF Publish, BusinessEnds, BusinessAborted
    <2>4. to \in Stages
      BY DEF Stages, Accepted, Over, Settled
    <2>5. CountInv'
      BY <2>3, <2>4, CountStep DEF CountedPc
    <2> QED BY <1>0, <2>1, <2>2, <2>3, <2>4, <2>5, StageStep DEF Queued
  <1>4. ASSUME NEW t \in Tasks, Reserve(t) PROVE Rest
    <2>1. task[t] = "entered"
      BY <1>4 DEF Reserve
    <2>2. CASE accepting[Home[t]]
      <3>1. /\ main' = [main EXCEPT ![Home[t]] = Append(@, t)]
            /\ Stage(t, "reserved") /\ NotifyOne(Home[t]) /\ producers' = producers
        BY <1>4, <2>2 DEF Reserve
      <3>2. \A s \in Slots : worker'[s].deferred = worker[s].deferred
        BY <1>0, <1>k, <3>1, NotifyOneKeeps DEF TypeInv, Types
      <3>3. "reserved" \in Stages
        BY DEF Stages, Accepted
      <3>4. CountInv'
        BY <2>1, <3>1, <3>3, CountStep DEF CountedPc
      <3> QED BY <2>1, <3>1, <3>2, <3>4, AppendStep
    <2>3. CASE ~accepting[Home[t]]
      <3>1. Stage(t, "refused") /\ producers' = producers - 1 /\ UNCHANGED <<main, worker>>
        BY <1>4, <2>3 DEF Reserve, waking
      <3>2. "refused" \in Stages
        BY DEF Stages
      <3>3. CountInv'
        BY <2>1, <3>1, <3>2, CountStep DEF CountedPc
      <3> QED BY <1>0, <2>1, <3>1, <3>2, <3>3, StageStep DEF Queued
    <2> QED BY <2>2, <2>3
  <1>5. ASSUME NEW s \in Slots, WorkerTurn(s) PROVE Rest
    <2>0. producers' = producers /\ (\A r \in Slots \ {s} : worker'[r].deferred = worker[r].deferred)
          /\ worker[s] \in Worker /\ worker \in [Slots -> Worker]
      BY <1>5, TurnMoves DEF WorkerTurn, TurnEnds, TypeInv, Types
    <2>d. {"frozen", "spawned", "deferred"} \subseteq (Stages \ Queued) \ CountedPc
      BY DEF Stages, Accepted, Over, Settled, Queued, CountedPc
    <2>1. CASE worker[s].deferred # 0 /\ Resume(s)
      <3> DEFINE t == worker[s].deferred
      <3>1. PICK to \in {"frozen", "spawned"} : Stage(t, to)
        BY <2>1 DEF Resume, Dispatch
      <3>2. UNCHANGED main /\ worker'[s].deferred = 0
        <4>1. worker' = [worker EXCEPT ![s] = [worker[s] EXCEPT !.pc = "check", !.progressed = TRUE, !.deferred = 0]]
          BY <2>0, <2>1 DEF Resume
        <4>2. [worker[s] EXCEPT !.pc = "check", !.progressed = TRUE, !.deferred = 0].deferred = 0
          BY <2>0 DEF Worker
        <4> QED BY <2>0, <2>1, <4>1, <4>2 DEF Resume
      <3>3. t \in Tasks /\ task[t] = "deferred"
        BY <2>0, <2>1 DEF Worker, TypeInv, DeferredInv
      <3> HIDE DEF t
      <3>4. CountInv'
        BY <2>0, <2>d, <3>1, <3>3, CountStep DEF CountedPc
      <3> QED BY <1>0, <2>0, <2>1, <2>d, <3>1, <3>2, <3>4, ResumeStep DEF t
    <2>2. CASE worker[s].deferred = 0 /\ Consume(s)
      <3> DEFINE t == Head(main[s])
                 w == [worker EXCEPT ![s].pc = "check", ![s].progressed = TRUE]
      <3>0. /\ main[s] # <<>> /\ main' = [main EXCEPT ![s] = Tail(@)]
            /\ task[t] # "reserved"
        BY <2>2 DEF Consume, HasItem
      <3>1. t \in Tasks /\ task[t] \in Queued
        BY <3>0, HeadOfMain
      <3>2. w \in [Slots -> Worker] /\ w[s].deferred = worker[s].deferred
        <4>1. w = [worker EXCEPT ![s] = [worker[s] EXCEPT !.pc = "check", !.progressed = TRUE]]
          BY <2>0
        <4>2. /\ [worker[s] EXCEPT !.pc = "check", !.progressed = TRUE] \in Worker
              /\ [worker[s] EXCEPT !.pc = "check", !.progressed = TRUE].deferred = worker[s].deferred
          BY <2>0 DEF Worker, WorkerPc
        <4> QED BY <2>0, <4>1, <4>2
      <3>3. \/ worker' = w /\ \E to \in {"frozen", "spawned"} : Stage(t, to)
            \/ worker' = [w EXCEPT ![s].deferred = t] /\ Stage(t, "deferred")
        BY <2>2 DEF Consume, Dispatch
      <3> HIDE DEF w
      <3>4. PICK to \in {"frozen", "spawned", "deferred"} :
              /\ Stage(t, to)
              /\ \/ to # "deferred" /\ worker'[s].deferred = worker[s].deferred
                 \/ to = "deferred" /\ worker'[s].deferred = t
        <4>1. [w EXCEPT ![s].deferred = t][s].deferred = t
          BY <3>2 DEF Worker
        <4> QED BY <3>2, <3>3, <4>1
      <3>5. CountInv'
        BY <2>0, <2>d, <3>0, <3>1, <3>4, CountStep DEF CountedPc, Queued
      <3> QED BY <2>0, <2>2, <2>d, <3>0, <3>4, <3>5, TailStep
    <2>3. CASE NoProgress(s)
      <3>1. UNCHANGED submission /\ worker' = [worker EXCEPT ![s] = [worker[s] EXCEPT !.pc = "check"]]
        BY <2>0, <2>3 DEF NoProgress
      <3>2. [worker[s] EXCEPT !.pc = "check"].deferred = worker[s].deferred
        BY <2>0 DEF Worker
      <3>3. worker'[s].deferred = worker[s].deferred
        BY <2>0, <3>1, <3>2
      <3>4. \A r \in Slots : worker'[r].deferred = worker[r].deferred
        BY <2>0, <3>3
      <3> QED BY <1>q, <3>1, <3>4
    <2> QED BY <1>5, <2>1, <2>2, <2>3 DEF WorkerTurn
  <1>6. ASSUME UNCHANGED submission, ~\E s \in Slots : WorkerTurn(s) PROVE Rest
    <2>1. \A s \in Slots : worker'[s].deferred = worker[s].deferred
      BY <1>6, <1>k, WorkersMove DEF Leaves
    <2> QED BY <1>6, <1>q, <2>1
  <1>7. ASSUME \/ Start \/ HelperExits \/ SupervisorStep \/ FailControlPlane \/ UNCHANGED vars
               \/ \E s \in Slots : WorkerCheck(s) \/ WorkerPark(s) \/ WorkerTick(s)
               \/ \E c \in Controllers : Claim(c) \/ Close(c)
        PROVE  UNCHANGED submission
    BY <1>7 DEF Start, StartChildren, Open, HelperExits, SupervisorStep, Supervise, SupervisorRests,
        SupervisorTick, FailControlPlane, vars, WorkerCheck, WorkerPark, WorkerTick, Claim, Close
  <1>8. Rest
    <2>1. CASE \E t \in Tasks : Submit(t) \/ Producer(t) \/ BusinessStep(t)
      BY <1>2, <1>3, <1>4, <2>1 DEF Producer, BusinessStep
    <2>2. CASE \E s \in Slots : WorkerTurn(s)
      BY <1>5, <2>2
    <2> QED BY <1>6, <1>7, <2>1, <2>2 DEF Next, WorkerStep
  <1>9. Types'
    BY <1>1, <1>8, PlainTypes DEF Types
  <1> QED BY <1>8, <1>9 DEF TypeInv

(* Every state of a generation has its type: in particular the producer    *)
(* count is the number of submissions under way, however the generation is *)
(* stopped (ProducerGuard, runner.rs).                                     *)
THEOREM TypeCorrect == Spec => []TypeOK
  <1>1. TypeInv => TypeOK
    <2> SUFFICES ASSUME TypeInv PROVE TypeOK
      OBVIOUS
    <2>1. producers = Cardinality({t \in Tasks : task[t] \in {"counted", "entered", "reserved"}})
      BY DEF TypeInv, CountInv, Counted, CountedPc
    <2>2. ASSUME NEW s \in Slots
          PROVE  /\ main[s] \in Seq(Tasks) /\ worker[s].pc \in WorkerPc
                 /\ worker[s].deferred \in {0} \cup In("deferred")
      <3>1. worker[s] \in Worker /\ main[s] \in Seq(Tasks)
        BY DEF TypeInv, Types
      <3>2. worker[s].deferred # 0 => task[worker[s].deferred] = "deferred"
        BY DEF TypeInv, DeferredInv
      <3> QED BY <3>1, <3>2 DEF Worker, In
    <2>3. \A t \in Tasks : task[t] \in Stages
      BY DEF TypeInv, Types
    <2> QED BY <2>1, <2>2, <2>3 DEF TypeOK, TypeInv, Types, WorkerPc, Stages
  <1> QED BY <1>1, TypeInvInit, TypeInvStep, PTL DEF Spec

-----------------------------------------------------------------------------
(* From here on nobody stops the generation before start has returned.     *)

(* Until start has returned the phase is Starting and no call to stop has  *)
(* begun; once the children are there every slot has its worker.           *)
StartInv ==
  /\ starter \in {"children", "open", "done"}
  /\ starter # "done" => /\ phase = "Starting"
                         /\ \A c \in Controllers : ctl[c] = "idle"
                         /\ \A s \in Slots : ~Exited(s)
  /\ starter # "children" => \A s \in Slots : worker[s].pc # "unborn"

Closed == phase \in {"Stopping", "Stopped", "Failed"}

(* The first worker to leave has seen every queue empty and nobody on the  *)
(* way in, and the door was closed before.                                 *)
ExitInv ==
  /\ (\E s \in Slots : Exited(s)) =>
       Closed /\ Counted = {} /\ \A r \in Slots : main[r] = <<>>
  /\ \A s \in Slots : Exited(s) => worker[s].deferred = 0

(* A generation that is stopping has its operation, or a failing child     *)
(* that is about to claim it.                                              *)
StopInv ==
  /\ DOMAIN op = {"started", "baseline", "report", "finished"}
  /\ ctl \in [Controllers -> {"idle", "claim", "close", "waiting"}]
  /\ phase = "Stopping" => op.started \/ helper = "failing"
  /\ helper = "failing" => "failure" \in Controllers /\ ctl["failure"] \in {"claim", "close"}
  /\ \A c \in Controllers : ctl[c] \in {"close", "waiting"} => op.started

(* After the report there is nobody left to move a task.                   *)
DoneInv ==
  op.finished =>
    /\ sup = "gone" /\ phase \in {"Stopped", "Failed"} /\ op.started
    /\ helper \notin {"running", "failing"}
    /\ \A s \in Slots : Exited(s)
    /\ In("spawned") \cup In("running") = {}
    /\ op.report = Report

LifeInv == TypeInv /\ StartInv /\ ExitInv /\ StopInv /\ DoneInv

(* The steps that a stop is made of are the only ones to touch its state.  *)
LEMMA StoppingMoves ==
  ASSUME [Next]_vars
  PROVE  \/ StartChildren \/ Open \/ HelperExits \/ Supervise \/ FailControlPlane
         \/ \E c \in Controllers : Claim(c) \/ Close(c)
         \/ UNCHANGED <<phase, op, starter, helper, ctl>> /\ (sup' = sup \/ sup # "gone")
  <1> USE DEF stopping
  <1>1. ASSUME NEW t \in Tasks, Submit(t) \/ Producer(t) \/ BusinessStep(t)
        PROVE  UNCHANGED <<phase, op, starter, helper, ctl>> /\ (sup' = sup \/ sup # "gone")
    BY <1>1 DEF Submit, Producer, BusinessStep, Recheck, Reserve, Publish,
        BusinessStarts, BusinessEnds, BusinessAborted, Signal
  <1>2. ASSUME NEW s \in Slots, WorkerStep(s)
        PROVE  UNCHANGED <<phase, op, starter, helper, ctl>> /\ (sup' = sup \/ sup # "gone")
    BY <1>2 DEF WorkerStep, WorkerTurn, WorkerCheck, WorkerPark, WorkerTick, Resume, Consume,
        NoProgress, Signal
  <1>3. ASSUME SupervisorRests \/ SupervisorTick \/ UNCHANGED vars
        PROVE  UNCHANGED <<phase, op, starter, helper, ctl>> /\ (sup' = sup \/ sup # "gone")
    BY <1>3 DEF SupervisorRests, SupervisorTick, vars
  <1> QED BY <1>1, <1>2, <1>3 DEF Next, Start, SupervisorStep

(* The phase opens once, closes after that, and stays closed.              *)
LEMMA PhaseMoves ==
  ASSUME ~StopInStart, StartInv, [Next]_vars
  PROVE  \/ phase' = phase
         \/ Open /\ phase = "Starting" /\ phase' = "Accepting"
         \/ phase' = "Stopping" /\ starter = "done" /\ starter' = "done"
         \/ phase = "Stopping" /\ phase' \in {"Stopped", "Failed"}
  <1>1. CASE StartChildren \/ HelperExits
    BY <1>1 DEF StartChildren, HelperExits, stopping
  <1>2. CASE Open
    BY <1>2 DEF Open, StartInv
  <1>3. CASE Supervise
    BY <1>3 DEF Supervise
  <1>4. CASE FailControlPlane
    BY <1>4 DEF FailControlPlane, MayStop
  <1>5. ASSUME NEW c \in Controllers, Claim(c) \/ Close(c)
        PROVE  phase' = phase \/ (phase' = "Stopping" /\ starter = "done" /\ starter' = "done")
    <2>1. Claim(c) => starter = "done" /\ starter' = starter
      BY DEF Claim, Calls, MayStop, StartInv
    <2> QED BY <1>5, <2>1 DEF Claim, Close
  <1> QED BY <1>1, <1>2, <1>3, <1>4, <1>5, StoppingMoves

LEMMA StartStep ==
  ASSUME ~StopInStart, TypeInv, StartInv, [Next]_vars
  PROVE  StartInv'
  <1>1. CASE starter = "done"
    <2>1. starter' = "done"
      BY <1>1, StoppingMoves DEF StartChildren, Open, HelperExits, Supervise, FailControlPlane,
          Claim, Close
    <2>2. \A s \in Slots : worker[s].pc # "unborn"
      BY <1>1 DEF StartInv
    <2>3. \A s \in Slots : worker'[s].pc # "unborn"
      <3>1. CASE SameWorkers
        BY <2>2, <3>1 DEF SameWorkers
      <3>2. ASSUME NEW s \in Slots, TurnEnds(s) \/ Leaves(s) PROVE \A r \in Slots : worker'[r].pc # "unborn"
        BY <2>2, <3>2 DEF TurnEnds, Leaves
      <3> QED BY <3>1, <3>2, WorkersMove
    <2> QED BY <2>1, <2>3 DEF StartInv
  <1>2. CASE starter # "done"
    <2>0. /\ phase = "Starting" /\ starter \in {"children", "open"}
          /\ \A s \in Slots : worker[s].pc # "exited"
          /\ \A c \in Controllers : ctl[c] = "idle"
      BY <1>2 DEF StartInv, Exited
    <2>1. ~FailControlPlane /\ \A c \in Controllers : ~Claim(c) /\ ~Close(c)
      BY <1>2, <2>0 DEF FailControlPlane, Claim, Close, Calls, MayStop
    <2>2. \A s \in Slots : ~Leaves(s)
      BY <2>0 DEF Leaves, WorkerShouldExit
    <2>3. \A s \in Slots : worker'[s].pc # "exited"
      BY <2>0, <2>2, WorkersMove DEF SameWorkers, TurnEnds
    <2>4. starter # "children" => \A s \in Slots : worker'[s].pc # "unborn"
      <3>1. SameWorkers /\ starter # "children" => \A s \in Slots : worker'[s].pc # "unborn"
        BY DEF SameWorkers, StartInv
      <3>2. ASSUME NEW s \in Slots, TurnEnds(s), starter # "children"
            PROVE  \A r \in Slots : worker'[r].pc # "unborn"
        BY <3>2 DEF TurnEnds, StartInv
      <3> QED BY <2>2, <3>1, <3>2, WorkersMove DEF StartChildren
    <2>5. CASE StartChildren
      <3>1. UNCHANGED <<phase, ctl>> /\ starter' = "open"
        BY <2>5 DEF StartChildren, stopping
      <3>2. \A s \in Slots : worker'[s].pc = "turn"
        <4>1. \A s \in Slots : worker[s] \in Worker /\ worker'[s] = Unparked(worker[s])
          BY <2>5 DEF StartChildren, TypeInv, Types
        <4> QED BY <4>1, UnparkedFields
      <3> QED BY <2>0, <2>3, <3>1, <3>2 DEF StartInv, Exited
    <2>6. CASE Open
      BY <2>4, <2>6 DEF Open, StartInv
    <2>7. CASE UNCHANGED <<phase, starter, ctl>>
      BY <2>0, <2>3, <2>4, <2>7 DEF StartInv, Exited
    <2>8. HelperExits => UNCHANGED <<phase, starter, ctl>>
      BY DEF HelperExits, stopping
    <2>9. Supervise => UNCHANGED <<phase, starter, ctl>>
      BY <2>0 DEF Supervise
    <2> QED BY <2>1, <2>5, <2>6, <2>7, <2>8, <2>9, StoppingMoves
  <1> QED BY <1>1, <1>2

(* Once the door is closed, nobody is on the way in and the queues are     *)
(* empty, they stay so.                                                    *)
LEMMA ClosedStays ==
  ASSUME TypeInv, [Next]_vars, phase # "Accepting", Counted = {}, \A r \in Slots : main[r] = <<>>
  PROVE  Counted' = {} /\ UNCHANGED main
  <1> USE DEF submission
  <1>0. \A t \in Tasks : task[t] \notin CountedPc
    BY DEF Counted
  <1>1. \A t \in Tasks : ~Submit(t) /\ ~Producer(t)
    BY <1>0 DEF Submit, Producer, Recheck, Reserve, Publish, CountedPc
  <1>2. ASSUME NEW t \in Tasks, NEW to, to \notin CountedPc, Stage(t, to) PROVE Counted' = {}
    <2>1. \A u \in Tasks : task'[u] = IF u = t THEN to ELSE task[u]
      BY <1>2 DEF Stage, TypeInv, Types
    <2> QED BY <1>0, <1>2, <2>1 DEF Counted
  <1>3. ASSUME UNCHANGED <<task, main>> PROVE Counted' = {} /\ UNCHANGED main
    BY <1>3 DEF Counted
  <1>4. ASSUME NEW t \in Tasks, BusinessStep(t) PROVE Counted' = {} /\ UNCHANGED main
    <2>1. UNCHANGED main /\ \E to \in {"running", "done", "aborted", "dropped"} : Stage(t, to)
      BY <1>4 DEF BusinessStep, BusinessStarts, BusinessEnds, BusinessAborted
    <2> QED BY <1>2, <2>1 DEF CountedPc
  <1>5. ASSUME NEW s \in Slots, WorkerStep(s) PROVE Counted' = {} /\ UNCHANGED main
    <2>1. ~Consume(s)
      BY DEF Consume, HasItem
    <2>2. CASE worker[s].deferred # 0 /\ Resume(s)
      <3>1. worker[s] \in Worker
        BY DEF TypeInv, Types
      <3>2. worker[s].deferred \in Tasks
        BY <2>2, <3>1 DEF Worker
      <3>3. UNCHANGED main /\ \E to \in {"frozen", "spawned"} : Stage(worker[s].deferred, to)
        BY <2>2 DEF Resume, Dispatch
      <3> QED BY <1>2, <3>2, <3>3 DEF CountedPc
    <2>3. CASE NoProgress(s) \/ WorkerCheck(s) \/ WorkerPark(s) \/ WorkerTick(s)
      BY <1>3, <2>3 DEF NoProgress, WorkerCheck, WorkerPark, WorkerTick
    <2> QED BY <1>5, <2>1, <2>2, <2>3 DEF WorkerStep, WorkerTurn
  <1>6. ASSUME \/ Start \/ HelperExits \/ SupervisorStep \/ FailControlPlane \/ UNCHANGED vars
               \/ \E c \in Controllers : Claim(c) \/ Close(c)
        PROVE  UNCHANGED submission
    BY <1>6 DEF Start, StartChildren, Open, HelperExits, SupervisorStep, Supervise, SupervisorRests,
        SupervisorTick, FailControlPlane, vars, Claim, Close
  <1> QED BY <1>1, <1>3, <1>4, <1>5, <1>6 DEF Next

LEMMA ExitStep ==
  ASSUME ~StopInStart, TypeInv, StartInv, ExitInv, [Next]_vars
  PROVE  ExitInv'
  <1>0. \A s \in Slots : worker[s] \in Worker
    BY DEF TypeInv, Types
  <1>1. ASSUME Closed PROVE Closed'
    BY <1>1, PhaseMoves DEF Closed
  <1>2. CASE \E s \in Slots : Leaves(s)
    <2>1. PICK s \in Slots : Leaves(s)
      BY <1>2
    <2>2. Closed /\ UNCHANGED <<task, main, phase>> /\ producers = 0 /\ \A r \in Slots : main[r] = <<>>
      BY <2>1 DEF Leaves, WorkerShouldExit, Closed, stopping, submission
    <2>3. Counted = {}
      <3>1. IsFiniteSet(Counted)
        BY LifecycleAssumption, FS_Interval, FS_Subset DEF Tasks, Counted
      <3> QED BY <2>2, <3>1, FS_EmptySet DEF TypeInv, CountInv
    <2>4. Closed' /\ Counted' = {} /\ \A r \in Slots : main'[r] = <<>>
      BY <2>2, <2>3 DEF Closed, Counted
    <2>5. ASSUME NEW r \in Slots, worker'[r].pc = "exited" PROVE worker'[r].deferred = 0
      BY <2>1, <2>5 DEF Leaves, ExitInv, Exited
    <2> QED BY <2>4, <2>5 DEF ExitInv, Exited
  <1>3. CASE \A s \in Slots : ~Leaves(s)
    <2>1. ASSUME NEW s \in Slots, worker'[s].pc = "exited"
          PROVE  worker[s].pc = "exited" /\ worker'[s].deferred = worker[s].deferred
      BY <1>3, <2>1, WorkersMove DEF SameWorkers, TurnEnds
    <2>2. ASSUME NEW s \in Slots, worker'[s].pc = "exited"
          PROVE  Closed' /\ Counted' = {} /\ \A r \in Slots : main'[r] = <<>>
      <3>1. Closed /\ Counted = {} /\ \A r \in Slots : main[r] = <<>>
        BY <2>1, <2>2 DEF ExitInv, Exited
      <3>2. phase # "Accepting"
        BY <3>1 DEF Closed
      <3> QED BY <1>1, <3>1, <3>2, ClosedStays
    <2> QED BY <2>1, <2>2 DEF ExitInv, Exited
  <1> QED BY <1>2, <1>3

LEMMA StopStep ==
  ASSUME ~StopInStart, TypeInv, StartInv, StopInv, [Next]_vars
  PROVE  StopInv'
  <1>0. /\ DOMAIN op = {"started", "baseline", "report", "finished"}
        /\ ctl \in [Controllers -> {"idle", "claim", "close", "waiting"}]
    BY DEF StopInv
  <1>1. CASE UNCHANGED <<phase, op, helper, ctl>>
    BY <1>1 DEF StopInv
  <1>2. CASE StartChildren
    <2>1. UNCHANGED <<phase, op, ctl>> /\ helper' = "running" /\ phase = "Starting"
      BY <1>2 DEF StartChildren, stopping, StartInv
    <2> QED BY <2>1 DEF StopInv
  <1>3. CASE Open
    <2>1. UNCHANGED <<op, ctl, helper>> /\ phase' = "Accepting"
      BY <1>3 DEF Open
    <2> QED BY <2>1 DEF StopInv
  <1>4. CASE HelperExits
    <2>1. UNCHANGED <<phase, op, ctl>> /\ helper = "running" /\ helper' = "ended"
      BY <1>4 DEF HelperExits, stopping
    <2> QED BY <2>1 DEF StopInv
  <1>5. CASE Supervise
    <2>1. UNCHANGED <<ctl, helper>>
      BY <1>5 DEF Supervise
    <2>2. \/ UNCHANGED <<phase, op>>
          \/ /\ phase' \in {"Stopped", "Failed"}
             /\ op' = [op EXCEPT !.report = Report, !.finished = TRUE]
      BY <1>5 DEF Supervise
    <2>3. DOMAIN op' = DOMAIN op /\ op'.started = op.started /\ phase' \in {phase, "Stopped", "Failed"}
      BY <1>0, <2>2
    <2> QED BY <2>1, <2>3 DEF StopInv
  <1>6. CASE FailControlPlane
    <2>1. /\ "failure" \in Controllers /\ ctl["failure"] = "idle" /\ helper' = "failing"
          /\ UNCHANGED op /\ ctl' = [ctl EXCEPT !["failure"] = "claim"]
      BY <1>6 DEF FailControlPlane, Goes
    <2>2. /\ ctl' \in [Controllers -> {"idle", "claim", "close", "waiting"}]
          /\ \A c \in Controllers : ctl'[c] = IF c = "failure" THEN "claim" ELSE ctl[c]
      BY <1>0, <2>1
    <2> QED BY <2>1, <2>2 DEF StopInv
  <1>7. ASSUME NEW c \in Controllers, Claim(c) PROVE StopInv'
    <2>1. \E to \in {"close", "waiting"} :
            ctl' = [ctl EXCEPT ![c] = to] /\ (c # "stop" => to = "close")
      BY <1>7 DEF Claim, Goes
    <2>2. UNCHANGED helper /\ ctl[c] \in {"idle", "claim"} /\ phase' \in {phase, "Stopping"}
      BY <1>7 DEF Claim, Calls
    <2>3. op'.started /\ DOMAIN op' = DOMAIN op
      <3>1. (op' = op /\ op.started) \/ op' = [op EXCEPT !.started = TRUE, !.baseline = Counts]
        BY <1>7 DEF Claim
      <3> QED BY <1>0, <3>1
    <2>4. /\ ctl' \in [Controllers -> {"idle", "claim", "close", "waiting"}]
          /\ \A d \in Controllers : d # c => ctl'[d] = ctl[d]
          /\ c # "stop" => ctl'[c] = "close"
      BY <1>0, <2>1
    <2>5. helper' = "failing" => "failure" \in Controllers /\ ctl'["failure"] \in {"claim", "close"}
      BY <2>2, <2>4 DEF StopInv
    <2> QED BY <1>0, <2>3, <2>4, <2>5 DEF StopInv
  <1>8. ASSUME NEW c \in Controllers, Close(c) PROVE StopInv'
    <2>1. /\ ctl[c] = "close" /\ ctl' = [ctl EXCEPT ![c] = "waiting"] /\ UNCHANGED <<phase, op>>
          /\ helper' = IF c = "failure" THEN "ended" ELSE helper
      BY <1>8 DEF Close, Goes
    <2>2. op.started
      BY <2>1 DEF StopInv
    <2>3. /\ ctl' \in [Controllers -> {"idle", "claim", "close", "waiting"}]
          /\ \A d \in Controllers : d # c => ctl'[d] = ctl[d]
      BY <1>0, <2>1
    <2>4. helper' = "failing" => "failure" \in Controllers /\ ctl'["failure"] \in {"claim", "close"}
      BY <2>1, <2>3 DEF StopInv
    <2> QED BY <1>0, <2>1, <2>2, <2>3, <2>4 DEF StopInv
  <1> QED BY <1>1, <1>2, <1>3, <1>4, <1>5, <1>6, <1>7, <1>8, StoppingMoves

(* When every worker has left and no business task is about, no task is    *)
(* left to move.                                                           *)
LEMMA AllOver ==
  ASSUME TypeInv, ExitInv, \A s \in Slots : Exited(s), In("spawned") \cup In("running") = {}
  PROVE  \A t \in Tasks : task[t] \in {"new", "refused"} \cup Over
  <1>0. PICK s \in Slots : TRUE
    BY LifecycleAssumption
  <1>1. Counted = {} /\ \A r \in Slots : main[r] = <<>>
    BY <1>0 DEF ExitInv
  <1>2. \A t \in Tasks : Home[t] \in Slots /\ t # 0
    BY LifecycleAssumption DEF Tasks
  <1>3. ASSUME NEW t \in Tasks PROVE task[t] \in {"new", "refused"} \cup Over
    <2>1. task[t] \in Stages
      BY DEF TypeInv, Types
    <2>2. task[t] \notin CountedPc /\ task[t] \notin {"spawned", "running"}
      BY <1>1 DEF Counted, In
    <2>3. task[t] # "queued"
      BY <1>1, <1>2 DEF TypeInv, QueueInv, Queued
    <2>4. task[t] # "deferred"
      BY <1>2 DEF TypeInv, DeferredInv, ExitInv
    <2> QED BY <2>1, <2>2, <2>3, <2>4 DEF Stages, Accepted, CountedPc
  <1> QED BY <1>3

LEMMA DoneStep ==
  ASSUME ~StopInStart, LifeInv, [Next]_vars
  PROVE  DoneInv'
  <1> USE DEF LifeInv
  <1>0. DOMAIN op = {"started", "baseline", "report", "finished"}
    BY DEF StopInv
  <1>1. CASE op.finished
    <2>0. /\ sup = "gone" /\ phase \in {"Stopped", "Failed"} /\ op.started
          /\ helper \notin {"running", "failing"} /\ op.report = Report
          /\ In("spawned") \cup In("running") = {}
          /\ \A s \in Slots : worker[s].pc = "exited"
      BY <1>1 DEF DoneInv, Exited
    <2>1. \A t \in Tasks : task[t] \in {"new", "refused"} \cup Over
      BY <2>0, AllOver DEF Exited
    <2>2. \A t \in Tasks : ~Submit(t) /\ ~Producer(t) /\ ~BusinessStep(t)
      BY <2>0, <2>1 DEF Submit, Producer, BusinessStep, Recheck, Reserve, Publish, BusinessStarts,
          BusinessEnds, BusinessAborted, Over, Settled
    <2>3. \A s \in Slots : ~WorkerStep(s) /\ ~Leaves(s) /\ ~WorkerTurn(s)
      BY <2>0 DEF WorkerStep, WorkerTurn, WorkerCheck, WorkerPark, WorkerTick, Leaves
    <2>4. starter = "done" /\ ~StartChildren /\ ~Open /\ ~HelperExits /\ ~FailControlPlane /\ ~SupervisorStep
      BY <2>0 DEF StartInv, StartChildren, Open, HelperExits, FailControlPlane, SupervisorStep,
          Supervise, SupervisorRests, SupervisorTick
    <2>5. ASSUME NEW c \in Controllers, Claim(c) \/ Close(c)
          PROVE  UNCHANGED <<task, phase, op, sup>> /\ helper' \in {helper, "ended"}
      BY <2>0, <2>5 DEF Claim, Close, Signal, submission
    <2>6. UNCHANGED <<task, phase, op, sup>> /\ helper' \in {helper, "ended"}
      BY <2>2, <2>3, <2>4, <2>5 DEF Next, Start, vars, stopping, submission
    <2>7. SameWorkers
      BY <2>3, <2>4, WorkersMove
    <2>8. \A s \in Slots : worker'[s].pc = "exited"
      BY <2>0, <2>7 DEF SameWorkers
    <2>9. Report' = Report /\ (In("spawned") \cup In("running"))' = In("spawned") \cup In("running")
      BY <2>6 DEF Report, Counts, In, NoReport
    <2> QED BY <2>0, <2>6, <2>8, <2>9 DEF DoneInv, Exited
  <1>2. CASE ~op.finished /\ op'.finished
    <2>1. ASSUME NEW c \in Controllers, Claim(c) PROVE FALSE
      <3>1. op' = op \/ op' = [op EXCEPT !.started = TRUE, !.baseline = Counts]
        BY <2>1 DEF Claim
      <3> QED BY <1>0, <1>2, <3>1
    <2>2. Supervise
      BY <1>2, <2>1, StoppingMoves DEF StartChildren, Open, HelperExits, FailControlPlane, Close, stopping
    <2>3. /\ phase = "Stopping" /\ AllJoined /\ phase' \in {"Stopped", "Failed"}
          /\ op' = [op EXCEPT !.report = Report, !.finished = TRUE] /\ sup' = "gone"
          /\ UNCHANGED <<task, helper>>
      BY <1>2, <2>2 DEF Supervise, submission
    <2>4. op'.report = Report /\ op'.baseline = op.baseline /\ op'.started = op.started
      BY <1>0, <2>3
    <2>5. op.started /\ helper \notin {"running", "failing"}
      BY <2>3 DEF StopInv, AllJoined
    <2>6. \A s \in Slots : worker[s].pc = "exited"
      BY <2>3 DEF AllJoined, StartInv
    <2>7. \A s \in Slots : worker'[s].pc = "exited"
      <3>1. UNCHANGED worker \/ NotifyAll
        BY <2>2 DEF Supervise, ForceWakes, waking
      <3>2. SameWorkers
        BY <3>1, StillWorkers, NotifyAllKeeps DEF TypeInv, Types
      <3> QED BY <2>6, <3>2 DEF SameWorkers
    <2>8. Report' = Report /\ (In("spawned") \cup In("running"))' = {}
      BY <2>3, <2>4 DEF Report, Counts, In, NoReport, AllJoined
    <2> QED BY <2>3, <2>4, <2>5, <2>7, <2>8 DEF DoneInv, Exited
  <1>3. CASE ~op'.finished
    BY <1>3 DEF DoneInv
  <1> QED BY <1>1, <1>2, <1>3

LEMMA LifeInvInit == Init => LifeInv
  <1> SUFFICES ASSUME Init PROVE LifeInv
    OBVIOUS
  <1>1. \A s \in Slots : worker[s].pc = "unborn"
    BY DEF Init
  <1>2. StartInv /\ ExitInv
    BY <1>1 DEF Init, StartInv, ExitInv, Exited
  <1>3. StopInv /\ DoneInv
    BY DEF Init, StopInv, DoneInv
  <1> QED BY <1>2, <1>3, TypeInvInit DEF LifeInv

LEMMA LifeInvStep ==
  ASSUME ~StopInStart
  PROVE  LifeInv /\ [Next]_vars => LifeInv'
  BY TypeInvStep, StartStep, ExitStep, StopStep, DoneStep DEF LifeInv

LEMMA LifeHolds ==
  ASSUME ~StopInStart
  PROVE  Spec => []LifeInv
  BY LifeInvInit, LifeInvStep, PTL DEF Spec

(* A worker that has left has left nothing behind and nothing comes after  *)
(* it: a submitter that is past ProducerGuard::enter holds every worker    *)
(* back, and one that is not finds the phase closed (worker_should_exit).  *)
(* It needs that nobody stops the runner inside start, which would open it *)
(* again (NeverReopens).                                                   *)
THEOREM ExitFinal == ~StopInStart => (Spec => []ExitIsFinal)
  <1> SUFFICES ASSUME ~StopInStart PROVE Spec => []ExitIsFinal
    OBVIOUS
  <1>1. LifeInv => ExitIsFinal
    BY DEF LifeInv, ExitInv, ExitIsFinal
  <1> QED BY <1>1, LifeHolds, PTL

(* The shutdown report is final: when it is out every worker has left,     *)
(* every accepted task is over, and its figures are and stay the tasks     *)
(* settled since the stop began (supervise, build_shutdown_report).        *)
THEOREM ReportFinal == ~StopInStart => (Spec => []ReportIsFinal)
  <1> SUFFICES ASSUME ~StopInStart PROVE Spec => []ReportIsFinal
    OBVIOUS
  <1>1. LifeInv => ReportIsFinal
    <2> SUFFICES ASSUME LifeInv, op.finished
                 PROVE  /\ \A t \in Tasks : task[t] \in Accepted => task[t] \in Over
                        /\ \A s \in Slots : Exited(s)
                        /\ op.report = Report
      BY DEF ReportIsFinal
    <2>1. /\ \A s \in Slots : Exited(s)
          /\ In("spawned") \cup In("running") = {} /\ op.report = Report
      BY DEF LifeInv, DoneInv
    <2>2. \A t \in Tasks : task[t] \in {"new", "refused"} \cup Over
      BY <2>1, AllOver DEF LifeInv
    <2>3. {"new", "refused"} \cap Accepted = {}
      BY DEF Accepted, Over, Settled
    <2> QED BY <2>1, <2>2, <2>3
  <1> QED BY <1>1, LifeHolds, PTL

(* When nobody stops it inside start, a runner that is stopping never      *)
(* opens again (start_now stores Accepting whatever the phase has become). *)
THEOREM StaysClosed == ~StopInStart => (Spec => NeverReopens)
  <1> SUFFICES ASSUME ~StopInStart PROVE Spec => NeverReopens
    OBVIOUS
  <1>1. LifeInv /\ [Next]_vars => [phase = "Stopping" => phase' # "Accepting"]_phase
    BY PhaseMoves DEF LifeInv
  <1> QED BY <1>1, LifeHolds, PTL DEF Spec, NeverReopens
=============================================================================
