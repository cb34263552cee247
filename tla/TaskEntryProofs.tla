--------------------------- MODULE TaskEntryProofs ---------------------------
(***************************************************************************)
(* What is proved of TaskEntry for any number of callers, with and without *)
(* expiring moves and a forced stop.  The state of a task is guarded by     *)
(* five facts, each kept by every step of every thread:                    *)
(*                                                                         *)
(*   EndInv     a task that has begun to end never leaves Terminating and  *)
(*              the terminal states                                        *)
(*   GateInv    before its publisher is done an immediate task is known to *)
(*              nobody else; the strict sequence is settled at an end      *)
(*   CountInv   the container counts are the logical owner and the movers  *)
(*              that carry the task to their target                        *)
(*   SettleInv  the owner's sentinel has one holder, and what it has given *)
(*              back stays given back                                      *)
(*   TokenInv, MoveInv   one envelope, one mover, and a descriptor or an   *)
(*              entry of the moving table only while the mover is at work  *)
(*                                                                         *)
(* A step belongs to one thread (OnlyMoves).  For each layer one lemma per *)
(* group of actions shows that the thread's step keeps the layer, mostly   *)
(* through a frame (EndStep, Bystands, Leaves, Works, Stands, Drives) that *)
(* says what such a step may do to the others.                             *)
(***************************************************************************)
EXTENDS TaskEntry, TLAPS

EntryType ==
  [state : EntryState, owner : Owner, cancelRequested : BOOLEAN,
   terminal : Terminal \cup {None}, pending : Terminal \cup {None},
   payload : BOOLEAN, logical : Slots \cup {None},
   retention : PhysicalRetention,
   move : [target : Slots \cup {None}, epoch : Nat], epoch : Nat,
   queuedPermit : BOOLEAN, globalPermit : BOOLEAN]

LocalType ==
  [state : EntryState, owner : Owner, record : Terminal \cup {None},
   epoch : Nat, slot : Slots, envelope : BOOLEAN, cont : Label, result : Result]

Types ==
  /\ entry \in EntryType
  /\ pc \in [Threads -> Label]
  /\ local \in [Threads -> LocalType]
  /\ at \in Slots \cup {"nowhere"} /\ bound \in BOOLEAN
  /\ answer \in [Callers -> {"none", "accepted", "deferred", "refused"}]

(* A task that is Terminating or terminal never leaves these states.       *)
Ended == {"Terminating"} \cup Terminal

FinalPc == {"final", "finalpending", "finalretention", "finalowner", "finalterminal",
            "finalmove", "finalclaim", "finaldetach", "finallogical", "finalaccount",
            "finalpermits", "finalrecord", "finalunpend", "finalpublish"}
KnownPc == FinalPc \ {"final", "finalpending"}

(* What holds for thread t on its way through a settlement, and for a call *)
(* of cancel that has ended the task.                                      *)
EndOwn(t) ==
  /\ pc[t] \in FinalPc \ {"final"} => entry.state \in Ended
  /\ pc[t] \in KnownPc => local[t].record \in Terminal
  /\ pc[t] \in {"helped", "cancelled", "cleaned"} /\ local[t].result = "Ok" => entry.state \in Ended
  /\ pc[t] \in FinalPc => local[t].cont \in {"helped", "cancelled", "cleaned", "done"}
  /\ t = "auditor" /\ pc[t] = "auditabandon" => local[t].cont \in {"failrun", "authfail"}
  /\ pc[t] \in FinalPc /\ local[t].cont = "cancelled" => entry.state \in Ended
  /\ pc[t] \in {"retire", "bindcheck", "envelope", "cancelled"} => entry.state \in Ended

EndInv ==
  /\ entry.pending # None => entry.state \in Ended
  /\ \A t \in Threads : EndOwn(t)
  /\ \A c \in Callers : answer[c] = "accepted" => entry.state \in Ended
(* The step is thread t's.                                                 *)
OnlyMoves(t) == \A u \in Threads \ {t} : pc'[u] = pc[u] /\ local'[u] = local[u]

EndStep(t) ==
  /\ entry.state \in Ended => entry'.state \in Ended
  /\ entry'.pending # None => entry'.state \in Ended
  /\ \A c \in Callers : answer'[c] = "accepted" => (answer[c] = "accepted" \/ entry'.state \in Ended)
  /\ EndOwn(t)'

LEMMA ThreadNames ==
  /\ Slots \subseteq Threads /\ Callers \subseteq Threads
  /\ {"publisher", "cleanup", "business", "auditor", "closer"} \subseteq Threads
  BY DEF Threads

LEMMA StateNames ==
  /\ Terminal \subseteq EntryState /\ {"Enqueueing", "Delayed", "Queued", "Moving", "Running", "Terminating"} \subseteq EntryState
  /\ {"Completed", "Cancelled", "Rejected", "Failed"} \subseteq Terminal /\ None \notin Terminal
  /\ {"Terminating", "Enqueueing", "Delayed", "Queued", "Moving", "Running"} \cap Terminal = {}
  /\ Terminal \subseteq Owner /\ Slots \subseteq Owner /\ Terminal \cap Slots = {}
  BY DEF EntryState, Terminal, None, Owner, Slots

LEMMA ResultNames ==
  /\ {"Ok", "InvalidState", "SettlementOwned", "SettlementConflict",
      "RetentionMismatch", "OwnerMismatch"} \subseteq Result
  /\ {"helped", "cancelled", "cleaned", "done", "failrun", "authfail"} \subseteq Label
  BY DEF Result, Label

LEMMA ThreadsDiffer ==
  /\ {"publisher", "cleanup", "business", "auditor", "closer", "nowhere"} \cap Slots = {}
  /\ {"publisher", "cleanup", "business", "auditor", "closer"} \cap Callers = {}
  /\ Callers \cap Slots = {}
  BY EntryAssumption DEF Slots

LEMMA LocalState ==
  ASSUME local \in [Threads -> LocalType], NEW t \in Threads, NEW x \in EntryState,
         local' = [local EXCEPT ![t].state = x]
  PROVE  /\ local' \in [Threads -> LocalType]
         /\ \A u \in Threads \ {t} : local'[u] = local[u]
         /\ local'[t].state = x /\ local'[t].owner = local[t].owner
         /\ local'[t].record = local[t].record /\ local'[t].epoch = local[t].epoch
         /\ local'[t].slot = local[t].slot /\ local'[t].envelope = local[t].envelope
         /\ local'[t].cont = local[t].cont /\ local'[t].result = local[t].result
  <1>1. /\ local[t] \in LocalType /\ local'[t] = [local[t] EXCEPT !.state = x]
        /\ local' = [local EXCEPT ![t] = [local[t] EXCEPT !.state = x]]
    OBVIOUS
  <1>2. local'[t] \in LocalType
    BY <1>1 DEF LocalType
  <1>3. local' \in [Threads -> LocalType]
    BY <1>1, <1>2
  <1> QED BY <1>1, <1>2, <1>3 DEF LocalType

LEMMA LocalOwner ==
  ASSUME local \in [Threads -> LocalType], NEW t \in Threads, NEW x \in Owner,
         local' = [local EXCEPT ![t].owner = x]
  PROVE  /\ local' \in [Threads -> LocalType]
         /\ \A u \in Threads \ {t} : local'[u] = local[u]
         /\ local'[t].owner = x /\ local'[t].state = local[t].state
         /\ local'[t].record = local[t].record /\ local'[t].epoch = local[t].epoch
         /\ local'[t].slot = local[t].slot /\ local'[t].envelope = local[t].envelope
         /\ local'[t].cont = local[t].cont /\ local'[t].result = local[t].result
  <1>1. /\ local[t] \in LocalType /\ local'[t] = [local[t] EXCEPT !.owner = x]
        /\ local' = [local EXCEPT ![t] = [local[t] EXCEPT !.owner = x]]
    OBVIOUS
  <1>2. local'[t] \in LocalType
    BY <1>1 DEF LocalType
  <1>3. local' \in [Threads -> LocalType]
    BY <1>1, <1>2
  <1> QED BY <1>1, <1>2, <1>3 DEF LocalType

LEMMA LocalRecord ==
  ASSUME local \in [Threads -> LocalType], NEW t \in Threads, NEW x \in Terminal \cup {None},
         local' = [local EXCEPT ![t].record = x]
  PROVE  /\ local' \in [Threads -> LocalType]
         /\ \A u \in Threads \ {t} : local'[u] = local[u]
         /\ local'[t].record = x /\ local'[t].state = local[t].state
         /\ local'[t].owner = local[t].owner /\ local'[t].epoch = local[t].epoch
         /\ local'[t].slot = local[t].slot /\ local'[t].envelope = local[t].envelope
         /\ local'[t].cont = local[t].cont /\ local'[t].result = local[t].result
  <1>1. /\ local[t] \in LocalType /\ local'[t] = [local[t] EXCEPT !.record = x]
        /\ local' = [local EXCEPT ![t] = [local[t] EXCEPT !.record = x]]
    OBVIOUS
  <1>2. local'[t] \in LocalType
    BY <1>1 DEF LocalType
  <1>3. local' \in [Threads -> LocalType]
    BY <1>1, <1>2
  <1> QED BY <1>1, <1>2, <1>3 DEF LocalType

LEMMA LocalEpoch ==
  ASSUME local \in [Threads -> LocalType], NEW t \in Threads, NEW x \in Nat,
         local' = [local EXCEPT ![t].epoch = x]
  PROVE  /\ local' \in [Threads -> LocalType]
         /\ \A u \in Threads \ {t} : local'[u] = local[u]
         /\ local'[t].epoch = x /\ local'[t].state = local[t].state
         /\ local'[t].owner = local[t].owner /\ local'[t].record = local[t].record
         /\ local'[t].slot = local[t].slot /\ local'[t].envelope = local[t].envelope
         /\ local'[t].cont = local[t].cont /\ local'[t].result = local[t].result
  <1>1. /\ local[t] \in LocalType /\ local'[t] = [local[t] EXCEPT !.epoch = x]
        /\ local' = [local EXCEPT ![t] = [local[t] EXCEPT !.epoch = x]]
    OBVIOUS
  <1>2. local'[t] \in LocalType
    BY <1>1 DEF LocalType
  <1>3. local' \in [Threads -> LocalType]
    BY <1>1, <1>2
  <1> QED BY <1>1, <1>2, <1>3 DEF LocalType

LEMMA LocalSlot ==
  ASSUME local \in [Threads -> LocalType], NEW t \in Threads, NEW x \in Slots,
         local' = [local EXCEPT ![t].slot = x]
  PROVE  /\ local' \in [Threads -> LocalType]
         /\ \A u \in Threads \ {t} : local'[u] = local[u]
         /\ local'[t].slot = x /\ local'[t].state = local[t].state
         /\ local'[t].owner = local[t].owner /\ local'[t].record = local[t].record
         /\ local'[t].epoch = local[t].epoch /\ local'[t].envelope = local[t].envelope
         /\ local'[t].cont = local[t].cont /\ local'[t].result = local[t].result
  <1>1. /\ local[t] \in LocalType /\ local'[t] = [local[t] EXCEPT !.slot = x]
        /\ local' = [local EXCEPT ![t] = [local[t] EXCEPT !.slot = x]]
    OBVIOUS
  <1>2. local'[t] \in LocalType
    BY <1>1 DEF LocalType
  <1>3. local' \in [Threads -> LocalType]
    BY <1>1, <1>2
  <1> QED BY <1>1, <1>2, <1>3 DEF LocalType

LEMMA LocalCont ==
  ASSUME local \in [Threads -> LocalType], NEW t \in Threads, NEW x \in Label,
         local' = [local EXCEPT ![t].cont = x]
  PROVE  /\ local' \in [Threads -> LocalType]
         /\ \A u \in Threads \ {t} : local'[u] = local[u]
         /\ local'[t].cont = x /\ local'[t].state = local[t].state
         /\ local'[t].owner = local[t].owner /\ local'[t].record = local[t].record
         /\ local'[t].epoch = local[t].epoch /\ local'[t].slot = local[t].slot
         /\ local'[t].envelope = local[t].envelope /\ local'[t].result = local[t].result
  <1>1. /\ local[t] \in LocalType /\ local'[t] = [local[t] EXCEPT !.cont = x]
        /\ local' = [local EXCEPT ![t] = [local[t] EXCEPT !.cont = x]]
    OBVIOUS
  <1>2. local'[t] \in LocalType
    BY <1>1 DEF LocalType
  <1>3. local' \in [Threads -> LocalType]
    BY <1>1, <1>2
  <1> QED BY <1>1, <1>2, <1>3 DEF LocalType

LEMMA LocalResult ==
  ASSUME local \in [Threads -> LocalType], NEW t \in Threads, NEW x \in Result,
         local' = [local EXCEPT ![t].result = x]
  PROVE  /\ local' \in [Threads -> LocalType]
         /\ \A u \in Threads \ {t} : local'[u] = local[u]
         /\ local'[t].result = x /\ local'[t].state = local[t].state
         /\ local'[t].owner = local[t].owner /\ local'[t].record = local[t].record
         /\ local'[t].epoch = local[t].epoch /\ local'[t].slot = local[t].slot
         /\ local'[t].envelope = local[t].envelope /\ local'[t].cont = local[t].cont
  <1>1. /\ local[t] \in LocalType /\ local'[t] = [local[t] EXCEPT !.result = x]
        /\ local' = [local EXCEPT ![t] = [local[t] EXCEPT !.result = x]]
    OBVIOUS
  <1>2. local'[t] \in LocalType
    BY <1>1 DEF LocalType
  <1>3. local' \in [Threads -> LocalType]
    BY <1>1, <1>2
  <1> QED BY <1>1, <1>2, <1>3 DEF LocalType

LEMMA LocalContEnvelope ==
  ASSUME local \in [Threads -> LocalType], NEW t \in Threads, NEW x \in Label, NEW y \in BOOLEAN,
         local' = [local EXCEPT ![t].cont = x, ![t].envelope = y]
  PROVE  /\ local' \in [Threads -> LocalType]
         /\ \A u \in Threads \ {t} : local'[u] = local[u]
         /\ local'[t].cont = x /\ local'[t].envelope = y /\ local'[t].state = local[t].state
         /\ local'[t].owner = local[t].owner /\ local'[t].record = local[t].record
         /\ local'[t].epoch = local[t].epoch /\ local'[t].slot = local[t].slot
         /\ local'[t].result = local[t].result
  <1> DEFINE m == [local[t] EXCEPT !.cont = x]
  <1> DEFINE l == [local EXCEPT ![t] = m]
  <1>1. m \in LocalType
    BY DEF LocalType
  <1>2. l \in [Threads -> LocalType] /\ l[t] = m
    BY <1>1
  <1>3. local' = [l EXCEPT ![t] = [l[t] EXCEPT !.envelope = y]]
    BY <1>2
  <1>4. /\ local'[t] = [m EXCEPT !.envelope = y]
        /\ local' = [local EXCEPT ![t] = [m EXCEPT !.envelope = y]]
    BY <1>2, <1>3
  <1>5. local'[t] \in LocalType
    BY <1>1, <1>4 DEF LocalType
  <1>6. local' \in [Threads -> LocalType]
    BY <1>4, <1>5
  <1> QED BY <1>1, <1>4, <1>5, <1>6 DEF LocalType

LEMMA TerminatedFields ==
  ASSUME entry \in EntryType, NEW x \in Terminal
  PROVE  /\ Terminated(x) \in EntryType
         /\ Terminated(x).state = "Terminating" /\ Terminated(x).pending = x
         /\ Terminated(x).owner = entry.owner /\ Terminated(x).logical = entry.logical
         /\ Terminated(x).retention = entry.retention /\ Terminated(x).move = entry.move
         /\ Terminated(x).epoch = entry.epoch /\ Terminated(x).terminal = entry.terminal
         /\ Terminated(x).payload = entry.payload /\ Terminated(x).queuedPermit = entry.queuedPermit
         /\ Terminated(x).globalPermit = entry.globalPermit
         /\ Terminated(x).cancelRequested = entry.cancelRequested
  <1> DEFINE e == [entry EXCEPT !.state = "Terminating"]
  <1>1. e \in EntryType /\ e.state = "Terminating"
    BY StateNames DEF EntryType
  <1>2. Terminated(x) = [e EXCEPT !.pending = x]
    BY DEF Terminated, EntryType
  <1>3. Terminated(x) \in EntryType /\ Terminated(x).state = "Terminating" /\ Terminated(x).pending = x
    BY ZenonT(60), <1>1, <1>2 DEF EntryType
  <1> QED BY <1>3 DEF Terminated, EntryType

LEMMA ClearedFields ==
  ASSUME entry \in EntryType, NEW t
  PROVE  /\ MoveCleared(t) \in EntryType
         /\ MoveCleared(t).state = entry.state /\ MoveCleared(t).pending = entry.pending
         /\ MoveCleared(t).owner = entry.owner /\ MoveCleared(t).logical = entry.logical
         /\ MoveCleared(t).retention = entry.retention /\ MoveCleared(t).epoch = entry.epoch
         /\ MoveCleared(t).terminal = entry.terminal /\ MoveCleared(t).payload = entry.payload
         /\ MoveCleared(t).queuedPermit = entry.queuedPermit
         /\ MoveCleared(t).globalPermit = entry.globalPermit
         /\ MoveCleared(t).move = IF entry.state # "Moving" /\ Ticket(t) THEN NoMove ELSE entry.move
  <1>1. NoMove \in [target : Slots \cup {None}, epoch : Nat]
    BY DEF NoMove
  <1> QED BY <1>1 DEF MoveCleared, EntryType

LEMMA ReturnDoes ==
  ASSUME Types, NEW t \in Threads, NEW r \in Result, Return(t, r)
  PROVE  /\ local' \in [Threads -> LocalType] /\ pc' \in [Threads -> Label]
         /\ pc'[t] = local[t].cont /\ local'[t].result = r
         /\ \A u \in Threads \ {t} : pc'[u] = pc[u] /\ local'[u] = local[u]
         /\ local'[t].cont = local[t].cont /\ local'[t].envelope = local[t].envelope
  <1>1. local' = [local EXCEPT ![t].result = r] /\ pc' = [pc EXCEPT ![t] = local[t].cont]
    BY DEF Return, Goto
  <1>2. local[t].cont \in Label
    BY DEF Types, LocalType
  <1>3. pc' \in [Threads -> Label] /\ pc'[t] = local[t].cont /\ \A u \in Threads \ {t} : pc'[u] = pc[u]
    BY <1>1, <1>2 DEF Types
  <1> QED BY <1>1, <1>3, LocalResult DEF Types

LEMMA FinalizeDoes ==
  ASSUME Types, NEW t \in Threads, NEW k \in Label, Finalize(t, k)
  PROVE  /\ local' \in [Threads -> LocalType] /\ pc' \in [Threads -> Label]
         /\ pc'[t] = "final" /\ local'[t].cont = k
         /\ \A u \in Threads \ {t} : pc'[u] = pc[u] /\ local'[u] = local[u]
  <1>1. local' = [local EXCEPT ![t].cont = k] /\ pc' = [pc EXCEPT ![t] = "final"]
    BY DEF Finalize, Goto
  <1>3. pc' \in [Threads -> Label] /\ pc'[t] = "final" /\ \A u \in Threads \ {t} : pc'[u] = pc[u]
    BY <1>1 DEF Types, Label
  <1> QED BY <1>1, <1>3, LocalCont DEF Types

\* A Finalize or a Goto moves its own thread and no other.
LEMMA FinalizeMoves ==
  ASSUME Types, NEW t \in Threads, NEW k, Finalize(t, k)
  PROVE  pc' \in [Threads -> Label] /\ OnlyMoves(t)
  <1>1. "final" \in Label
    BY DEF Label
  <1>2. local' = [local EXCEPT ![t].cont = k] /\ pc' = [pc EXCEPT ![t] = "final"]
    BY DEF Finalize, Goto
  <1> QED BY <1>1, <1>2 DEF Types, OnlyMoves

LEMMA GotoMoves ==
  ASSUME Types, NEW t \in Threads, NEW k \in Label, Goto(t, k), UNCHANGED local
  PROVE  pc' \in [Threads -> Label] /\ OnlyMoves(t)
  BY DEF Types, Goto, OnlyMoves

LEMMA GotoStates ==
  ASSUME Types, NEW t \in Threads, NEW k \in Label, NEW v,
         Goto(t, k), local' = [local EXCEPT ![t].state = v]
  PROVE  pc' \in [Threads -> Label] /\ OnlyMoves(t)
  BY DEF Types, Goto, OnlyMoves

LEMMA GoesTo ==
  /\ "idle" \in Label /\ "authfail" \in Label /\ "handling" \in Label
  /\ "failqueued" \in Label /\ "authfailfrom" \in Label /\ "done" \in Label
  /\ "rejectbound" \in Label /\ "settle" \in Label /\ "take" \in Label
  /\ "backstopfail" \in Label
  /\ \A t : After(t) \in Label
  BY DEF Label, After

LEMMA PendingDoes ==
  ASSUME Types, NEW t \in Threads, FinalizePending(t)
  PROVE  /\ local' \in [Threads -> LocalType] /\ pc' \in [Threads -> Label] /\ OnlyMoves(t)
         /\ local'[t].cont = local[t].cont /\ local'[t].envelope = local[t].envelope
         /\ \/ /\ entry.pending \in Terminal /\ pc'[t] = "finalretention"
               /\ local'[t].record = entry.pending
            \/ entry.pending = None /\ pc'[t] = local[t].cont /\ local'[t].result # "Ok"
  <1>1. entry.pending \in Terminal \cup {None}
    BY DEF Types, EntryType
  <1>2. CASE entry.pending # None
    <2>1. "finalretention" \in Label
      BY DEF Label
    <2> QED BY <1>1, <1>2, <2>1, LocalRecord, StateNames DEF Types, FinalizePending, Goto, OnlyMoves
  <1>3. CASE entry.pending = None
    BY <1>3, ReturnDoes, ResultNames DEF FinalizePending, OnlyMoves
  <1> QED BY <1>1, <1>2, <1>3

LEMMA OwnerDoes ==
  ASSUME Types, NEW t \in Threads, FinalizeOwner(t)
  PROVE  /\ local' \in [Threads -> LocalType] /\ pc' \in [Threads -> Label] /\ OnlyMoves(t)
         /\ local'[t].cont = local[t].cont /\ local'[t].envelope = local[t].envelope
         /\ \/ /\ entry.owner \in Slots /\ pc'[t] = "finalterminal"
               /\ local'[t].owner = entry.owner /\ local'[t].record = local[t].record
            \/ entry.owner \in Terminal /\ pc'[t] = local[t].cont /\ local'[t].result # "Ok"
  <1>1. entry.owner \in Slots \cup Terminal
    BY DEF Types, EntryType, Owner
  <1>2. CASE entry.owner \notin Terminal
    <2>1. "finalterminal" \in Label
      BY DEF Label
    <2> QED BY <1>1, <1>2, <2>1, LocalOwner, StateNames DEF Types, FinalizeOwner, Goto, OnlyMoves
  <1>3. CASE entry.owner \in Terminal
    BY <1>3, ReturnDoes, ResultNames DEF FinalizeOwner, OnlyMoves
  <1> QED BY <1>1, <1>2, <1>3

LEMMA PlaceDoes ==
  ASSUME Types, NEW s \in Slots, Place(s)
  PROVE  /\ local' \in [Threads -> LocalType] /\ pc' \in [Threads -> Label]
         /\ OnlyMoves("publisher")
         /\ local'["publisher"].slot = s /\ pc'["publisher"] = "prepare"
  <1>1. /\ local' = [local EXCEPT !["publisher"].slot = s]
        /\ pc' = [pc EXCEPT !["publisher"] = "prepare"]
    BY DEF Place, At, Goto
  <1>2. /\ \A u \in Threads \ {"publisher"} : local'[u] = local[u]
        /\ local' \in [Threads -> LocalType] /\ local'["publisher"].slot = s
    <2>1. local \in [Threads -> LocalType] /\ "publisher" \in Threads
      BY ThreadNames DEF Types
    <2> QED BY <1>1, <2>1, LocalSlot
  <1> QED BY <1>1, <1>2, ThreadNames DEF Types, OnlyMoves, Label

LEMMA CancelFinalizeDoes ==
  ASSUME Types, NEW c \in Callers, CancelFinalize(c)
  PROVE  /\ local' \in [Threads -> LocalType] /\ pc' \in [Threads -> Label] /\ OnlyMoves(c)
         /\ pc'[c] = "final" /\ local'[c].cont = "cancelled" /\ local'[c].envelope = bound
  <1>1. /\ local' = [local EXCEPT ![c].cont = "cancelled", ![c].envelope = bound]
        /\ pc' = [pc EXCEPT ![c] = "final"]
    BY DEF CancelFinalize, Goto
  <1>2. /\ \A u \in Threads \ {c} : local'[u] = local[u]
        /\ local' \in [Threads -> LocalType]
        /\ local'[c].cont = "cancelled" /\ local'[c].envelope = bound
    BY ZenonT(60), <1>1, LocalContEnvelope, ThreadNames, ResultNames DEF Types
  <1> QED BY <1>1, <1>2, ThreadNames DEF Types, OnlyMoves, Label

LEMMA DescribeDoes ==
  ASSUME Types, NEW w \in Slots, MoveDescribe(w)
  PROVE  /\ entry' \in EntryType /\ local' \in [Threads -> LocalType]
         /\ pc' \in [Threads -> Label] /\ OnlyMoves(w)
         /\ local'[w].slot = Other(w) /\ local'[w].epoch = entry.epoch + 1
         /\ pc'[w] = IF entry.move = NoMove THEN "mregister" ELSE "mprepare"
         /\ entry'.epoch = entry.epoch + 1
         /\ entry'.move = IF entry.move = NoMove
                          THEN [target |-> Other(w), epoch |-> entry.epoch + 1] ELSE entry.move
         /\ entry'.state = entry.state /\ entry'.pending = entry.pending
         /\ entry'.owner = entry.owner /\ entry'.logical = entry.logical
         /\ entry'.retention = entry.retention /\ entry'.terminal = entry.terminal
         /\ entry'.payload = entry.payload /\ entry'.queuedPermit = entry.queuedPermit
         /\ entry'.globalPermit = entry.globalPermit
  <1>0. entry.epoch + 1 \in Nat /\ Other(w) \in Slots
    BY DEF Types, EntryType, Other, Slots
  <1>1. /\ local' = [local EXCEPT ![w].epoch = entry.epoch + 1, ![w].slot = Other(w)]
        /\ pc' = [pc EXCEPT ![w] = IF entry.move = NoMove THEN "mregister" ELSE "mprepare"]
    BY DEF MoveDescribe, At, Goto
  <1>2. /\ \A u \in Threads \ {w} : local'[u] = local[u]
        /\ local' \in [Threads -> LocalType]
        /\ local'[w].slot = Other(w) /\ local'[w].epoch = entry.epoch + 1
    <2> DEFINE m == [local[w] EXCEPT !.epoch = entry.epoch + 1]
    <2> DEFINE l == [local EXCEPT ![w] = m]
    <2>1. local \in [Threads -> LocalType] /\ w \in Threads
      BY ThreadNames DEF Types
    <2>2. m \in LocalType /\ m.epoch = entry.epoch + 1
      BY <1>0, <2>1 DEF LocalType
    <2>3. l \in [Threads -> LocalType] /\ l[w] = m
      BY <2>1, <2>2
    <2>4. local' = [l EXCEPT ![w] = [l[w] EXCEPT !.slot = Other(w)]]
      BY <1>1, <2>1, <2>3
    <2>5. /\ local'[w] = [m EXCEPT !.slot = Other(w)]
          /\ local' = [local EXCEPT ![w] = [m EXCEPT !.slot = Other(w)]]
      BY <2>1, <2>3, <2>4
    <2> HIDE DEF m, l
    <2>6. local'[w] \in LocalType /\ local'[w].slot = Other(w) /\ local'[w].epoch = m.epoch
      BY <1>0, <2>2, <2>5 DEF LocalType
    <2> QED BY <2>1, <2>2, <2>5, <2>6
  <1> DEFINE m == IF entry.move = NoMove THEN [target |-> Other(w), epoch |-> entry.epoch + 1]
                                         ELSE entry.move
  <1> DEFINE e == [entry EXCEPT !.epoch = entry.epoch + 1]
  <1>3. m \in [target : Slots \cup {None}, epoch : Nat] /\ e \in EntryType
    BY <1>0 DEF Types, EntryType
  <1>4. entry' = [e EXCEPT !.move = m]
    BY DEF MoveDescribe, Types, EntryType
  <1>5. /\ e.epoch = entry.epoch + 1 /\ e.state = entry.state /\ e.pending = entry.pending
        /\ e.owner = entry.owner /\ e.logical = entry.logical
        /\ e.retention = entry.retention /\ e.terminal = entry.terminal
        /\ e.payload = entry.payload /\ e.queuedPermit = entry.queuedPermit
        /\ e.globalPermit = entry.globalPermit
    BY <1>0 DEF Types, EntryType
  <1>6. m = IF entry.move = NoMove
            THEN [target |-> Other(w), epoch |-> entry.epoch + 1] ELSE entry.move
    OBVIOUS
  <1> HIDE DEF m, e
  <1>7. /\ entry' \in EntryType /\ entry'.move = m /\ entry'.epoch = e.epoch
        /\ entry'.state = e.state /\ entry'.pending = e.pending
        /\ entry'.owner = e.owner /\ entry'.logical = e.logical
        /\ entry'.retention = e.retention /\ entry'.terminal = e.terminal
        /\ entry'.payload = e.payload /\ entry'.queuedPermit = e.queuedPermit
        /\ entry'.globalPermit = e.globalPermit
    BY <1>3, <1>4 DEF EntryType
  <1>8. pc' \in [Threads -> Label] /\ OnlyMoves(w)
    BY <1>1, <1>2, ThreadNames DEF Types, OnlyMoves, Label
  <1>9. pc'[w] = IF entry.move = NoMove THEN "mregister" ELSE "mprepare"
    BY <1>1, ThreadNames DEF Types
  <1> QED BY <1>2, <1>5, <1>6, <1>7, <1>8, <1>9

LEMMA AuditRetentionDoes ==
  ASSUME Types, AuditRetention
  PROVE  /\ local' \in [Threads -> LocalType] /\ pc' \in [Threads -> Label]
         /\ OnlyMoves("auditor") /\ local'["auditor"].cont \in {"failrun", "authfail"}
         /\ local'["auditor"].epoch = local["auditor"].epoch
         /\ pc'["auditor"] = IF entry.retention = "Container" THEN "idle" ELSE "auditabandon"
  <1> DEFINE k == IF entry.retention = "Handling" THEN "failrun" ELSE "authfail"
  <1>1. /\ k \in Label /\ k \in {"failrun", "authfail"}
        /\ local' = [local EXCEPT !["auditor"].cont = k]
        /\ pc' = [pc EXCEPT !["auditor"] =
                    IF entry.retention = "Container" THEN "idle" ELSE "auditabandon"]
    BY ResultNames DEF AuditRetention, Goto
  <1> HIDE DEF k
  <1>2. /\ \A u \in Threads \ {"auditor"} : local'[u] = local[u]
        /\ local' \in [Threads -> LocalType] /\ local'["auditor"].cont = k
        /\ local'["auditor"].epoch = local["auditor"].epoch
    BY <1>1, LocalCont, ThreadNames DEF Types
  <1>3. pc' \in [Threads -> Label] /\ OnlyMoves("auditor")
    BY <1>1, <1>2, ThreadNames DEF Types, OnlyMoves, Label
  <1>4. pc'["auditor"] = IF entry.retention = "Container" THEN "idle" ELSE "auditabandon"
    BY <1>1, ThreadNames DEF Types
  <1> QED BY <1>1, <1>2, <1>3, <1>4

LEMMA DispatchDoes ==
  ASSUME Types, NEW w \in Slots, Dispatch(w)
  PROVE  /\ local' \in [Threads -> LocalType] /\ pc' \in [Threads -> Label]
         /\ pc[w] = "handling"
         /\ \/ /\ entry.state = "Terminating" /\ OnlyMoves(w)
               /\ pc'[w] = "final" /\ local'[w].cont = "helped"
            \/ entry.state \in Terminal /\ OnlyMoves(w) /\ pc'[w] = "idle" /\ UNCHANGED local
            \/ /\ entry.state \notin Ended /\ OnlyMoves(w)
               /\ pc'[w] = "failrun" /\ UNCHANGED local
            \/ /\ entry.state \notin Ended
               /\ pc'[w] = "idle" /\ pc'["business"] = "waiting"
               /\ local'["business"].slot = w
               /\ \A u \in Threads \ {w, "business"} : pc'[u] = pc[u]
               /\ \A u \in Threads \ {"business"} : local'[u] = local[u]
  <1> USE ThreadNames
  <1>0. w # "business" /\ pc[w] = "handling"
    BY DEF Slots, Dispatch
  <1>1. CASE entry.state = "Terminating"
    <2>1. Finalize(w, "helped") /\ "helped" \in Label /\ w \in Threads
      BY <1>0, <1>1, ResultNames, StateNames DEF Dispatch
    <2> QED BY <1>0, <1>1, <2>1, FinalizeDoes DEF OnlyMoves
  <1>2. CASE entry.state \in Terminal
    BY <1>0, <1>2, StateNames DEF Types, Dispatch, Goto, OnlyMoves, Label
  <1>3. CASE entry.state \notin Ended /\ forceStop
    BY <1>0, <1>3 DEF Types, Dispatch, Goto, OnlyMoves, Label, Ended
  <1>4. CASE entry.state \notin Ended /\ ~forceStop
    <2>1. /\ local' = [local EXCEPT !["business"].slot = w]
          /\ pc' = [pc EXCEPT ![w] = "idle", !["business"] = "waiting"]
      BY <1>4 DEF Dispatch, Ended
    <2>2. /\ \A u \in Threads \ {"business"} : local'[u] = local[u]
          /\ local' \in [Threads -> LocalType] /\ local'["business"].slot = w
      <3>1. local \in [Threads -> LocalType] /\ "business" \in Threads
        BY DEF Types
      <3> QED BY <2>1, <3>1, LocalSlot
    <2> QED BY <1>0, <1>4, <2>1, <2>2 DEF Types, Label
  <1> QED BY <1>1, <1>2, <1>3, <1>4 DEF Ended

LEMMA ScheduleDoes ==
  ASSUME Types, NEW c \in Callers, ScheduleCleanup(c)
  PROVE  /\ local' \in [Threads -> LocalType] /\ pc' \in [Threads -> Label]
         /\ pc[c] = "bindcheck" /\ ~bound
         /\ pc'[c] = "returned" /\ pc'["cleanup"] = "final"
         /\ local'["cleanup"].cont = "cleaned"
         /\ \A u \in Threads \ {c, "cleanup"} : pc'[u] = pc[u]
         /\ \A u \in Threads \ {"cleanup"} : local'[u] = local[u]
  <1> USE ThreadNames
  <1>0. c # "cleanup"
    BY EntryAssumption
  <1>1. /\ local' = [local EXCEPT !["cleanup"].cont = "cleaned"]
        /\ pc' = [pc EXCEPT ![c] = "returned", !["cleanup"] = "final"]
    BY DEF ScheduleCleanup
  <1>2. /\ \A u \in Threads \ {"cleanup"} : local'[u] = local[u]
        /\ local' \in [Threads -> LocalType] /\ local'["cleanup"].cont = "cleaned"
    <2>1. local \in [Threads -> LocalType] /\ "cleanup" \in Threads /\ "cleaned" \in Label
      BY ResultNames DEF Types
    <2> QED BY <1>1, <2>1, LocalCont
  <1>3. pc' \in [Threads -> Label]
    BY <1>1 DEF Types, Label
  <1>4. /\ pc'[c] = "returned" /\ pc'["cleanup"] = "final"
        /\ \A u \in Threads \ {c, "cleanup"} : pc'[u] = pc[u]
    BY <1>0, <1>1 DEF Types
  <1> QED BY <1>2, <1>3, <1>4 DEF ScheduleCleanup

(* The actions of Next, by the thread whose step they are.                 *)
HelpOwn(t) ==
  \/ Helped(t) \/ FailBeforeRunning(t) \/ FailQueued(t) \/ AuthorityFailure(t)
  \/ AuthorityFailFrom(t)

PublishOwn ==
  \/ ExpireRemove \/ ClaimExpired \/ AdmitExpired \/ RejectUnbound \/ InstallCheck \/ Install
  \/ Bind \/ (\E s \in Slots : Place(s)) \/ PlacementRefused \/ PrepareCheck \/ PrepareLogical
  \/ PrepareOwner \/ PrepareRetention \/ PrepareQueued \/ UndoRetention \/ UndoOwner \/ Uncount
  \/ PublishInitial \/ DropUnplaced \/ Unplaced \/ RejectBound \/ SettleUnplaced

CallOwn(c) ==
  \/ CancelCall(c) \/ CancelRead(c) \/ CancelTerminate(c) \/ CancelDefer(c) \/ RetireDelayed(c)
  \/ BindChecked(c) \/ CancelFinalize(c) \/ CancelSettled(c)

WorkOwn(w) ==
  \/ Receive(w) \/ Received(w) \/ ClaimMove(w) \/ ClaimRetention(w) \/ Claimed(w)
  \/ MoveBegin(w)

MoveOwn(w) ==
  \/ MoveRefused(w) \/ MoveDescribe(w) \/ MoveRegister(w) \/ MoveEnsure(w) \/ MoveActivate(w)
  \/ MoveAbandon(w) \/ MoveChecked(w) \/ MoveOwner(w) \/ MoveRetention(w) \/ MoveLogical(w)
  \/ MovePublish(w) \/ MoveCancel(w) \/ MoveTerminate(w) \/ MoveComplete(w) \/ MoveEnqueue(w)
  \/ MoveClear(w) \/ MoveUnregister(w) \/ MoveUncount(w)

MoveFailOwn(t) ==
  \/ MoveFail(t) \/ MoveFailClear(t)

AuditOwn ==
  \/ AuditSnapshot \/ AuditState \/ AuditRetention \/ AuditAbandon

BusinessOwn ==
  \/ BusinessGranted \/ BusinessGateClosed \/ BusinessCheck \/ TakeForRunning
  \/ (\E terminal \in {"Completed", "Failed"} : JobEnds(terminal)) \/ BusinessAborted
  \/ Backstop \/ BackstopFail

CloserOwn ==
  \/ CloseDelayed \/ RejectDelayed

LEMMA NextCases ==
  ASSUME [Next]_vars
  PROVE  \/ \E t \in Threads : FinalizeStep(t) \/ HelpOwn(t)
         \/ PublishOwn
         \/ \E c \in Callers : CallOwn(c) \/ ScheduleCleanup(c)
         \/ \E w \in Slots : WorkOwn(w) \/ Dispatch(w) \/ MoveOwn(w)
         \/ \E t \in Slots \cup {"auditor"} : MoveFailOwn(t)
         \/ AuditOwn \/ BusinessOwn \/ Cleaned \/ CloserOwn \/ ForceStop \/ UNCHANGED vars
  <1> USE ThreadNames
  <1>1. CASE PublisherStep
    BY <1>1 DEF PublisherStep, PublishOwn, HelperStep, HelpOwn
  <1>2. ASSUME NEW c \in Callers, CancelCall(c) \/ CallerStep(c)
        PROVE  \/ \E t \in Threads : FinalizeStep(t) \/ HelpOwn(t)
               \/ CallOwn(c) \/ ScheduleCleanup(c)
    BY <1>2 DEF CallerStep, CallOwn, HelperStep, HelpOwn
  <1>3. CASE CleanupStep \/ CloseDelayed \/ CloserStep
    BY <1>3 DEF CleanupStep, CloserStep, CloserOwn, HelperStep, HelpOwn
  <1>4. ASSUME NEW w \in Slots, WorkerStep(w) \/ MoveBegin(w)
        PROVE  \/ \E t \in Threads : FinalizeStep(t) \/ HelpOwn(t)
               \/ WorkOwn(w) \/ Dispatch(w) \/ MoveOwn(w) \/ MoveFailOwn(w)
    BY <1>4 DEF WorkerStep, MoveStep, WorkOwn, MoveOwn, MoveFailOwn, HelperStep, HelpOwn
  <1>5. CASE AuditorStep
    BY <1>5 DEF AuditorStep, AuditOwn, MoveFailOwn, HelperStep, HelpOwn
  <1>6. CASE BusinessStep
    BY <1>6 DEF BusinessStep, BusinessOwn, HelperStep, HelpOwn
  <1>7. CASE Rest
    BY <1>7 DEF Rest
  <1> QED BY <1>1, <1>2, <1>3, <1>4, <1>5, <1>6, <1>7 DEF Next


LEMMA FinalTypes ==
  ASSUME Types, EndInv, NEW t \in Threads, FinalizeStep(t)
  PROVE  Types' /\ OnlyMoves(t)
  <1> USE ThreadNames, StateNames, ResultNames
  <1>FinalizeState. CASE FinalizeState(t)
    <2>2. local' \in [Threads -> LocalType]
      BY <1>FinalizeState, ReturnDoes DEF Types, FinalizeState
    <2>3. pc' \in [Threads -> Label] /\ OnlyMoves(t)
      BY <1>FinalizeState, ReturnDoes DEF Types, Label, FinalizeState, Goto, At, OnlyMoves
    <2> QED BY <1>FinalizeState, <2>2, <2>3 DEF Types, FinalizeState, shared, history
  <1>FinalizePending. CASE FinalizePending(t)
    BY <1>FinalizePending, PendingDoes DEF Types, FinalizePending, shared, history
  <1>FinalizeRetention. CASE FinalizeRetention(t)
    <2>2. local' \in [Threads -> LocalType]
      BY <1>FinalizeRetention, ReturnDoes DEF Types, FinalizeRetention
    <2>3. pc' \in [Threads -> Label] /\ OnlyMoves(t)
      BY <1>FinalizeRetention, ReturnDoes
       DEF Types, Label, FinalizeRetention, Goto, At, OnlyMoves
    <2> QED BY <1>FinalizeRetention, <2>2, <2>3 DEF Types, FinalizeRetention, shared, history
  <1>FinalizeOwner. CASE FinalizeOwner(t)
    BY <1>FinalizeOwner, OwnerDoes DEF Types, FinalizeOwner, shared, history
  <1>FinalizeTerminal. CASE FinalizeTerminal(t)
    <2>2. local' \in [Threads -> LocalType]
      BY <1>FinalizeTerminal, ReturnDoes DEF Types, FinalizeTerminal
    <2>3. pc' \in [Threads -> Label] /\ OnlyMoves(t)
      BY <1>FinalizeTerminal, ReturnDoes DEF Types, Label, FinalizeTerminal, Goto, At, OnlyMoves
    <2> QED BY <1>FinalizeTerminal, <2>2, <2>3 DEF Types, FinalizeTerminal, shared, history
  <1>FinalizeMove. CASE FinalizeMove(t)
    <2>2. local' \in [Threads -> LocalType]
      BY <1>FinalizeMove, ReturnDoes DEF Types, FinalizeMove
    <2>3. pc' \in [Threads -> Label] /\ OnlyMoves(t)
      BY <1>FinalizeMove, ReturnDoes DEF Types, Label, FinalizeMove, Goto, At, OnlyMoves
    <2> QED BY <1>FinalizeMove, <2>2, <2>3 DEF Types, FinalizeMove, shared, history
  <1>FinalizeClaim. CASE FinalizeClaim(t)
    <2>0. local[t].record \in Terminal
      BY <1>FinalizeClaim DEF Types, LocalType, EntryType, EndInv, EndOwn, KnownPc, FinalPc, FinalizeClaim
    <2>1. entry' \in EntryType
      BY <1>FinalizeClaim, <2>0 DEF Types, EntryType, FinalizeClaim
    <2>2. local' \in [Threads -> LocalType]
      BY <1>FinalizeClaim, <2>0, ReturnDoes DEF Types, FinalizeClaim
    <2>3. pc' \in [Threads -> Label] /\ OnlyMoves(t)
      BY <1>FinalizeClaim, ReturnDoes, <2>0 DEF Types, Label, FinalizeClaim, Goto, At, OnlyMoves
    <2> QED BY <1>FinalizeClaim, <2>1, <2>2, <2>3 DEF Types, FinalizeClaim, shared, history
  <1>FinalizeDetach. CASE FinalizeDetach(t)
    <2>1. entry' \in EntryType
      BY <1>FinalizeDetach DEF Types, EntryType, FinalizeDetach, PhysicalRetention
    <2>3. pc' \in [Threads -> Label] /\ OnlyMoves(t)
      BY <1>FinalizeDetach DEF Types, Label, FinalizeDetach, At, Goto, OnlyMoves
    <2> QED BY <1>FinalizeDetach, <2>1, <2>3 DEF Types, FinalizeDetach, shared, history
  <1>FinalizeLogical. CASE FinalizeLogical(t)
    <2>1. entry' \in EntryType
      BY <1>FinalizeLogical DEF Types, EntryType, FinalizeLogical, None
    <2>3. pc' \in [Threads -> Label] /\ OnlyMoves(t)
      BY <1>FinalizeLogical DEF Types, Label, FinalizeLogical, At, Goto, OnlyMoves
    <2> QED BY <1>FinalizeLogical, <2>1, <2>3 DEF Types, FinalizeLogical, shared, history
  <1>FinalizeAccount. CASE FinalizeAccount(t)
    BY <1>FinalizeAccount
     DEF Types, Label, FinalizeAccount, At, Goto, shared, history, OnlyMoves
  <1>FinalizePermits. CASE FinalizePermits(t)
    <2>1. entry' \in EntryType
      BY <1>FinalizePermits DEF Types, EntryType, FinalizePermits
    <2>3. pc' \in [Threads -> Label] /\ OnlyMoves(t)
      BY <1>FinalizePermits DEF Types, Label, FinalizePermits, At, Goto, OnlyMoves
    <2> QED BY <1>FinalizePermits, <2>1, <2>3 DEF Types, FinalizePermits, shared, history
  <1>FinalizeRecord. CASE FinalizeRecord(t)
    <2>0. local[t].record \in Terminal
      BY <1>FinalizeRecord DEF Types, LocalType, EntryType, EndInv, EndOwn, KnownPc, FinalPc, FinalizeRecord
    <2>1. entry' \in EntryType
      BY <1>FinalizeRecord, <2>0 DEF Types, EntryType, FinalizeRecord
    <2>2. local' \in [Threads -> LocalType]
      BY <1>FinalizeRecord, <2>0, ReturnDoes DEF Types, FinalizeRecord
    <2>3. pc' \in [Threads -> Label] /\ OnlyMoves(t)
      BY <1>FinalizeRecord, ReturnDoes, <2>0
       DEF Types, Label, FinalizeRecord, Goto, At, OnlyMoves
    <2> QED BY <1>FinalizeRecord, <2>1, <2>2, <2>3 DEF Types, FinalizeRecord, shared, history
  <1>FinalizeUnpend. CASE FinalizeUnpend(t)
    <2>1. entry' \in EntryType
      BY <1>FinalizeUnpend DEF Types, EntryType, FinalizeUnpend, None
    <2>3. pc' \in [Threads -> Label] /\ OnlyMoves(t)
      BY <1>FinalizeUnpend DEF Types, Label, FinalizeUnpend, At, Goto, OnlyMoves
    <2> QED BY <1>FinalizeUnpend, <2>1, <2>3 DEF Types, FinalizeUnpend, shared, history
  <1>FinalizePublish. CASE FinalizePublish(t)
    <2>0. local[t].record \in Terminal
      BY <1>FinalizePublish DEF Types, LocalType, EntryType, EndInv, EndOwn, KnownPc, FinalPc, FinalizePublish
    <2>1. entry' \in EntryType
      BY <1>FinalizePublish, <2>0 DEF Types, EntryType, FinalizePublish
    <2>2. local' \in [Threads -> LocalType]
      BY <1>FinalizePublish, <2>0, ReturnDoes DEF Types, FinalizePublish
    <2>3. pc' \in [Threads -> Label] /\ OnlyMoves(t)
      BY <1>FinalizePublish, ReturnDoes, <2>0
       DEF Types, Label, FinalizePublish, Goto, At, OnlyMoves
    <2> QED BY <1>FinalizePublish, <2>1, <2>2, <2>3 DEF Types, FinalizePublish, shared, history
  <1> QED BY <1>FinalizeState, <1>FinalizePending, <1>FinalizeRetention, <1>FinalizeOwner,
     <1>FinalizeTerminal, <1>FinalizeMove, <1>FinalizeClaim, <1>FinalizeDetach,
     <1>FinalizeLogical, <1>FinalizeAccount, <1>FinalizePermits, <1>FinalizeRecord,
     <1>FinalizeUnpend, <1>FinalizePublish DEF FinalizeStep

LEMMA HelpTypes ==
  ASSUME Types, EndInv, NEW t \in Threads, HelpOwn(t)
  PROVE  Types' /\ OnlyMoves(t)
  <1> USE ThreadNames, StateNames, ResultNames
  <1>Helped. CASE Helped(t)
    BY <1>Helped DEF Types, Label, Helped, At, Goto, After, history, OnlyMoves
  <1>FailBeforeRunning. CASE FailBeforeRunning(t)
    <2>2. local' \in [Threads -> LocalType]
      BY <1>FailBeforeRunning, FinalizeDoes DEF Types, FailBeforeRunning
    <2>3. pc' \in [Threads -> Label] /\ OnlyMoves(t)
      BY SMTT(60), <1>FailBeforeRunning, FinalizeMoves, GotoMoves, GoesTo DEF FailBeforeRunning
    <2> QED BY <1>FailBeforeRunning, <2>2, <2>3 DEF Types, FailBeforeRunning, shared, history
  <1>FailQueued. CASE FailQueued(t)
    <2>1. entry' \in EntryType
      BY <1>FailQueued, TerminatedFields DEF Types, FailQueued, CanTerminate
    <2>2. local' \in [Threads -> LocalType]
      BY <1>FailQueued, FinalizeDoes DEF Types, FailQueued
    <2>3. pc' \in [Threads -> Label] /\ OnlyMoves(t)
      BY SMTT(60), <1>FailQueued, FinalizeMoves, GotoMoves, GoesTo DEF FailQueued
    <2> QED BY <1>FailQueued, <2>1, <2>2, <2>3 DEF Types, FailQueued, shared, history
  <1>AuthorityFailure. CASE AuthorityFailure(t)
    <2>0. entry.state \in EntryState
      BY <1>AuthorityFailure DEF Types, LocalType, EntryType
    <2>2. local' \in [Threads -> LocalType]
      BY <1>AuthorityFailure, <2>0, FinalizeDoes, LocalState DEF Types, AuthorityFailure
    <2>3. pc' \in [Threads -> Label] /\ OnlyMoves(t)
      BY SMTT(60), <1>AuthorityFailure, FinalizeMoves, GotoMoves, GotoStates, GoesTo
       DEF AuthorityFailure
    <2> QED BY <1>AuthorityFailure, <2>2, <2>3 DEF Types, AuthorityFailure, history
  <1>AuthorityFailFrom. CASE AuthorityFailFrom(t)
    <2>1. entry' \in EntryType
      BY <1>AuthorityFailFrom, TerminatedFields DEF Types, AuthorityFailFrom, CanTerminate
    <2>2. local' \in [Threads -> LocalType]
      BY <1>AuthorityFailFrom, FinalizeDoes DEF Types, AuthorityFailFrom
    <2>3. pc' \in [Threads -> Label] /\ OnlyMoves(t)
      BY SMTT(60), <1>AuthorityFailFrom, FinalizeMoves, GotoMoves, GoesTo DEF AuthorityFailFrom
    <2> QED BY <1>AuthorityFailFrom, <2>1, <2>2, <2>3 DEF Types, AuthorityFailFrom, history
  <1> QED BY <1>Helped, <1>FailBeforeRunning, <1>FailQueued, <1>AuthorityFailure, <1>AuthorityFailFrom
   DEF HelpOwn

LEMMA PubTypes ==
  ASSUME Types, EndInv, PublishOwn
  PROVE  Types' /\ OnlyMoves("publisher")
  <1> USE ThreadNames, StateNames, ResultNames
  <1>ExpireRemove. CASE ExpireRemove
    BY <1>ExpireRemove DEF Types, Label, ExpireRemove, At, Goto, history, OnlyMoves
  <1>ClaimExpired. CASE ClaimExpired
    <2>1. entry' \in EntryType
      BY <1>ClaimExpired DEF Types, EntryType, ClaimExpired
    <2>3. pc' \in [Threads -> Label] /\ OnlyMoves("publisher")
      BY <1>ClaimExpired DEF Types, Label, ClaimExpired, At, Goto, OnlyMoves
    <2> QED BY <1>ClaimExpired, <2>1, <2>3 DEF Types, ClaimExpired, shared, history
  <1>AdmitExpired. CASE AdmitExpired
    BY <1>AdmitExpired DEF Types, Label, AdmitExpired, At, Goto, shared, history, OnlyMoves
  <1>RejectUnbound. CASE RejectUnbound
    <2>1. entry' \in EntryType
      BY <1>RejectUnbound, TerminatedFields DEF Types, RejectUnbound, CanTerminate
    <2>2. local' \in [Threads -> LocalType]
      BY <1>RejectUnbound, FinalizeDoes DEF Types, RejectUnbound
    <2>3. pc' \in [Threads -> Label] /\ OnlyMoves("publisher")
      BY SMTT(60), <1>RejectUnbound, FinalizeMoves, GotoMoves, GoesTo DEF RejectUnbound
    <2> QED BY <1>RejectUnbound, <2>1, <2>2, <2>3 DEF Types, RejectUnbound, shared, history
  <1>InstallCheck. CASE InstallCheck
    BY <1>InstallCheck DEF Types, Label, InstallCheck, At, Goto, shared, history, OnlyMoves
  <1>Install. CASE Install
    <2>1. entry' \in EntryType
      BY <1>Install DEF Types, EntryType, Install
    <2>3. pc' \in [Threads -> Label] /\ OnlyMoves("publisher")
      BY <1>Install DEF Types, Label, Install, At, Goto, OnlyMoves
    <2> QED BY <1>Install, <2>1, <2>3 DEF Types, Install, shared, history
  <1>Bind. CASE Bind
    BY <1>Bind DEF Types, Label, Bind, At, Goto, history, OnlyMoves
  <1>Place. ASSUME NEW s \in Slots, Place(s) PROVE Types' /\ OnlyMoves("publisher")
    BY <1>Place, PlaceDoes DEF Types, Place, shared, history
  <1>PlacementRefused. CASE PlacementRefused
    BY <1>PlacementRefused
     DEF Types, Label, PlacementRefused, At, Goto, shared, history, OnlyMoves
  <1>PrepareCheck. CASE PrepareCheck
    BY <1>PrepareCheck DEF Types, Label, PrepareCheck, At, Goto, shared, history, OnlyMoves
  <1>PrepareLogical. CASE PrepareLogical
    <2>0. local["publisher"].slot \in Slots
      BY <1>PrepareLogical DEF Types, LocalType, EntryType
    <2>1. entry' \in EntryType
      BY <1>PrepareLogical, <2>0 DEF Types, EntryType, PrepareLogical
    <2>3. pc' \in [Threads -> Label] /\ OnlyMoves("publisher")
      BY <1>PrepareLogical, <2>0 DEF Types, Label, PrepareLogical, At, Goto, OnlyMoves
    <2> QED BY <1>PrepareLogical, <2>1, <2>3 DEF Types, PrepareLogical, shared, history
  <1>PrepareOwner. CASE PrepareOwner
    <2>0. local["publisher"].slot \in Slots
      BY <1>PrepareOwner DEF Types, LocalType, EntryType
    <2>1. entry' \in EntryType
      BY <1>PrepareOwner, <2>0 DEF Types, EntryType, PrepareOwner, None
    <2>3. pc' \in [Threads -> Label] /\ OnlyMoves("publisher")
      BY <1>PrepareOwner, <2>0 DEF Types, Label, PrepareOwner, At, Goto, OnlyMoves
    <2> QED BY <1>PrepareOwner, <2>1, <2>3 DEF Types, PrepareOwner, shared, history
  <1>PrepareRetention. CASE PrepareRetention
    <2>1. entry' \in EntryType
      BY <1>PrepareRetention DEF Types, EntryType, PrepareRetention, PhysicalRetention
    <2>3. pc' \in [Threads -> Label] /\ OnlyMoves("publisher")
      BY <1>PrepareRetention DEF Types, Label, PrepareRetention, At, Goto, OnlyMoves
    <2> QED BY <1>PrepareRetention, <2>1, <2>3 DEF Types, PrepareRetention, shared, history
  <1>PrepareQueued. CASE PrepareQueued
    <2>1. entry' \in EntryType
      BY <1>PrepareQueued DEF Types, EntryType, PrepareQueued
    <2>3. pc' \in [Threads -> Label] /\ OnlyMoves("publisher")
      BY <1>PrepareQueued DEF Types, Label, PrepareQueued, At, Goto, OnlyMoves
    <2> QED BY <1>PrepareQueued, <2>1, <2>3 DEF Types, PrepareQueued, shared, history
  <1>UndoRetention. CASE UndoRetention
    <2>1. entry' \in EntryType
      BY <1>UndoRetention DEF Types, EntryType, UndoRetention, PhysicalRetention
    <2>3. pc' \in [Threads -> Label] /\ OnlyMoves("publisher")
      BY <1>UndoRetention DEF Types, Label, UndoRetention, At, Goto, OnlyMoves
    <2> QED BY <1>UndoRetention, <2>1, <2>3 DEF Types, UndoRetention, shared, history
  <1>UndoOwner. CASE UndoOwner
    <2>1. entry' \in EntryType
      <3> DEFINE e == [entry EXCEPT !.owner = "home"]
      <3>1. "home" \in Slots
        BY DEF Slots
      <3>2. e \in EntryType
        BY <3>1 DEF Types, EntryType
      <3>3. entry' = [e EXCEPT !.logical = None]
        BY <1>UndoOwner DEF UndoOwner
      <3> QED BY <3>2, <3>3 DEF EntryType
    <2>3. pc' \in [Threads -> Label] /\ OnlyMoves("publisher")
      BY <1>UndoOwner DEF Types, Label, UndoOwner, At, Goto, OnlyMoves
    <2> QED BY <1>UndoOwner, <2>1, <2>3 DEF Types, UndoOwner, shared, history
  <1>Uncount. CASE Uncount
    BY <1>Uncount DEF Types, Label, Uncount, At, Goto, shared, history, OnlyMoves
  <1>PublishInitial. CASE PublishInitial
    BY <1>PublishInitial
     DEF Types, Label, PublishInitial, At, Goto, history, LocalType, OnlyMoves
  <1>DropUnplaced. CASE DropUnplaced
    <2>1. entry' \in EntryType
      BY <1>DropUnplaced DEF Types, EntryType, DropUnplaced
    <2>3. pc' \in [Threads -> Label] /\ OnlyMoves("publisher")
      BY <1>DropUnplaced DEF Types, Label, DropUnplaced, At, Goto, OnlyMoves
    <2> QED BY <1>DropUnplaced, <2>1, <2>3 DEF Types, DropUnplaced, shared, history
  <1>Unplaced. CASE Unplaced
    <2>2. local' \in [Threads -> LocalType]
      BY <1>Unplaced, FinalizeDoes DEF Types, Unplaced
    <2>3. pc' \in [Threads -> Label] /\ OnlyMoves("publisher")
      BY SMTT(60), <1>Unplaced, FinalizeMoves, GotoMoves, GoesTo DEF Unplaced
    <2> QED BY <1>Unplaced, <2>2, <2>3 DEF Types, Unplaced, shared, history
  <1>RejectBound. CASE RejectBound
    <2>1. entry' \in EntryType
      BY <1>RejectBound, TerminatedFields DEF Types, RejectBound, CanTerminate
    <2>2. local' \in [Threads -> LocalType]
      BY <1>RejectBound, FinalizeDoes DEF Types, RejectBound
    <2>3. pc' \in [Threads -> Label] /\ OnlyMoves("publisher")
      BY SMTT(60), <1>RejectBound, FinalizeMoves, GotoMoves, GoesTo DEF RejectBound
    <2> QED BY <1>RejectBound, <2>1, <2>2, <2>3 DEF Types, RejectBound, shared, history
  <1>SettleUnplaced. CASE SettleUnplaced
    BY <1>SettleUnplaced DEF Types, Label, SettleUnplaced, At, Goto, shared, history, OnlyMoves
  <1> QED BY <1>ExpireRemove, <1>ClaimExpired, <1>AdmitExpired, <1>RejectUnbound, <1>InstallCheck,
     <1>Install, <1>Bind, <1>Place, <1>PlacementRefused, <1>PrepareCheck, <1>PrepareLogical,
     <1>PrepareOwner, <1>PrepareRetention, <1>PrepareQueued, <1>UndoRetention, <1>UndoOwner,
     <1>Uncount, <1>PublishInitial, <1>DropUnplaced, <1>Unplaced, <1>RejectBound,
     <1>SettleUnplaced DEF PublishOwn

LEMMA CallTypes ==
  ASSUME Types, EndInv, NEW c \in Callers, CallOwn(c)
  PROVE  Types' /\ OnlyMoves(c)
  <1> USE ThreadNames, StateNames, ResultNames
  <1>CancelCall. CASE CancelCall(c)
    BY <1>CancelCall DEF Types, Label, CancelCall, At, Goto, shared, history, OnlyMoves
  <1>CancelRead. CASE CancelRead(c)
    <2>0. entry.state \in EntryState
      BY <1>CancelRead DEF Types, LocalType, EntryType
    <2>2. local' \in [Threads -> LocalType]
      BY <1>CancelRead, <2>0, LocalState DEF Types, CancelRead
    <2>3. pc' \in [Threads -> Label] /\ OnlyMoves(c)
      BY <1>CancelRead, LocalState, <2>0 DEF Types, Label, CancelRead, Goto, At, OnlyMoves
    <2> QED BY <1>CancelRead, <2>2, <2>3 DEF Types, CancelRead, shared, Answer
  <1>CancelTerminate. CASE CancelTerminate(c)
    <2>1. entry' \in EntryType
      BY <1>CancelTerminate, TerminatedFields DEF Types, CancelTerminate, CanTerminate
    <2>3. pc' \in [Threads -> Label] /\ OnlyMoves(c)
      BY <1>CancelTerminate DEF Types, Label, CancelTerminate, Goto, At, OnlyMoves
    <2> QED BY <1>CancelTerminate, <2>1, <2>3 DEF Types, CancelTerminate, shared, Answer
  <1>CancelDefer. CASE CancelDefer(c)
    <2>1. entry' \in EntryType
      BY <1>CancelDefer DEF Types, EntryType, CancelDefer
    <2>3. pc' \in [Threads -> Label] /\ OnlyMoves(c)
      BY <1>CancelDefer DEF Types, Label, CancelDefer, At, Goto, OnlyMoves
    <2> QED BY <1>CancelDefer, <2>1, <2>3 DEF Types, CancelDefer, shared, Answer
  <1>RetireDelayed. CASE RetireDelayed(c)
    BY <1>RetireDelayed DEF Types, Label, RetireDelayed, At, Goto, history, OnlyMoves
  <1>BindChecked. CASE BindChecked(c)
    BY <1>BindChecked DEF Types, Label, BindChecked, At, Goto, shared, history, OnlyMoves
  <1>CancelFinalize. CASE CancelFinalize(c)
    BY <1>CancelFinalize, CancelFinalizeDoes DEF Types, CancelFinalize, shared, history
  <1>CancelSettled. CASE CancelSettled(c)
    BY <1>CancelSettled DEF Types, Label, CancelSettled, At, Goto, Answer, OnlyMoves
  <1> QED BY <1>CancelCall, <1>CancelRead, <1>CancelTerminate, <1>CancelDefer, <1>RetireDelayed,
     <1>BindChecked, <1>CancelFinalize, <1>CancelSettled DEF CallOwn

LEMMA WorkTypes ==
  ASSUME Types, EndInv, NEW w \in Slots, WorkOwn(w)
  PROVE  Types' /\ OnlyMoves(w)
  <1> USE ThreadNames, StateNames, ResultNames
  <1>Receive. CASE Receive(w)
    BY <1>Receive DEF Types, Label, Receive, At, Goto, history, OnlyMoves
  <1>Received. CASE Received(w)
    BY <1>Received DEF Types, Label, Received, At, Goto, shared, history, OnlyMoves
  <1>ClaimMove. CASE ClaimMove(w)
    <2>1. entry' \in EntryType
      BY <1>ClaimMove DEF Types, EntryType, ClaimMove, NoMove, None, PhysicalRetention
    <2>3. pc' \in [Threads -> Label] /\ OnlyMoves(w)
      BY <1>ClaimMove DEF Types, Label, ClaimMove, At, Goto, OnlyMoves
    <2> QED BY <1>ClaimMove, <2>1, <2>3 DEF Types, ClaimMove, shared, history
  <1>ClaimRetention. CASE ClaimRetention(w)
    <2>1. entry' \in EntryType
      BY <1>ClaimRetention DEF Types, EntryType, ClaimRetention, PhysicalRetention
    <2>3. pc' \in [Threads -> Label] /\ OnlyMoves(w)
      BY <1>ClaimRetention DEF Types, Label, ClaimRetention, At, Goto, OnlyMoves
    <2> QED BY <1>ClaimRetention, <2>1, <2>3 DEF Types, ClaimRetention, shared, history
  <1>Claimed. CASE Claimed(w)
    <2>2. local' \in [Threads -> LocalType]
      BY <1>Claimed, FinalizeDoes DEF Types, Claimed
    <2>3. pc' \in [Threads -> Label] /\ OnlyMoves(w)
      BY SMTT(60), <1>Claimed, FinalizeMoves, GotoMoves, GoesTo DEF Claimed
    <2> QED BY <1>Claimed, <2>2, <2>3 DEF Types, Claimed, shared, history
  <1>MoveBegin. CASE MoveBegin(w)
    BY <1>MoveBegin DEF Types, Label, MoveBegin, At, Goto, shared, history, OnlyMoves
  <1> QED BY <1>Receive, <1>Received, <1>ClaimMove, <1>ClaimRetention, <1>Claimed, <1>MoveBegin
   DEF WorkOwn

LEMMA MoveTypes ==
  ASSUME Types, EndInv, NEW w \in Slots, MoveOwn(w)
  PROVE  Types' /\ OnlyMoves(w)
  <1> USE ThreadNames, StateNames, ResultNames
  <1>MoveRefused. CASE MoveRefused(w)
    <2>2. local' \in [Threads -> LocalType]
      BY <1>MoveRefused, FinalizeDoes DEF Types, MoveRefused
    <2>3. pc' \in [Threads -> Label] /\ OnlyMoves(w)
      BY SMTT(60), <1>MoveRefused, FinalizeMoves, GotoMoves, GoesTo DEF MoveRefused
    <2> QED BY <1>MoveRefused, <2>2, <2>3 DEF Types, MoveRefused, shared, history
  <1>MoveDescribe. CASE MoveDescribe(w)
    BY <1>MoveDescribe, DescribeDoes DEF Types, MoveDescribe, shared, history
  <1>MoveRegister. CASE MoveRegister(w)
    BY <1>MoveRegister DEF Types, Label, MoveRegister, At, Goto, history, OnlyMoves
  <1>MoveEnsure. CASE MoveEnsure(w)
    BY <1>MoveEnsure DEF Types, Label, MoveEnsure, At, Goto, shared, history, OnlyMoves
  <1>MoveActivate. CASE MoveActivate(w)
    <2>1. entry' \in EntryType
      BY <1>MoveActivate DEF Types, EntryType, MoveActivate
    <2>3. pc' \in [Threads -> Label] /\ OnlyMoves(w)
      BY <1>MoveActivate DEF Types, Label, MoveActivate, At, Goto, OnlyMoves
    <2> QED BY <1>MoveActivate, <2>1, <2>3 DEF Types, MoveActivate, shared, history
  <1>MoveAbandon. CASE MoveAbandon(w)
    <2>1. entry' \in EntryType
      BY <1>MoveAbandon DEF Types, EntryType, MoveAbandon, NoMove, None
    <2>2. local' \in [Threads -> LocalType]
      BY <1>MoveAbandon, FinalizeDoes DEF Types, MoveAbandon
    <2>3. pc' \in [Threads -> Label] /\ OnlyMoves(w)
      BY SMTT(60), <1>MoveAbandon, FinalizeMoves, GotoMoves, GoesTo DEF MoveAbandon
    <2> QED BY <1>MoveAbandon, <2>1, <2>2, <2>3 DEF Types, MoveAbandon, history
  <1>MoveChecked. CASE MoveChecked(w)
    BY <1>MoveChecked
     DEF Types, Label, MoveChecked, MoveCheck, At, Goto, shared, history, OnlyMoves
  <1>MoveOwner. CASE MoveOwner(w)
    <2>0. local[w].slot \in Slots
      BY <1>MoveOwner DEF Types, LocalType, EntryType
    <2>1. entry' \in EntryType
      BY <1>MoveOwner, <2>0 DEF Types, EntryType, MoveOwner
    <2>3. pc' \in [Threads -> Label] /\ OnlyMoves(w)
      BY <1>MoveOwner, <2>0 DEF Types, Label, MoveOwner, At, Goto, OnlyMoves
    <2> QED BY <1>MoveOwner, <2>1, <2>3 DEF Types, MoveOwner, shared, history
  <1>MoveRetention. CASE MoveRetention(w)
    <2>1. entry' \in EntryType
      BY <1>MoveRetention DEF Types, EntryType, MoveRetention, PhysicalRetention
    <2>3. pc' \in [Threads -> Label] /\ OnlyMoves(w)
      BY <1>MoveRetention DEF Types, Label, MoveRetention, At, Goto, OnlyMoves
    <2> QED BY <1>MoveRetention, <2>1, <2>3 DEF Types, MoveRetention, shared, history
  <1>MoveLogical. CASE MoveLogical(w)
    <2>0. local[w].slot \in Slots
      BY <1>MoveLogical DEF Types, LocalType, EntryType
    <2>1. entry' \in EntryType
      BY <1>MoveLogical, <2>0 DEF Types, EntryType, MoveLogical
    <2>3. pc' \in [Threads -> Label] /\ OnlyMoves(w)
      BY <1>MoveLogical, <2>0 DEF Types, Label, MoveLogical, At, Goto, OnlyMoves
    <2> QED BY <1>MoveLogical, <2>1, <2>3 DEF Types, MoveLogical, shared, history
  <1>MovePublish. CASE MovePublish(w)
    <2>1. entry' \in EntryType
      BY <1>MovePublish DEF Types, EntryType, MovePublish
    <2>3. pc' \in [Threads -> Label] /\ OnlyMoves(w)
      BY <1>MovePublish DEF Types, Label, MovePublish, At, Goto, OnlyMoves
    <2> QED BY <1>MovePublish, <2>1, <2>3 DEF Types, MovePublish, shared, history
  <1>MoveCancel. CASE MoveCancel(w)
    <2>1. entry' \in EntryType
      BY <1>MoveCancel DEF Types, EntryType, MoveCancel
    <2>3. pc' \in [Threads -> Label] /\ OnlyMoves(w)
      BY <1>MoveCancel DEF Types, Label, MoveCancel, At, Goto, OnlyMoves
    <2> QED BY <1>MoveCancel, <2>1, <2>3 DEF Types, MoveCancel, shared, history
  <1>MoveTerminate. CASE MoveTerminate(w)
    <2>1. entry' \in EntryType
      BY <1>MoveTerminate, TerminatedFields DEF Types, EntryType, MoveTerminate, CanTerminate
    <2>3. pc' \in [Threads -> Label] /\ OnlyMoves(w)
      BY <1>MoveTerminate DEF Types, Label, MoveTerminate, At, Goto, OnlyMoves
    <2> QED BY <1>MoveTerminate, <2>1, <2>3 DEF Types, MoveTerminate, shared, history
  <1>MoveComplete. CASE MoveComplete(w)
    BY <1>MoveComplete DEF Types, Label, MoveComplete, At, Goto, shared, history, OnlyMoves
  <1>MoveEnqueue. CASE MoveEnqueue(w)
    BY <1>MoveEnqueue DEF Types, Label, MoveEnqueue, At, Goto, history, LocalType, OnlyMoves
  <1>MoveClear. CASE MoveClear(w)
    <2>1. entry' \in EntryType
      BY <1>MoveClear, ClearedFields DEF Types, MoveClear
    <2>3. pc' \in [Threads -> Label] /\ OnlyMoves(w)
      BY <1>MoveClear DEF Types, Label, MoveClear, At, Goto, OnlyMoves
    <2> QED BY <1>MoveClear, <2>1, <2>3 DEF Types, MoveClear, shared, history
  <1>MoveUnregister. CASE MoveUnregister(w)
    BY <1>MoveUnregister DEF Types, Label, MoveUnregister, At, Goto, history, OnlyMoves
  <1>MoveUncount. CASE MoveUncount(w)
    BY <1>MoveUncount DEF Types, Label, MoveUncount, At, Goto, shared, history, OnlyMoves
  <1> QED BY <1>MoveRefused, <1>MoveDescribe, <1>MoveRegister, <1>MoveEnsure, <1>MoveActivate,
     <1>MoveAbandon, <1>MoveChecked, <1>MoveOwner, <1>MoveRetention, <1>MoveLogical,
     <1>MovePublish, <1>MoveCancel, <1>MoveTerminate, <1>MoveComplete, <1>MoveEnqueue,
     <1>MoveClear, <1>MoveUnregister, <1>MoveUncount DEF MoveOwn

LEMMA MoveFailTypes ==
  ASSUME Types, EndInv, NEW t \in Slots \cup {"auditor"}, MoveFailOwn(t)
  PROVE  Types' /\ OnlyMoves(t)
  <1> USE ThreadNames, StateNames, ResultNames
  <1>MoveFail. CASE MoveFail(t)
    <2>1. entry' \in EntryType
      BY <1>MoveFail, TerminatedFields DEF Types, MoveFail, CanTerminate
    <2>3. pc' \in [Threads -> Label] /\ OnlyMoves(t)
      BY <1>MoveFail DEF Types, Label, MoveFail, At, Goto, OnlyMoves
    <2> QED BY <1>MoveFail, <2>1, <2>3 DEF Types, MoveFail, shared, history
  <1>MoveFailClear. CASE MoveFailClear(t)
    <2>1. entry' \in EntryType
      BY <1>MoveFailClear, ClearedFields DEF Types, MoveFailClear
    <2>2. local' \in [Threads -> LocalType]
      BY <1>MoveFailClear, FinalizeDoes DEF Types, MoveFailClear
    <2>3. pc' \in [Threads -> Label] /\ OnlyMoves(t)
      BY SMTT(60), <1>MoveFailClear, FinalizeMoves, GotoMoves, GoesTo DEF MoveFailClear
    <2> QED BY <1>MoveFailClear, <2>1, <2>2, <2>3 DEF Types, MoveFailClear, history
  <1> QED BY <1>MoveFail, <1>MoveFailClear DEF MoveFailOwn

LEMMA AuditTypes ==
  ASSUME Types, EndInv, AuditOwn
  PROVE  Types' /\ OnlyMoves("auditor")
  <1> USE ThreadNames, StateNames, ResultNames
  <1>AuditSnapshot. CASE AuditSnapshot
    <2>0. entry.move.epoch \in Nat
      BY <1>AuditSnapshot DEF Types, LocalType, EntryType
    <2>2. local' \in [Threads -> LocalType]
      BY <1>AuditSnapshot, <2>0, LocalEpoch DEF Types, AuditSnapshot
    <2>3. pc' \in [Threads -> Label] /\ OnlyMoves("auditor")
      BY <1>AuditSnapshot, LocalEpoch, <2>0 DEF Types, Label, AuditSnapshot, At, Goto, OnlyMoves
    <2> QED BY <1>AuditSnapshot, <2>2, <2>3 DEF Types, AuditSnapshot, history
  <1>AuditState. CASE AuditState
    <2>1. entry' \in EntryType
      BY <1>AuditState, ClearedFields DEF Types, AuditState
    <2>3. pc' \in [Threads -> Label] /\ OnlyMoves("auditor")
      BY <1>AuditState DEF Types, Label, AuditState, Goto, At, OnlyMoves
    <2> QED BY <1>AuditState, <2>1, <2>3 DEF Types, AuditState, history
  <1>AuditRetention. CASE AuditRetention
    <2>1. entry' \in EntryType
      BY <1>AuditRetention, ClearedFields DEF Types, AuditRetention
    <2> QED BY <1>AuditRetention, <2>1, AuditRetentionDoes DEF Types, AuditRetention, history
  <1>AuditAbandon. CASE AuditAbandon
    <2>0. local["auditor"].cont \in Label
      BY <1>AuditAbandon DEF Types, LocalType, EntryType
    <2>1. entry' \in EntryType
      BY <1>AuditAbandon, <2>0, ClearedFields DEF Types, AuditAbandon
    <2>2. local' \in [Threads -> LocalType]
      BY <1>AuditAbandon, <2>0, FinalizeDoes DEF Types, AuditAbandon
    <2>3. pc' \in [Threads -> Label] /\ OnlyMoves("auditor")
      BY SMTT(60), <1>AuditAbandon, FinalizeMoves, GotoMoves, GoesTo, <2>0 DEF AuditAbandon
    <2> QED BY <1>AuditAbandon, <2>1, <2>2, <2>3 DEF Types, AuditAbandon, history
  <1> QED BY <1>AuditSnapshot, <1>AuditState, <1>AuditRetention, <1>AuditAbandon DEF AuditOwn

LEMMA BizTypes ==
  ASSUME Types, EndInv, BusinessOwn
  PROVE  Types' /\ OnlyMoves("business")
  <1> USE ThreadNames, StateNames, ResultNames
  <1>BusinessGranted. CASE BusinessGranted
    BY <1>BusinessGranted
     DEF Types, Label, BusinessGranted, At, Goto, shared, history, OnlyMoves
  <1>BusinessGateClosed. CASE BusinessGateClosed
    BY <1>BusinessGateClosed
     DEF Types, Label, BusinessGateClosed, At, Goto, shared, history, OnlyMoves
  <1>BusinessCheck. CASE BusinessCheck
    <2>2. local' \in [Threads -> LocalType]
      BY <1>BusinessCheck, FinalizeDoes DEF Types, BusinessCheck
    <2>3. pc' \in [Threads -> Label] /\ OnlyMoves("business")
      BY SMTT(60), <1>BusinessCheck, FinalizeMoves, GotoMoves, GoesTo DEF BusinessCheck
    <2> QED BY <1>BusinessCheck, <2>2, <2>3 DEF Types, BusinessCheck, shared, history
  <1>TakeForRunning. CASE TakeForRunning
    <2>1. entry' \in EntryType
      BY <1>TakeForRunning DEF Types, EntryType, TakeForRunning, PhysicalRetention
    <2>3. pc' \in [Threads -> Label] /\ OnlyMoves("business")
      BY <1>TakeForRunning DEF Types, Label, TakeForRunning, At, Goto, OnlyMoves
    <2> QED BY <1>TakeForRunning, <2>1, <2>3 DEF Types, TakeForRunning, shared
  <1>JobEnds. ASSUME NEW terminal \in {"Completed", "Failed"}, JobEnds(terminal) PROVE Types' /\ OnlyMoves("business")
    <2>1. entry' \in EntryType
      BY <1>JobEnds, TerminatedFields DEF Types, JobEnds, CanTerminate
    <2>2. local' \in [Threads -> LocalType]
      BY <1>JobEnds, FinalizeDoes DEF Types, JobEnds
    <2>3. pc' \in [Threads -> Label] /\ OnlyMoves("business")
      BY SMTT(60), <1>JobEnds, FinalizeMoves, GotoMoves, GoesTo DEF JobEnds
    <2> QED BY <1>JobEnds, <2>1, <2>2, <2>3 DEF Types, JobEnds, shared, history
  <1>BusinessAborted. CASE BusinessAborted
    <2>2. local' \in [Threads -> LocalType]
      BY <1>BusinessAborted, LocalState DEF Types, BusinessAborted
    <2>3. pc' \in [Threads -> Label] /\ OnlyMoves("business")
      BY <1>BusinessAborted, LocalState DEF Types, Label, BusinessAborted, Goto, At, OnlyMoves
    <2> QED BY <1>BusinessAborted, <2>2, <2>3 DEF Types, BusinessAborted, shared, history
  <1>Backstop. CASE Backstop
    <2>2. local' \in [Threads -> LocalType]
      BY <1>Backstop, FinalizeDoes DEF Types, Backstop
    <2>3. pc' \in [Threads -> Label] /\ OnlyMoves("business")
      BY SMTT(60), <1>Backstop, FinalizeMoves, GotoMoves, GoesTo DEF Backstop
    <2> QED BY <1>Backstop, <2>2, <2>3 DEF Types, Backstop, shared, history
  <1>BackstopFail. CASE BackstopFail
    <2>1. entry' \in EntryType
      BY <1>BackstopFail, TerminatedFields DEF Types, BackstopFail, CanTerminate
    <2>2. local' \in [Threads -> LocalType]
      BY <1>BackstopFail, FinalizeDoes DEF Types, BackstopFail
    <2>3. pc' \in [Threads -> Label] /\ OnlyMoves("business")
      BY SMTT(60), <1>BackstopFail, FinalizeMoves, GotoMoves, GoesTo DEF BackstopFail
    <2> QED BY <1>BackstopFail, <2>1, <2>2, <2>3 DEF Types, BackstopFail, shared, history
  <1> QED BY <1>BusinessGranted, <1>BusinessGateClosed, <1>BusinessCheck, <1>TakeForRunning,
     <1>JobEnds, <1>BusinessAborted, <1>Backstop, <1>BackstopFail DEF BusinessOwn

LEMMA CleanupTypes ==
  ASSUME Types, EndInv, Cleaned
  PROVE  Types' /\ OnlyMoves("cleanup")
  <1> USE ThreadNames, StateNames, ResultNames
  <1>Cleaned. CASE Cleaned
    BY <1>Cleaned DEF Types, Label, Cleaned, At, Goto, history, OnlyMoves
  <1> QED BY <1>Cleaned

LEMMA CloserTypes ==
  ASSUME Types, EndInv, CloserOwn
  PROVE  Types' /\ OnlyMoves("closer")
  <1> USE ThreadNames, StateNames, ResultNames
  <1>CloseDelayed. CASE CloseDelayed
    BY <1>CloseDelayed DEF Types, Label, CloseDelayed, At, Goto, history, OnlyMoves
  <1>RejectDelayed. CASE RejectDelayed
    <2>1. entry' \in EntryType
      BY <1>RejectDelayed, TerminatedFields DEF Types, RejectDelayed, CanTerminate
    <2>2. local' \in [Threads -> LocalType]
      BY <1>RejectDelayed, FinalizeDoes DEF Types, RejectDelayed
    <2>3. pc' \in [Threads -> Label] /\ OnlyMoves("closer")
      BY SMTT(60), <1>RejectDelayed, FinalizeMoves, GotoMoves, GoesTo DEF RejectDelayed
    <2> QED BY <1>RejectDelayed, <2>1, <2>2, <2>3 DEF Types, RejectDelayed, shared, history
  <1> QED BY <1>CloseDelayed, <1>RejectDelayed DEF CloserOwn


LEMMA EndFrame ==
  ASSUME EndInv, NEW t \in Threads, OnlyMoves(t), EndStep(t)
  PROVE  EndInv'
  <1>1. ASSUME NEW u \in Threads PROVE EndOwn(u)'
    BY DEF EndInv, OnlyMoves, EndStep, EndOwn
  <1> QED BY <1>1 DEF EndInv, EndStep

LEMMA FinalEnd ==
  ASSUME Types, EndInv, NEW t \in Threads, FinalizeStep(t)
  PROVE  EndStep(t)
  <1> USE ThreadNames, StateNames, ResultNames
  <1>FinalizeState. CASE FinalizeState(t)
    BY <1>FinalizeState, ReturnDoes
     DEF Types, FinalizeState, Goto, At, shared, history, EndInv, EndStep, EndOwn, FinalPc,
         KnownPc, Ended
  <1>FinalizePending. CASE FinalizePending(t)
    BY <1>FinalizePending, PendingDoes
     DEF Types, FinalizePending, Goto, At, shared, history, EndInv, EndStep, EndOwn, FinalPc,
         KnownPc, Ended
  <1>FinalizeRetention. CASE FinalizeRetention(t)
    BY <1>FinalizeRetention, ReturnDoes
     DEF Types, FinalizeRetention, Goto, At, shared, history, EndInv, EndStep, EndOwn, FinalPc,
         KnownPc, Ended
  <1>FinalizeOwner. CASE FinalizeOwner(t)
    BY <1>FinalizeOwner, OwnerDoes
     DEF Types, FinalizeOwner, Goto, At, shared, history, EndInv, EndStep, EndOwn, FinalPc,
         KnownPc, Ended
  <1>FinalizeTerminal. CASE FinalizeTerminal(t)
    BY <1>FinalizeTerminal, ReturnDoes
     DEF Types, FinalizeTerminal, Goto, At, shared, history, EndInv, EndStep, EndOwn, FinalPc,
         KnownPc, Ended
  <1>FinalizeMove. CASE FinalizeMove(t)
    BY <1>FinalizeMove, ReturnDoes
     DEF Types, FinalizeMove, Goto, At, shared, history, EndInv, EndStep, EndOwn, FinalPc,
         KnownPc, Ended
  <1>FinalizeClaim. CASE FinalizeClaim(t)
    BY <1>FinalizeClaim, ReturnDoes
     DEF Types, FinalizeClaim, Goto, At, EntryType, shared, history, EndInv, EndStep, EndOwn,
         FinalPc, KnownPc, Ended
  <1>FinalizeDetach. CASE FinalizeDetach(t)
    BY <1>FinalizeDetach
     DEF Types, FinalizeDetach, At, Goto, EntryType, shared, history, EndInv, EndStep, EndOwn,
         FinalPc, KnownPc, Ended
  <1>FinalizeLogical. CASE FinalizeLogical(t)
    BY <1>FinalizeLogical
     DEF Types, FinalizeLogical, At, Goto, EntryType, shared, history, EndInv, EndStep, EndOwn,
         FinalPc, KnownPc, Ended
  <1>FinalizeAccount. CASE FinalizeAccount(t)
    BY <1>FinalizeAccount
     DEF Types, FinalizeAccount, At, Goto, shared, history, EndInv, EndStep, EndOwn, FinalPc,
         KnownPc, Ended
  <1>FinalizePermits. CASE FinalizePermits(t)
    BY <1>FinalizePermits
     DEF Types, FinalizePermits, At, Goto, EntryType, shared, history, EndInv, EndStep, EndOwn,
         FinalPc, KnownPc, Ended
  <1>FinalizeRecord. CASE FinalizeRecord(t)
    BY <1>FinalizeRecord, ReturnDoes
     DEF Types, FinalizeRecord, Goto, At, EntryType, shared, history, EndInv, EndStep, EndOwn,
         FinalPc, KnownPc, Ended
  <1>FinalizeUnpend. CASE FinalizeUnpend(t)
    BY <1>FinalizeUnpend
     DEF Types, FinalizeUnpend, At, Goto, EntryType, shared, history, EndInv, EndStep, EndOwn,
         FinalPc, KnownPc, Ended
  <1>FinalizePublish. CASE FinalizePublish(t)
    BY <1>FinalizePublish, ReturnDoes
     DEF Types, FinalizePublish, Goto, At, EntryType, shared, history, EndInv, EndStep, EndOwn,
         FinalPc, KnownPc, Ended
  <1> QED BY <1>FinalizeState, <1>FinalizePending, <1>FinalizeRetention, <1>FinalizeOwner,
     <1>FinalizeTerminal, <1>FinalizeMove, <1>FinalizeClaim, <1>FinalizeDetach,
     <1>FinalizeLogical, <1>FinalizeAccount, <1>FinalizePermits, <1>FinalizeRecord,
     <1>FinalizeUnpend, <1>FinalizePublish DEF FinalizeStep

LEMMA HelpEnd ==
  ASSUME Types, EndInv, NEW t \in Threads, HelpOwn(t)
  PROVE  EndStep(t)
  <1> USE ThreadNames, StateNames, ResultNames
  <1>Helped. CASE Helped(t)
    BY <1>Helped
     DEF Types, Helped, At, Goto, After, history, EndInv, EndStep, EndOwn, FinalPc, KnownPc,
         Ended
  <1>FailBeforeRunning. CASE FailBeforeRunning(t)
    BY <1>FailBeforeRunning, FinalizeDoes
     DEF Types, FailBeforeRunning, Goto, At, After, shared, history, EndInv, EndStep, EndOwn,
         FinalPc, KnownPc, Ended
  <1>FailQueued. CASE FailQueued(t)
    BY <1>FailQueued, TerminatedFields, FinalizeDoes
     DEF Types, FailQueued, Goto, At, CanTerminate, After, EntryType, shared, history, EndInv,
         EndStep, EndOwn, FinalPc, KnownPc, Ended
  <1>AuthorityFailure. CASE AuthorityFailure(t)
    BY <1>AuthorityFailure, FinalizeDoes, LocalState
     DEF Types, AuthorityFailure, Goto, At, After, history, EndInv, EndStep, EndOwn, FinalPc,
         KnownPc, Ended
  <1>AuthorityFailFrom. CASE AuthorityFailFrom(t)
    BY <1>AuthorityFailFrom, TerminatedFields, FinalizeDoes
     DEF Types, AuthorityFailFrom, Goto, At, CanTerminate, After, EntryType, history, EndInv,
         EndStep, EndOwn, FinalPc, KnownPc, Ended
  <1> QED BY <1>Helped, <1>FailBeforeRunning, <1>FailQueued, <1>AuthorityFailure, <1>AuthorityFailFrom
   DEF HelpOwn

LEMMA PubEnd ==
  ASSUME Types, EndInv, PublishOwn
  PROVE  EndStep("publisher")
  <1> USE ThreadNames, StateNames, ResultNames
  <1>ExpireRemove. CASE ExpireRemove
    BY <1>ExpireRemove
     DEF Types, ExpireRemove, At, Goto, history, EndInv, EndStep, EndOwn, FinalPc, KnownPc,
         Ended
  <1>ClaimExpired. CASE ClaimExpired
    BY <1>ClaimExpired
     DEF Types, ClaimExpired, At, Goto, EntryType, shared, history, EndInv, EndStep, EndOwn,
         FinalPc, KnownPc, Ended
  <1>AdmitExpired. CASE AdmitExpired
    BY <1>AdmitExpired
     DEF Types, AdmitExpired, At, Goto, shared, history, EndInv, EndStep, EndOwn, FinalPc,
         KnownPc, Ended
  <1>RejectUnbound. CASE RejectUnbound
    BY <1>RejectUnbound, TerminatedFields, FinalizeDoes
     DEF Types, RejectUnbound, Goto, At, CanTerminate, EntryType, shared, history, EndInv,
         EndStep, EndOwn, FinalPc, KnownPc, Ended
  <1>InstallCheck. CASE InstallCheck
    BY <1>InstallCheck
     DEF Types, InstallCheck, At, Goto, shared, history, EndInv, EndStep, EndOwn, FinalPc,
         KnownPc, Ended
  <1>Install. CASE Install
    BY <1>Install
     DEF Types, Install, At, Goto, EntryType, shared, history, EndInv, EndStep, EndOwn,
         FinalPc, KnownPc, Ended
  <1>Bind. CASE Bind
    BY <1>Bind
     DEF Types, Bind, At, Goto, history, EndInv, EndStep, EndOwn, FinalPc, KnownPc, Ended
  <1>Place. ASSUME NEW s \in Slots, Place(s) PROVE EndStep("publisher")
    BY <1>Place, PlaceDoes
     DEF Types, Place, At, Goto, shared, history, EndInv, EndStep, EndOwn, FinalPc, KnownPc,
         Ended
  <1>PlacementRefused. CASE PlacementRefused
    BY <1>PlacementRefused
     DEF Types, PlacementRefused, At, Goto, shared, history, EndInv, EndStep, EndOwn, FinalPc,
         KnownPc, Ended
  <1>PrepareCheck. CASE PrepareCheck
    BY <1>PrepareCheck
     DEF Types, PrepareCheck, At, Goto, shared, history, EndInv, EndStep, EndOwn, FinalPc,
         KnownPc, Ended
  <1>PrepareLogical. CASE PrepareLogical
    BY <1>PrepareLogical
     DEF Types, PrepareLogical, At, Goto, EntryType, shared, history, EndInv, EndStep, EndOwn,
         FinalPc, KnownPc, Ended
  <1>PrepareOwner. CASE PrepareOwner
    BY <1>PrepareOwner
     DEF Types, PrepareOwner, At, Goto, EntryType, shared, history, EndInv, EndStep, EndOwn,
         FinalPc, KnownPc, Ended
  <1>PrepareRetention. CASE PrepareRetention
    BY <1>PrepareRetention
     DEF Types, PrepareRetention, At, Goto, EntryType, shared, history, EndInv, EndStep,
         EndOwn, FinalPc, KnownPc, Ended
  <1>PrepareQueued. CASE PrepareQueued
    BY <1>PrepareQueued
     DEF Types, PrepareQueued, At, Goto, EntryType, shared, history, EndInv, EndStep, EndOwn,
         FinalPc, KnownPc, Ended
  <1>UndoRetention. CASE UndoRetention
    BY <1>UndoRetention
     DEF Types, UndoRetention, At, Goto, EntryType, shared, history, EndInv, EndStep, EndOwn,
         FinalPc, KnownPc, Ended
  <1>UndoOwner. CASE UndoOwner
    BY <1>UndoOwner
     DEF Types, UndoOwner, At, Goto, EntryType, shared, history, EndInv, EndStep, EndOwn,
         FinalPc, KnownPc, Ended
  <1>Uncount. CASE Uncount
    BY <1>Uncount
     DEF Types, Uncount, At, Goto, shared, history, EndInv, EndStep, EndOwn, FinalPc, KnownPc,
         Ended
  <1>PublishInitial. CASE PublishInitial
    BY <1>PublishInitial
     DEF Types, PublishInitial, At, Goto, history, EndInv, EndStep, EndOwn, FinalPc, KnownPc,
         Ended
  <1>DropUnplaced. CASE DropUnplaced
    BY <1>DropUnplaced
     DEF Types, DropUnplaced, At, Goto, EntryType, shared, history, EndInv, EndStep, EndOwn,
         FinalPc, KnownPc, Ended
  <1>Unplaced. CASE Unplaced
    BY <1>Unplaced, FinalizeDoes
     DEF Types, Unplaced, Goto, At, shared, history, EndInv, EndStep, EndOwn, FinalPc, KnownPc,
         Ended
  <1>RejectBound. CASE RejectBound
    BY <1>RejectBound, TerminatedFields, FinalizeDoes
     DEF Types, RejectBound, Goto, At, CanTerminate, EntryType, shared, history, EndInv,
         EndStep, EndOwn, FinalPc, KnownPc, Ended
  <1>SettleUnplaced. CASE SettleUnplaced
    BY <1>SettleUnplaced
     DEF Types, SettleUnplaced, At, Goto, shared, history, EndInv, EndStep, EndOwn, FinalPc,
         KnownPc, Ended
  <1> QED BY <1>ExpireRemove, <1>ClaimExpired, <1>AdmitExpired, <1>RejectUnbound, <1>InstallCheck,
     <1>Install, <1>Bind, <1>Place, <1>PlacementRefused, <1>PrepareCheck, <1>PrepareLogical,
     <1>PrepareOwner, <1>PrepareRetention, <1>PrepareQueued, <1>UndoRetention, <1>UndoOwner,
     <1>Uncount, <1>PublishInitial, <1>DropUnplaced, <1>Unplaced, <1>RejectBound,
     <1>SettleUnplaced DEF PublishOwn

LEMMA CallEnd ==
  ASSUME Types, EndInv, NEW c \in Callers, CallOwn(c)
  PROVE  EndStep(c)
  <1> USE ThreadNames, StateNames, ResultNames
  <1>CancelCall. CASE CancelCall(c)
    BY <1>CancelCall
     DEF Types, CancelCall, At, Goto, shared, history, EndInv, EndStep, EndOwn, FinalPc,
         KnownPc, Ended
  <1>CancelRead. CASE CancelRead(c)
    BY <1>CancelRead, LocalState
     DEF Types, CancelRead, Goto, At, Answer, shared, EndInv, EndStep, EndOwn, FinalPc,
         KnownPc, Ended
  <1>CancelTerminate. CASE CancelTerminate(c)
    BY <1>CancelTerminate, TerminatedFields
     DEF Types, CancelTerminate, Goto, At, CanTerminate, Answer, EntryType, shared, EndInv,
         EndStep, EndOwn, FinalPc, KnownPc, Ended
  <1>CancelDefer. CASE CancelDefer(c)
    BY <1>CancelDefer
     DEF Types, CancelDefer, At, Goto, Answer, EntryType, shared, EndInv, EndStep, EndOwn,
         FinalPc, KnownPc, Ended
  <1>RetireDelayed. CASE RetireDelayed(c)
    BY <1>RetireDelayed
     DEF Types, RetireDelayed, At, Goto, history, EndInv, EndStep, EndOwn, FinalPc, KnownPc,
         Ended
  <1>BindChecked. CASE BindChecked(c)
    BY <1>BindChecked
     DEF Types, BindChecked, At, Goto, shared, history, EndInv, EndStep, EndOwn, FinalPc,
         KnownPc, Ended
  <1>CancelFinalize. CASE CancelFinalize(c)
    BY <1>CancelFinalize, CancelFinalizeDoes
     DEF Types, CancelFinalize, Goto, At, shared, history, EndInv, EndStep, EndOwn, FinalPc,
         KnownPc, Ended
  <1>CancelSettled. CASE CancelSettled(c)
    BY <1>CancelSettled
     DEF Types, CancelSettled, At, Goto, Answer, LeftToOther, EndInv, EndStep, EndOwn, FinalPc,
         KnownPc, Ended
  <1> QED BY <1>CancelCall, <1>CancelRead, <1>CancelTerminate, <1>CancelDefer, <1>RetireDelayed,
     <1>BindChecked, <1>CancelFinalize, <1>CancelSettled DEF CallOwn

LEMMA WorkEnd ==
  ASSUME Types, EndInv, NEW w \in Slots, WorkOwn(w)
  PROVE  EndStep(w)
  <1> USE ThreadNames, StateNames, ResultNames
  <1>Receive. CASE Receive(w)
    BY <1>Receive
     DEF Types, Receive, At, Goto, history, EndInv, EndStep, EndOwn, FinalPc, KnownPc, Ended
  <1>Received. CASE Received(w)
    BY <1>Received
     DEF Types, Received, At, Goto, shared, history, EndInv, EndStep, EndOwn, FinalPc, KnownPc,
         Ended
  <1>ClaimMove. CASE ClaimMove(w)
    BY <1>ClaimMove
     DEF Types, ClaimMove, At, Goto, EntryType, shared, history, EndInv, EndStep, EndOwn,
         FinalPc, KnownPc, Ended
  <1>ClaimRetention. CASE ClaimRetention(w)
    BY <1>ClaimRetention
     DEF Types, ClaimRetention, At, Goto, EntryType, shared, history, EndInv, EndStep, EndOwn,
         FinalPc, KnownPc, Ended
  <1>Claimed. CASE Claimed(w)
    BY <1>Claimed, FinalizeDoes
     DEF Types, Claimed, Goto, At, shared, history, EndInv, EndStep, EndOwn, FinalPc, KnownPc,
         Ended
  <1>MoveBegin. CASE MoveBegin(w)
    BY <1>MoveBegin
     DEF Types, MoveBegin, At, Goto, shared, history, EndInv, EndStep, EndOwn, FinalPc,
         KnownPc, Ended
  <1> QED BY <1>Receive, <1>Received, <1>ClaimMove, <1>ClaimRetention, <1>Claimed, <1>MoveBegin
   DEF WorkOwn

LEMMA MoveEnd ==
  ASSUME Types, EndInv, NEW w \in Slots, MoveOwn(w)
  PROVE  EndStep(w)
  <1> USE ThreadNames, StateNames, ResultNames
  <1>MoveRefused. CASE MoveRefused(w)
    BY <1>MoveRefused, FinalizeDoes
     DEF Types, MoveRefused, Goto, At, shared, history, EndInv, EndStep, EndOwn, FinalPc,
         KnownPc, Ended
  <1>MoveDescribe. CASE MoveDescribe(w)
    BY ZenonT(60), <1>MoveDescribe, DescribeDoes
     DEF Types, MoveDescribe, At, Goto, Other, EntryType, shared, history, EndInv, EndStep,
         EndOwn, FinalPc, KnownPc, Ended
  <1>MoveRegister. CASE MoveRegister(w)
    BY <1>MoveRegister
     DEF Types, MoveRegister, At, Goto, history, EndInv, EndStep, EndOwn, FinalPc, KnownPc,
         Ended
  <1>MoveEnsure. CASE MoveEnsure(w)
    BY <1>MoveEnsure
     DEF Types, MoveEnsure, At, Goto, shared, history, EndInv, EndStep, EndOwn, FinalPc,
         KnownPc, Ended
  <1>MoveActivate. CASE MoveActivate(w)
    BY <1>MoveActivate
     DEF Types, MoveActivate, At, Goto, EntryType, shared, history, EndInv, EndStep, EndOwn,
         FinalPc, KnownPc, Ended
  <1>MoveAbandon. CASE MoveAbandon(w)
    BY <1>MoveAbandon, FinalizeDoes
     DEF Types, MoveAbandon, Goto, At, EntryType, history, EndInv, EndStep, EndOwn, FinalPc,
         KnownPc, Ended
  <1>MoveChecked. CASE MoveChecked(w)
    BY <1>MoveChecked
     DEF Types, MoveChecked, MoveCheck, At, Goto, shared, history, EndInv, EndStep, EndOwn,
         FinalPc, KnownPc, Ended
  <1>MoveOwner. CASE MoveOwner(w)
    BY <1>MoveOwner
     DEF Types, MoveOwner, At, Goto, EntryType, shared, history, EndInv, EndStep, EndOwn,
         FinalPc, KnownPc, Ended
  <1>MoveRetention. CASE MoveRetention(w)
    BY <1>MoveRetention
     DEF Types, MoveRetention, At, Goto, EntryType, shared, history, EndInv, EndStep, EndOwn,
         FinalPc, KnownPc, Ended
  <1>MoveLogical. CASE MoveLogical(w)
    BY <1>MoveLogical
     DEF Types, MoveLogical, At, Goto, EntryType, shared, history, EndInv, EndStep, EndOwn,
         FinalPc, KnownPc, Ended
  <1>MovePublish. CASE MovePublish(w)
    BY <1>MovePublish
     DEF Types, MovePublish, At, Goto, EntryType, shared, history, EndInv, EndStep, EndOwn,
         FinalPc, KnownPc, Ended
  <1>MoveCancel. CASE MoveCancel(w)
    BY <1>MoveCancel
     DEF Types, MoveCancel, At, Goto, EntryType, shared, history, EndInv, EndStep, EndOwn,
         FinalPc, KnownPc, Ended
  <1>MoveTerminate. CASE MoveTerminate(w)
    BY <1>MoveTerminate, TerminatedFields
     DEF Types, MoveTerminate, At, Goto, CanTerminate, EntryType, shared, history, EndInv,
         EndStep, EndOwn, FinalPc, KnownPc, Ended
  <1>MoveComplete. CASE MoveComplete(w)
    BY <1>MoveComplete
     DEF Types, MoveComplete, At, Goto, shared, history, EndInv, EndStep, EndOwn, FinalPc,
         KnownPc, Ended
  <1>MoveEnqueue. CASE MoveEnqueue(w)
    BY <1>MoveEnqueue
     DEF Types, MoveEnqueue, At, Goto, history, EndInv, EndStep, EndOwn, FinalPc, KnownPc, Ended
  <1>MoveClear. CASE MoveClear(w)
    BY <1>MoveClear, ClearedFields
     DEF Types, MoveClear, At, Goto, EntryType, shared, history, EndInv, EndStep, EndOwn,
         FinalPc, KnownPc, Ended
  <1>MoveUnregister. CASE MoveUnregister(w)
    BY <1>MoveUnregister
     DEF Types, MoveUnregister, At, Goto, history, EndInv, EndStep, EndOwn, FinalPc, KnownPc,
         Ended
  <1>MoveUncount. CASE MoveUncount(w)
    BY <1>MoveUncount
     DEF Types, MoveUncount, At, Goto, shared, history, EndInv, EndStep, EndOwn, FinalPc,
         KnownPc, Ended
  <1> QED BY <1>MoveRefused, <1>MoveDescribe, <1>MoveRegister, <1>MoveEnsure, <1>MoveActivate,
     <1>MoveAbandon, <1>MoveChecked, <1>MoveOwner, <1>MoveRetention, <1>MoveLogical,
     <1>MovePublish, <1>MoveCancel, <1>MoveTerminate, <1>MoveComplete, <1>MoveEnqueue,
     <1>MoveClear, <1>MoveUnregister, <1>MoveUncount DEF MoveOwn

LEMMA MoveFailEnd ==
  ASSUME Types, EndInv, NEW t \in Slots \cup {"auditor"}, MoveFailOwn(t)
  PROVE  EndStep(t)
  <1> USE ThreadNames, StateNames, ResultNames
  <1>MoveFail. CASE MoveFail(t)
    BY <1>MoveFail, TerminatedFields
     DEF Types, MoveFail, At, Goto, CanTerminate, EntryType, shared, history, EndInv, EndStep,
         EndOwn, FinalPc, KnownPc, Ended
  <1>MoveFailClear. CASE MoveFailClear(t)
    BY <1>MoveFailClear, ClearedFields, FinalizeDoes
     DEF Types, MoveFailClear, Goto, At, EntryType, history, EndInv, EndStep, EndOwn, FinalPc,
         KnownPc, Ended
  <1> QED BY <1>MoveFail, <1>MoveFailClear DEF MoveFailOwn

LEMMA AuditEnd ==
  ASSUME Types, EndInv, AuditOwn
  PROVE  EndStep("auditor")
  <1> USE ThreadNames, StateNames, ResultNames
  <1>AuditSnapshot. CASE AuditSnapshot
    BY <1>AuditSnapshot, LocalEpoch
     DEF Types, AuditSnapshot, At, Goto, history, EndInv, EndStep, EndOwn, FinalPc, KnownPc,
         Ended
  <1>AuditState. CASE AuditState
    BY <1>AuditState, ClearedFields
     DEF Types, AuditState, Goto, At, EntryType, history, EndInv, EndStep, EndOwn, FinalPc,
         KnownPc, Ended
  <1>AuditRetention. CASE AuditRetention
    BY <1>AuditRetention, ClearedFields, AuditRetentionDoes
     DEF Types, AuditRetention, Goto, At, EntryType, history, EndInv, EndStep, EndOwn, FinalPc,
         KnownPc, Ended
  <1>AuditAbandon. CASE AuditAbandon
    BY <1>AuditAbandon, ClearedFields, FinalizeDoes
     DEF Types, AuditAbandon, Goto, At, EntryType, history, EndInv, EndStep, EndOwn, FinalPc,
         KnownPc, Ended
  <1> QED BY <1>AuditSnapshot, <1>AuditState, <1>AuditRetention, <1>AuditAbandon DEF AuditOwn

LEMMA BizEnd ==
  ASSUME Types, EndInv, BusinessOwn
  PROVE  EndStep("business")
  <1> USE ThreadNames, StateNames, ResultNames
  <1>BusinessGranted. CASE BusinessGranted
    BY <1>BusinessGranted
     DEF Types, BusinessGranted, At, Goto, shared, history, EndInv, EndStep, EndOwn, FinalPc,
         KnownPc, Ended
  <1>BusinessGateClosed. CASE BusinessGateClosed
    BY <1>BusinessGateClosed
     DEF Types, BusinessGateClosed, At, Goto, shared, history, EndInv, EndStep, EndOwn,
         FinalPc, KnownPc, Ended
  <1>BusinessCheck. CASE BusinessCheck
    BY <1>BusinessCheck, FinalizeDoes
     DEF Types, BusinessCheck, Goto, At, shared, history, EndInv, EndStep, EndOwn, FinalPc,
         KnownPc, Ended
  <1>TakeForRunning. CASE TakeForRunning
    BY <1>TakeForRunning
     DEF Types, TakeForRunning, At, Goto, EntryType, shared, EndInv, EndStep, EndOwn, FinalPc,
         KnownPc, Ended
  <1>JobEnds. ASSUME NEW terminal \in {"Completed", "Failed"}, JobEnds(terminal) PROVE EndStep("business")
    BY <1>JobEnds, TerminatedFields, FinalizeDoes
     DEF Types, JobEnds, CanTerminate, Goto, At, EntryType, shared, history, EndInv, EndStep,
         EndOwn, FinalPc, KnownPc, Ended
  <1>BusinessAborted. CASE BusinessAborted
    BY <1>BusinessAborted, LocalState
     DEF Types, BusinessAborted, Goto, At, shared, history, EndInv, EndStep, EndOwn, FinalPc,
         KnownPc, Ended
  <1>Backstop. CASE Backstop
    BY <1>Backstop, FinalizeDoes
     DEF Types, Backstop, Goto, At, shared, history, EndInv, EndStep, EndOwn, FinalPc, KnownPc,
         Ended
  <1>BackstopFail. CASE BackstopFail
    BY <1>BackstopFail, TerminatedFields, FinalizeDoes
     DEF Types, BackstopFail, Goto, At, CanTerminate, EntryType, shared, history, EndInv,
         EndStep, EndOwn, FinalPc, KnownPc, Ended
  <1> QED BY <1>BusinessGranted, <1>BusinessGateClosed, <1>BusinessCheck, <1>TakeForRunning,
     <1>JobEnds, <1>BusinessAborted, <1>Backstop, <1>BackstopFail DEF BusinessOwn

LEMMA CleanupEnd ==
  ASSUME Types, EndInv, Cleaned
  PROVE  EndStep("cleanup")
  <1> USE ThreadNames, StateNames, ResultNames
  <1>Cleaned. CASE Cleaned
    BY <1>Cleaned
     DEF Types, Cleaned, At, Goto, LeftToOther, history, EndInv, EndStep, EndOwn, FinalPc,
         KnownPc, Ended
  <1> QED BY <1>Cleaned

LEMMA CloserEnd ==
  ASSUME Types, EndInv, CloserOwn
  PROVE  EndStep("closer")
  <1> USE ThreadNames, StateNames, ResultNames
  <1>CloseDelayed. CASE CloseDelayed
    BY <1>CloseDelayed
     DEF Types, CloseDelayed, At, Goto, history, EndInv, EndStep, EndOwn, FinalPc, KnownPc,
         Ended
  <1>RejectDelayed. CASE RejectDelayed
    BY <1>RejectDelayed, TerminatedFields, FinalizeDoes
     DEF Types, RejectDelayed, Goto, At, CanTerminate, EntryType, shared, history, EndInv,
         EndStep, EndOwn, FinalPc, KnownPc, Ended
  <1> QED BY <1>CloseDelayed, <1>RejectDelayed DEF CloserOwn


(* A job begins in take_for_running and nowhere else.                      *)
LEMMA RunsOnlyQueued ==
  ASSUME [Next]_vars
  PROVE  entry.state # "Queued" => runs' = runs
  <1>1. ASSUME NEW t \in Threads, FinalizeStep(t)
        PROVE  entry.state # "Queued" => runs' = runs
    BY <1>1
     DEF FinalizeStep, FinalizeState, FinalizePending, FinalizeRetention, FinalizeOwner,
         FinalizeTerminal, FinalizeMove, FinalizeClaim, FinalizeDetach, FinalizeLogical,
         FinalizeAccount, FinalizePermits, FinalizeRecord, FinalizeUnpend, FinalizePublish,
         history
  <1>2. ASSUME NEW t \in Threads, HelpOwn(t)
        PROVE  entry.state # "Queued" => runs' = runs
    BY <1>2
     DEF HelpOwn, Helped, FailBeforeRunning, FailQueued, AuthorityFailure, AuthorityFailFrom,
         history
  <1>3. CASE PublishOwn
    BY <1>3
     DEF PublishOwn, ExpireRemove, ClaimExpired, AdmitExpired, RejectUnbound, InstallCheck,
         Install, Bind, Place, PlacementRefused, PrepareCheck, PrepareLogical, PrepareOwner,
         PrepareRetention, PrepareQueued, UndoRetention, UndoOwner, Uncount, PublishInitial,
         DropUnplaced, Unplaced, RejectBound, SettleUnplaced, history
  <1>4. ASSUME NEW c \in Callers, CallOwn(c) \/ ScheduleCleanup(c)
        PROVE  entry.state # "Queued" => runs' = runs
    BY <1>4
     DEF CallOwn, CancelCall, CancelRead, CancelTerminate, CancelDefer, RetireDelayed,
         BindChecked, CancelFinalize, CancelSettled, ScheduleCleanup, history
  <1>5. ASSUME NEW w \in Slots, WorkOwn(w) \/ Dispatch(w)
        PROVE  entry.state # "Queued" => runs' = runs
    BY <1>5
     DEF WorkOwn, Receive, Received, ClaimMove, ClaimRetention, Claimed, MoveBegin, Dispatch,
         history
  <1>6. ASSUME NEW w \in Slots, MoveOwn(w)
        PROVE  entry.state # "Queued" => runs' = runs
    BY <1>6
     DEF MoveOwn, MoveRefused, MoveDescribe, MoveRegister, MoveEnsure, MoveActivate,
         MoveAbandon, MoveChecked, MoveOwner, MoveRetention, MoveLogical, MovePublish,
         MoveCancel, MoveTerminate, MoveComplete, MoveEnqueue, MoveClear, MoveUnregister,
         MoveUncount, history
  <1>7. ASSUME NEW t \in Slots \cup {"auditor"}, MoveFailOwn(t)
        PROVE  entry.state # "Queued" => runs' = runs
    BY <1>7 DEF MoveFailOwn, MoveFail, MoveFailClear, history
  <1>8. CASE AuditOwn
    BY <1>8 DEF AuditOwn, AuditSnapshot, AuditState, AuditRetention, AuditAbandon, history
  <1>9. CASE BusinessOwn
    BY <1>9
     DEF BusinessOwn, BusinessGranted, BusinessGateClosed, BusinessCheck, TakeForRunning,
         JobEnds, BusinessAborted, Backstop, BackstopFail, history
  <1>10. CASE Cleaned
    BY <1>10 DEF Cleaned, history
  <1>11. CASE CloserOwn
    BY <1>11 DEF CloserOwn, CloseDelayed, RejectDelayed, history
  <1>12. CASE ForceStop \/ UNCHANGED vars
    BY <1>12 DEF ForceStop, vars, history
  <1> QED BY <1>1, <1>2, <1>3, <1>4, <1>5, <1>6, <1>7, <1>8, <1>9, <1>10, <1>11, <1>12, NextCases


LEMMA EndKept ==
  ASSUME Types, EndInv, [Next]_vars
  PROVE  Types' /\ EndInv'
  <1> USE ThreadNames
  <1>1. ASSUME NEW t \in Threads, FinalizeStep(t) \/ HelpOwn(t)
        PROVE  Types' /\ EndInv'
    BY <1>1, FinalTypes, HelpTypes, FinalEnd, HelpEnd, EndFrame
  <1>2. CASE PublishOwn
    BY <1>2, PubTypes, PubEnd, EndFrame
  <1>3. ASSUME NEW c \in Callers, CallOwn(c)
        PROVE  Types' /\ EndInv'
    BY <1>3, CallTypes, CallEnd, EndFrame
  <1>4. ASSUME NEW c \in Callers, ScheduleCleanup(c)
        PROVE  Types' /\ EndInv'
    <2>1. Types'
      BY <1>4, ScheduleDoes DEF ScheduleCleanup, Types, Answer, shared
    <2>2. entry.state \in Ended /\ UNCHANGED entry
      BY <1>4, ScheduleDoes DEF EndInv, EndOwn, ScheduleCleanup
    <2>3. ASSUME NEW u \in Threads PROVE EndOwn(u)'
      BY <1>4, <2>2, <2>3, ScheduleDoes DEF EndInv, EndOwn, FinalPc, KnownPc
    <2> QED BY <2>1, <2>2, <2>3 DEF EndInv
  <1>5. ASSUME NEW w \in Slots, WorkOwn(w) \/ MoveOwn(w)
        PROVE  Types' /\ EndInv'
    BY <1>5, WorkTypes, MoveTypes, WorkEnd, MoveEnd, EndFrame
  <1>6. ASSUME NEW w \in Slots, Dispatch(w)
        PROVE  Types' /\ EndInv'
    <2>1. Types' /\ UNCHANGED <<entry, answer>>
      BY <1>6, DispatchDoes DEF Dispatch, Types, shared, history
    <2>2. ASSUME NEW u \in Threads PROVE EndOwn(u)'
      BY <1>6, <2>1, <2>2, DispatchDoes DEF EndInv, EndOwn, FinalPc, KnownPc, OnlyMoves, Slots
    <2> QED BY <2>1, <2>2 DEF EndInv
  <1>7. ASSUME NEW t \in Slots \cup {"auditor"}, MoveFailOwn(t)
        PROVE  Types' /\ EndInv'
    BY <1>7, MoveFailTypes, MoveFailEnd, EndFrame
  <1>8. CASE AuditOwn
    BY <1>8, AuditTypes, AuditEnd, EndFrame
  <1>9. CASE BusinessOwn
    BY <1>9, BizTypes, BizEnd, EndFrame
  <1>10. CASE Cleaned
    BY <1>10, CleanupTypes, CleanupEnd, EndFrame
  <1>11. CASE CloserOwn
    BY <1>11, CloserTypes, CloserEnd, EndFrame
  <1>12. CASE ForceStop \/ UNCHANGED vars
    BY <1>12 DEF ForceStop, vars, shared, history, Types, EndInv, EndOwn
  <1> QED BY <1>1, <1>2, <1>3, <1>4, <1>5, <1>6, <1>7, <1>8, <1>9, <1>10, <1>11, <1>12, NextCases

LEMMA EndStart ==
  ASSUME Init
  PROVE  Types /\ EndInv
  <1> USE ThreadNames, StateNames, ResultNames
  <1>1. entry \in EntryType
    BY EntryAssumption DEF Init, EntryType, NoMove, None, Slots, PhysicalRetention
  <1>2. local \in [Threads -> LocalType]
    BY DEF Init, LocalType, None, Slots
  <1>3. pc \in [Threads -> Label] /\ \A t \in Threads : pc[t] \in {"timer", "place", "off", "idle"}
    BY DEF Init, Label
  <1>4. Types
    BY <1>1, <1>2, <1>3, EntryAssumption DEF Types, Init
  <1> QED BY <1>3, <1>4 DEF Init, EndInv, EndOwn, FinalPc, KnownPc, None

(* Submission::cancel: whatever still holds the envelope, a task whose     *)
(* cancellation has been accepted is not begun.  The task is Terminating   *)
(* or terminal from the exchange in request_cancel on (EndInv), it never   *)
(* leaves these states, and take_for_running only takes a Queued one.      *)
THEOREM AcceptedStays == Spec => AcceptedNeverRuns
  <1>1. Init => Types /\ EndInv
    BY EndStart
  <1>2. Types /\ EndInv /\ [Next]_vars => (Types /\ EndInv)'
    BY EndKept
  <1>3. ASSUME Types, EndInv, [Next]_vars
        PROVE  [(\E c \in Callers : answer[c] = "accepted") => runs' = runs]_vars
    <2>1. SUFFICES ASSUME NEW c \in Callers, answer[c] = "accepted" PROVE runs' = runs
      OBVIOUS
    <2>2. entry.state \in Ended
      BY <1>3, <2>1 DEF EndInv
    <2> QED BY <1>3, <2>2, RunsOnlyQueued DEF Ended, Terminal
  <1> QED BY <1>1, <1>2, <1>3, PTL DEF Spec, AcceptedNeverRuns

-----------------------------------------------------------------------------
AccountType == [queued : BOOLEAN, logical : Int, container : [Slots -> Int],
                settlements : Nat, strictSettled : BOOLEAN]

(* The publisher from the moment the task is Enqueueing until it is        *)
(* Queued, and when it helps to end the task.                              *)
PlacingPc == {"admit", "unbound", "permit", "install", "bind", "place", "prepare",
              "setlogical", "setowner", "setretention", "setqueued", "undoretention",
              "undoowner", "uncount", "unplaced", "rejectbound"}
EndingPc == FinalPc \cup {"helped", "failrun", "failqueued", "authfail", "authfailfrom", "settle"}

(* Nobody knows of an immediate task before its submitter has placed it.   *)
Alone ==
  /\ \A t \in Threads \ {"publisher"} : pc[t] \in {"off", "idle"}
  /\ at = "nowhere" /\ ~moving
  /\ pc["publisher"] \in {"place", "prepare", "setlogical", "setowner", "setretention", "setqueued",
                          "undoretention", "undoowner", "uncount", "unplaced", "publish", "dropped"}
  /\ pc["publisher"] # "publish" => entry.state = "Enqueueing"

GateInv ==
  /\ accounts \in AccountType
  /\ pc["publisher"] \in PlacingPc => entry.state \in {"Enqueueing"} \cup Ended
  /\ pc["publisher"] \in EndingPc => entry.state \in Ended
  /\ pc["publisher"] = "dropped" => ~Delayed
  /\ ~Delayed /\ pc["publisher"] # "done" => Alone
  /\ accounts.strictSettled => (entry.state \in Ended \/ pc["publisher"] = "dropped")

LEMMA CountDoes ==
  ASSUME accounts \in AccountType, NEW s \in Slots, NEW d \in Int,
         accounts' = [accounts EXCEPT !.container[s] = @ + d]
  PROVE  /\ accounts' \in AccountType
         /\ accounts'.container = [accounts.container EXCEPT ![s] = @ + d]
         /\ accounts'.logical = accounts.logical /\ accounts'.queued = accounts.queued
         /\ accounts'.settlements = accounts.settlements
         /\ accounts'.strictSettled = accounts.strictSettled
  <1> DEFINE k == [accounts.container EXCEPT ![s] = @ + d]
  <1>1. k \in [Slots -> Int] /\ accounts' = [accounts EXCEPT !.container = k]
    BY DEF AccountType
  <1> HIDE DEF k
  <1>2. /\ accounts' \in AccountType /\ accounts'.container = k
        /\ accounts'.logical = accounts.logical /\ accounts'.queued = accounts.queued
        /\ accounts'.settlements = accounts.settlements
        /\ accounts'.strictSettled = accounts.strictSettled
    BY <1>1 DEF AccountType
  <1> QED BY <1>2 DEF k

(* The logical count and the count of slot s change together.              *)
Counted(s, d) == [accounts EXCEPT !.logical = @ + d, !.container[s] = @ + d]

LEMMA BothCountsDo ==
  ASSUME accounts \in AccountType, NEW s \in Slots, NEW d \in Int, accounts' = Counted(s, d)
  PROVE  /\ accounts' \in AccountType
         /\ accounts'.container = [accounts.container EXCEPT ![s] = @ + d]
         /\ accounts'.logical = accounts.logical + d /\ accounts'.queued = accounts.queued
         /\ accounts'.settlements = accounts.settlements
         /\ accounts'.strictSettled = accounts.strictSettled
  <1> DEFINE k == [accounts.container EXCEPT ![s] = @ + d]
  <1> DEFINE m == accounts.logical + d
  <1> DEFINE a == [accounts EXCEPT !.logical = m]
  <1>1. k \in [Slots -> Int] /\ m \in Int /\ accounts' = [accounts EXCEPT !.logical = m, !.container = k]
    BY DEF AccountType, Counted
  <1> HIDE DEF k, m
  <1>2. /\ a \in AccountType /\ a.container = accounts.container
        /\ a.logical = m /\ a.queued = accounts.queued
        /\ a.settlements = accounts.settlements
        /\ a.strictSettled = accounts.strictSettled
    BY <1>1 DEF AccountType
  <1>3. accounts' = [a EXCEPT !.container = k]
    BY <1>1 DEF AccountType
  <1> HIDE DEF a
  <1>4. /\ accounts' \in AccountType /\ accounts'.container = k
        /\ accounts'.logical = a.logical /\ accounts'.queued = a.queued
        /\ accounts'.settlements = a.settlements
        /\ accounts'.strictSettled = a.strictSettled
    BY <1>1, <1>2, <1>3 DEF AccountType
  <1> QED BY <1>2, <1>4 DEF k, m

LEMMA LogicalDoes ==
  ASSUME Types, accounts \in AccountType, NEW t \in Threads, FinalizeLogical(t)
  PROVE  /\ accounts' \in AccountType
         /\ accounts'.queued = accounts.queued /\ accounts'.settlements = accounts.settlements
         /\ accounts'.strictSettled = accounts.strictSettled
         /\ IF entry.logical # None /\ Settles(t)
            THEN /\ accounts'.logical = accounts.logical - 1
                 /\ accounts'.container = [accounts.container EXCEPT ![entry.logical] = @ - 1]
            ELSE accounts' = accounts
  <1>1. CASE entry.logical # None /\ Settles(t)
    <2>1. /\ entry.logical \in Slots
          /\ accounts' = Counted(entry.logical, -1)
      BY <1>1 DEF Counted, FinalizeLogical, Types, EntryType, AccountType
    <2>2. /\ accounts' \in AccountType
          /\ accounts'.container = [accounts.container EXCEPT ![entry.logical] = @ + (-1)]
          /\ accounts'.logical = accounts.logical + (-1) /\ accounts'.queued = accounts.queued
          /\ accounts'.settlements = accounts.settlements
          /\ accounts'.strictSettled = accounts.strictSettled
      BY <2>1, BothCountsDo, -1 \in Int
    <2> QED BY <1>1, <2>1, <2>2 DEF AccountType
  <1>2. CASE ~(entry.logical # None /\ Settles(t))
    BY <1>2 DEF FinalizeLogical
  <1> QED BY <1>1, <1>2

LEMMA PlaceCounts ==
  ASSUME accounts \in AccountType, NEW s \in Slots, Place(s)
  PROVE  /\ accounts' \in AccountType
         /\ accounts'.container = [accounts.container EXCEPT ![s] = @ + 1]
         /\ accounts'.logical = accounts.logical + 1 /\ accounts'.queued = accounts.queued
         /\ accounts'.settlements = accounts.settlements
         /\ accounts'.strictSettled = accounts.strictSettled
  <1>1. accounts' = Counted(s, 1)
    BY DEF Place, Counted
  <1> QED BY <1>1, BothCountsDo, 1 \in Int

LEMMA UncountDoes ==
  ASSUME Types, accounts \in AccountType, Uncount
  PROVE  /\ accounts' \in AccountType
         /\ accounts'.container = [accounts.container EXCEPT ![local["publisher"].slot] = @ - 1]
         /\ accounts'.logical = accounts.logical - 1 /\ accounts'.queued = accounts.queued
         /\ accounts'.settlements = accounts.settlements
         /\ accounts'.strictSettled = accounts.strictSettled
  <1> DEFINE s == local["publisher"].slot
  <1>1. s \in Slots /\ accounts' = Counted(s, -1)
    BY ThreadNames DEF Counted, Uncount, Types, LocalType, AccountType
  <1> HIDE DEF s
  <1>2. /\ accounts' \in AccountType
        /\ accounts'.container = [accounts.container EXCEPT ![s] = @ + (-1)]
        /\ accounts'.logical = accounts.logical + (-1) /\ accounts'.queued = accounts.queued
        /\ accounts'.settlements = accounts.settlements
        /\ accounts'.strictSettled = accounts.strictSettled
    BY <1>1, BothCountsDo, -1 \in Int
  <1>3. /\ accounts'.container = [accounts.container EXCEPT ![s] = @ - 1]
        /\ accounts'.logical = accounts.logical - 1
    BY <1>1, <1>2 DEF AccountType
  <1> QED BY <1>2, <1>3 DEF s

LEMMA AccountDoes ==
  ASSUME accounts \in AccountType, NEW t \in Threads, FinalizeAccount(t)
  PROVE  /\ accounts' \in AccountType
         /\ accounts'.settlements = accounts.settlements + 1
         /\ accounts'.queued = (accounts.queued /\ ~Settles(t))
         /\ accounts'.logical = accounts.logical /\ accounts'.container = accounts.container
         /\ accounts'.strictSettled = accounts.strictSettled
  <1> DEFINE a == [accounts EXCEPT !.settlements = accounts.settlements + 1]
  <1> DEFINE q == accounts.queued /\ ~Settles(t)
  <1>1. /\ a \in AccountType /\ a.settlements = accounts.settlements + 1 /\ q \in BOOLEAN
        /\ a.logical = accounts.logical /\ a.container = accounts.container
        /\ a.strictSettled = accounts.strictSettled
    BY DEF AccountType
  <1>2. accounts' = [a EXCEPT !.queued = q]
    BY DEF FinalizeAccount, AccountType
  <1> HIDE DEF a, q
  <1>3. /\ accounts' \in AccountType /\ accounts'.settlements = a.settlements
        /\ accounts'.queued = q /\ accounts'.logical = a.logical
        /\ accounts'.container = a.container /\ accounts'.strictSettled = a.strictSettled
    BY <1>1, <1>2 DEF AccountType
  <1> QED BY <1>1, <1>3 DEF q

LEMMA SettledDoes ==
  ASSUME accounts \in AccountType,
         accounts' = [accounts EXCEPT !.queued = FALSE, !.strictSettled = TRUE]
  PROVE  /\ accounts' \in AccountType /\ ~accounts'.queued /\ accounts'.strictSettled
         /\ accounts'.logical = accounts.logical /\ accounts'.container = accounts.container
         /\ accounts'.settlements = accounts.settlements
  <1> DEFINE a == [accounts EXCEPT !.queued = FALSE]
  <1>1. /\ a \in AccountType /\ a.queued = FALSE /\ a.logical = accounts.logical
        /\ a.container = accounts.container /\ a.settlements = accounts.settlements
    BY DEF AccountType
  <1>2. accounts' = [a EXCEPT !.strictSettled = TRUE]
    BY DEF AccountType
  <1> HIDE DEF a
  <1> QED BY <1>1, <1>2 DEF AccountType

LEMMA MoveCountDoes ==
  ASSUME Types, accounts \in AccountType, NEW w \in Slots
  PROVE  /\ MoveActivate(w) =>
              /\ accounts' \in AccountType /\ accounts'.logical = accounts.logical
              /\ accounts'.queued = accounts.queued /\ accounts'.settlements = accounts.settlements
              /\ accounts'.strictSettled = accounts.strictSettled
              /\ accounts'.container = IF entry.state = "Queued"
                                       THEN [accounts.container EXCEPT ![local[w].slot] = @ + 1]
                                       ELSE accounts.container
         /\ MoveLogical(w) =>
              /\ accounts' \in AccountType /\ accounts'.logical = accounts.logical
              /\ accounts'.queued = accounts.queued /\ accounts'.settlements = accounts.settlements
              /\ accounts'.strictSettled = accounts.strictSettled
              /\ accounts'.container = IF entry.logical # None
                                       THEN [accounts.container EXCEPT ![entry.logical] = @ - 1]
                                       ELSE accounts.container
         /\ MoveUncount(w) =>
              /\ accounts' \in AccountType /\ accounts'.logical = accounts.logical
              /\ accounts'.queued = accounts.queued /\ accounts'.settlements = accounts.settlements
              /\ accounts'.strictSettled = accounts.strictSettled
              /\ accounts'.container = [accounts.container EXCEPT ![local[w].slot] = @ - 1]
  <1> DEFINE s == local[w].slot
  <1>0. s \in Slots /\ entry.logical \in Slots \cup {None} /\ accounts.container \in [Slots -> Int]
    BY ThreadNames DEF Types, LocalType, EntryType, AccountType
  <1> HIDE DEF s
  <1>1. ASSUME MoveActivate(w), entry.state = "Queued"
        PROVE  accounts' = [accounts EXCEPT !.container[s] = @ + 1]
    BY <1>1 DEF MoveActivate, s
  <1>2. ASSUME MoveLogical(w), entry.logical # None
        PROVE  accounts' = [accounts EXCEPT !.container[entry.logical] = @ + (-1)]
    BY <1>0, <1>2 DEF MoveLogical, AccountType
  <1>3. ASSUME MoveUncount(w)
        PROVE  accounts' = [accounts EXCEPT !.container[s] = @ + (-1)]
    BY <1>0, <1>3 DEF MoveUncount, AccountType, s
  <1>4. \A r \in Slots : [accounts.container EXCEPT ![r] = @ + (-1)] = [accounts.container EXCEPT ![r] = @ - 1]
    BY <1>0
  <1>5. MoveActivate(w) =>
          /\ accounts' \in AccountType /\ accounts'.logical = accounts.logical
          /\ accounts'.queued = accounts.queued /\ accounts'.settlements = accounts.settlements
          /\ accounts'.strictSettled = accounts.strictSettled
          /\ accounts'.container = IF entry.state = "Queued"
                                   THEN [accounts.container EXCEPT ![s] = @ + 1]
                                   ELSE accounts.container
    <2>1. CASE entry.state = "Queued"
      BY <1>0, <1>1, <2>1, CountDoes, 1 \in Int
    <2>2. CASE entry.state # "Queued"
      BY <2>2 DEF MoveActivate
    <2> QED BY <2>1, <2>2
  <1>6. MoveLogical(w) =>
          /\ accounts' \in AccountType /\ accounts'.logical = accounts.logical
          /\ accounts'.queued = accounts.queued /\ accounts'.settlements = accounts.settlements
          /\ accounts'.strictSettled = accounts.strictSettled
          /\ accounts'.container = IF entry.logical # None
                                   THEN [accounts.container EXCEPT ![entry.logical] = @ - 1]
                                   ELSE accounts.container
    <2>1. CASE entry.logical # None
      BY <1>0, <1>2, <1>4, <2>1, CountDoes, -1 \in Int
    <2>2. CASE entry.logical = None
      BY <2>2 DEF MoveLogical
    <2> QED BY <2>1, <2>2
  <1>7. MoveUncount(w) =>
          /\ accounts' \in AccountType /\ accounts'.logical = accounts.logical
          /\ accounts'.queued = accounts.queued /\ accounts'.settlements = accounts.settlements
          /\ accounts'.strictSettled = accounts.strictSettled
          /\ accounts'.container = [accounts.container EXCEPT ![s] = @ - 1]
    BY <1>0, <1>3, <1>4, CountDoes, -1 \in Int
  <1> QED BY <1>5, <1>6, <1>7 DEF s

LEMMA FinalGate ==
  ASSUME Types, EndInv, GateInv, NEW t \in Threads, FinalizeStep(t)
  PROVE  OnlyMoves(t) => GateInv'
  <1> USE ThreadNames, StateNames, ResultNames
  <1>FinalizeState. CASE FinalizeState(t)
    BY <1>FinalizeState, ReturnDoes
     DEF Types, FinalizeState, Goto, At, shared, history, OnlyMoves, EndInv, EndOwn, GateInv,
         Alone, KnownPc, FinalPc, PlacingPc, EndingPc, Ended
  <1>FinalizePending. CASE FinalizePending(t)
    BY <1>FinalizePending, PendingDoes
     DEF Types, FinalizePending, Goto, At, shared, history, OnlyMoves, EndInv, EndOwn, GateInv,
         Alone, KnownPc, FinalPc, PlacingPc, EndingPc, Ended
  <1>FinalizeRetention. CASE FinalizeRetention(t)
    BY <1>FinalizeRetention, ReturnDoes
     DEF Types, FinalizeRetention, Goto, At, shared, history, OnlyMoves, EndInv, EndOwn,
         GateInv, Alone, KnownPc, FinalPc, PlacingPc, EndingPc, Ended
  <1>FinalizeOwner. CASE FinalizeOwner(t)
    BY <1>FinalizeOwner, OwnerDoes
     DEF Types, FinalizeOwner, Goto, At, shared, history, OnlyMoves, EndInv, EndOwn, GateInv,
         Alone, KnownPc, FinalPc, PlacingPc, EndingPc, Ended
  <1>FinalizeTerminal. CASE FinalizeTerminal(t)
    BY <1>FinalizeTerminal, ReturnDoes
     DEF Types, FinalizeTerminal, Goto, At, shared, history, OnlyMoves, EndInv, EndOwn,
         GateInv, Alone, KnownPc, FinalPc, PlacingPc, EndingPc, Ended
  <1>FinalizeMove. CASE FinalizeMove(t)
    BY <1>FinalizeMove, ReturnDoes
     DEF Types, FinalizeMove, Goto, At, shared, history, OnlyMoves, EndInv, EndOwn, GateInv,
         Alone, KnownPc, FinalPc, PlacingPc, EndingPc, Ended
  <1>FinalizeClaim. CASE FinalizeClaim(t)
    BY <1>FinalizeClaim, ReturnDoes
     DEF Types, FinalizeClaim, Goto, At, EntryType, shared, history, OnlyMoves, EndInv, EndOwn,
         GateInv, Alone, KnownPc, FinalPc, PlacingPc, EndingPc, Ended
  <1>FinalizeDetach. CASE FinalizeDetach(t)
    BY <1>FinalizeDetach
     DEF Types, FinalizeDetach, At, Goto, EntryType, shared, history, OnlyMoves, EndInv,
         EndOwn, GateInv, Alone, KnownPc, FinalPc, PlacingPc, EndingPc, Ended
  <1>FinalizeLogical. CASE FinalizeLogical(t)
    BY <1>FinalizeLogical, LogicalDoes
     DEF Types, FinalizeLogical, At, Goto, EntryType, shared, history, OnlyMoves, EndInv,
         EndOwn, GateInv, Alone, KnownPc, FinalPc, PlacingPc, EndingPc, Ended
  <1>FinalizeAccount. CASE FinalizeAccount(t)
    BY <1>FinalizeAccount, AccountDoes
     DEF Types, FinalizeAccount, At, Goto, shared, history, OnlyMoves, EndInv, EndOwn, GateInv,
         Alone, KnownPc, FinalPc, PlacingPc, EndingPc, Ended
  <1>FinalizePermits. CASE FinalizePermits(t)
    BY <1>FinalizePermits
     DEF Types, FinalizePermits, At, Goto, EntryType, shared, history, OnlyMoves, EndInv,
         EndOwn, GateInv, Alone, KnownPc, FinalPc, PlacingPc, EndingPc, Ended
  <1>FinalizeRecord. CASE FinalizeRecord(t)
    BY <1>FinalizeRecord, ReturnDoes
     DEF Types, FinalizeRecord, Goto, At, EntryType, shared, history, OnlyMoves, EndInv,
         EndOwn, GateInv, Alone, KnownPc, FinalPc, PlacingPc, EndingPc, Ended
  <1>FinalizeUnpend. CASE FinalizeUnpend(t)
    BY <1>FinalizeUnpend
     DEF Types, FinalizeUnpend, At, Goto, EntryType, shared, history, OnlyMoves, EndInv,
         EndOwn, GateInv, Alone, KnownPc, FinalPc, PlacingPc, EndingPc, Ended
  <1>FinalizePublish. CASE FinalizePublish(t)
    BY <1>FinalizePublish, ReturnDoes
     DEF Types, FinalizePublish, Goto, At, EntryType, shared, history, OnlyMoves, EndInv,
         EndOwn, GateInv, Alone, KnownPc, FinalPc, PlacingPc, EndingPc, Ended
  <1> QED BY <1>FinalizeState, <1>FinalizePending, <1>FinalizeRetention, <1>FinalizeOwner,
     <1>FinalizeTerminal, <1>FinalizeMove, <1>FinalizeClaim, <1>FinalizeDetach,
     <1>FinalizeLogical, <1>FinalizeAccount, <1>FinalizePermits, <1>FinalizeRecord,
     <1>FinalizeUnpend, <1>FinalizePublish DEF FinalizeStep

LEMMA HelpGate ==
  ASSUME Types, EndInv, GateInv, NEW t \in Threads, HelpOwn(t)
  PROVE  OnlyMoves(t) => GateInv'
  <1> USE ThreadNames, StateNames, ResultNames
  <1>Helped. CASE Helped(t)
    BY <1>Helped
     DEF Types, Helped, At, Goto, After, history, OnlyMoves, EndInv, EndOwn, GateInv, Alone,
         KnownPc, FinalPc, PlacingPc, EndingPc, Ended, AccountType
  <1>FailBeforeRunning. CASE FailBeforeRunning(t)
    BY <1>FailBeforeRunning, FinalizeDoes
     DEF Types, FailBeforeRunning, Goto, At, After, shared, history, OnlyMoves, EndInv, EndOwn,
         GateInv, Alone, KnownPc, FinalPc, PlacingPc, EndingPc, Ended
  <1>FailQueued. CASE FailQueued(t)
    BY <1>FailQueued, TerminatedFields, FinalizeDoes
     DEF Types, FailQueued, Goto, At, CanTerminate, After, EntryType, shared, history,
         OnlyMoves, EndInv, EndOwn, GateInv, Alone, KnownPc, FinalPc, PlacingPc, EndingPc, Ended
  <1>AuthorityFailure. CASE AuthorityFailure(t)
    BY <1>AuthorityFailure, FinalizeDoes, LocalState
     DEF Types, AuthorityFailure, Goto, At, After, history, OnlyMoves, EndInv, EndOwn, GateInv,
         Alone, KnownPc, FinalPc, PlacingPc, EndingPc, Ended
  <1>AuthorityFailFrom. CASE AuthorityFailFrom(t)
    BY <1>AuthorityFailFrom, TerminatedFields, FinalizeDoes
     DEF Types, AuthorityFailFrom, Goto, At, CanTerminate, After, EntryType, history,
         OnlyMoves, EndInv, EndOwn, GateInv, Alone, KnownPc, FinalPc, PlacingPc, EndingPc, Ended
  <1> QED BY <1>Helped, <1>FailBeforeRunning, <1>FailQueued, <1>AuthorityFailure, <1>AuthorityFailFrom
   DEF HelpOwn

LEMMA PubGate ==
  ASSUME Types, EndInv, GateInv, PublishOwn
  PROVE  OnlyMoves("publisher") => GateInv'
  <1> USE ThreadNames, StateNames, ResultNames
  <1>ExpireRemove. CASE ExpireRemove
    BY <1>ExpireRemove
     DEF Types, ExpireRemove, At, Goto, history, OnlyMoves, EndInv, EndOwn, GateInv, Alone,
         KnownPc, FinalPc, PlacingPc, EndingPc, Ended
  <1>ClaimExpired. CASE ClaimExpired
    BY <1>ClaimExpired
     DEF Types, ClaimExpired, At, Goto, EntryType, shared, history, OnlyMoves, EndInv, EndOwn,
         GateInv, Alone, KnownPc, FinalPc, PlacingPc, EndingPc, Ended
  <1>AdmitExpired. CASE AdmitExpired
    BY <1>AdmitExpired
     DEF Types, AdmitExpired, At, Goto, shared, history, OnlyMoves, EndInv, EndOwn, GateInv,
         Alone, KnownPc, FinalPc, PlacingPc, EndingPc, Ended
  <1>RejectUnbound. CASE RejectUnbound
    BY <1>RejectUnbound, TerminatedFields, FinalizeDoes
     DEF Types, RejectUnbound, Goto, At, CanTerminate, EntryType, shared, history, OnlyMoves,
         EndInv, EndOwn, GateInv, Alone, KnownPc, FinalPc, PlacingPc, EndingPc, Ended
  <1>InstallCheck. CASE InstallCheck
    BY <1>InstallCheck
     DEF Types, InstallCheck, At, Goto, shared, history, OnlyMoves, EndInv, EndOwn, GateInv,
         Alone, KnownPc, FinalPc, PlacingPc, EndingPc, Ended
  <1>Install. CASE Install
    BY <1>Install
     DEF Types, Install, At, Goto, EntryType, shared, history, OnlyMoves, EndInv, EndOwn,
         GateInv, Alone, KnownPc, FinalPc, PlacingPc, EndingPc, Ended
  <1>Bind. CASE Bind
    BY <1>Bind
     DEF Types, Bind, At, Goto, history, OnlyMoves, EndInv, EndOwn, GateInv, Alone, KnownPc,
         FinalPc, PlacingPc, EndingPc, Ended, AccountType
  <1>Place. ASSUME NEW s \in Slots, Place(s) PROVE OnlyMoves("publisher") => GateInv'
    BY ZenonT(60), <1>Place, PlaceDoes, PlaceCounts
     DEF Types, Place, At, Goto, shared, history, OnlyMoves, EndInv, EndOwn, GateInv, Alone,
         KnownPc, FinalPc, PlacingPc, EndingPc, Ended
  <1>PlacementRefused. CASE PlacementRefused
    BY <1>PlacementRefused
     DEF Types, PlacementRefused, At, Goto, shared, history, OnlyMoves, EndInv, EndOwn,
         GateInv, Alone, KnownPc, FinalPc, PlacingPc, EndingPc, Ended
  <1>PrepareCheck. CASE PrepareCheck
    BY <1>PrepareCheck
     DEF Types, PrepareCheck, At, Goto, shared, history, OnlyMoves, EndInv, EndOwn, GateInv,
         Alone, KnownPc, FinalPc, PlacingPc, EndingPc, Ended
  <1>PrepareLogical. CASE PrepareLogical
    BY <1>PrepareLogical
     DEF Types, PrepareLogical, At, Goto, EntryType, shared, history, OnlyMoves, EndInv,
         EndOwn, GateInv, Alone, KnownPc, FinalPc, PlacingPc, EndingPc, Ended
  <1>PrepareOwner. CASE PrepareOwner
    BY <1>PrepareOwner
     DEF Types, PrepareOwner, At, Goto, EntryType, shared, history, OnlyMoves, EndInv, EndOwn,
         GateInv, Alone, KnownPc, FinalPc, PlacingPc, EndingPc, Ended
  <1>PrepareRetention. CASE PrepareRetention
    BY <1>PrepareRetention
     DEF Types, PrepareRetention, At, Goto, EntryType, shared, history, OnlyMoves, EndInv,
         EndOwn, GateInv, Alone, KnownPc, FinalPc, PlacingPc, EndingPc, Ended
  <1>PrepareQueued. CASE PrepareQueued
    BY <1>PrepareQueued
     DEF Types, PrepareQueued, At, Goto, EntryType, shared, history, OnlyMoves, EndInv, EndOwn,
         GateInv, Alone, KnownPc, FinalPc, PlacingPc, EndingPc, Ended
  <1>UndoRetention. CASE UndoRetention
    BY <1>UndoRetention
     DEF Types, UndoRetention, At, Goto, EntryType, shared, history, OnlyMoves, EndInv, EndOwn,
         GateInv, Alone, KnownPc, FinalPc, PlacingPc, EndingPc, Ended
  <1>UndoOwner. CASE UndoOwner
    BY <1>UndoOwner
     DEF Types, UndoOwner, At, Goto, EntryType, shared, history, OnlyMoves, EndInv, EndOwn,
         GateInv, Alone, KnownPc, FinalPc, PlacingPc, EndingPc, Ended
  <1>Uncount. CASE Uncount
    BY <1>Uncount, UncountDoes
     DEF Types, Uncount, At, Goto, shared, history, OnlyMoves, EndInv, EndOwn, GateInv, Alone,
         KnownPc, FinalPc, PlacingPc, EndingPc, Ended
  <1>PublishInitial. CASE PublishInitial
    BY <1>PublishInitial
     DEF Types, PublishInitial, At, Goto, history, OnlyMoves, EndInv, EndOwn, GateInv, Alone,
         KnownPc, FinalPc, PlacingPc, EndingPc, Ended
  <1>DropUnplaced. CASE DropUnplaced
    BY <1>DropUnplaced, SettledDoes
     DEF Types, DropUnplaced, At, Goto, EntryType, shared, history, OnlyMoves, EndInv, EndOwn,
         GateInv, Alone, KnownPc, FinalPc, PlacingPc, EndingPc, Ended
  <1>Unplaced. CASE Unplaced
    BY <1>Unplaced, FinalizeDoes
     DEF Types, Unplaced, Goto, At, shared, history, OnlyMoves, EndInv, EndOwn, GateInv, Alone,
         KnownPc, FinalPc, PlacingPc, EndingPc, Ended
  <1>RejectBound. CASE RejectBound
    BY <1>RejectBound, TerminatedFields, FinalizeDoes
     DEF Types, RejectBound, Goto, At, CanTerminate, EntryType, shared, history, OnlyMoves,
         EndInv, EndOwn, GateInv, Alone, KnownPc, FinalPc, PlacingPc, EndingPc, Ended
  <1>SettleUnplaced. CASE SettleUnplaced
    BY <1>SettleUnplaced, SettledDoes
     DEF Types, SettleUnplaced, At, Goto, shared, history, OnlyMoves, EndInv, EndOwn, GateInv,
         Alone, KnownPc, FinalPc, PlacingPc, EndingPc, Ended
  <1> QED BY <1>ExpireRemove, <1>ClaimExpired, <1>AdmitExpired, <1>RejectUnbound, <1>InstallCheck,
     <1>Install, <1>Bind, <1>Place, <1>PlacementRefused, <1>PrepareCheck, <1>PrepareLogical,
     <1>PrepareOwner, <1>PrepareRetention, <1>PrepareQueued, <1>UndoRetention, <1>UndoOwner,
     <1>Uncount, <1>PublishInitial, <1>DropUnplaced, <1>Unplaced, <1>RejectBound,
     <1>SettleUnplaced DEF PublishOwn

LEMMA CallGate ==
  ASSUME Types, EndInv, GateInv, NEW c \in Callers, CallOwn(c)
  PROVE  OnlyMoves(c) => GateInv'
  <1> USE ThreadNames, StateNames, ResultNames
  <1>CancelCall. CASE CancelCall(c)
    BY <1>CancelCall
     DEF Types, CancelCall, At, Goto, shared, history, OnlyMoves, EndInv, EndOwn, GateInv,
         Alone, KnownPc, FinalPc, PlacingPc, EndingPc, Ended
  <1>CancelRead. CASE CancelRead(c)
    BY <1>CancelRead, LocalState
     DEF Types, CancelRead, Goto, At, Answer, shared, OnlyMoves, EndInv, EndOwn, GateInv,
         Alone, KnownPc, FinalPc, PlacingPc, EndingPc, Ended
  <1>CancelTerminate. CASE CancelTerminate(c)
    BY <1>CancelTerminate, TerminatedFields
     DEF Types, CancelTerminate, Goto, At, CanTerminate, Answer, EntryType, shared, OnlyMoves,
         EndInv, EndOwn, GateInv, Alone, KnownPc, FinalPc, PlacingPc, EndingPc, Ended
  <1>CancelDefer. CASE CancelDefer(c)
    BY <1>CancelDefer
     DEF Types, CancelDefer, At, Goto, Answer, EntryType, shared, OnlyMoves, EndInv, EndOwn,
         GateInv, Alone, KnownPc, FinalPc, PlacingPc, EndingPc, Ended
  <1>RetireDelayed. CASE RetireDelayed(c)
    BY <1>RetireDelayed
     DEF Types, RetireDelayed, At, Goto, history, OnlyMoves, EndInv, EndOwn, GateInv, Alone,
         KnownPc, FinalPc, PlacingPc, EndingPc, Ended
  <1>BindChecked. CASE BindChecked(c)
    BY <1>BindChecked
     DEF Types, BindChecked, At, Goto, shared, history, OnlyMoves, EndInv, EndOwn, GateInv,
         Alone, KnownPc, FinalPc, PlacingPc, EndingPc, Ended
  <1>CancelFinalize. CASE CancelFinalize(c)
    BY <1>CancelFinalize, CancelFinalizeDoes
     DEF Types, CancelFinalize, Goto, At, shared, history, OnlyMoves, EndInv, EndOwn, GateInv,
         Alone, KnownPc, FinalPc, PlacingPc, EndingPc, Ended
  <1>CancelSettled. CASE CancelSettled(c)
    BY <1>CancelSettled
     DEF Types, CancelSettled, At, Goto, Answer, LeftToOther, OnlyMoves, EndInv, EndOwn,
         GateInv, Alone, KnownPc, FinalPc, PlacingPc, EndingPc, Ended, AccountType
  <1> QED BY <1>CancelCall, <1>CancelRead, <1>CancelTerminate, <1>CancelDefer, <1>RetireDelayed,
     <1>BindChecked, <1>CancelFinalize, <1>CancelSettled DEF CallOwn

LEMMA WorkGate ==
  ASSUME Types, EndInv, GateInv, NEW w \in Slots, WorkOwn(w)
  PROVE  OnlyMoves(w) => GateInv'
  <1> USE ThreadNames, StateNames, ResultNames
  <1>Receive. CASE Receive(w)
    BY <1>Receive, ThreadsDiffer
     DEF Types, Receive, At, Goto, history, OnlyMoves, EndInv, EndOwn, GateInv, Alone, KnownPc,
         FinalPc, PlacingPc, EndingPc, Ended
  <1>Received. CASE Received(w)
    BY <1>Received
     DEF Types, Received, At, Goto, shared, history, OnlyMoves, EndInv, EndOwn, GateInv, Alone,
         KnownPc, FinalPc, PlacingPc, EndingPc, Ended
  <1>ClaimMove. CASE ClaimMove(w)
    BY <1>ClaimMove, ThreadsDiffer
     DEF Types, ClaimMove, At, Goto, EntryType, shared, history, OnlyMoves, EndInv, EndOwn,
         GateInv, Alone, KnownPc, FinalPc, PlacingPc, EndingPc, Ended
  <1>ClaimRetention. CASE ClaimRetention(w)
    BY <1>ClaimRetention, ThreadsDiffer
     DEF Types, ClaimRetention, At, Goto, EntryType, shared, history, OnlyMoves, EndInv,
         EndOwn, GateInv, Alone, KnownPc, FinalPc, PlacingPc, EndingPc, Ended
  <1>Claimed. CASE Claimed(w)
    BY <1>Claimed, FinalizeDoes
     DEF Types, Claimed, Goto, At, shared, history, OnlyMoves, EndInv, EndOwn, GateInv, Alone,
         KnownPc, FinalPc, PlacingPc, EndingPc, Ended
  <1>MoveBegin. CASE MoveBegin(w)
    BY <1>MoveBegin
     DEF Types, MoveBegin, At, Goto, shared, history, OnlyMoves, EndInv, EndOwn, GateInv,
         Alone, KnownPc, FinalPc, PlacingPc, EndingPc, Ended
  <1> QED BY <1>Receive, <1>Received, <1>ClaimMove, <1>ClaimRetention, <1>Claimed, <1>MoveBegin
   DEF WorkOwn

LEMMA MoveGate ==
  ASSUME Types, EndInv, GateInv, NEW w \in Slots, MoveOwn(w)
  PROVE  OnlyMoves(w) => GateInv'
  <1> USE ThreadNames, StateNames, ResultNames
  <1>MoveRefused. CASE MoveRefused(w)
    BY <1>MoveRefused, FinalizeDoes, ThreadsDiffer
     DEF Types, MoveRefused, Goto, At, shared, history, OnlyMoves, EndInv, EndOwn, GateInv,
         Alone, KnownPc, FinalPc, PlacingPc, EndingPc, Ended
  <1>MoveDescribe. CASE MoveDescribe(w)
    BY ZenonT(60), <1>MoveDescribe, DescribeDoes
     DEF Types, MoveDescribe, At, Goto, Other, EntryType, shared, history, OnlyMoves, EndInv,
         EndOwn, GateInv, Alone, KnownPc, FinalPc, PlacingPc, EndingPc, Ended
  <1>MoveRegister. CASE MoveRegister(w)
    BY <1>MoveRegister
     DEF Types, MoveRegister, At, Goto, history, OnlyMoves, EndInv, EndOwn, GateInv, Alone,
         KnownPc, FinalPc, PlacingPc, EndingPc, Ended
  <1>MoveEnsure. CASE MoveEnsure(w)
    BY <1>MoveEnsure
     DEF Types, MoveEnsure, At, Goto, shared, history, OnlyMoves, EndInv, EndOwn, GateInv,
         Alone, KnownPc, FinalPc, PlacingPc, EndingPc, Ended
  <1>MoveActivate. CASE MoveActivate(w)
    BY ZenonT(60), <1>MoveActivate, MoveCountDoes
     DEF Types, MoveActivate, At, Goto, EntryType, shared, history, OnlyMoves, EndInv, EndOwn,
         GateInv, Alone, KnownPc, FinalPc, PlacingPc, EndingPc, Ended
  <1>MoveAbandon. CASE MoveAbandon(w)
    BY <1>MoveAbandon, FinalizeDoes, ThreadsDiffer
     DEF Types, MoveAbandon, Goto, At, EntryType, history, OnlyMoves, EndInv, EndOwn, GateInv,
         Alone, KnownPc, FinalPc, PlacingPc, EndingPc, Ended
  <1>MoveChecked. CASE MoveChecked(w)
    BY <1>MoveChecked
     DEF Types, MoveChecked, MoveCheck, At, Goto, shared, history, OnlyMoves, EndInv, EndOwn,
         GateInv, Alone, KnownPc, FinalPc, PlacingPc, EndingPc, Ended
  <1>MoveOwner. CASE MoveOwner(w)
    BY <1>MoveOwner
     DEF Types, MoveOwner, At, Goto, EntryType, shared, history, OnlyMoves, EndInv, EndOwn,
         GateInv, Alone, KnownPc, FinalPc, PlacingPc, EndingPc, Ended
  <1>MoveRetention. CASE MoveRetention(w)
    BY <1>MoveRetention
     DEF Types, MoveRetention, At, Goto, EntryType, shared, history, OnlyMoves, EndInv, EndOwn,
         GateInv, Alone, KnownPc, FinalPc, PlacingPc, EndingPc, Ended
  <1>MoveLogical. CASE MoveLogical(w)
    BY ZenonT(60), <1>MoveLogical, MoveCountDoes
     DEF Types, MoveLogical, At, Goto, EntryType, shared, history, OnlyMoves, EndInv, EndOwn,
         GateInv, Alone, KnownPc, FinalPc, PlacingPc, EndingPc, Ended
  <1>MovePublish. CASE MovePublish(w)
    BY <1>MovePublish
     DEF Types, MovePublish, At, Goto, EntryType, shared, history, OnlyMoves, EndInv, EndOwn,
         GateInv, Alone, KnownPc, FinalPc, PlacingPc, EndingPc, Ended
  <1>MoveCancel. CASE MoveCancel(w)
    BY <1>MoveCancel
     DEF Types, MoveCancel, At, Goto, EntryType, shared, history, OnlyMoves, EndInv, EndOwn,
         GateInv, Alone, KnownPc, FinalPc, PlacingPc, EndingPc, Ended
  <1>MoveTerminate. CASE MoveTerminate(w)
    BY <1>MoveTerminate, TerminatedFields
     DEF Types, MoveTerminate, At, Goto, CanTerminate, EntryType, shared, history, OnlyMoves,
         EndInv, EndOwn, GateInv, Alone, KnownPc, FinalPc, PlacingPc, EndingPc, Ended
  <1>MoveComplete. CASE MoveComplete(w)
    BY <1>MoveComplete
     DEF Types, MoveComplete, At, Goto, shared, history, OnlyMoves, EndInv, EndOwn, GateInv,
         Alone, KnownPc, FinalPc, PlacingPc, EndingPc, Ended
  <1>MoveEnqueue. CASE MoveEnqueue(w)
    BY <1>MoveEnqueue
     DEF Types, MoveEnqueue, At, Goto, history, OnlyMoves, EndInv, EndOwn, GateInv, Alone,
         KnownPc, FinalPc, PlacingPc, EndingPc, Ended
  <1>MoveClear. CASE MoveClear(w)
    BY <1>MoveClear, ClearedFields
     DEF Types, MoveClear, At, Goto, EntryType, shared, history, OnlyMoves, EndInv, EndOwn,
         GateInv, Alone, KnownPc, FinalPc, PlacingPc, EndingPc, Ended
  <1>MoveUnregister. CASE MoveUnregister(w)
    BY <1>MoveUnregister
     DEF Types, MoveUnregister, At, Goto, history, OnlyMoves, EndInv, EndOwn, GateInv, Alone,
         KnownPc, FinalPc, PlacingPc, EndingPc, Ended
  <1>MoveUncount. CASE MoveUncount(w)
    BY <1>MoveUncount, MoveCountDoes
     DEF Types, MoveUncount, At, Goto, shared, history, OnlyMoves, EndInv, EndOwn, GateInv,
         Alone, KnownPc, FinalPc, PlacingPc, EndingPc, Ended
  <1> QED BY <1>MoveRefused, <1>MoveDescribe, <1>MoveRegister, <1>MoveEnsure, <1>MoveActivate,
     <1>MoveAbandon, <1>MoveChecked, <1>MoveOwner, <1>MoveRetention, <1>MoveLogical,
     <1>MovePublish, <1>MoveCancel, <1>MoveTerminate, <1>MoveComplete, <1>MoveEnqueue,
     <1>MoveClear, <1>MoveUnregister, <1>MoveUncount DEF MoveOwn

LEMMA MoveFailGate ==
  ASSUME Types, EndInv, GateInv, NEW t \in Slots \cup {"auditor"}, MoveFailOwn(t)
  PROVE  OnlyMoves(t) => GateInv'
  <1> USE ThreadNames, StateNames, ResultNames
  <1>MoveFail. CASE MoveFail(t)
    BY <1>MoveFail, TerminatedFields
     DEF Types, MoveFail, At, Goto, CanTerminate, EntryType, shared, history, OnlyMoves,
         EndInv, EndOwn, GateInv, Alone, KnownPc, FinalPc, PlacingPc, EndingPc, Ended
  <1>MoveFailClear. CASE MoveFailClear(t)
    BY <1>MoveFailClear, ClearedFields, FinalizeDoes, ThreadsDiffer
     DEF Types, MoveFailClear, Goto, At, EntryType, history, OnlyMoves, EndInv, EndOwn,
         GateInv, Alone, KnownPc, FinalPc, PlacingPc, EndingPc, Ended
  <1> QED BY <1>MoveFail, <1>MoveFailClear DEF MoveFailOwn

LEMMA AuditGate ==
  ASSUME Types, EndInv, GateInv, AuditOwn
  PROVE  OnlyMoves("auditor") => GateInv'
  <1> USE ThreadNames, StateNames, ResultNames
  <1>AuditSnapshot. CASE AuditSnapshot
    BY <1>AuditSnapshot, LocalEpoch
     DEF Types, AuditSnapshot, At, Goto, history, OnlyMoves, EndInv, EndOwn, GateInv, Alone,
         KnownPc, FinalPc, PlacingPc, EndingPc, Ended
  <1>AuditState. CASE AuditState
    BY <1>AuditState, ClearedFields
     DEF Types, AuditState, Goto, At, EntryType, history, OnlyMoves, EndInv, EndOwn, GateInv,
         Alone, KnownPc, FinalPc, PlacingPc, EndingPc, Ended
  <1>AuditRetention. CASE AuditRetention
    BY <1>AuditRetention, ClearedFields, AuditRetentionDoes
     DEF Types, AuditRetention, Goto, At, EntryType, history, OnlyMoves, EndInv, EndOwn,
         GateInv, Alone, KnownPc, FinalPc, PlacingPc, EndingPc, Ended
  <1>AuditAbandon. CASE AuditAbandon
    BY <1>AuditAbandon, ClearedFields, FinalizeDoes
     DEF Types, AuditAbandon, Goto, At, EntryType, history, OnlyMoves, EndInv, EndOwn, GateInv,
         Alone, KnownPc, FinalPc, PlacingPc, EndingPc, Ended
  <1> QED BY <1>AuditSnapshot, <1>AuditState, <1>AuditRetention, <1>AuditAbandon DEF AuditOwn

LEMMA BizGate ==
  ASSUME Types, EndInv, GateInv, BusinessOwn
  PROVE  OnlyMoves("business") => GateInv'
  <1> USE ThreadNames, StateNames, ResultNames
  <1>BusinessGranted. CASE BusinessGranted
    BY <1>BusinessGranted
     DEF Types, BusinessGranted, At, Goto, shared, history, OnlyMoves, EndInv, EndOwn, GateInv,
         Alone, KnownPc, FinalPc, PlacingPc, EndingPc, Ended
  <1>BusinessGateClosed. CASE BusinessGateClosed
    BY <1>BusinessGateClosed
     DEF Types, BusinessGateClosed, At, Goto, shared, history, OnlyMoves, EndInv, EndOwn,
         GateInv, Alone, KnownPc, FinalPc, PlacingPc, EndingPc, Ended
  <1>BusinessCheck. CASE BusinessCheck
    BY <1>BusinessCheck, FinalizeDoes
     DEF Types, BusinessCheck, Goto, At, shared, history, OnlyMoves, EndInv, EndOwn, GateInv,
         Alone, KnownPc, FinalPc, PlacingPc, EndingPc, Ended
  <1>TakeForRunning. CASE TakeForRunning
    BY <1>TakeForRunning
     DEF Types, TakeForRunning, At, Goto, EntryType, shared, OnlyMoves, EndInv, EndOwn,
         GateInv, Alone, KnownPc, FinalPc, PlacingPc, EndingPc, Ended, AccountType
  <1>JobEnds. ASSUME NEW terminal \in {"Completed", "Failed"}, JobEnds(terminal) PROVE OnlyMoves("business") => GateInv'
    BY <1>JobEnds, TerminatedFields, FinalizeDoes
     DEF Types, JobEnds, CanTerminate, Goto, At, EntryType, shared, history, OnlyMoves, EndInv,
         EndOwn, GateInv, Alone, KnownPc, FinalPc, PlacingPc, EndingPc, Ended
  <1>BusinessAborted. CASE BusinessAborted
    BY <1>BusinessAborted, LocalState
     DEF Types, BusinessAborted, Goto, At, shared, history, OnlyMoves, EndInv, EndOwn, GateInv,
         Alone, KnownPc, FinalPc, PlacingPc, EndingPc, Ended
  <1>Backstop. CASE Backstop
    BY <1>Backstop, FinalizeDoes
     DEF Types, Backstop, Goto, At, shared, history, OnlyMoves, EndInv, EndOwn, GateInv, Alone,
         KnownPc, FinalPc, PlacingPc, EndingPc, Ended
  <1>BackstopFail. CASE BackstopFail
    BY <1>BackstopFail, TerminatedFields, FinalizeDoes
     DEF Types, BackstopFail, Goto, At, CanTerminate, EntryType, shared, history, OnlyMoves,
         EndInv, EndOwn, GateInv, Alone, KnownPc, FinalPc, PlacingPc, EndingPc, Ended
  <1> QED BY <1>BusinessGranted, <1>BusinessGateClosed, <1>BusinessCheck, <1>TakeForRunning,
     <1>JobEnds, <1>BusinessAborted, <1>Backstop, <1>BackstopFail DEF BusinessOwn

LEMMA CleanupGate ==
  ASSUME Types, EndInv, GateInv, Cleaned
  PROVE  OnlyMoves("cleanup") => GateInv'
  <1> USE ThreadNames, StateNames, ResultNames
  <1>Cleaned. CASE Cleaned
    BY <1>Cleaned
     DEF Types, Cleaned, At, Goto, LeftToOther, history, OnlyMoves, EndInv, EndOwn, GateInv,
         Alone, KnownPc, FinalPc, PlacingPc, EndingPc, Ended, AccountType
  <1> QED BY <1>Cleaned

LEMMA CloserGate ==
  ASSUME Types, EndInv, GateInv, CloserOwn
  PROVE  OnlyMoves("closer") => GateInv'
  <1> USE ThreadNames, StateNames, ResultNames
  <1>CloseDelayed. CASE CloseDelayed
    BY <1>CloseDelayed
     DEF Types, CloseDelayed, At, Goto, history, OnlyMoves, EndInv, EndOwn, GateInv, Alone,
         KnownPc, FinalPc, PlacingPc, EndingPc, Ended
  <1>RejectDelayed. CASE RejectDelayed
    BY <1>RejectDelayed, TerminatedFields, FinalizeDoes
     DEF Types, RejectDelayed, Goto, At, CanTerminate, EntryType, shared, history, OnlyMoves,
         EndInv, EndOwn, GateInv, Alone, KnownPc, FinalPc, PlacingPc, EndingPc, Ended
  <1> QED BY <1>CloseDelayed, <1>RejectDelayed DEF CloserOwn


LEMMA GateKept ==
  ASSUME Types, EndInv, GateInv, [Next]_vars
  PROVE  GateInv'
  <1> USE ThreadNames
  <1>1. ASSUME NEW t \in Threads, FinalizeStep(t) \/ HelpOwn(t)
        PROVE  GateInv'
    BY <1>1, FinalTypes, HelpTypes, FinalGate, HelpGate
  <1>2. CASE PublishOwn
    BY <1>2, PubTypes, PubGate
  <1>3. ASSUME NEW c \in Callers, CallOwn(c)
        PROVE  GateInv'
    BY <1>3, CallTypes, CallGate
  <1>4. ASSUME NEW c \in Callers, ScheduleCleanup(c)
        PROVE  GateInv'
    BY <1>4, ScheduleDoes, ThreadsDiffer
       DEF ScheduleCleanup, GateInv, Alone, shared
  <1>5. ASSUME NEW w \in Slots, WorkOwn(w) \/ MoveOwn(w)
        PROVE  GateInv'
    BY <1>5, WorkTypes, MoveTypes, WorkGate, MoveGate
  <1>6. ASSUME NEW w \in Slots, Dispatch(w)
        PROVE  GateInv'
    <2>1. UNCHANGED <<entry, accounts, at, moving>> /\ pc'["publisher"] = pc["publisher"]
      BY <1>6, DispatchDoes, ThreadsDiffer DEF Dispatch, shared, OnlyMoves
    <2>2. ~Alone
      BY <1>6, DispatchDoes, ThreadsDiffer DEF Alone
    <2> QED BY <2>1, <2>2 DEF GateInv
  <1>7. ASSUME NEW t \in Slots \cup {"auditor"}, MoveFailOwn(t)
        PROVE  GateInv'
    BY <1>7, MoveFailTypes, MoveFailGate
  <1>8. CASE AuditOwn
    BY <1>8, AuditTypes, AuditGate
  <1>9. CASE BusinessOwn
    BY <1>9, BizTypes, BizGate
  <1>10. CASE Cleaned
    BY <1>10, CleanupTypes, CleanupGate
  <1>11. CASE CloserOwn
    BY <1>11, CloserTypes, CloserGate
  <1>12. CASE ForceStop \/ UNCHANGED vars
    BY <1>12 DEF ForceStop, vars, shared, history, GateInv, Alone
  <1> QED BY <1>1, <1>2, <1>3, <1>4, <1>5, <1>6, <1>7, <1>8, <1>9, <1>10, <1>11, <1>12, NextCases

LEMMA GateStart ==
  ASSUME Init
  PROVE  GateInv
  <1> USE ThreadNames, ThreadsDiffer, StateNames
  <1>1. accounts \in AccountType
    BY EntryAssumption DEF Init, AccountType
  <1>2. /\ pc["publisher"] = IF Delayed THEN "timer" ELSE "place"
        /\ \A t \in Threads \ {"publisher"} : pc[t] \in {"off", "idle"}
    BY DEF Init
  <1> QED BY <1>1, <1>2 DEF Init, GateInv, Alone, PlacingPc, EndingPc, FinalPc

LEMMA Entered ==
  /\ Init => Types /\ EndInv /\ GateInv
  /\ Types /\ EndInv /\ GateInv /\ [Next]_vars => (Types /\ EndInv /\ GateInv)'
  BY EndStart, EndKept, GateStart, GateKept

(* settle_strict: the gate that holds back the successor in the strict     *)
(* order opens only when the task has ended, or when its submitter drops   *)
(* a task that was never placed and that no other thread has seen.         *)
THEOREM GateHolds == Spec => []GateNotEarly
  <1>1. Types /\ GateInv => GateNotEarly
    BY DEF GateInv, Alone, GateNotEarly, Ended, Terminal, Types, EntryType
  <1> QED BY <1>1, Entered, PTL DEF Spec

-----------------------------------------------------------------------------
(* The task of submit_now has its envelope from the start, so every settler *)
(* settles its projections.                                                 *)
EnvelopeOwn(t) ==
  /\ pc[t] \in FinalPc => local[t].cont \in {"helped", "cancelled"}
  /\ pc[t] \in FinalPc /\ local[t].cont = "cancelled" => local[t].envelope
  /\ pc[t] = "cancelled" => local[t].envelope

BoundInv ==
  ~Delayed => /\ bound /\ pc["closer"] = "idle" /\ pc["cleanup"] = "off"
              /\ \A t \in Threads : EnvelopeOwn(t)

LEMMA BoundSettles ==
  ASSUME BoundInv, ~Delayed, NEW t \in Threads, pc[t] \in FinalPc
  PROVE  Settles(t)
  BY DEF BoundInv, EnvelopeOwn, Settles

LEMMA FinalBound ==
  ASSUME Types, EndInv, GateInv, BoundInv, NEW t \in Threads, FinalizeStep(t)
  PROVE  OnlyMoves(t) => BoundInv'
  <1> USE ThreadNames, ThreadsDiffer, ResultNames
  <1>FinalizeState. CASE FinalizeState(t)
    BY <1>FinalizeState, ReturnDoes
     DEF Types, FinalizeState, Goto, At, shared, history, OnlyMoves, BoundInv, EnvelopeOwn,
         FinalPc
  <1>FinalizePending. CASE FinalizePending(t)
    BY <1>FinalizePending, PendingDoes
     DEF Types, FinalizePending, Goto, At, shared, history, OnlyMoves, BoundInv, EnvelopeOwn,
         FinalPc
  <1>FinalizeRetention. CASE FinalizeRetention(t)
    BY <1>FinalizeRetention, ReturnDoes
     DEF Types, FinalizeRetention, Goto, At, shared, history, OnlyMoves, BoundInv, EnvelopeOwn,
         FinalPc
  <1>FinalizeOwner. CASE FinalizeOwner(t)
    BY <1>FinalizeOwner, OwnerDoes
     DEF Types, FinalizeOwner, Goto, At, shared, history, OnlyMoves, BoundInv, EnvelopeOwn,
         FinalPc
  <1>FinalizeTerminal. CASE FinalizeTerminal(t)
    BY <1>FinalizeTerminal, ReturnDoes
     DEF Types, FinalizeTerminal, Goto, At, shared, history, OnlyMoves, BoundInv, EnvelopeOwn,
         FinalPc
  <1>FinalizeMove. CASE FinalizeMove(t)
    BY <1>FinalizeMove, ReturnDoes
     DEF Types, FinalizeMove, Goto, At, shared, history, OnlyMoves, BoundInv, EnvelopeOwn,
         FinalPc
  <1>FinalizeClaim. CASE FinalizeClaim(t)
    BY <1>FinalizeClaim, ReturnDoes
     DEF Types, FinalizeClaim, Goto, At, EntryType, shared, history, OnlyMoves, BoundInv,
         EnvelopeOwn, FinalPc
  <1>FinalizeDetach. CASE FinalizeDetach(t)
    BY <1>FinalizeDetach
     DEF Types, FinalizeDetach, At, Goto, EntryType, shared, history, OnlyMoves, BoundInv,
         EnvelopeOwn, FinalPc
  <1>FinalizeLogical. CASE FinalizeLogical(t)
    BY <1>FinalizeLogical
     DEF Types, FinalizeLogical, At, Goto, EntryType, shared, history, OnlyMoves, BoundInv,
         EnvelopeOwn, FinalPc
  <1>FinalizeAccount. CASE FinalizeAccount(t)
    BY <1>FinalizeAccount
     DEF Types, FinalizeAccount, At, Goto, shared, history, OnlyMoves, BoundInv, EnvelopeOwn,
         FinalPc
  <1>FinalizePermits. CASE FinalizePermits(t)
    BY <1>FinalizePermits
     DEF Types, FinalizePermits, At, Goto, EntryType, shared, history, OnlyMoves, BoundInv,
         EnvelopeOwn, FinalPc
  <1>FinalizeRecord. CASE FinalizeRecord(t)
    BY <1>FinalizeRecord, ReturnDoes
     DEF Types, FinalizeRecord, Goto, At, EntryType, shared, history, OnlyMoves, BoundInv,
         EnvelopeOwn, FinalPc, EndInv, EndOwn
  <1>FinalizeUnpend. CASE FinalizeUnpend(t)
    BY <1>FinalizeUnpend
     DEF Types, FinalizeUnpend, At, Goto, EntryType, shared, history, OnlyMoves, BoundInv,
         EnvelopeOwn, FinalPc
  <1>FinalizePublish. CASE FinalizePublish(t)
    BY <1>FinalizePublish, ReturnDoes
     DEF Types, FinalizePublish, Goto, At, EntryType, shared, history, OnlyMoves, BoundInv,
         EnvelopeOwn, FinalPc, EndInv, EndOwn
  <1> QED BY <1>FinalizeState, <1>FinalizePending, <1>FinalizeRetention, <1>FinalizeOwner,
     <1>FinalizeTerminal, <1>FinalizeMove, <1>FinalizeClaim, <1>FinalizeDetach,
     <1>FinalizeLogical, <1>FinalizeAccount, <1>FinalizePermits, <1>FinalizeRecord,
     <1>FinalizeUnpend, <1>FinalizePublish DEF FinalizeStep

LEMMA HelpBound ==
  ASSUME Types, EndInv, GateInv, BoundInv, NEW t \in Threads, HelpOwn(t)
  PROVE  OnlyMoves(t) => BoundInv'
  <1> USE ThreadNames, ThreadsDiffer, ResultNames
  <1>Helped. CASE Helped(t)
    BY <1>Helped
     DEF Types, Helped, At, Goto, After, history, OnlyMoves, BoundInv, EnvelopeOwn, FinalPc
  <1>FailBeforeRunning. CASE FailBeforeRunning(t)
    BY <1>FailBeforeRunning, FinalizeDoes
     DEF Types, FailBeforeRunning, Goto, At, After, shared, history, OnlyMoves, BoundInv,
         EnvelopeOwn, FinalPc
  <1>FailQueued. CASE FailQueued(t)
    BY <1>FailQueued, TerminatedFields, FinalizeDoes
     DEF Types, FailQueued, Goto, At, CanTerminate, After, EntryType, shared, history,
         OnlyMoves, BoundInv, EnvelopeOwn, FinalPc
  <1>AuthorityFailure. CASE AuthorityFailure(t)
    BY <1>AuthorityFailure, FinalizeDoes, LocalState
     DEF Types, AuthorityFailure, Goto, At, After, history, OnlyMoves, BoundInv, EnvelopeOwn,
         FinalPc
  <1>AuthorityFailFrom. CASE AuthorityFailFrom(t)
    BY <1>AuthorityFailFrom, TerminatedFields, FinalizeDoes
     DEF Types, AuthorityFailFrom, Goto, At, CanTerminate, After, EntryType, history,
         OnlyMoves, BoundInv, EnvelopeOwn, FinalPc
  <1> QED BY <1>Helped, <1>FailBeforeRunning, <1>FailQueued, <1>AuthorityFailure, <1>AuthorityFailFrom
   DEF HelpOwn

LEMMA PubBound ==
  ASSUME Types, EndInv, GateInv, BoundInv, PublishOwn
  PROVE  OnlyMoves("publisher") => BoundInv'
  <1> USE ThreadNames, ThreadsDiffer, ResultNames
  <1>ExpireRemove. CASE ExpireRemove
    BY <1>ExpireRemove
     DEF Types, ExpireRemove, At, Goto, history, OnlyMoves, BoundInv, EnvelopeOwn, FinalPc
  <1>ClaimExpired. CASE ClaimExpired
    BY <1>ClaimExpired
     DEF Types, ClaimExpired, At, Goto, EntryType, shared, history, OnlyMoves, BoundInv,
         EnvelopeOwn, FinalPc
  <1>AdmitExpired. CASE AdmitExpired
    BY <1>AdmitExpired
     DEF Types, AdmitExpired, At, Goto, shared, history, OnlyMoves, BoundInv, EnvelopeOwn,
         FinalPc
  <1>RejectUnbound. CASE RejectUnbound
    BY <1>RejectUnbound, TerminatedFields, FinalizeDoes
     DEF Types, RejectUnbound, Goto, At, CanTerminate, EntryType, shared, history, OnlyMoves,
         BoundInv, EnvelopeOwn, FinalPc, GateInv, Alone
  <1>InstallCheck. CASE InstallCheck
    BY <1>InstallCheck
     DEF Types, InstallCheck, At, Goto, shared, history, OnlyMoves, BoundInv, EnvelopeOwn,
         FinalPc
  <1>Install. CASE Install
    BY <1>Install
     DEF Types, Install, At, Goto, EntryType, shared, history, OnlyMoves, BoundInv,
         EnvelopeOwn, FinalPc
  <1>Bind. CASE Bind
    BY <1>Bind DEF Types, Bind, At, Goto, history, OnlyMoves, BoundInv, EnvelopeOwn, FinalPc
  <1>Place. ASSUME NEW s \in Slots, Place(s) PROVE OnlyMoves("publisher") => BoundInv'
    BY ZenonT(60), <1>Place, PlaceDoes
     DEF Types, Place, At, Goto, shared, history, OnlyMoves, BoundInv, EnvelopeOwn, FinalPc
  <1>PlacementRefused. CASE PlacementRefused
    BY <1>PlacementRefused
     DEF Types, PlacementRefused, At, Goto, shared, history, OnlyMoves, BoundInv, EnvelopeOwn,
         FinalPc
  <1>PrepareCheck. CASE PrepareCheck
    BY <1>PrepareCheck
     DEF Types, PrepareCheck, At, Goto, shared, history, OnlyMoves, BoundInv, EnvelopeOwn,
         FinalPc
  <1>PrepareLogical. CASE PrepareLogical
    BY <1>PrepareLogical
     DEF Types, PrepareLogical, At, Goto, EntryType, shared, history, OnlyMoves, BoundInv,
         EnvelopeOwn, FinalPc
  <1>PrepareOwner. CASE PrepareOwner
    BY <1>PrepareOwner
     DEF Types, PrepareOwner, At, Goto, EntryType, shared, history, OnlyMoves, BoundInv,
         EnvelopeOwn, FinalPc
  <1>PrepareRetention. CASE PrepareRetention
    BY <1>PrepareRetention
     DEF Types, PrepareRetention, At, Goto, EntryType, shared, history, OnlyMoves, BoundInv,
         EnvelopeOwn, FinalPc
  <1>PrepareQueued. CASE PrepareQueued
    BY <1>PrepareQueued
     DEF Types, PrepareQueued, At, Goto, EntryType, shared, history, OnlyMoves, BoundInv,
         EnvelopeOwn, FinalPc
  <1>UndoRetention. CASE UndoRetention
    BY <1>UndoRetention
     DEF Types, UndoRetention, At, Goto, EntryType, shared, history, OnlyMoves, BoundInv,
         EnvelopeOwn, FinalPc
  <1>UndoOwner. CASE UndoOwner
    BY <1>UndoOwner
     DEF Types, UndoOwner, At, Goto, EntryType, shared, history, OnlyMoves, BoundInv,
         EnvelopeOwn, FinalPc
  <1>Uncount. CASE Uncount
    BY <1>Uncount
     DEF Types, Uncount, At, Goto, shared, history, OnlyMoves, BoundInv, EnvelopeOwn, FinalPc
  <1>PublishInitial. CASE PublishInitial
    BY <1>PublishInitial
     DEF Types, PublishInitial, At, Goto, history, OnlyMoves, BoundInv, EnvelopeOwn, FinalPc
  <1>DropUnplaced. CASE DropUnplaced
    BY <1>DropUnplaced
     DEF Types, DropUnplaced, At, Goto, EntryType, shared, history, OnlyMoves, BoundInv,
         EnvelopeOwn, FinalPc
  <1>Unplaced. CASE Unplaced
    BY <1>Unplaced, FinalizeDoes
     DEF Types, Unplaced, Goto, At, shared, history, OnlyMoves, BoundInv, EnvelopeOwn, FinalPc,
         GateInv, Alone
  <1>RejectBound. CASE RejectBound
    BY <1>RejectBound, TerminatedFields, FinalizeDoes
     DEF Types, RejectBound, Goto, At, CanTerminate, EntryType, shared, history, OnlyMoves,
         BoundInv, EnvelopeOwn, FinalPc, GateInv, Alone
  <1>SettleUnplaced. CASE SettleUnplaced
    BY <1>SettleUnplaced
     DEF Types, SettleUnplaced, At, Goto, shared, history, OnlyMoves, BoundInv, EnvelopeOwn,
         FinalPc
  <1> QED BY <1>ExpireRemove, <1>ClaimExpired, <1>AdmitExpired, <1>RejectUnbound, <1>InstallCheck,
     <1>Install, <1>Bind, <1>Place, <1>PlacementRefused, <1>PrepareCheck, <1>PrepareLogical,
     <1>PrepareOwner, <1>PrepareRetention, <1>PrepareQueued, <1>UndoRetention, <1>UndoOwner,
     <1>Uncount, <1>PublishInitial, <1>DropUnplaced, <1>Unplaced, <1>RejectBound,
     <1>SettleUnplaced DEF PublishOwn

LEMMA CallBound ==
  ASSUME Types, EndInv, GateInv, BoundInv, NEW c \in Callers, CallOwn(c)
  PROVE  OnlyMoves(c) => BoundInv'
  <1> USE ThreadNames, ThreadsDiffer, ResultNames
  <1>CancelCall. CASE CancelCall(c)
    BY <1>CancelCall
     DEF Types, CancelCall, At, Goto, shared, history, OnlyMoves, BoundInv, EnvelopeOwn, FinalPc
  <1>CancelRead. CASE CancelRead(c)
    BY <1>CancelRead, LocalState
     DEF Types, CancelRead, Goto, At, Answer, shared, OnlyMoves, BoundInv, EnvelopeOwn, FinalPc
  <1>CancelTerminate. CASE CancelTerminate(c)
    BY <1>CancelTerminate, TerminatedFields
     DEF Types, CancelTerminate, Goto, At, CanTerminate, Answer, EntryType, shared, OnlyMoves,
         BoundInv, EnvelopeOwn, FinalPc
  <1>CancelDefer. CASE CancelDefer(c)
    BY <1>CancelDefer
     DEF Types, CancelDefer, At, Goto, Answer, EntryType, shared, OnlyMoves, BoundInv,
         EnvelopeOwn, FinalPc
  <1>RetireDelayed. CASE RetireDelayed(c)
    BY <1>RetireDelayed
     DEF Types, RetireDelayed, At, Goto, history, OnlyMoves, BoundInv, EnvelopeOwn, FinalPc
  <1>BindChecked. CASE BindChecked(c)
    BY <1>BindChecked
     DEF Types, BindChecked, At, Goto, shared, history, OnlyMoves, BoundInv, EnvelopeOwn,
         FinalPc
  <1>CancelFinalize. CASE CancelFinalize(c)
    BY <1>CancelFinalize, CancelFinalizeDoes
     DEF Types, CancelFinalize, Goto, At, shared, history, OnlyMoves, BoundInv, EnvelopeOwn,
         FinalPc
  <1>CancelSettled. CASE CancelSettled(c)
    BY <1>CancelSettled
     DEF Types, CancelSettled, At, Goto, Answer, LeftToOther, OnlyMoves, BoundInv, EnvelopeOwn,
         FinalPc
  <1> QED BY <1>CancelCall, <1>CancelRead, <1>CancelTerminate, <1>CancelDefer, <1>RetireDelayed,
     <1>BindChecked, <1>CancelFinalize, <1>CancelSettled DEF CallOwn

LEMMA WorkBound ==
  ASSUME Types, EndInv, GateInv, BoundInv, NEW w \in Slots, WorkOwn(w)
  PROVE  OnlyMoves(w) => BoundInv'
  <1> USE ThreadNames, ThreadsDiffer, ResultNames
  <1>Receive. CASE Receive(w)
    BY <1>Receive
     DEF Types, Receive, At, Goto, history, OnlyMoves, BoundInv, EnvelopeOwn, FinalPc
  <1>Received. CASE Received(w)
    BY <1>Received
     DEF Types, Received, At, Goto, shared, history, OnlyMoves, BoundInv, EnvelopeOwn, FinalPc
  <1>ClaimMove. CASE ClaimMove(w)
    BY <1>ClaimMove
     DEF Types, ClaimMove, At, Goto, EntryType, shared, history, OnlyMoves, BoundInv,
         EnvelopeOwn, FinalPc
  <1>ClaimRetention. CASE ClaimRetention(w)
    BY <1>ClaimRetention
     DEF Types, ClaimRetention, At, Goto, EntryType, shared, history, OnlyMoves, BoundInv,
         EnvelopeOwn, FinalPc
  <1>Claimed. CASE Claimed(w)
    BY <1>Claimed, FinalizeDoes
     DEF Types, Claimed, Goto, At, shared, history, OnlyMoves, BoundInv, EnvelopeOwn, FinalPc
  <1>MoveBegin. CASE MoveBegin(w)
    BY <1>MoveBegin
     DEF Types, MoveBegin, At, Goto, shared, history, OnlyMoves, BoundInv, EnvelopeOwn, FinalPc
  <1> QED BY <1>Receive, <1>Received, <1>ClaimMove, <1>ClaimRetention, <1>Claimed, <1>MoveBegin
   DEF WorkOwn

LEMMA MoveBound ==
  ASSUME Types, EndInv, GateInv, BoundInv, NEW w \in Slots, MoveOwn(w)
  PROVE  OnlyMoves(w) => BoundInv'
  <1> USE ThreadNames, ThreadsDiffer, ResultNames
  <1>MoveRefused. CASE MoveRefused(w)
    BY <1>MoveRefused, FinalizeDoes
     DEF Types, MoveRefused, Goto, At, shared, history, OnlyMoves, BoundInv, EnvelopeOwn,
         FinalPc
  <1>MoveDescribe. CASE MoveDescribe(w)
    <2>1. pc'[w] \in {"mregister", "mprepare"} /\ OnlyMoves(w) /\ bound' = bound
      BY <1>MoveDescribe, DescribeDoes DEF MoveDescribe, shared
    <2> QED BY <2>1 DEF BoundInv, EnvelopeOwn, OnlyMoves, FinalPc
  <1>MoveRegister. CASE MoveRegister(w)
    BY <1>MoveRegister
     DEF Types, MoveRegister, At, Goto, history, OnlyMoves, BoundInv, EnvelopeOwn, FinalPc
  <1>MoveEnsure. CASE MoveEnsure(w)
    BY <1>MoveEnsure
     DEF Types, MoveEnsure, At, Goto, shared, history, OnlyMoves, BoundInv, EnvelopeOwn, FinalPc
  <1>MoveActivate. CASE MoveActivate(w)
    BY <1>MoveActivate
     DEF Types, MoveActivate, At, Goto, EntryType, shared, history, OnlyMoves, BoundInv,
         EnvelopeOwn, FinalPc
  <1>MoveAbandon. CASE MoveAbandon(w)
    BY <1>MoveAbandon, FinalizeDoes
     DEF Types, MoveAbandon, Goto, At, EntryType, history, OnlyMoves, BoundInv, EnvelopeOwn,
         FinalPc
  <1>MoveChecked. CASE MoveChecked(w)
    BY <1>MoveChecked
     DEF Types, MoveChecked, MoveCheck, At, Goto, shared, history, OnlyMoves, BoundInv,
         EnvelopeOwn, FinalPc
  <1>MoveOwner. CASE MoveOwner(w)
    BY <1>MoveOwner
     DEF Types, MoveOwner, At, Goto, EntryType, shared, history, OnlyMoves, BoundInv,
         EnvelopeOwn, FinalPc
  <1>MoveRetention. CASE MoveRetention(w)
    BY <1>MoveRetention
     DEF Types, MoveRetention, At, Goto, EntryType, shared, history, OnlyMoves, BoundInv,
         EnvelopeOwn, FinalPc
  <1>MoveLogical. CASE MoveLogical(w)
    BY <1>MoveLogical
     DEF Types, MoveLogical, At, Goto, EntryType, shared, history, OnlyMoves, BoundInv,
         EnvelopeOwn, FinalPc
  <1>MovePublish. CASE MovePublish(w)
    BY <1>MovePublish
     DEF Types, MovePublish, At, Goto, EntryType, shared, history, OnlyMoves, BoundInv,
         EnvelopeOwn, FinalPc
  <1>MoveCancel. CASE MoveCancel(w)
    BY <1>MoveCancel
     DEF Types, MoveCancel, At, Goto, EntryType, shared, history, OnlyMoves, BoundInv,
         EnvelopeOwn, FinalPc
  <1>MoveTerminate. CASE MoveTerminate(w)
    BY <1>MoveTerminate, TerminatedFields
     DEF Types, MoveTerminate, At, Goto, CanTerminate, EntryType, shared, history, OnlyMoves,
         BoundInv, EnvelopeOwn, FinalPc
  <1>MoveComplete. CASE MoveComplete(w)
    BY <1>MoveComplete
     DEF Types, MoveComplete, At, Goto, shared, history, OnlyMoves, BoundInv, EnvelopeOwn,
         FinalPc
  <1>MoveEnqueue. CASE MoveEnqueue(w)
    BY <1>MoveEnqueue
     DEF Types, MoveEnqueue, At, Goto, history, OnlyMoves, BoundInv, EnvelopeOwn, FinalPc
  <1>MoveClear. CASE MoveClear(w)
    BY <1>MoveClear, ClearedFields
     DEF Types, MoveClear, At, Goto, EntryType, shared, history, OnlyMoves, BoundInv,
         EnvelopeOwn, FinalPc
  <1>MoveUnregister. CASE MoveUnregister(w)
    BY <1>MoveUnregister
     DEF Types, MoveUnregister, At, Goto, history, OnlyMoves, BoundInv, EnvelopeOwn, FinalPc
  <1>MoveUncount. CASE MoveUncount(w)
    BY <1>MoveUncount
     DEF Types, MoveUncount, At, Goto, shared, history, OnlyMoves, BoundInv, EnvelopeOwn,
         FinalPc
  <1> QED BY <1>MoveRefused, <1>MoveDescribe, <1>MoveRegister, <1>MoveEnsure, <1>MoveActivate,
     <1>MoveAbandon, <1>MoveChecked, <1>MoveOwner, <1>MoveRetention, <1>MoveLogical,
     <1>MovePublish, <1>MoveCancel, <1>MoveTerminate, <1>MoveComplete, <1>MoveEnqueue,
     <1>MoveClear, <1>MoveUnregister, <1>MoveUncount DEF MoveOwn

LEMMA MoveFailBound ==
  ASSUME Types, EndInv, GateInv, BoundInv, NEW t \in Slots \cup {"auditor"}, MoveFailOwn(t)
  PROVE  OnlyMoves(t) => BoundInv'
  <1> USE ThreadNames, ThreadsDiffer, ResultNames
  <1>MoveFail. CASE MoveFail(t)
    BY <1>MoveFail, TerminatedFields
     DEF Types, MoveFail, At, Goto, CanTerminate, EntryType, shared, history, OnlyMoves,
         BoundInv, EnvelopeOwn, FinalPc
  <1>MoveFailClear. CASE MoveFailClear(t)
    BY <1>MoveFailClear, ClearedFields, FinalizeDoes
     DEF Types, MoveFailClear, Goto, At, EntryType, history, OnlyMoves, BoundInv, EnvelopeOwn,
         FinalPc
  <1> QED BY <1>MoveFail, <1>MoveFailClear DEF MoveFailOwn

LEMMA AuditBound ==
  ASSUME Types, EndInv, GateInv, BoundInv, AuditOwn
  PROVE  OnlyMoves("auditor") => BoundInv'
  <1> USE ThreadNames, ThreadsDiffer, ResultNames
  <1>AuditSnapshot. CASE AuditSnapshot
    BY <1>AuditSnapshot, LocalEpoch
     DEF Types, AuditSnapshot, At, Goto, history, OnlyMoves, BoundInv, EnvelopeOwn, FinalPc
  <1>AuditState. CASE AuditState
    BY <1>AuditState, ClearedFields
     DEF Types, AuditState, Goto, At, EntryType, history, OnlyMoves, BoundInv, EnvelopeOwn,
         FinalPc
  <1>AuditRetention. CASE AuditRetention
    BY <1>AuditRetention, ClearedFields, AuditRetentionDoes
     DEF Types, AuditRetention, Goto, At, EntryType, history, OnlyMoves, BoundInv, EnvelopeOwn,
         FinalPc
  <1>AuditAbandon. CASE AuditAbandon
    BY <1>AuditAbandon, ClearedFields, FinalizeDoes
     DEF Types, AuditAbandon, Goto, At, EntryType, history, OnlyMoves, BoundInv, EnvelopeOwn,
         FinalPc, EndInv, EndOwn
  <1> QED BY <1>AuditSnapshot, <1>AuditState, <1>AuditRetention, <1>AuditAbandon DEF AuditOwn

LEMMA BizBound ==
  ASSUME Types, EndInv, GateInv, BoundInv, BusinessOwn
  PROVE  OnlyMoves("business") => BoundInv'
  <1> USE ThreadNames, ThreadsDiffer, ResultNames
  <1>BusinessGranted. CASE BusinessGranted
    BY <1>BusinessGranted
     DEF Types, BusinessGranted, At, Goto, shared, history, OnlyMoves, BoundInv, EnvelopeOwn,
         FinalPc
  <1>BusinessGateClosed. CASE BusinessGateClosed
    BY <1>BusinessGateClosed
     DEF Types, BusinessGateClosed, At, Goto, shared, history, OnlyMoves, BoundInv,
         EnvelopeOwn, FinalPc
  <1>BusinessCheck. CASE BusinessCheck
    BY <1>BusinessCheck, FinalizeDoes
     DEF Types, BusinessCheck, Goto, At, shared, history, OnlyMoves, BoundInv, EnvelopeOwn,
         FinalPc
  <1>TakeForRunning. CASE TakeForRunning
    BY <1>TakeForRunning
     DEF Types, TakeForRunning, At, Goto, EntryType, shared, OnlyMoves, BoundInv, EnvelopeOwn,
         FinalPc
  <1>JobEnds. ASSUME NEW terminal \in {"Completed", "Failed"}, JobEnds(terminal) PROVE OnlyMoves("business") => BoundInv'
    BY <1>JobEnds, TerminatedFields, FinalizeDoes
     DEF Types, JobEnds, CanTerminate, Goto, At, EntryType, shared, history, OnlyMoves,
         BoundInv, EnvelopeOwn, FinalPc
  <1>BusinessAborted. CASE BusinessAborted
    BY <1>BusinessAborted, LocalState
     DEF Types, BusinessAborted, Goto, At, shared, history, OnlyMoves, BoundInv, EnvelopeOwn,
         FinalPc
  <1>Backstop. CASE Backstop
    BY <1>Backstop, FinalizeDoes
     DEF Types, Backstop, Goto, At, shared, history, OnlyMoves, BoundInv, EnvelopeOwn, FinalPc
  <1>BackstopFail. CASE BackstopFail
    BY <1>BackstopFail, TerminatedFields, FinalizeDoes
     DEF Types, BackstopFail, Goto, At, CanTerminate, EntryType, shared, history, OnlyMoves,
         BoundInv, EnvelopeOwn, FinalPc
  <1> QED BY <1>BusinessGranted, <1>BusinessGateClosed, <1>BusinessCheck, <1>TakeForRunning,
     <1>JobEnds, <1>BusinessAborted, <1>Backstop, <1>BackstopFail DEF BusinessOwn

LEMMA CleanupBound ==
  ASSUME Types, EndInv, GateInv, BoundInv, Cleaned
  PROVE  OnlyMoves("cleanup") => BoundInv'
  <1> USE ThreadNames, ThreadsDiffer, ResultNames
  <1>Cleaned. CASE Cleaned
    BY <1>Cleaned
     DEF Types, Cleaned, At, Goto, LeftToOther, history, OnlyMoves, BoundInv, EnvelopeOwn,
         FinalPc
  <1> QED BY <1>Cleaned

LEMMA CloserBound ==
  ASSUME Types, EndInv, GateInv, BoundInv, CloserOwn
  PROVE  OnlyMoves("closer") => BoundInv'
  <1> USE ThreadNames, ThreadsDiffer, ResultNames
  <1>CloseDelayed. CASE CloseDelayed
    BY <1>CloseDelayed
     DEF Types, CloseDelayed, At, Goto, history, OnlyMoves, BoundInv, EnvelopeOwn, FinalPc
  <1>RejectDelayed. CASE RejectDelayed
    BY <1>RejectDelayed, TerminatedFields, FinalizeDoes
     DEF Types, RejectDelayed, Goto, At, CanTerminate, EntryType, shared, history, OnlyMoves,
         BoundInv, EnvelopeOwn, FinalPc
  <1> QED BY <1>CloseDelayed, <1>RejectDelayed DEF CloserOwn


-----------------------------------------------------------------------------
LogicalPc == {"setowner", "setretention", "setqueued", "undoretention", "undoowner"}
CountedPc == {"prepare", "setlogical", "uncount"} \cup LogicalPc
(* A mover that has counted the task at its target and has not yet given   *)
(* the target the place that was counted before.                           *)
Carry == {"mcheckowner", "mowner", "mcheckretention", "mretention", "mchecklogical",
          "mlogical", "muncount"}
TargetPc == {"mregister", "mensure", "mactivate", "mcheckpublish", "mpublish", "mcancel",
             "mbegin", "mcomplete", "menqueue"} \cup Carry

(* Where the task is counted: its logical owner, or the place its          *)
(* publisher has chosen and not yet made the logical owner, or given up.   *)
Where == IF pc["publisher"] \in CountedPc THEN local["publisher"].slot ELSE entry.logical

Counts ==
  /\ pc["publisher"] \in LogicalPc => entry.logical = local["publisher"].slot
  /\ pc["publisher"] \notin LogicalPc \cup {"publish", "done"} => entry.logical = None
  /\ entry.state \in {"Queued", "Moving", "Running"} => entry.logical # None
  /\ accounts.logical = IF Where = None THEN 0 ELSE 1
  /\ \A s \in Slots : accounts.container[s] = (IF Where = s THEN 1 ELSE 0)
                                              + (IF pc[Other(s)] \in Carry THEN 1 ELSE 0)

(* No worker meets the task before its publisher has done.                 *)
Unseen == pc["publisher"] # "done" => at = "nowhere" /\ \A w \in Slots : pc[w] = "idle"
Targets == \A w \in Slots : pc[w] \in TargetPc => local[w].slot = Other(w)

CountInv ==
  /\ Unseen /\ Targets
  /\ (entry.state \notin Ended \/ ~Delayed) => Counts

LEMMA SlotPair ==
  /\ \A w \in Slots : Other(w) \in Slots /\ Other(w) # w /\ Other(Other(w)) = w
  /\ \A v, w \in Slots : v = w \/ v = Other(w)
  /\ Slots \subseteq Threads /\ None \notin Slots
  BY DEF Slots, Other, Threads, None

(* A step of t that has no part in the counts.                             *)
Bystands(t) ==
  /\ pc[t] \notin CountedPc \cup Carry \cup {"publish", "done", "idle"}
  /\ pc'[t] \notin CountedPc \cup TargetPc \cup {"publish"}
  /\ entry.state \in Ended => entry'.state \in Ended
  /\ entry'.state \in {"Queued", "Moving", "Running"} => entry.state \in {"Queued", "Moving", "Running"}
  /\ entry'.logical = entry.logical /\ at' = at
  /\ accounts'.logical = accounts.logical /\ accounts'.container = accounts.container

LEMMA CountFrame ==
  ASSUME CountInv, NEW t \in Threads, OnlyMoves(t), Bystands(t)
  PROVE  CountInv'
  <1> USE ThreadNames, SlotPair, ThreadsDiffer
  <1>1. \A u \in Threads : /\ pc'[u] \in CountedPc <=> pc[u] \in CountedPc
                           /\ pc'[u] \in Carry <=> pc[u] \in Carry
                           /\ pc'[u] \in CountedPc \cup TargetPc \cup {"publish"} => local'[u] = local[u] /\ pc'[u] = pc[u]
    BY DEF Bystands, OnlyMoves, TargetPc
  <1>2. Unseen' /\ Targets'
    <2>1. Unseen'
      BY DEF CountInv, Bystands, OnlyMoves, Unseen
    <2>2. Targets'
      BY <1>1 DEF CountInv, Targets
    <2> QED BY <2>1, <2>2
  <1>3. ASSUME entry'.state \notin Ended \/ ~Delayed
        PROVE  Counts'
    <2>1. Counts
      BY <1>3 DEF CountInv, Bystands
    <2>2. Where' = Where
      BY <1>1 DEF Where, Bystands
    <2>3. \A s \in Slots : pc'[Other(s)] \in Carry <=> pc[Other(s)] \in Carry
      BY <1>1
    <2>4. /\ accounts'.logical = IF Where' = None THEN 0 ELSE 1
          /\ \A s \in Slots : accounts'.container[s] = (IF Where' = s THEN 1 ELSE 0)
                                              + (IF pc'[Other(s)] \in Carry THEN 1 ELSE 0)
      BY <2>1, <2>2, <2>3 DEF Counts, Bystands
    <2>5. /\ pc'["publisher"] \in LogicalPc => entry'.logical = local'["publisher"].slot
          /\ entry'.state \in {"Queued", "Moving", "Running"} => entry'.logical # None
      BY <1>1, <2>1 DEF Counts, Bystands, CountedPc
    <2>6. pc'["publisher"] \notin LogicalPc \cup {"publish", "done"} => entry'.logical = None
      BY <1>1, <2>1 DEF Counts, Bystands, CountedPc, OnlyMoves
    <2> QED BY <2>4, <2>5, <2>6 DEF Counts
  <1> QED BY <1>2, <1>3 DEF CountInv

LEMMA FinalCount ==
  ASSUME Types, EndInv, GateInv, BoundInv, CountInv, NEW t \in Threads, FinalizeStep(t)
  PROVE  OnlyMoves(t) => CountInv'
  <1> USE ThreadNames, ThreadsDiffer, SlotPair, StateNames, ResultNames
  <1>FinalizeState. CASE FinalizeState(t)
    <2>1. Bystands(t)
      BY <1>FinalizeState, ReturnDoes
       DEF Types, FinalizeState, Goto, At, shared, Bystands, CountedPc, LogicalPc, Carry,
           TargetPc, Ended, Terminal, EndInv, EndOwn, KnownPc, FinalPc
    <2> QED BY <2>1, CountFrame
  <1>FinalizePending. CASE FinalizePending(t)
    <2>1. Bystands(t)
      BY <1>FinalizePending, PendingDoes
       DEF Types, FinalizePending, Goto, At, shared, Bystands, CountedPc, LogicalPc, Carry,
           TargetPc, Ended, Terminal, EndInv, EndOwn, KnownPc, FinalPc
    <2> QED BY <2>1, CountFrame
  <1>FinalizeRetention. CASE FinalizeRetention(t)
    <2>1. Bystands(t)
      BY <1>FinalizeRetention, ReturnDoes
       DEF Types, FinalizeRetention, Goto, At, shared, Bystands, CountedPc, LogicalPc, Carry,
           TargetPc, Ended, Terminal, EndInv, EndOwn, KnownPc, FinalPc
    <2> QED BY <2>1, CountFrame
  <1>FinalizeOwner. CASE FinalizeOwner(t)
    <2>1. Bystands(t)
      BY <1>FinalizeOwner, OwnerDoes
       DEF Types, FinalizeOwner, Goto, At, shared, Bystands, CountedPc, LogicalPc, Carry,
           TargetPc, Ended, Terminal, EndInv, EndOwn, KnownPc, FinalPc
    <2> QED BY <2>1, CountFrame
  <1>FinalizeTerminal. CASE FinalizeTerminal(t)
    <2>1. Bystands(t)
      BY <1>FinalizeTerminal, ReturnDoes
       DEF Types, FinalizeTerminal, Goto, At, shared, Bystands, CountedPc, LogicalPc, Carry,
           TargetPc, Ended, Terminal, EndInv, EndOwn, KnownPc, FinalPc
    <2> QED BY <2>1, CountFrame
  <1>FinalizeMove. CASE FinalizeMove(t)
    <2>1. Bystands(t)
      BY <1>FinalizeMove, ReturnDoes
       DEF Types, FinalizeMove, Goto, At, shared, Bystands, CountedPc, LogicalPc, Carry,
           TargetPc, Ended, Terminal, EndInv, EndOwn, KnownPc, FinalPc
    <2> QED BY <2>1, CountFrame
  <1>FinalizeClaim. CASE FinalizeClaim(t)
    <2>1. Bystands(t)
      BY <1>FinalizeClaim, ReturnDoes
       DEF Types, FinalizeClaim, Goto, At, EntryType, shared, Bystands, CountedPc, LogicalPc,
           Carry, TargetPc, Ended, Terminal, EndInv, EndOwn, KnownPc, FinalPc
    <2> QED BY <2>1, CountFrame
  <1>FinalizeDetach. CASE FinalizeDetach(t)
    <2>1. Bystands(t)
      BY <1>FinalizeDetach
       DEF Types, FinalizeDetach, At, Goto, EntryType, shared, Bystands, CountedPc, LogicalPc,
           Carry, TargetPc, Ended, Terminal, EndInv, EndOwn, KnownPc, FinalPc
    <2> QED BY <2>1, CountFrame
  <1>FinalizeLogical. CASE FinalizeLogical(t)
    <2> SUFFICES ASSUME OnlyMoves(t) PROVE CountInv'
      OBVIOUS
    <2>1. /\ pc[t] = "finallogical" /\ pc'[t] = "finalaccount"
          /\ local' = local /\ at' = at /\ entry'.state = entry.state /\ entry'.logical = None
          /\ entry.state \in Ended /\ pc[t] \in FinalPc
      BY <1>FinalizeLogical
         DEF FinalizeLogical, At, Goto, shared, Types, EntryType, EndInv, EndOwn, FinalPc
    <2>2. \A u \in Threads : /\ (pc'[u] \in Carry) = (pc[u] \in Carry)
                             /\ pc'[u] \in TargetPc => pc'[u] = pc[u]
                             /\ (pc'[u] = "done") = (pc[u] = "done")
      BY <2>1 DEF OnlyMoves, Carry, TargetPc
    <2>3. Unseen' /\ Targets'
      <3>1. Targets'
        BY <2>1, <2>2 DEF Targets, CountInv
      <3>2. Unseen'
        BY <2>1, <2>2 DEF Unseen, CountInv, OnlyMoves
      <3> QED BY <3>1, <3>2
    <2>4. ASSUME ~Delayed PROVE Counts'
      <3>1. pc["publisher"] = "done" /\ Counts /\ Settles(t)
        BY <2>1, <2>4, BoundSettles DEF GateInv, Alone, CountInv, Ended
      <3>2. pc'["publisher"] = "done" /\ Where = entry.logical /\ Where' = None
        BY <2>1, <2>2, <3>1 DEF Where, CountedPc, LogicalPc
      <3>3. accounts.container \in [Slots -> Int] /\ entry.logical \in Slots \cup {None}
        BY DEF GateInv, AccountType, Types, EntryType
      <3>4. IF entry.logical # None
            THEN /\ accounts'.logical = accounts.logical - 1
                 /\ accounts'.container = [accounts.container EXCEPT ![entry.logical] = @ - 1]
            ELSE accounts' = accounts
        BY <1>FinalizeLogical, <3>1, LogicalDoes DEF GateInv
      <3>5. /\ accounts'.logical = 0
            /\ \A r \in Slots : accounts'.container[r] = IF pc[Other(r)] \in Carry THEN 1 ELSE 0
        BY <3>1, <3>2, <3>3, <3>4 DEF Counts
      <3> QED BY <2>1, <2>2, <3>2, <3>5 DEF Counts, LogicalPc, Ended, Terminal
    <2> QED BY <2>1, <2>3, <2>4 DEF CountInv
  <1>FinalizeAccount. CASE FinalizeAccount(t)
    <2>1. Bystands(t)
      BY <1>FinalizeAccount, AccountDoes
       DEF Types, FinalizeAccount, At, Goto, shared, Bystands, CountedPc, LogicalPc, Carry,
           TargetPc, Ended, Terminal, EndInv, EndOwn, KnownPc, FinalPc, AccountType, GateInv
    <2> QED BY <2>1, CountFrame
  <1>FinalizePermits. CASE FinalizePermits(t)
    <2>1. Bystands(t)
      BY <1>FinalizePermits
       DEF Types, FinalizePermits, At, Goto, EntryType, shared, Bystands, CountedPc, LogicalPc,
           Carry, TargetPc, Ended, Terminal, EndInv, EndOwn, KnownPc, FinalPc
    <2> QED BY <2>1, CountFrame
  <1>FinalizeRecord. CASE FinalizeRecord(t)
    <2>1. Bystands(t)
      BY <1>FinalizeRecord, ReturnDoes
       DEF Types, FinalizeRecord, Goto, At, EntryType, shared, Bystands, CountedPc, LogicalPc,
           Carry, TargetPc, Ended, Terminal, EndInv, EndOwn, KnownPc, FinalPc
    <2> QED BY <2>1, CountFrame
  <1>FinalizeUnpend. CASE FinalizeUnpend(t)
    <2>1. Bystands(t)
      BY <1>FinalizeUnpend
       DEF Types, FinalizeUnpend, At, Goto, EntryType, shared, Bystands, CountedPc, LogicalPc,
           Carry, TargetPc, Ended, Terminal, EndInv, EndOwn, KnownPc, FinalPc
    <2> QED BY <2>1, CountFrame
  <1>FinalizePublish. CASE FinalizePublish(t)
    <2>1. Bystands(t)
      BY <1>FinalizePublish, ReturnDoes
       DEF Types, FinalizePublish, Goto, At, EntryType, shared, Bystands, CountedPc, LogicalPc,
           Carry, TargetPc, Ended, Terminal, EndInv, EndOwn, KnownPc, FinalPc
    <2> QED BY <2>1, CountFrame
  <1> QED BY <1>FinalizeState, <1>FinalizePending, <1>FinalizeRetention, <1>FinalizeOwner,
     <1>FinalizeTerminal, <1>FinalizeMove, <1>FinalizeClaim, <1>FinalizeDetach,
     <1>FinalizeLogical, <1>FinalizeAccount, <1>FinalizePermits, <1>FinalizeRecord,
     <1>FinalizeUnpend, <1>FinalizePublish DEF FinalizeStep

LEMMA HelpCount ==
  ASSUME Types, EndInv, GateInv, BoundInv, CountInv, NEW t \in Threads, HelpOwn(t)
  PROVE  OnlyMoves(t) => CountInv'
  <1> USE ThreadNames, ThreadsDiffer, SlotPair, StateNames, ResultNames
  <1>Helped. CASE Helped(t)
    <2>1. Bystands(t)
      BY <1>Helped
       DEF Types, Helped, At, Goto, After, Bystands, CountedPc, LogicalPc, Carry, TargetPc,
           Ended, Terminal, AccountType, GateInv
    <2> QED BY <2>1, CountFrame
  <1>FailBeforeRunning. CASE FailBeforeRunning(t)
    <2>1. Bystands(t)
      BY <1>FailBeforeRunning, FinalizeDoes
       DEF Types, FailBeforeRunning, Goto, At, After, shared, Bystands, CountedPc, LogicalPc,
           Carry, TargetPc, Ended, Terminal
    <2> QED BY <2>1, CountFrame
  <1>FailQueued. CASE FailQueued(t)
    <2>1. Bystands(t)
      BY <1>FailQueued, TerminatedFields, FinalizeDoes
       DEF Types, FailQueued, Goto, At, CanTerminate, After, EntryType, shared, Bystands,
           CountedPc, LogicalPc, Carry, TargetPc, Ended, Terminal
    <2> QED BY <2>1, CountFrame
  <1>AuthorityFailure. CASE AuthorityFailure(t)
    <2>1. Bystands(t)
      BY <1>AuthorityFailure, FinalizeDoes, LocalState
       DEF Types, AuthorityFailure, Goto, At, After, Bystands, CountedPc, LogicalPc, Carry,
           TargetPc, Ended, Terminal
    <2> QED BY <2>1, CountFrame
  <1>AuthorityFailFrom. CASE AuthorityFailFrom(t)
    <2>1. Bystands(t)
      BY <1>AuthorityFailFrom, TerminatedFields, FinalizeDoes
       DEF Types, AuthorityFailFrom, Goto, At, CanTerminate, After, EntryType, Bystands,
           CountedPc, LogicalPc, Carry, TargetPc, Ended, Terminal
    <2> QED BY <2>1, CountFrame
  <1> QED BY <1>Helped, <1>FailBeforeRunning, <1>FailQueued, <1>AuthorityFailure, <1>AuthorityFailFrom
   DEF HelpOwn

LEMMA PubCount ==
  ASSUME Types, EndInv, GateInv, BoundInv, CountInv, PublishOwn
  PROVE  OnlyMoves("publisher") => CountInv'
  <1> USE ThreadNames, ThreadsDiffer, SlotPair, StateNames, ResultNames
  <1>ExpireRemove. CASE ExpireRemove
    BY <1>ExpireRemove
     DEF Types, ExpireRemove, At, Goto, history, OnlyMoves, CountInv, Unseen, Targets, Counts,
         Where, CountedPc, LogicalPc, Carry, TargetPc, Ended, GateInv, PlacingPc, Alone
  <1>ClaimExpired. CASE ClaimExpired
    BY <1>ClaimExpired
     DEF Types, ClaimExpired, At, Goto, EntryType, shared, history, OnlyMoves, CountInv,
         Unseen, Targets, Counts, Where, CountedPc, LogicalPc, Carry, TargetPc, Ended, GateInv,
         PlacingPc, Alone
  <1>AdmitExpired. CASE AdmitExpired
    BY <1>AdmitExpired
     DEF Types, AdmitExpired, At, Goto, shared, history, OnlyMoves, CountInv, Unseen, Targets,
         Counts, Where, CountedPc, LogicalPc, Carry, TargetPc, Ended, GateInv, PlacingPc, Alone
  <1>RejectUnbound. CASE RejectUnbound
    BY <1>RejectUnbound, TerminatedFields, FinalizeDoes
     DEF Types, RejectUnbound, Goto, At, CanTerminate, EntryType, shared, history, OnlyMoves,
         CountInv, Unseen, Targets, Counts, Where, CountedPc, LogicalPc, Carry, TargetPc,
         Ended, GateInv, PlacingPc, Alone
  <1>InstallCheck. CASE InstallCheck
    BY <1>InstallCheck
     DEF Types, InstallCheck, At, Goto, shared, history, OnlyMoves, CountInv, Unseen, Targets,
         Counts, Where, CountedPc, LogicalPc, Carry, TargetPc, Ended, GateInv, PlacingPc, Alone
  <1>Install. CASE Install
    BY <1>Install
     DEF Types, Install, At, Goto, EntryType, shared, history, OnlyMoves, CountInv, Unseen,
         Targets, Counts, Where, CountedPc, LogicalPc, Carry, TargetPc, Ended, GateInv,
         PlacingPc, Alone
  <1>Bind. CASE Bind
    BY <1>Bind
     DEF Types, Bind, At, Goto, history, OnlyMoves, CountInv, Unseen, Targets, Counts, Where,
         CountedPc, LogicalPc, Carry, TargetPc, Ended, AccountType, GateInv, PlacingPc, Alone
  <1>Place. ASSUME NEW s \in Slots, Place(s) PROVE OnlyMoves("publisher") => CountInv'
    <2> SUFFICES ASSUME OnlyMoves("publisher") PROVE CountInv'
      OBVIOUS
    <2>1. /\ pc["publisher"] = "place" /\ pc'["publisher"] = "prepare"
          /\ local'["publisher"].slot = s /\ entry' = entry /\ at' = at
      BY <1>Place, PlaceDoes DEF Place, At, shared
    <2>2. /\ accounts.container \in [Slots -> Int] /\ accounts.logical \in Int
          /\ accounts'.container = [accounts.container EXCEPT ![s] = @ + 1]
          /\ accounts'.logical = accounts.logical + 1
      BY <1>Place, PlaceCounts DEF GateInv, AccountType
    <2>3. at = "nowhere" /\ \A w \in Slots : pc[w] = "idle" /\ pc'[w] = "idle"
      BY <2>1 DEF CountInv, Unseen, OnlyMoves
    <2>4. Unseen' /\ Targets'
      BY <2>1, <2>3 DEF Unseen, Targets, TargetPc, Carry
    <2>5. ASSUME entry.state \notin Ended \/ ~Delayed
          PROVE  Counts'
      <3>1. Counts /\ Where' = s
        BY <2>1, <2>5 DEF CountInv, Where, CountedPc
      <3>2. entry.logical = None /\ Where = None
        BY <2>1, <3>1 DEF Counts, Where, CountedPc, LogicalPc
      <3>3. accounts.logical = 0 /\ \A r \in Slots : accounts.container[r] = 0
        BY <2>3, <3>1, <3>2 DEF Counts, Carry
      <3>4. /\ accounts'.logical = IF Where' = None THEN 0 ELSE 1
            /\ \A r \in Slots : accounts'.container[r] = (IF Where' = r THEN 1 ELSE 0)
                                                         + (IF pc'[Other(r)] \in Carry THEN 1 ELSE 0)
        BY <2>2, <2>3, <3>1, <3>3 DEF Carry
      <3>5. entry.state \notin {"Queued", "Moving", "Running"}
        BY <3>1, <3>2 DEF Counts
      <3> QED BY <2>1, <3>2, <3>4, <3>5 DEF Counts, LogicalPc
    <2> QED BY <2>1, <2>4, <2>5 DEF CountInv
  <1>PlacementRefused. CASE PlacementRefused
    BY <1>PlacementRefused
     DEF Types, PlacementRefused, At, Goto, shared, history, OnlyMoves, CountInv, Unseen,
         Targets, Counts, Where, CountedPc, LogicalPc, Carry, TargetPc, Ended, GateInv,
         PlacingPc, Alone
  <1>PrepareCheck. CASE PrepareCheck
    BY <1>PrepareCheck
     DEF Types, PrepareCheck, At, Goto, shared, history, OnlyMoves, CountInv, Unseen, Targets,
         Counts, Where, CountedPc, LogicalPc, Carry, TargetPc, Ended, GateInv, PlacingPc, Alone
  <1>PrepareLogical. CASE PrepareLogical
    BY <1>PrepareLogical
     DEF Types, PrepareLogical, At, Goto, EntryType, shared, history, OnlyMoves, CountInv,
         Unseen, Targets, Counts, Where, CountedPc, LogicalPc, Carry, TargetPc, Ended, GateInv,
         PlacingPc, Alone
  <1>PrepareOwner. CASE PrepareOwner
    BY <1>PrepareOwner
     DEF Types, PrepareOwner, At, Goto, EntryType, shared, history, OnlyMoves, CountInv,
         Unseen, Targets, Counts, Where, CountedPc, LogicalPc, Carry, TargetPc, Ended, GateInv,
         PlacingPc, Alone
  <1>PrepareRetention. CASE PrepareRetention
    BY <1>PrepareRetention
     DEF Types, PrepareRetention, At, Goto, EntryType, shared, history, OnlyMoves, CountInv,
         Unseen, Targets, Counts, Where, CountedPc, LogicalPc, Carry, TargetPc, Ended, GateInv,
         PlacingPc, Alone
  <1>PrepareQueued. CASE PrepareQueued
    <2> SUFFICES ASSUME OnlyMoves("publisher") PROVE CountInv'
      OBVIOUS
    <2>1. /\ pc["publisher"] = "setqueued" /\ pc'["publisher"] \in {"publish", "undoretention"}
          /\ UNCHANGED <<local, accounts, at>> /\ entry'.logical = entry.logical
          /\ entry.state \in Ended => entry'.state \in Ended
          /\ pc'["publisher"] = "undoretention" => entry'.state = entry.state
      BY <1>PrepareQueued DEF PrepareQueued, At, Goto, shared, Types, EntryType, Ended
    <2>2. at = "nowhere" /\ \A w \in Slots : pc[w] = "idle" /\ pc'[w] = "idle"
      BY <2>1 DEF CountInv, Unseen, OnlyMoves
    <2>3. Unseen' /\ Targets'
      BY <2>1, <2>2 DEF Unseen, Targets, TargetPc, Carry
    <2>4. ASSUME entry'.state \notin Ended \/ ~Delayed
          PROVE  Counts'
      <3>1. Counts
        BY <2>1, <2>4 DEF CountInv
      <3>2. entry.logical = local["publisher"].slot /\ local["publisher"].slot \in Slots
        BY <2>1, <3>1 DEF Counts, LogicalPc, Types, LocalType
      <3>3. Where' = Where
        BY <2>1, <3>2 DEF Where, CountedPc, LogicalPc
      <3>4. /\ accounts'.logical = IF Where' = None THEN 0 ELSE 1
            /\ \A r \in Slots : accounts'.container[r] = (IF Where' = r THEN 1 ELSE 0)
                                                         + (IF pc'[Other(r)] \in Carry THEN 1 ELSE 0)
        BY <2>1, <2>2, <3>1, <3>3 DEF Counts
      <3> QED BY <2>1, <3>2, <3>4 DEF Counts, LogicalPc
    <2> QED BY <2>1, <2>3, <2>4 DEF CountInv
  <1>UndoRetention. CASE UndoRetention
    BY <1>UndoRetention
     DEF Types, UndoRetention, At, Goto, EntryType, shared, history, OnlyMoves, CountInv,
         Unseen, Targets, Counts, Where, CountedPc, LogicalPc, Carry, TargetPc, Ended, GateInv,
         PlacingPc, Alone
  <1>UndoOwner. CASE UndoOwner
    BY <1>UndoOwner
     DEF Types, UndoOwner, At, Goto, EntryType, shared, history, OnlyMoves, CountInv, Unseen,
         Targets, Counts, Where, CountedPc, LogicalPc, Carry, TargetPc, Ended, GateInv,
         PlacingPc, Alone
  <1>Uncount. CASE Uncount
    <2> SUFFICES ASSUME OnlyMoves("publisher") PROVE CountInv'
      OBVIOUS
    <2> DEFINE s == local["publisher"].slot
    <2>1. /\ pc["publisher"] = "uncount" /\ pc'["publisher"] = "unplaced"
          /\ s \in Slots /\ entry' = entry /\ at' = at
      BY <1>Uncount DEF Uncount, At, Goto, shared, Types, LocalType
    <2>2. /\ accounts.container \in [Slots -> Int] /\ accounts.logical \in Int
          /\ accounts'.container = [accounts.container EXCEPT ![s] = @ - 1]
          /\ accounts'.logical = accounts.logical - 1
      BY <1>Uncount, UncountDoes DEF GateInv, AccountType
    <2>3. at = "nowhere" /\ \A w \in Slots : pc[w] = "idle" /\ pc'[w] = "idle"
      BY <2>1 DEF CountInv, Unseen, OnlyMoves
    <2>4. Unseen' /\ Targets'
      BY <2>1, <2>3 DEF Unseen, Targets, TargetPc, Carry
    <2>5. ASSUME entry.state \notin Ended \/ ~Delayed
          PROVE  Counts'
      <3>1. Counts /\ Where = s
        BY <2>1, <2>5 DEF CountInv, Where, CountedPc
      <3>2. entry.logical = None /\ Where' = None
        BY <2>1, <3>1 DEF Counts, Where, CountedPc, LogicalPc
      <3>3. /\ accounts.logical = 1
            /\ \A r \in Slots : accounts.container[r] = IF r = s THEN 1 ELSE 0
        BY <2>1, <2>3, <3>1 DEF Counts, Carry
      <3> HIDE DEF s
      <3>4. /\ accounts'.logical = IF Where' = None THEN 0 ELSE 1
            /\ \A r \in Slots : accounts'.container[r] = (IF Where' = r THEN 1 ELSE 0)
                                                         + (IF pc'[Other(r)] \in Carry THEN 1 ELSE 0)
        BY <2>1, <2>2, <2>3, <3>2, <3>3 DEF Carry
      <3>5. entry.state \notin {"Queued", "Moving", "Running"}
        BY <3>1, <3>2 DEF Counts
      <3> QED BY <2>1, <3>2, <3>4, <3>5 DEF Counts, LogicalPc
    <2> QED BY <2>1, <2>4, <2>5 DEF CountInv
  <1>PublishInitial. CASE PublishInitial
    BY <1>PublishInitial
     DEF Types, PublishInitial, At, Goto, history, OnlyMoves, CountInv, Unseen, Targets,
         Counts, Where, CountedPc, LogicalPc, Carry, TargetPc, Ended, GateInv, PlacingPc, Alone
  <1>DropUnplaced. CASE DropUnplaced
    BY <1>DropUnplaced, SettledDoes
     DEF Types, DropUnplaced, At, Goto, EntryType, shared, history, OnlyMoves, CountInv,
         Unseen, Targets, Counts, Where, CountedPc, LogicalPc, Carry, TargetPc, Ended,
         AccountType, GateInv, PlacingPc, Alone
  <1>Unplaced. CASE Unplaced
    BY <1>Unplaced, FinalizeDoes
     DEF Types, Unplaced, Goto, At, shared, history, OnlyMoves, CountInv, Unseen, Targets,
         Counts, Where, CountedPc, LogicalPc, Carry, TargetPc, Ended, GateInv, PlacingPc, Alone
  <1>RejectBound. CASE RejectBound
    BY <1>RejectBound, TerminatedFields, FinalizeDoes
     DEF Types, RejectBound, Goto, At, CanTerminate, EntryType, shared, history, OnlyMoves,
         CountInv, Unseen, Targets, Counts, Where, CountedPc, LogicalPc, Carry, TargetPc,
         Ended, GateInv, PlacingPc, Alone
  <1>SettleUnplaced. CASE SettleUnplaced
    BY <1>SettleUnplaced, SettledDoes
     DEF Types, SettleUnplaced, At, Goto, shared, history, OnlyMoves, CountInv, Unseen,
         Targets, Counts, Where, CountedPc, LogicalPc, Carry, TargetPc, Ended, AccountType,
         GateInv, PlacingPc, Alone
  <1> QED BY <1>ExpireRemove, <1>ClaimExpired, <1>AdmitExpired, <1>RejectUnbound, <1>InstallCheck,
     <1>Install, <1>Bind, <1>Place, <1>PlacementRefused, <1>PrepareCheck, <1>PrepareLogical,
     <1>PrepareOwner, <1>PrepareRetention, <1>PrepareQueued, <1>UndoRetention, <1>UndoOwner,
     <1>Uncount, <1>PublishInitial, <1>DropUnplaced, <1>Unplaced, <1>RejectBound,
     <1>SettleUnplaced DEF PublishOwn

LEMMA CallCount ==
  ASSUME Types, EndInv, GateInv, BoundInv, CountInv, NEW c \in Callers, CallOwn(c)
  PROVE  OnlyMoves(c) => CountInv'
  <1> USE ThreadNames, ThreadsDiffer, SlotPair, StateNames, ResultNames
  <1>CancelCall. CASE CancelCall(c)
    BY <1>CancelCall
     DEF Types, CancelCall, At, Goto, shared, history, OnlyMoves, CountInv, Unseen, Targets,
         Counts, Where, CountedPc, LogicalPc, Carry, TargetPc, Ended
  <1>CancelRead. CASE CancelRead(c)
    BY <1>CancelRead, LocalState
     DEF Types, CancelRead, Goto, At, Answer, shared, OnlyMoves, CountInv, Unseen, Targets,
         Counts, Where, CountedPc, LogicalPc, Carry, TargetPc, Ended
  <1>CancelTerminate. CASE CancelTerminate(c)
    <2>1. Bystands(c)
      BY <1>CancelTerminate, TerminatedFields
       DEF Types, CancelTerminate, Goto, At, CanTerminate, Answer, EntryType, shared, Bystands,
           CountedPc, LogicalPc, Carry, TargetPc, Ended, Terminal
    <2> QED BY <2>1, CountFrame
  <1>CancelDefer. CASE CancelDefer(c)
    BY <1>CancelDefer
     DEF Types, CancelDefer, At, Goto, Answer, EntryType, shared, OnlyMoves, CountInv, Unseen,
         Targets, Counts, Where, CountedPc, LogicalPc, Carry, TargetPc, Ended
  <1>RetireDelayed. CASE RetireDelayed(c)
    BY <1>RetireDelayed
     DEF Types, RetireDelayed, At, Goto, history, OnlyMoves, CountInv, Unseen, Targets, Counts,
         Where, CountedPc, LogicalPc, Carry, TargetPc, Ended
  <1>BindChecked. CASE BindChecked(c)
    BY <1>BindChecked
     DEF Types, BindChecked, At, Goto, shared, history, OnlyMoves, CountInv, Unseen, Targets,
         Counts, Where, CountedPc, LogicalPc, Carry, TargetPc, Ended
  <1>CancelFinalize. CASE CancelFinalize(c)
    BY <1>CancelFinalize, CancelFinalizeDoes
     DEF Types, CancelFinalize, Goto, At, shared, history, OnlyMoves, CountInv, Unseen,
         Targets, Counts, Where, CountedPc, LogicalPc, Carry, TargetPc, Ended
  <1>CancelSettled. CASE CancelSettled(c)
    <2>1. Bystands(c)
      BY <1>CancelSettled
       DEF Types, CancelSettled, At, Goto, Answer, Bystands, CountedPc, LogicalPc, Carry,
           TargetPc, Ended, Terminal, AccountType, GateInv
    <2> QED BY <2>1, CountFrame
  <1> QED BY <1>CancelCall, <1>CancelRead, <1>CancelTerminate, <1>CancelDefer, <1>RetireDelayed,
     <1>BindChecked, <1>CancelFinalize, <1>CancelSettled DEF CallOwn

LEMMA WorkCount ==
  ASSUME Types, EndInv, GateInv, BoundInv, CountInv, NEW w \in Slots, WorkOwn(w)
  PROVE  OnlyMoves(w) => CountInv'
  <1> USE ThreadNames, ThreadsDiffer, SlotPair, StateNames, ResultNames
  <1>Receive. CASE Receive(w)
    BY <1>Receive
     DEF Types, Receive, At, Goto, history, OnlyMoves, CountInv, Unseen, Targets, Counts,
         Where, CountedPc, LogicalPc, Carry, TargetPc, Ended
  <1>Received. CASE Received(w)
    BY <1>Received
     DEF Types, Received, At, Goto, shared, history, OnlyMoves, CountInv, Unseen, Targets,
         Counts, Where, CountedPc, LogicalPc, Carry, TargetPc, Ended
  <1>ClaimMove. CASE ClaimMove(w)
    BY <1>ClaimMove
     DEF Types, ClaimMove, At, Goto, EntryType, shared, history, OnlyMoves, CountInv, Unseen,
         Targets, Counts, Where, CountedPc, LogicalPc, Carry, TargetPc, Ended
  <1>ClaimRetention. CASE ClaimRetention(w)
    BY <1>ClaimRetention
     DEF Types, ClaimRetention, At, Goto, EntryType, shared, history, OnlyMoves, CountInv,
         Unseen, Targets, Counts, Where, CountedPc, LogicalPc, Carry, TargetPc, Ended
  <1>Claimed. CASE Claimed(w)
    <2>1. Bystands(w)
      BY <1>Claimed, FinalizeDoes
       DEF Types, Claimed, Goto, At, shared, Bystands, CountedPc, LogicalPc, Carry, TargetPc,
           Ended, Terminal
    <2> QED BY <2>1, CountFrame
  <1>MoveBegin. CASE MoveBegin(w)
    BY <1>MoveBegin
     DEF Types, MoveBegin, At, Goto, shared, history, OnlyMoves, CountInv, Unseen, Targets,
         Counts, Where, CountedPc, LogicalPc, Carry, TargetPc, Ended
  <1> QED BY <1>Receive, <1>Received, <1>ClaimMove, <1>ClaimRetention, <1>Claimed, <1>MoveBegin
   DEF WorkOwn

LEMMA MoveCount ==
  ASSUME Types, EndInv, GateInv, BoundInv, CountInv, NEW w \in Slots, MoveOwn(w)
  PROVE  OnlyMoves(w) => CountInv'
  <1> USE ThreadNames, ThreadsDiffer, SlotPair, StateNames, ResultNames
  <1>MoveRefused. CASE MoveRefused(w)
    <2>1. Bystands(w)
      BY <1>MoveRefused, FinalizeDoes
       DEF Types, MoveRefused, Goto, At, shared, Bystands, CountedPc, LogicalPc, Carry,
           TargetPc, Ended, Terminal
    <2> QED BY <2>1, CountFrame
  <1>MoveDescribe. CASE MoveDescribe(w)
    <2> SUFFICES ASSUME OnlyMoves(w) PROVE CountInv'
      OBVIOUS
    <2>1. /\ pc[w] = "mdescribe" /\ pc'[w] \in {"mregister", "mprepare"}
          /\ local'[w].slot = Other(w) /\ UNCHANGED <<at, accounts>>
          /\ entry'.state = entry.state /\ entry'.logical = entry.logical
      BY <1>MoveDescribe, DescribeDoes DEF MoveDescribe, At, shared
    <2>2. pc["publisher"] = "done" /\ pc'["publisher"] = "done"
      BY <2>1 DEF CountInv, Unseen, OnlyMoves
    <2>3. Unseen' /\ Targets'
      BY <2>1, <2>2 DEF Unseen, Targets, OnlyMoves, CountInv
    <2>4. Where' = Where /\ \A u \in Slots : (pc'[u] \in Carry) = (pc[u] \in Carry)
      BY <2>1, <2>2 DEF Where, CountedPc, LogicalPc, Carry, OnlyMoves
    <2>5. ASSUME Counts PROVE Counts'
      BY <2>1, <2>2, <2>4, <2>5 DEF Counts, LogicalPc
    <2> QED BY <2>1, <2>3, <2>5 DEF CountInv
  <1>MoveRegister. CASE MoveRegister(w)
    BY <1>MoveRegister
     DEF Types, MoveRegister, At, Goto, history, OnlyMoves, CountInv, Unseen, Targets, Counts,
         Where, CountedPc, LogicalPc, Carry, TargetPc, Ended
  <1>MoveEnsure. CASE MoveEnsure(w)
    BY <1>MoveEnsure
     DEF Types, MoveEnsure, At, Goto, shared, history, OnlyMoves, CountInv, Unseen, Targets,
         Counts, Where, CountedPc, LogicalPc, Carry, TargetPc, Ended
  <1>MoveActivate. CASE MoveActivate(w)
    <2> SUFFICES ASSUME OnlyMoves(w) PROVE CountInv'
      OBVIOUS
    <2> DEFINE s == local[w].slot
    <2>1. /\ pc[w] = "mactivate" /\ pc'[w] \in {"mcheckowner", "mabandon"}
          /\ local' = local /\ entry'.logical = entry.logical /\ s = Other(w) /\ s \in Slots /\ at' = at
          /\ entry.state \in Ended => entry'.state \in Ended
      BY <1>MoveActivate DEF MoveActivate, At, Goto, shared, CountInv, Targets, TargetPc, Carry, Types, EntryType, Ended
    <2>2. pc["publisher"] = "done" /\ pc'["publisher"] = "done"
      BY <2>1 DEF CountInv, Unseen, OnlyMoves
    <2>3. Unseen' /\ Targets'
      BY <2>1, <2>2 DEF Unseen, Targets, OnlyMoves, CountInv
    <2>4. Where = entry.logical /\ Where' = entry'.logical
      BY <2>2 DEF Where, CountedPc, LogicalPc
    <2>5. accounts.container \in [Slots -> Int] /\ accounts.logical \in Int /\ entry.logical \in Slots \cup {None}
      BY DEF GateInv, AccountType, Types, EntryType
    <2>6. pc'[s] = pc[s]
      BY <2>1 DEF OnlyMoves
    <2>7. CASE entry.state = "Queued"
      <3>1. /\ pc'[w] = "mcheckowner" /\ accounts'.logical = accounts.logical
            /\ accounts'.container = [accounts.container EXCEPT ![s] = @ + 1]
        BY <1>MoveActivate, <2>7, MoveCountDoes DEF MoveActivate, At, Goto, GateInv, Types
      <3> HIDE DEF s
      <3>2. ASSUME Counts PROVE Counts'
        <4>1. \A r \in Slots : accounts'.container[r] = (IF Where' = r THEN 1 ELSE 0)
                                                     + (IF pc'[Other(r)] \in Carry THEN 1 ELSE 0)
          BY <2>1, <2>4, <2>5, <2>6, <3>1, <3>2 DEF Counts, Carry
        <4> QED BY <2>1, <2>2, <2>4, <2>7, <3>1, <3>2, <4>1 DEF Counts, LogicalPc
      <3> QED BY <2>1, <2>3, <3>2 DEF CountInv
    <2>8. CASE entry.state # "Queued"
      <3>1. pc'[w] = "mabandon" /\ accounts' = accounts /\ entry' = entry
        BY <1>MoveActivate, <2>8 DEF MoveActivate, At, Goto, Types
      <3> HIDE DEF s
      <3>2. \A u \in Slots : (pc'[u] \in Carry) = (pc[u] \in Carry)
        BY <2>1, <3>1 DEF Carry, OnlyMoves
      <3>3. ASSUME Counts PROVE Counts'
        BY <2>1, <2>2, <2>4, <3>1, <3>2, <3>3 DEF Counts, LogicalPc
      <3> QED BY <2>1, <2>3, <3>3 DEF CountInv
    <2> QED BY <2>7, <2>8
  <1>MoveAbandon. CASE MoveAbandon(w)
    <2>1. Bystands(w)
      BY <1>MoveAbandon, FinalizeDoes
       DEF Types, MoveAbandon, Goto, At, EntryType, Bystands, CountedPc, LogicalPc, Carry,
           TargetPc, Ended, Terminal
    <2> QED BY <2>1, CountFrame
  <1>MoveChecked. CASE MoveChecked(w)
    BY <1>MoveChecked
     DEF Types, MoveChecked, MoveCheck, At, Goto, shared, history, OnlyMoves, CountInv, Unseen,
         Targets, Counts, Where, CountedPc, LogicalPc, Carry, TargetPc, Ended
  <1>MoveOwner. CASE MoveOwner(w)
    BY <1>MoveOwner
     DEF Types, MoveOwner, At, Goto, EntryType, shared, history, OnlyMoves, CountInv, Unseen,
         Targets, Counts, Where, CountedPc, LogicalPc, Carry, TargetPc, Ended
  <1>MoveRetention. CASE MoveRetention(w)
    BY <1>MoveRetention
     DEF Types, MoveRetention, At, Goto, EntryType, shared, history, OnlyMoves, CountInv,
         Unseen, Targets, Counts, Where, CountedPc, LogicalPc, Carry, TargetPc, Ended
  <1>MoveLogical. CASE MoveLogical(w)
    <2> SUFFICES ASSUME OnlyMoves(w) PROVE CountInv'
      OBVIOUS
    <2> DEFINE s == local[w].slot
    <2>1. /\ pc[w] = "mlogical" /\ pc'[w] \in {"mcheckpublish", "muncount"}
          /\ local' = local /\ s = Other(w) /\ s \in Slots /\ at' = at
          /\ entry.state \in Ended => entry'.state \in Ended
      BY <1>MoveLogical DEF MoveLogical, At, Goto, shared, CountInv, Targets, TargetPc, Carry, Types, EntryType, Ended
    <2>2. pc["publisher"] = "done" /\ pc'["publisher"] = "done"
      BY <2>1 DEF CountInv, Unseen, OnlyMoves
    <2>3. Unseen' /\ Targets'
      BY <2>1, <2>2 DEF Unseen, Targets, OnlyMoves, CountInv
    <2>4. Where = entry.logical /\ Where' = entry'.logical
      BY <2>2 DEF Where, CountedPc, LogicalPc
    <2>5. accounts.container \in [Slots -> Int] /\ accounts.logical \in Int /\ entry.logical \in Slots \cup {None}
      BY DEF GateInv, AccountType, Types, EntryType
    <2>6. pc'[s] = pc[s]
      BY <2>1 DEF OnlyMoves
    <2>7. CASE entry.logical # None
      <3>1. /\ pc'[w] = "mcheckpublish" /\ accounts'.logical = accounts.logical
            /\ accounts'.container = [accounts.container EXCEPT ![entry.logical] = @ - 1]
            /\ entry'.logical = s
        BY <1>MoveLogical, <2>7, MoveCountDoes DEF MoveLogical, At, Goto, GateInv, Types, EntryType
      <3> HIDE DEF s
      <3>2. ASSUME Counts PROVE Counts'
        <4>1. \A r \in Slots : accounts'.container[r] = (IF Where' = r THEN 1 ELSE 0)
                                                     + (IF pc'[Other(r)] \in Carry THEN 1 ELSE 0)
          <5>1. pc[w] \in Carry /\ pc'[w] \notin Carry
            BY <2>1, <3>1 DEF Carry
          <5>2. \A r \in Slots : r = w \/ r = s
            BY <2>1
          <5>3. /\ accounts.container[w] = (IF entry.logical = w THEN 1 ELSE 0) + (IF pc[s] \in Carry THEN 1 ELSE 0)
                /\ accounts.container[s] = (IF entry.logical = s THEN 1 ELSE 0) + 1
            BY <2>1, <2>4, <3>2, <5>1 DEF Counts
          <5>4. /\ accounts'.container[w] = (IF pc[s] \in Carry THEN 1 ELSE 0)
                /\ accounts'.container[s] = 1
            BY <2>1, <2>5, <2>7, <3>1, <5>2, <5>3
          <5> QED BY <2>1, <2>4, <2>6, <3>1, <5>1, <5>2, <5>4
        <4> QED BY <2>1, <2>2, <2>4, <2>7, <3>1, <3>2, <4>1 DEF Counts, LogicalPc
      <3> QED BY <2>1, <2>3, <3>2 DEF CountInv
    <2>8. CASE entry.logical = None
      <3>1. pc'[w] = "muncount" /\ accounts' = accounts /\ entry' = entry
        BY <1>MoveLogical, <2>8 DEF MoveLogical, At, Goto, Types
      <3> HIDE DEF s
      <3>2. \A u \in Slots : (pc'[u] \in Carry) = (pc[u] \in Carry)
        BY <2>1, <3>1 DEF Carry, OnlyMoves
      <3>3. ASSUME Counts PROVE Counts'
        BY <2>1, <2>2, <2>4, <3>1, <3>2, <3>3 DEF Counts, LogicalPc
      <3> QED BY <2>1, <2>3, <3>3 DEF CountInv
    <2> QED BY <2>7, <2>8
  <1>MovePublish. CASE MovePublish(w)
    BY <1>MovePublish
     DEF Types, MovePublish, At, Goto, EntryType, shared, history, OnlyMoves, CountInv, Unseen,
         Targets, Counts, Where, CountedPc, LogicalPc, Carry, TargetPc, Ended
  <1>MoveCancel. CASE MoveCancel(w)
    BY <1>MoveCancel
     DEF Types, MoveCancel, At, Goto, EntryType, shared, history, OnlyMoves, CountInv, Unseen,
         Targets, Counts, Where, CountedPc, LogicalPc, Carry, TargetPc, Ended
  <1>MoveTerminate. CASE MoveTerminate(w)
    BY <1>MoveTerminate, TerminatedFields
     DEF Types, MoveTerminate, At, Goto, CanTerminate, EntryType, shared, history, OnlyMoves,
         CountInv, Unseen, Targets, Counts, Where, CountedPc, LogicalPc, Carry, TargetPc, Ended
  <1>MoveComplete. CASE MoveComplete(w)
    BY <1>MoveComplete
     DEF Types, MoveComplete, At, Goto, shared, history, OnlyMoves, CountInv, Unseen, Targets,
         Counts, Where, CountedPc, LogicalPc, Carry, TargetPc, Ended
  <1>MoveEnqueue. CASE MoveEnqueue(w)
    BY <1>MoveEnqueue
     DEF Types, MoveEnqueue, At, Goto, history, OnlyMoves, CountInv, Unseen, Targets, Counts,
         Where, CountedPc, LogicalPc, Carry, TargetPc, Ended
  <1>MoveClear. CASE MoveClear(w)
    BY <1>MoveClear, ClearedFields
     DEF Types, MoveClear, At, Goto, EntryType, shared, history, OnlyMoves, CountInv, Unseen,
         Targets, Counts, Where, CountedPc, LogicalPc, Carry, TargetPc, Ended
  <1>MoveUnregister. CASE MoveUnregister(w)
    BY <1>MoveUnregister
     DEF Types, MoveUnregister, At, Goto, history, OnlyMoves, CountInv, Unseen, Targets,
         Counts, Where, CountedPc, LogicalPc, Carry, TargetPc, Ended
  <1>MoveUncount. CASE MoveUncount(w)
    <2> SUFFICES ASSUME OnlyMoves(w) PROVE CountInv'
      OBVIOUS
    <2> DEFINE s == local[w].slot
    <2>1. /\ pc[w] = "muncount" /\ pc'[w] \in {"mfail"}
          /\ local' = local /\ s = Other(w) /\ s \in Slots /\ at' = at
          /\ entry.state \in Ended => entry'.state \in Ended
      BY <1>MoveUncount DEF MoveUncount, At, Goto, shared, CountInv, Targets, TargetPc, Carry, Types, EntryType, Ended
    <2>2. pc["publisher"] = "done" /\ pc'["publisher"] = "done"
      BY <2>1 DEF CountInv, Unseen, OnlyMoves
    <2>3. Unseen' /\ Targets'
      BY <2>1, <2>2 DEF Unseen, Targets, OnlyMoves, CountInv
    <2>4. Where = entry.logical /\ Where' = entry'.logical
      BY <2>2 DEF Where, CountedPc, LogicalPc
    <2>5. accounts.container \in [Slots -> Int] /\ accounts.logical \in Int /\ entry.logical \in Slots \cup {None}
      BY DEF GateInv, AccountType, Types, EntryType
    <2>6. pc'[s] = pc[s]
      BY <2>1 DEF OnlyMoves
    <2>7. /\ entry' = entry /\ accounts'.logical = accounts.logical
          /\ accounts'.container = [accounts.container EXCEPT ![s] = @ - 1]
      BY <1>MoveUncount, MoveCountDoes DEF MoveUncount, GateInv
    <2> HIDE DEF s
    <2>8. ASSUME Counts PROVE Counts'
      <3>1. \A r \in Slots : accounts'.container[r] = (IF Where' = r THEN 1 ELSE 0)
                                                   + (IF pc'[Other(r)] \in Carry THEN 1 ELSE 0)
        BY <2>1, <2>4, <2>5, <2>6, <2>7, <2>8 DEF Counts, Carry
      <3> QED BY <2>1, <2>2, <2>4, <2>7, <2>8, <3>1 DEF Counts, LogicalPc
    <2> QED BY <2>1, <2>3, <2>7, <2>8 DEF CountInv
  <1> QED BY <1>MoveRefused, <1>MoveDescribe, <1>MoveRegister, <1>MoveEnsure, <1>MoveActivate,
     <1>MoveAbandon, <1>MoveChecked, <1>MoveOwner, <1>MoveRetention, <1>MoveLogical,
     <1>MovePublish, <1>MoveCancel, <1>MoveTerminate, <1>MoveComplete, <1>MoveEnqueue,
     <1>MoveClear, <1>MoveUnregister, <1>MoveUncount DEF MoveOwn

LEMMA MoveFailCount ==
  ASSUME Types, EndInv, GateInv, BoundInv, CountInv, NEW t \in Slots \cup {"auditor"}, MoveFailOwn(t)
  PROVE  OnlyMoves(t) => CountInv'
  <1> USE ThreadNames, ThreadsDiffer, SlotPair, StateNames, ResultNames
  <1>MoveFail. CASE MoveFail(t)
    BY <1>MoveFail, TerminatedFields
     DEF Types, MoveFail, At, Goto, CanTerminate, EntryType, shared, history, OnlyMoves,
         CountInv, Unseen, Targets, Counts, Where, CountedPc, LogicalPc, Carry, TargetPc, Ended
  <1>MoveFailClear. CASE MoveFailClear(t)
    <2>1. Bystands(t)
      BY <1>MoveFailClear, ClearedFields, FinalizeDoes
       DEF Types, MoveFailClear, Goto, At, EntryType, Bystands, CountedPc, LogicalPc, Carry,
           TargetPc, Ended, Terminal
    <2> QED BY <2>1, CountFrame
  <1> QED BY <1>MoveFail, <1>MoveFailClear DEF MoveFailOwn

LEMMA AuditCount ==
  ASSUME Types, EndInv, GateInv, BoundInv, CountInv, AuditOwn
  PROVE  OnlyMoves("auditor") => CountInv'
  <1> USE ThreadNames, ThreadsDiffer, SlotPair, StateNames, ResultNames
  <1>AuditSnapshot. CASE AuditSnapshot
    BY <1>AuditSnapshot, LocalEpoch
     DEF Types, AuditSnapshot, At, Goto, history, OnlyMoves, CountInv, Unseen, Targets, Counts,
         Where, CountedPc, LogicalPc, Carry, TargetPc, Ended
  <1>AuditState. CASE AuditState
    BY <1>AuditState, ClearedFields
     DEF Types, AuditState, Goto, At, EntryType, history, OnlyMoves, CountInv, Unseen, Targets,
         Counts, Where, CountedPc, LogicalPc, Carry, TargetPc, Ended
  <1>AuditRetention. CASE AuditRetention
    BY <1>AuditRetention, ClearedFields, AuditRetentionDoes
     DEF Types, AuditRetention, Goto, At, EntryType, history, OnlyMoves, CountInv, Unseen,
         Targets, Counts, Where, CountedPc, LogicalPc, Carry, TargetPc, Ended
  <1>AuditAbandon. CASE AuditAbandon
    <2>1. Bystands("auditor")
      BY <1>AuditAbandon, ClearedFields, FinalizeDoes
       DEF Types, AuditAbandon, Goto, At, EntryType, Bystands, CountedPc, LogicalPc, Carry,
           TargetPc, Ended, Terminal, EndInv, EndOwn, KnownPc, FinalPc
    <2> QED BY <2>1, CountFrame
  <1> QED BY <1>AuditSnapshot, <1>AuditState, <1>AuditRetention, <1>AuditAbandon DEF AuditOwn

LEMMA BizCount ==
  ASSUME Types, EndInv, GateInv, BoundInv, CountInv, BusinessOwn
  PROVE  OnlyMoves("business") => CountInv'
  <1> USE ThreadNames, ThreadsDiffer, SlotPair, StateNames, ResultNames
  <1>BusinessGranted. CASE BusinessGranted
    BY <1>BusinessGranted
     DEF Types, BusinessGranted, At, Goto, shared, history, OnlyMoves, CountInv, Unseen,
         Targets, Counts, Where, CountedPc, LogicalPc, Carry, TargetPc, Ended
  <1>BusinessGateClosed. CASE BusinessGateClosed
    BY <1>BusinessGateClosed
     DEF Types, BusinessGateClosed, At, Goto, shared, history, OnlyMoves, CountInv, Unseen,
         Targets, Counts, Where, CountedPc, LogicalPc, Carry, TargetPc, Ended
  <1>BusinessCheck. CASE BusinessCheck
    <2>1. Bystands("business")
      BY <1>BusinessCheck, FinalizeDoes
       DEF Types, BusinessCheck, Goto, At, shared, Bystands, CountedPc, LogicalPc, Carry,
           TargetPc, Ended, Terminal
    <2> QED BY <2>1, CountFrame
  <1>TakeForRunning. CASE TakeForRunning
    <2>1. Bystands("business")
      BY <1>TakeForRunning
       DEF Types, TakeForRunning, At, Goto, EntryType, shared, Bystands, CountedPc, LogicalPc,
           Carry, TargetPc, Ended, Terminal, AccountType, GateInv
    <2> QED BY <2>1, CountFrame
  <1>JobEnds. ASSUME NEW terminal \in {"Completed", "Failed"}, JobEnds(terminal) PROVE OnlyMoves("business") => CountInv'
    <2>1. Bystands("business")
      BY <1>JobEnds, TerminatedFields, FinalizeDoes
       DEF Types, JobEnds, CanTerminate, Goto, At, EntryType, shared, Bystands, CountedPc,
           LogicalPc, Carry, TargetPc, Ended, Terminal
    <2> QED BY <2>1, CountFrame
  <1>BusinessAborted. CASE BusinessAborted
    BY <1>BusinessAborted, LocalState
     DEF Types, BusinessAborted, Goto, At, shared, history, OnlyMoves, CountInv, Unseen,
         Targets, Counts, Where, CountedPc, LogicalPc, Carry, TargetPc, Ended
  <1>Backstop. CASE Backstop
    <2>1. Bystands("business")
      BY <1>Backstop, FinalizeDoes
       DEF Types, Backstop, Goto, At, shared, Bystands, CountedPc, LogicalPc, Carry, TargetPc,
           Ended, Terminal
    <2> QED BY <2>1, CountFrame
  <1>BackstopFail. CASE BackstopFail
    <2>1. Bystands("business")
      BY <1>BackstopFail, TerminatedFields, FinalizeDoes
       DEF Types, BackstopFail, Goto, At, CanTerminate, EntryType, shared, Bystands, CountedPc,
           LogicalPc, Carry, TargetPc, Ended, Terminal
    <2> QED BY <2>1, CountFrame
  <1> QED BY <1>BusinessGranted, <1>BusinessGateClosed, <1>BusinessCheck, <1>TakeForRunning,
     <1>JobEnds, <1>BusinessAborted, <1>Backstop, <1>BackstopFail DEF BusinessOwn

LEMMA CleanupCount ==
  ASSUME Types, EndInv, GateInv, BoundInv, CountInv, Cleaned
  PROVE  OnlyMoves("cleanup") => CountInv'
  <1> USE ThreadNames, ThreadsDiffer, SlotPair, StateNames, ResultNames
  <1>Cleaned. CASE Cleaned
    <2>1. Bystands("cleanup")
      BY <1>Cleaned
       DEF Types, Cleaned, At, Goto, Bystands, CountedPc, LogicalPc, Carry, TargetPc, Ended,
           Terminal, AccountType, GateInv
    <2> QED BY <2>1, CountFrame
  <1> QED BY <1>Cleaned

LEMMA CloserCount ==
  ASSUME Types, EndInv, GateInv, BoundInv, CountInv, CloserOwn
  PROVE  OnlyMoves("closer") => CountInv'
  <1> USE ThreadNames, ThreadsDiffer, SlotPair, StateNames, ResultNames
  <1>CloseDelayed. CASE CloseDelayed
    BY <1>CloseDelayed
     DEF Types, CloseDelayed, At, Goto, history, OnlyMoves, CountInv, Unseen, Targets, Counts,
         Where, CountedPc, LogicalPc, Carry, TargetPc, Ended
  <1>RejectDelayed. CASE RejectDelayed
    <2>1. Bystands("closer")
      BY <1>RejectDelayed, TerminatedFields, FinalizeDoes
       DEF Types, RejectDelayed, Goto, At, CanTerminate, EntryType, shared, Bystands,
           CountedPc, LogicalPc, Carry, TargetPc, Ended, Terminal
    <2> QED BY <2>1, CountFrame
  <1> QED BY <1>CloseDelayed, <1>RejectDelayed DEF CloserOwn


LEMMA BoundKept ==
  ASSUME Types, EndInv, GateInv, BoundInv, [Next]_vars
  PROVE  BoundInv'
  <1> USE ThreadNames
  <1>1. ASSUME NEW t \in Threads, FinalizeStep(t) \/ HelpOwn(t)
        PROVE  BoundInv'
    BY <1>1, FinalTypes, HelpTypes, FinalBound, HelpBound
  <1>2. CASE PublishOwn
    BY <1>2, PubTypes, PubBound
  <1>3. ASSUME NEW c \in Callers, CallOwn(c)
        PROVE  BoundInv'
    BY <1>3, CallTypes, CallBound
  <1>4. ASSUME NEW c \in Callers, ScheduleCleanup(c)
        PROVE  BoundInv'
    <2>1. ~bound /\ bound' = bound
      BY <1>4, ScheduleDoes DEF ScheduleCleanup, shared
    <2> QED BY <2>1 DEF BoundInv
  <1>5. ASSUME NEW w \in Slots, WorkOwn(w) \/ MoveOwn(w)
        PROVE  BoundInv'
    BY <1>5, WorkTypes, MoveTypes, WorkBound, MoveBound
  <1>6. ASSUME NEW w \in Slots, Dispatch(w)
        PROVE  BoundInv'
    <2>1. /\ UNCHANGED bound
          /\ \A u \in Threads \ {w, "business"} : pc'[u] = pc[u] /\ local'[u] = local[u]
          /\ pc'[w] \in {"final", "idle", "failrun"}
          /\ pc'[w] = "final" => local'[w].cont = "helped"
          /\ \/ pc'["business"] = "waiting"
             \/ pc'["business"] = pc["business"] /\ local'["business"] = local["business"]
      BY <1>6, DispatchDoes, ThreadsDiffer DEF Dispatch, shared, OnlyMoves
    <2>2. ASSUME NEW u \in Threads, EnvelopeOwn(u) PROVE EnvelopeOwn(u)'
      BY <2>1, <2>2, ThreadsDiffer DEF EnvelopeOwn, FinalPc
    <2> QED BY <2>1, <2>2, ThreadsDiffer DEF BoundInv
  <1>7. ASSUME NEW t \in Slots \cup {"auditor"}, MoveFailOwn(t)
        PROVE  BoundInv'
    BY <1>7, MoveFailTypes, MoveFailBound
  <1>8. CASE AuditOwn
    BY <1>8, AuditTypes, AuditBound
  <1>9. CASE BusinessOwn
    BY <1>9, BizTypes, BizBound
  <1>10. CASE Cleaned
    BY <1>10, CleanupTypes, CleanupBound
  <1>11. CASE CloserOwn
    BY <1>11, CloserTypes, CloserBound
  <1>12. CASE ForceStop \/ UNCHANGED vars
    BY <1>12 DEF ForceStop, vars, shared, history, BoundInv, EnvelopeOwn
  <1> QED BY <1>1, <1>2, <1>3, <1>4, <1>5, <1>6, <1>7, <1>8, <1>9, <1>10, <1>11, <1>12, NextCases


LEMMA CountKept ==
  ASSUME Types, EndInv, GateInv, BoundInv, CountInv, [Next]_vars
  PROVE  CountInv'
  <1> USE ThreadNames
  <1>1. ASSUME NEW t \in Threads, FinalizeStep(t) \/ HelpOwn(t)
        PROVE  CountInv'
    BY <1>1, FinalTypes, HelpTypes, FinalCount, HelpCount
  <1>2. CASE PublishOwn
    BY <1>2, PubTypes, PubCount
  <1>3. ASSUME NEW c \in Callers, CallOwn(c)
        PROVE  CountInv'
    BY <1>3, CallTypes, CallCount
  <1>4. ASSUME NEW c \in Callers, ScheduleCleanup(c)
        PROVE  CountInv'
    <2>1. UNCHANGED <<entry, accounts, at>> /\ pc["publisher"] = pc'["publisher"]
      BY <1>4, ScheduleDoes, ThreadsDiffer DEF ScheduleCleanup, shared
    <2>2. /\ \A w \in Slots : pc'[w] = pc[w] /\ local'[w] = local[w]
          /\ local'["publisher"] = local["publisher"]
      BY <1>4, ScheduleDoes, ThreadsDiffer
    <2> QED BY <2>1, <2>2, SlotPair DEF CountInv, Unseen, Targets, Counts, Where
  <1>5. ASSUME NEW w \in Slots, WorkOwn(w) \/ MoveOwn(w)
        PROVE  CountInv'
    BY <1>5, WorkTypes, MoveTypes, WorkCount, MoveCount
  <1>6. ASSUME NEW w \in Slots, Dispatch(w)
        PROVE  CountInv'
    <2>1. UNCHANGED <<entry, accounts, at>> /\ pc["publisher"] = pc'["publisher"] /\ pc[w] = "handling"
      BY <1>6, DispatchDoes, ThreadsDiffer DEF Dispatch, shared, OnlyMoves
    <2>2. pc["publisher"] = "done"
      BY <2>1 DEF CountInv, Unseen
    <2>3. /\ pc'[w] \in {"final", "idle", "failrun"}
          /\ \A v \in Slots \ {w} : pc'[v] = pc[v] /\ local'[v] = local[v]
      BY <1>6, DispatchDoes, ThreadsDiffer DEF OnlyMoves
    <2>4. \A v \in Slots : /\ (pc'[v] \in Carry) = (pc[v] \in Carry)
                           /\ pc'[v] \in TargetPc => pc'[v] = pc[v] /\ local'[v] = local[v]
      BY <2>1, <2>3 DEF Carry, TargetPc
    <2>5. Where' = Where
      BY <2>1, <2>2 DEF Where, CountedPc, LogicalPc
    <2>6. Counts => Counts'
      BY <2>1, <2>2, <2>4, <2>5, SlotPair DEF Counts, LogicalPc
    <2> QED BY <2>1, <2>2, <2>4, <2>6 DEF CountInv, Unseen, Targets
  <1>7. ASSUME NEW t \in Slots \cup {"auditor"}, MoveFailOwn(t)
        PROVE  CountInv'
    BY <1>7, MoveFailTypes, MoveFailCount
  <1>8. CASE AuditOwn
    BY <1>8, AuditTypes, AuditCount
  <1>9. CASE BusinessOwn
    BY <1>9, BizTypes, BizCount
  <1>10. CASE Cleaned
    BY <1>10, CleanupTypes, CleanupCount
  <1>11. CASE CloserOwn
    BY <1>11, CloserTypes, CloserCount
  <1>12. CASE ForceStop \/ UNCHANGED vars
    BY <1>12 DEF ForceStop, vars, shared, history, CountInv, Unseen, Targets, Counts, Where
  <1> QED BY <1>1, <1>2, <1>3, <1>4, <1>5, <1>6, <1>7, <1>8, <1>9, <1>10, <1>11, <1>12, NextCases


LEMMA CountStart ==
  ASSUME Init
  PROVE  BoundInv /\ CountInv
  <1> USE ThreadNames, ThreadsDiffer, SlotPair
  <1>1. /\ pc["publisher"] = IF Delayed THEN "timer" ELSE "place"
        /\ pc["closer"] = "idle" /\ pc["cleanup"] = "off" /\ \A w \in Slots : pc[w] = "idle"
        /\ \A t \in Threads : pc[t] \in {"timer", "place", "off", "idle"}
    BY DEF Init
  <1>2. BoundInv
    BY ZenonT(60), <1>1 DEF Init, BoundInv, EnvelopeOwn, FinalPc
  <1>3. Unseen /\ Targets
    BY <1>1 DEF Init, Unseen, Targets, TargetPc, Carry
  <1>4. /\ entry.logical = None /\ entry.state \in {"Delayed", "Enqueueing"} /\ accounts.logical = 0
        /\ \A s \in Slots : accounts.container[s] = 0
    BY DEF Init
  <1>5. Where = None
    BY <1>1, <1>4 DEF Where, CountedPc, LogicalPc
  <1>6. Counts
    BY <1>1, <1>4, <1>5 DEF Counts, LogicalPc, Carry
  <1> QED BY <1>2, <1>3, <1>6 DEF CountInv

EntryInv == Types /\ EndInv /\ GateInv /\ BoundInv /\ CountInv

LEMMA EntryKept ==
  /\ Init => EntryInv
  /\ EntryInv /\ [Next]_vars => EntryInv'
  BY EndStart, EndKept, GateStart, GateKept, CountStart, BoundKept, CountKept DEF EntryInv

(* The comment in move_entry: from its admission to its end, through every *)
(* move and every cancellation that races with one, the task is counted    *)
(* once for its type and at least at the container that owns it.           *)
THEOREM CountedHolds == Spec => []AlwaysCounted
  <1>1. EntryInv => AlwaysCounted
    <2> SUFFICES ASSUME EntryInv, entry.state \in {"Queued", "Moving", "Running"}
                 PROVE  /\ accounts.logical = 1
                        /\ entry.logical # None /\ accounts.container[entry.logical] >= 1
      BY DEF AlwaysCounted
    <2>1. Counts /\ entry.logical \in Slots
      BY DEF EntryInv, CountInv, Ended, Terminal, Types, EntryType, Counts
    <2>2. Where = entry.logical
      BY DEF EntryInv, GateInv, Where, PlacingPc, CountedPc, LogicalPc, Ended, Terminal
    <2> QED BY <2>1, <2>2, SlotPair DEF Counts
  <1> QED BY <1>1, EntryKept, PTL DEF Spec

-----------------------------------------------------------------------------
(* A thread that has swapped in the owner's sentinel, up to the last store  *)
(* of finalize_termination_with_accounting.                                *)
SettlingPc == {"finaldetach", "finallogical", "finalaccount", "finalpermits", "finalrecord",
               "finalunpend", "finalpublish"}
ProbePc == {"finalterminal", "finalmove", "finalclaim"}
(* A thread that has read a state from which it wants to end the task.     *)
ReadPc == {"authfailfrom", "terminate", "backstop", "backstopfail"}

SettleOwn(t) ==
  /\ pc[t] \in ProbePc => local[t].owner \in Slots
  /\ pc[t] \in ReadPc => local[t].state \notin Ended
  /\ pc[t] \in SettlingPc => entry.owner = local[t].record /\ entry.state = "Terminating"
  /\ pc[t] \in {"finaldetach", "finallogical", "finalaccount"} => accounts.settlements = 0
  /\ pc[t] \in SettlingPc \ {"finaldetach"} => entry.retention = "Detached"
  /\ pc[t] \in SettlingPc \ {"finaldetach", "finallogical"} => entry.logical = None
  /\ pc[t] \in SettlingPc \ {"finaldetach", "finallogical", "finalaccount"} => ~accounts.queued
  /\ pc[t] \in {"finalrecord", "finalunpend", "finalpublish"} =>
       ~entry.payload /\ ~entry.queuedPermit /\ ~entry.globalPermit

(* The settler's answer, on its way to the strict order.                   *)
Answered(t) == pc[t] \in {"helped", "cancelled"} /\ local[t].result = "Ok"

SettleInv ==
  /\ \A t \in Threads : SettleOwn(t)
  /\ \A t, u \in Threads : pc[t] \in SettlingPc /\ pc[u] \in SettlingPc => t = u
  /\ entry.owner \in Slots =>
       /\ accounts.settlements = 0 /\ entry.state \notin Terminal
       /\ \A t \in Threads : pc[t] \notin SettlingPc
  /\ entry.owner \in Terminal => entry.state \in Ended
  /\ accounts.settlements <= 1
  /\ entry.state \in Terminal =>
       /\ entry.owner = entry.state /\ entry.retention = "Detached" /\ entry.logical = None
       /\ ~entry.payload /\ ~entry.queuedPermit /\ ~entry.globalPermit /\ ~accounts.queued
       /\ accounts.strictSettled \/ \E t \in Threads : Answered(t)
  /\ pc["publisher"] = "dropped" => accounts.strictSettled /\ ~accounts.queued

(* A step of t that does not settle: what it must leave to the settler.    *)
Leaves(t) ==
  /\ pc[t] \notin SettlingPc /\ pc'[t] \notin SettlingPc
  /\ pc'[t] \in ProbePc => local'[t].owner \in Slots
  /\ pc'[t] \in ReadPc => local'[t].state \notin Ended
  /\ entry.owner \in Terminal => entry'.owner = entry.owner
  /\ entry.owner \in Slots => entry'.owner \in Slots
  /\ entry.state \in Ended => entry'.state = entry.state
  /\ entry.state \notin Ended => entry'.state \notin Terminal
  /\ entry.owner \in Terminal /\ entry.retention = "Detached" => entry'.retention = "Detached"
  /\ entry.owner \in Terminal /\ entry.logical = None => entry'.logical = None
  /\ entry'.payload => entry.payload
  /\ entry'.queuedPermit => entry.queuedPermit
  /\ entry'.globalPermit => entry.globalPermit
  /\ accounts'.queued => accounts.queued
  /\ accounts'.settlements = accounts.settlements
  /\ accounts.strictSettled => accounts'.strictSettled
  /\ Answered(t) => accounts'.strictSettled
  /\ t = "publisher" /\ pc'[t] = "dropped" => accounts'.strictSettled /\ ~accounts'.queued

LEMMA SettleFrame ==
  ASSUME Types, GateInv, SettleInv, NEW t \in Threads, OnlyMoves(t), Leaves(t)
  PROVE  SettleInv'
  <1> USE ThreadNames, StateNames
  <1>1. /\ entry.owner \in Slots \cup Terminal /\ accounts.settlements \in Nat
        /\ entry'.owner \in Slots \cup Terminal
    BY DEF Types, EntryType, Owner, GateInv, AccountType, Leaves
  <1>2. \A u \in Threads : pc'[u] \in SettlingPc => pc[u] \in SettlingPc /\ pc'[u] = pc[u] /\ local'[u] = local[u]
    BY DEF OnlyMoves, Leaves
  <1>3. ASSUME NEW u \in Threads PROVE SettleOwn(u)'
    <2>1. /\ pc'[u] \in ProbePc => local'[u].owner \in Slots
          /\ pc'[u] \in ReadPc => local'[u].state \notin Ended
      BY DEF SettleInv, SettleOwn, OnlyMoves, Leaves
    <2>2. ASSUME pc'[u] \in SettlingPc
          PROVE  /\ entry'.owner = local'[u].record /\ entry'.state = "Terminating"
                 /\ entry.owner \in Terminal
      BY <1>1, <1>2, <2>2 DEF SettleInv, SettleOwn, Leaves, Ended
    <2>3. /\ pc'[u] \in {"finaldetach", "finallogical", "finalaccount"} => accounts'.settlements = 0
          /\ pc'[u] \in SettlingPc \ {"finaldetach"} => entry'.retention = "Detached"
          /\ pc'[u] \in SettlingPc \ {"finaldetach", "finallogical"} => entry'.logical = None
          /\ pc'[u] \in SettlingPc \ {"finaldetach", "finallogical", "finalaccount"} => ~accounts'.queued
          /\ pc'[u] \in {"finalrecord", "finalunpend", "finalpublish"} =>
               ~entry'.payload /\ ~entry'.queuedPermit /\ ~entry'.globalPermit
      BY <1>2, <2>2 DEF SettleInv, SettleOwn, Leaves, SettlingPc
    <2> QED BY <2>1, <2>2, <2>3 DEF SettleOwn
  <1>4. \A u, v \in Threads : pc'[u] \in SettlingPc /\ pc'[v] \in SettlingPc => u = v
    BY <1>2 DEF SettleInv
  <1>5. entry'.owner \in Slots =>
          /\ accounts'.settlements = 0 /\ entry'.state \notin Terminal
          /\ \A u \in Threads : pc'[u] \notin SettlingPc
    BY <1>1, <1>2 DEF SettleInv, Leaves, Ended
  <1>6. (entry'.owner \in Terminal => entry'.state \in Ended) /\ accounts'.settlements <= 1
    BY <1>1 DEF SettleInv, Leaves
  <1>7. entry'.state \in Terminal =>
          /\ entry'.owner = entry'.state /\ entry'.retention = "Detached" /\ entry'.logical = None
          /\ ~entry'.payload /\ ~entry'.queuedPermit /\ ~entry'.globalPermit /\ ~accounts'.queued
          /\ accounts'.strictSettled \/ \E u \in Threads : Answered(u)'
    <2> SUFFICES ASSUME entry'.state \in Terminal
                 PROVE  /\ entry'.owner = entry'.state /\ entry'.retention = "Detached" /\ entry'.logical = None
                        /\ ~entry'.payload /\ ~entry'.queuedPermit /\ ~entry'.globalPermit /\ ~accounts'.queued
                        /\ accounts'.strictSettled \/ \E u \in Threads : Answered(u)'
      OBVIOUS
    <2>1. entry.state \in Terminal /\ entry'.state = entry.state
      BY DEF Leaves, Ended
    <2>2. entry.owner = entry.state
      BY <2>1 DEF SettleInv
    <2>3. accounts'.strictSettled \/ \E u \in Threads : Answered(u)'
      <3>1. CASE accounts.strictSettled
        BY <3>1 DEF Leaves
      <3>2. ASSUME NEW u \in Threads, Answered(u)
            PROVE  accounts'.strictSettled \/ Answered(u)'
        BY <3>2 DEF Leaves, OnlyMoves, Answered
      <3> QED BY <2>1, <3>1, <3>2 DEF SettleInv
    <2> QED BY <2>1, <2>2, <2>3 DEF SettleInv, Leaves
  <1>8. pc'["publisher"] = "dropped" => accounts'.strictSettled /\ ~accounts'.queued
    BY DEF SettleInv, Leaves, OnlyMoves
  <1> QED BY <1>3, <1>4, <1>5, <1>6, <1>7, <1>8 DEF SettleInv

LEMMA AloneOwner ==
  ASSUME ~Delayed, Types, GateInv, SettleInv, pc["publisher"] \notin {"done", "publish"}
  PROVE  entry.owner \in Slots /\ entry.state = "Enqueueing"
  BY StateNames DEF Types, EntryType, Owner, GateInv, Alone, SettleInv, Ended

(* A step of the settler.                                                  *)
Works(t) ==
  /\ entry'.owner = entry.owner /\ accounts'.settlements <= 1
  /\ SettleOwn(t)'
  /\ \/ entry'.state = "Terminating"
     \/ /\ pc[t] = "finalpublish" /\ pc'[t] \notin SettlingPc
        /\ entry'.state = local[t].record /\ Answered(t)'
        /\ entry'.retention = entry.retention /\ entry'.logical = entry.logical
        /\ entry'.payload = entry.payload /\ entry'.queuedPermit = entry.queuedPermit
        /\ entry'.globalPermit = entry.globalPermit /\ accounts'.queued = accounts.queued

LEMMA SettlerFrame ==
  ASSUME ~Delayed, Types, EndInv, GateInv, SettleInv, NEW t \in Threads, OnlyMoves(t),
         pc[t] \in SettlingPc, Works(t)
  PROVE  SettleInv'
  <1> USE ThreadNames, StateNames
  <1>1. /\ entry.owner = local[t].record /\ entry.owner \in Terminal /\ entry.state = "Terminating"
        /\ entry'.owner \in Terminal
    BY DEF SettleInv, SettleOwn, EndInv, EndOwn, KnownPc, FinalPc, SettlingPc, Works
  <1>2. pc["publisher"] = "done" /\ t # "publisher" /\ pc'["publisher"] = "done"
    BY <1>1 DEF GateInv, Alone, SettlingPc, OnlyMoves
  <1>3. \A u \in Threads \ {t} : /\ pc[u] \notin SettlingPc /\ pc'[u] = pc[u]
                                /\ local'[u] = local[u]
    BY DEF SettleInv, OnlyMoves
  <1>4. ASSUME NEW u \in Threads PROVE SettleOwn(u)'
    <2>1. CASE u = t
      BY <2>1 DEF Works
    <2>2. CASE u # t
      <3>1. /\ pc'[u] \notin SettlingPc /\ (pc'[u] \in ProbePc => local'[u].owner \in Slots)
            /\ pc'[u] \in ReadPc => local'[u].state \notin Ended
        BY <1>3, <2>2 DEF SettleInv, SettleOwn
      <3> QED BY <3>1 DEF SettleOwn, SettlingPc
    <2> QED BY <2>1, <2>2
  <1>5. entry'.state \in Ended /\ entry'.owner \notin Slots
    BY <1>1 DEF Works, Ended
  <1>6. entry'.state \in Terminal =>
          /\ entry'.owner = entry'.state /\ entry'.retention = "Detached" /\ entry'.logical = None
          /\ ~entry'.payload /\ ~entry'.queuedPermit /\ ~entry'.globalPermit /\ ~accounts'.queued
          /\ accounts'.strictSettled \/ \E u \in Threads : Answered(u)'
    BY <1>1 DEF SettleInv, SettleOwn, SettlingPc, Works
  <1>7. \A u, v \in Threads : pc'[u] \in SettlingPc /\ pc'[v] \in SettlingPc => u = v
    BY <1>3
  <1> QED BY <1>2, <1>4, <1>5, <1>6, <1>7 DEF SettleInv, Works

LEMMA FinalSettle ==
  ASSUME ~Delayed, Types, EndInv, GateInv, BoundInv, SettleInv, NEW t \in Threads, FinalizeStep(t)
  PROVE  OnlyMoves(t) => SettleInv'
  <1> USE ThreadNames, ThreadsDiffer, StateNames, ResultNames
  <1>FinalizeState. CASE FinalizeState(t)
    <2>1. Leaves(t)
      BY <1>FinalizeState, ReturnDoes
       DEF Types, FinalizeState, Goto, At, shared, Leaves, Answered, SettlingPc, ProbePc,
           ReadPc, Ended, Terminal, EndInv, EndOwn, FinalPc, KnownPc, SettleInv, SettleOwn
    <2> QED BY <2>1, SettleFrame
  <1>FinalizePending. CASE FinalizePending(t)
    <2>1. Leaves(t)
      BY <1>FinalizePending, PendingDoes
       DEF Types, FinalizePending, Goto, At, shared, Leaves, Answered, SettlingPc, ProbePc,
           ReadPc, Ended, Terminal, EndInv, EndOwn, FinalPc, KnownPc, SettleInv, SettleOwn
    <2> QED BY <2>1, SettleFrame
  <1>FinalizeRetention. CASE FinalizeRetention(t)
    <2>1. Leaves(t)
      BY <1>FinalizeRetention, ReturnDoes
       DEF Types, FinalizeRetention, Goto, At, shared, Leaves, Answered, SettlingPc, ProbePc,
           ReadPc, Ended, Terminal, EndInv, EndOwn, FinalPc, KnownPc, SettleInv, SettleOwn
    <2> QED BY <2>1, SettleFrame
  <1>FinalizeOwner. CASE FinalizeOwner(t)
    <2>1. Leaves(t)
      BY <1>FinalizeOwner, OwnerDoes
       DEF Types, FinalizeOwner, Goto, At, shared, Leaves, Answered, SettlingPc, ProbePc,
           ReadPc, Ended, Terminal, EndInv, EndOwn, FinalPc, KnownPc, SettleInv, SettleOwn
    <2> QED BY <2>1, SettleFrame
  <1>FinalizeTerminal. CASE FinalizeTerminal(t)
    <2>1. Leaves(t)
      BY <1>FinalizeTerminal, ReturnDoes
       DEF Types, FinalizeTerminal, Goto, At, shared, Leaves, Answered, SettlingPc, ProbePc,
           ReadPc, Ended, Terminal, EndInv, EndOwn, FinalPc, KnownPc, SettleInv, SettleOwn
    <2> QED BY <2>1, SettleFrame
  <1>FinalizeMove. CASE FinalizeMove(t)
    <2>1. Leaves(t)
      BY <1>FinalizeMove, ReturnDoes
       DEF Types, FinalizeMove, Goto, At, shared, Leaves, Answered, SettlingPc, ProbePc,
           ReadPc, Ended, Terminal, EndInv, EndOwn, FinalPc, KnownPc, SettleInv, SettleOwn
    <2> QED BY <2>1, SettleFrame
  <1>FinalizeClaim. CASE FinalizeClaim(t)
    <2>1. CASE entry.owner # local[t].owner
      <3>1. Leaves(t)
        BY <1>FinalizeClaim, <2>1, ReturnDoes
           DEF Types, FinalizeClaim, EntryType, Owner, EndInv, EndOwn, FinalPc, KnownPc, Leaves,
               Answered, SettlingPc, ProbePc, ReadPc, Ended, Terminal
      <3> QED BY <3>1, SettleFrame
    <2>2. CASE entry.owner = local[t].owner
      <3> SUFFICES ASSUME OnlyMoves(t) PROVE SettleInv'
        OBVIOUS
      <3>1. /\ pc[t] = "finalclaim" /\ pc'[t] = "finaldetach" /\ local' = local /\ accounts' = accounts
            /\ entry.state \in Ended /\ local[t].record \in Terminal
            /\ entry'.owner = local[t].record /\ entry'.state = entry.state
            /\ entry.owner \in Slots
        BY <1>FinalizeClaim, <2>2
           DEF Types, FinalizeClaim, Goto, EntryType, EndInv, EndOwn, FinalPc, KnownPc, SettleInv,
               SettleOwn, ProbePc
      <3>2. /\ accounts.settlements = 0 /\ entry.state = "Terminating"
            /\ \A u \in Threads : pc[u] \notin SettlingPc
        BY <3>1 DEF SettleInv, Ended
      <3>3. \A u \in Threads : pc'[u] \in SettlingPc => u = t
        BY <3>2 DEF OnlyMoves
      <3>4. ASSUME NEW u \in Threads PROVE SettleOwn(u)'
        <4>1. CASE u = t
          BY <3>1, <3>2, <4>1 DEF SettleOwn, ProbePc, ReadPc, SettlingPc
        <4>2. CASE u # t
          <5>1. /\ pc'[u] \notin SettlingPc /\ (pc'[u] \in ProbePc => local'[u].owner \in Slots)
                /\ pc'[u] \in ReadPc => local'[u].state \notin Ended
            BY <3>2, <4>2 DEF SettleInv, SettleOwn, OnlyMoves
          <5> QED BY <5>1 DEF SettleOwn, SettlingPc
        <4> QED BY <4>1, <4>2
      <3>5. entry'.state \notin Terminal /\ entry'.state \in Ended /\ entry'.owner \notin Slots
        BY <3>1, <3>2 DEF Ended
      <3>6. pc'["publisher"] # "dropped"
        BY <3>1, <3>2 DEF OnlyMoves, GateInv, Alone
      <3> QED BY <3>1, <3>2, <3>3, <3>4, <3>5, <3>6 DEF SettleInv
    <2> QED BY <2>1, <2>2
  <1>FinalizeDetach. CASE FinalizeDetach(t)
    <2>1. pc[t] \in SettlingPc
      BY <1>FinalizeDetach DEF FinalizeDetach, At, SettlingPc
    <2>2. Works(t)
      BY <1>FinalizeDetach
       DEF Types, FinalizeDetach, At, Goto, EntryType, EndInv, EndOwn, KnownPc, FinalPc,
           SettleInv, SettleOwn, Works, Answered, SettlingPc, ProbePc, ReadPc
    <2> QED BY <2>1, <2>2, SettlerFrame
  <1>FinalizeLogical. CASE FinalizeLogical(t)
    <2>1. pc[t] \in SettlingPc
      BY <1>FinalizeLogical DEF FinalizeLogical, At, SettlingPc
    <2>2. Works(t)
      BY <1>FinalizeLogical, LogicalDoes
       DEF Types, FinalizeLogical, At, Goto, EntryType, EndInv, EndOwn, KnownPc, FinalPc,
           SettleInv, SettleOwn, Works, Answered, SettlingPc, ProbePc, ReadPc, GateInv
    <2> QED BY <2>1, <2>2, SettlerFrame
  <1>FinalizeAccount. CASE FinalizeAccount(t)
    <2>1. /\ pc[t] = "finalaccount" /\ pc'[t] = "finalpermits" /\ entry' = entry /\ local' = local
          /\ pc[t] \in SettlingPc /\ pc[t] \in FinalPc
      BY <1>FinalizeAccount DEF FinalizeAccount, At, Goto, Types, SettlingPc, FinalPc
    <2>2. accounts'.settlements = accounts.settlements + 1 /\ ~accounts'.queued
      BY <1>FinalizeAccount, <2>1, AccountDoes, BoundSettles DEF GateInv
    <2>3. SettleOwn(t)
      BY DEF SettleInv
    <2>4. /\ accounts.settlements = 0 /\ entry.retention = "Detached" /\ entry.logical = None
          /\ entry.owner = local[t].record /\ entry.state = "Terminating"
      BY <2>1, <2>3 DEF SettleOwn, SettlingPc
    <2>5. SettleOwn(t)'
      BY <2>1, <2>2, <2>4 DEF SettleOwn, SettlingPc, ProbePc, ReadPc
    <2> QED BY <2>1, <2>2, <2>4, <2>5, SettlerFrame DEF Works
  <1>FinalizePermits. CASE FinalizePermits(t)
    <2>1. pc[t] \in SettlingPc
      BY <1>FinalizePermits DEF FinalizePermits, At, SettlingPc
    <2>2. Works(t)
      BY <1>FinalizePermits
       DEF Types, FinalizePermits, At, Goto, EntryType, EndInv, EndOwn, KnownPc, FinalPc,
           SettleInv, SettleOwn, Works, Answered, SettlingPc, ProbePc, ReadPc
    <2> QED BY <2>1, <2>2, SettlerFrame
  <1>FinalizeRecord. CASE FinalizeRecord(t)
    <2>1. pc[t] \in SettlingPc
      BY <1>FinalizeRecord DEF FinalizeRecord, At, SettlingPc
    <2>2. Works(t)
      BY <1>FinalizeRecord, ReturnDoes
       DEF Types, FinalizeRecord, Goto, At, EntryType, EndInv, EndOwn, KnownPc, FinalPc,
           SettleInv, SettleOwn, Works, Answered, SettlingPc, ProbePc, ReadPc
    <2> QED BY <2>1, <2>2, SettlerFrame
  <1>FinalizeUnpend. CASE FinalizeUnpend(t)
    <2>1. pc[t] \in SettlingPc
      BY <1>FinalizeUnpend DEF FinalizeUnpend, At, SettlingPc
    <2>2. Works(t)
      BY <1>FinalizeUnpend
       DEF Types, FinalizeUnpend, At, Goto, EntryType, EndInv, EndOwn, KnownPc, FinalPc,
           SettleInv, SettleOwn, Works, Answered, SettlingPc, ProbePc, ReadPc
    <2> QED BY <2>1, <2>2, SettlerFrame
  <1>FinalizePublish. CASE FinalizePublish(t)
    <2>1. pc[t] \in SettlingPc
      BY <1>FinalizePublish DEF FinalizePublish, At, SettlingPc
    <2>2. Works(t)
      BY <1>FinalizePublish, ReturnDoes
       DEF Types, FinalizePublish, Goto, At, EntryType, EndInv, EndOwn, KnownPc, FinalPc,
           SettleInv, SettleOwn, Works, Answered, SettlingPc, ProbePc, ReadPc, BoundInv,
           EnvelopeOwn
    <2> QED BY <2>1, <2>2, SettlerFrame
  <1> QED BY <1>FinalizeState, <1>FinalizePending, <1>FinalizeRetention, <1>FinalizeOwner,
     <1>FinalizeTerminal, <1>FinalizeMove, <1>FinalizeClaim, <1>FinalizeDetach,
     <1>FinalizeLogical, <1>FinalizeAccount, <1>FinalizePermits, <1>FinalizeRecord,
     <1>FinalizeUnpend, <1>FinalizePublish DEF FinalizeStep

LEMMA HelpSettle ==
  ASSUME ~Delayed, Types, EndInv, GateInv, BoundInv, SettleInv, NEW t \in Threads, HelpOwn(t)
  PROVE  OnlyMoves(t) => SettleInv'
  <1> USE ThreadNames, ThreadsDiffer, StateNames, ResultNames
  <1>Helped. CASE Helped(t)
    <2>1. Leaves(t)
      BY <1>Helped
       DEF Types, Helped, At, Goto, After, Leaves, Answered, SettlingPc, ProbePc, ReadPc,
           Ended, Terminal, AccountType, GateInv, BoundInv, EnvelopeOwn
    <2> QED BY <2>1, SettleFrame
  <1>FailBeforeRunning. CASE FailBeforeRunning(t)
    <2>1. Leaves(t)
      BY <1>FailBeforeRunning, FinalizeDoes
       DEF Types, FailBeforeRunning, Goto, At, After, shared, Leaves, Answered, SettlingPc,
           ProbePc, ReadPc, Ended, Terminal
    <2> QED BY <2>1, SettleFrame
  <1>FailQueued. CASE FailQueued(t)
    <2>1. Leaves(t)
      BY <1>FailQueued, TerminatedFields, FinalizeDoes
       DEF Types, FailQueued, Goto, At, CanTerminate, After, EntryType, shared, Leaves,
           Answered, SettlingPc, ProbePc, ReadPc, Ended, Terminal
    <2> QED BY <2>1, SettleFrame
  <1>AuthorityFailure. CASE AuthorityFailure(t)
    <2>1. Leaves(t)
      BY <1>AuthorityFailure, FinalizeDoes, LocalState
       DEF Types, AuthorityFailure, Goto, At, After, Leaves, Answered, SettlingPc, ProbePc,
           ReadPc, Ended, Terminal
    <2> QED BY <2>1, SettleFrame
  <1>AuthorityFailFrom. CASE AuthorityFailFrom(t)
    <2>1. Leaves(t)
      BY <1>AuthorityFailFrom, TerminatedFields, FinalizeDoes
       DEF Types, AuthorityFailFrom, Goto, At, CanTerminate, After, EntryType, Leaves,
           Answered, SettlingPc, ProbePc, ReadPc, Ended, Terminal, SettleInv, SettleOwn
    <2> QED BY <2>1, SettleFrame
  <1> QED BY <1>Helped, <1>FailBeforeRunning, <1>FailQueued, <1>AuthorityFailure, <1>AuthorityFailFrom
   DEF HelpOwn

LEMMA PubSettle ==
  ASSUME ~Delayed, Types, EndInv, GateInv, BoundInv, SettleInv, PublishOwn
  PROVE  OnlyMoves("publisher") => SettleInv'
  <1> USE ThreadNames, ThreadsDiffer, StateNames, ResultNames
  <1>ExpireRemove. CASE ExpireRemove
    <2>1. Leaves("publisher")
      BY <1>ExpireRemove, AloneOwner
       DEF Types, ExpireRemove, At, Goto, Leaves, Answered, SettlingPc, ProbePc, ReadPc, Ended,
           Terminal, GateInv, Alone
    <2> QED BY <2>1, SettleFrame
  <1>ClaimExpired. CASE ClaimExpired
    <2>1. Leaves("publisher")
      BY <1>ClaimExpired, AloneOwner
       DEF Types, ClaimExpired, At, Goto, EntryType, shared, Leaves, Answered, SettlingPc,
           ProbePc, ReadPc, Ended, Terminal, GateInv, Alone
    <2> QED BY <2>1, SettleFrame
  <1>AdmitExpired. CASE AdmitExpired
    <2>1. Leaves("publisher")
      BY <1>AdmitExpired, AloneOwner
       DEF Types, AdmitExpired, At, Goto, shared, Leaves, Answered, SettlingPc, ProbePc,
           ReadPc, Ended, Terminal, GateInv, Alone
    <2> QED BY <2>1, SettleFrame
  <1>RejectUnbound. CASE RejectUnbound
    <2>1. Leaves("publisher")
      BY <1>RejectUnbound, TerminatedFields, FinalizeDoes, AloneOwner
       DEF Types, RejectUnbound, Goto, At, CanTerminate, EntryType, shared, Leaves, Answered,
           SettlingPc, ProbePc, ReadPc, Ended, Terminal, GateInv, Alone
    <2> QED BY <2>1, SettleFrame
  <1>InstallCheck. CASE InstallCheck
    <2>1. Leaves("publisher")
      BY <1>InstallCheck, AloneOwner
       DEF Types, InstallCheck, At, Goto, shared, Leaves, Answered, SettlingPc, ProbePc,
           ReadPc, Ended, Terminal, GateInv, Alone
    <2> QED BY <2>1, SettleFrame
  <1>Install. CASE Install
    <2>1. Leaves("publisher")
      BY <1>Install, AloneOwner
       DEF Types, Install, At, Goto, EntryType, shared, Leaves, Answered, SettlingPc, ProbePc,
           ReadPc, Ended, Terminal, GateInv, Alone
    <2> QED BY <2>1, SettleFrame
  <1>Bind. CASE Bind
    <2>1. Leaves("publisher")
      BY <1>Bind, AloneOwner
       DEF Types, Bind, At, Goto, Leaves, Answered, SettlingPc, ProbePc, ReadPc, Ended,
           Terminal, AccountType, GateInv, Alone
    <2> QED BY <2>1, SettleFrame
  <1>Place. ASSUME NEW s \in Slots, Place(s) PROVE OnlyMoves("publisher") => SettleInv'
    <2>1. Leaves("publisher")
      BY <1>Place, PlaceDoes, PlaceCounts, AloneOwner
       DEF Types, Place, At, Goto, shared, Leaves, Answered, SettlingPc, ProbePc, ReadPc,
           Ended, Terminal, AccountType, GateInv, Alone
    <2> QED BY <2>1, SettleFrame
  <1>PlacementRefused. CASE PlacementRefused
    <2>1. Leaves("publisher")
      BY <1>PlacementRefused, AloneOwner
       DEF Types, PlacementRefused, At, Goto, shared, Leaves, Answered, SettlingPc, ProbePc,
           ReadPc, Ended, Terminal, GateInv, Alone
    <2> QED BY <2>1, SettleFrame
  <1>PrepareCheck. CASE PrepareCheck
    <2>1. Leaves("publisher")
      BY <1>PrepareCheck, AloneOwner
       DEF Types, PrepareCheck, At, Goto, shared, Leaves, Answered, SettlingPc, ProbePc,
           ReadPc, Ended, Terminal, GateInv, Alone
    <2> QED BY <2>1, SettleFrame
  <1>PrepareLogical. CASE PrepareLogical
    <2>1. Leaves("publisher")
      BY <1>PrepareLogical, AloneOwner
       DEF Types, PrepareLogical, At, Goto, EntryType, shared, Leaves, Answered, SettlingPc,
           ProbePc, ReadPc, Ended, Terminal, GateInv, Alone
    <2> QED BY <2>1, SettleFrame
  <1>PrepareOwner. CASE PrepareOwner
    <2>1. Leaves("publisher")
      BY <1>PrepareOwner, AloneOwner
       DEF Types, PrepareOwner, At, Goto, EntryType, shared, Leaves, Answered, SettlingPc,
           ProbePc, ReadPc, Ended, Terminal, GateInv, Alone, LocalType, Slots
    <2> QED BY <2>1, SettleFrame
  <1>PrepareRetention. CASE PrepareRetention
    <2>1. Leaves("publisher")
      BY <1>PrepareRetention, AloneOwner
       DEF Types, PrepareRetention, At, Goto, EntryType, shared, Leaves, Answered, SettlingPc,
           ProbePc, ReadPc, Ended, Terminal, GateInv, Alone
    <2> QED BY <2>1, SettleFrame
  <1>PrepareQueued. CASE PrepareQueued
    <2>1. Leaves("publisher")
      BY <1>PrepareQueued, AloneOwner
       DEF Types, PrepareQueued, At, Goto, EntryType, shared, Leaves, Answered, SettlingPc,
           ProbePc, ReadPc, Ended, Terminal, GateInv, Alone
    <2> QED BY <2>1, SettleFrame
  <1>UndoRetention. CASE UndoRetention
    <2>1. Leaves("publisher")
      BY <1>UndoRetention, AloneOwner
       DEF Types, UndoRetention, At, Goto, EntryType, shared, Leaves, Answered, SettlingPc,
           ProbePc, ReadPc, Ended, Terminal, GateInv, Alone
    <2> QED BY <2>1, SettleFrame
  <1>UndoOwner. CASE UndoOwner
    <2>1. Leaves("publisher")
      BY <1>UndoOwner, AloneOwner
       DEF Types, UndoOwner, At, Goto, EntryType, shared, Leaves, Answered, SettlingPc,
           ProbePc, ReadPc, Ended, Terminal, GateInv, Alone, LocalType, Slots
    <2> QED BY <2>1, SettleFrame
  <1>Uncount. CASE Uncount
    <2>1. Leaves("publisher")
      BY <1>Uncount, UncountDoes, AloneOwner
       DEF Types, Uncount, At, Goto, shared, Leaves, Answered, SettlingPc, ProbePc, ReadPc,
           Ended, Terminal, AccountType, GateInv, Alone
    <2> QED BY <2>1, SettleFrame
  <1>PublishInitial. CASE PublishInitial
    <2>1. Leaves("publisher")
      BY <1>PublishInitial
       DEF Types, PublishInitial, At, Goto, Leaves, Answered, SettlingPc, ProbePc, ReadPc,
           Ended, Terminal
    <2> QED BY <2>1, SettleFrame
  <1>DropUnplaced. CASE DropUnplaced
    <2>1. Leaves("publisher")
      BY <1>DropUnplaced, SettledDoes, AloneOwner
       DEF Types, DropUnplaced, At, Goto, EntryType, shared, Leaves, Answered, SettlingPc,
           ProbePc, ReadPc, Ended, Terminal, AccountType, GateInv, Alone
    <2> QED BY <2>1, SettleFrame
  <1>Unplaced. CASE Unplaced
    <2>1. Leaves("publisher")
      BY <1>Unplaced, FinalizeDoes, AloneOwner
       DEF Types, Unplaced, Goto, At, shared, Leaves, Answered, SettlingPc, ProbePc, ReadPc,
           Ended, Terminal, GateInv, Alone
    <2> QED BY <2>1, SettleFrame
  <1>RejectBound. CASE RejectBound
    <2>1. Leaves("publisher")
      BY <1>RejectBound, TerminatedFields, FinalizeDoes, AloneOwner
       DEF Types, RejectBound, Goto, At, CanTerminate, EntryType, shared, Leaves, Answered,
           SettlingPc, ProbePc, ReadPc, Ended, Terminal, GateInv, Alone
    <2> QED BY <2>1, SettleFrame
  <1>SettleUnplaced. CASE SettleUnplaced
    <2>1. Leaves("publisher")
      BY <1>SettleUnplaced, SettledDoes, AloneOwner
       DEF Types, SettleUnplaced, At, Goto, shared, Leaves, Answered, SettlingPc, ProbePc,
           ReadPc, Ended, Terminal, AccountType, GateInv, Alone
    <2> QED BY <2>1, SettleFrame
  <1> QED BY <1>ExpireRemove, <1>ClaimExpired, <1>AdmitExpired, <1>RejectUnbound, <1>InstallCheck,
     <1>Install, <1>Bind, <1>Place, <1>PlacementRefused, <1>PrepareCheck, <1>PrepareLogical,
     <1>PrepareOwner, <1>PrepareRetention, <1>PrepareQueued, <1>UndoRetention, <1>UndoOwner,
     <1>Uncount, <1>PublishInitial, <1>DropUnplaced, <1>Unplaced, <1>RejectBound,
     <1>SettleUnplaced DEF PublishOwn

LEMMA CallSettle ==
  ASSUME ~Delayed, Types, EndInv, GateInv, BoundInv, SettleInv, NEW c \in Callers, CallOwn(c)
  PROVE  OnlyMoves(c) => SettleInv'
  <1> USE ThreadNames, ThreadsDiffer, StateNames, ResultNames
  <1>CancelCall. CASE CancelCall(c)
    <2>1. Leaves(c)
      BY <1>CancelCall
       DEF Types, CancelCall, At, Goto, shared, Leaves, Answered, SettlingPc, ProbePc, ReadPc,
           Ended, Terminal
    <2> QED BY <2>1, SettleFrame
  <1>CancelRead. CASE CancelRead(c)
    <2>1. Leaves(c)
      BY <1>CancelRead, LocalState
       DEF Types, CancelRead, Goto, At, Answer, shared, Leaves, Answered, SettlingPc, ProbePc,
           ReadPc, Ended, Terminal
    <2> QED BY <2>1, SettleFrame
  <1>CancelTerminate. CASE CancelTerminate(c)
    <2>1. Leaves(c)
      BY <1>CancelTerminate, TerminatedFields
       DEF Types, CancelTerminate, Goto, At, CanTerminate, Answer, EntryType, shared, Leaves,
           Answered, SettlingPc, ProbePc, ReadPc, Ended, Terminal, SettleInv, SettleOwn
    <2> QED BY <2>1, SettleFrame
  <1>CancelDefer. CASE CancelDefer(c)
    <2>1. Leaves(c)
      BY <1>CancelDefer
       DEF Types, CancelDefer, At, Goto, Answer, EntryType, shared, Leaves, Answered,
           SettlingPc, ProbePc, ReadPc, Ended, Terminal
    <2> QED BY <2>1, SettleFrame
  <1>RetireDelayed. CASE RetireDelayed(c)
    <2>1. Leaves(c)
      BY <1>RetireDelayed
       DEF Types, RetireDelayed, At, Goto, Leaves, Answered, SettlingPc, ProbePc, ReadPc,
           Ended, Terminal
    <2> QED BY <2>1, SettleFrame
  <1>BindChecked. CASE BindChecked(c)
    <2>1. Leaves(c)
      BY <1>BindChecked
       DEF Types, BindChecked, At, Goto, shared, Leaves, Answered, SettlingPc, ProbePc, ReadPc,
           Ended, Terminal
    <2> QED BY <2>1, SettleFrame
  <1>CancelFinalize. CASE CancelFinalize(c)
    <2>1. Leaves(c)
      BY <1>CancelFinalize, CancelFinalizeDoes
       DEF Types, CancelFinalize, Goto, At, shared, Leaves, Answered, SettlingPc, ProbePc,
           ReadPc, Ended, Terminal
    <2> QED BY <2>1, SettleFrame
  <1>CancelSettled. CASE CancelSettled(c)
    <2>1. Leaves(c)
      BY <1>CancelSettled
       DEF Types, CancelSettled, At, Goto, Answer, Leaves, Answered, SettlingPc, ProbePc,
           ReadPc, Ended, Terminal, AccountType, GateInv, BoundInv, EnvelopeOwn
    <2> QED BY <2>1, SettleFrame
  <1> QED BY <1>CancelCall, <1>CancelRead, <1>CancelTerminate, <1>CancelDefer, <1>RetireDelayed,
     <1>BindChecked, <1>CancelFinalize, <1>CancelSettled DEF CallOwn

LEMMA WorkSettle ==
  ASSUME ~Delayed, Types, EndInv, GateInv, BoundInv, SettleInv, NEW w \in Slots, WorkOwn(w)
  PROVE  OnlyMoves(w) => SettleInv'
  <1> USE ThreadNames, ThreadsDiffer, StateNames, ResultNames
  <1>Receive. CASE Receive(w)
    <2>1. Leaves(w)
      BY <1>Receive
       DEF Types, Receive, At, Goto, Leaves, Answered, SettlingPc, ProbePc, ReadPc, Ended,
           Terminal
    <2> QED BY <2>1, SettleFrame
  <1>Received. CASE Received(w)
    <2>1. Leaves(w)
      BY <1>Received
       DEF Types, Received, At, Goto, shared, Leaves, Answered, SettlingPc, ProbePc, ReadPc,
           Ended, Terminal
    <2> QED BY <2>1, SettleFrame
  <1>ClaimMove. CASE ClaimMove(w)
    <2>1. Leaves(w)
      BY <1>ClaimMove
       DEF Types, ClaimMove, At, Goto, EntryType, shared, Leaves, Answered, SettlingPc,
           ProbePc, ReadPc, Ended, Terminal
    <2> QED BY <2>1, SettleFrame
  <1>ClaimRetention. CASE ClaimRetention(w)
    <2>1. Leaves(w)
      BY <1>ClaimRetention
       DEF Types, ClaimRetention, At, Goto, EntryType, shared, Leaves, Answered, SettlingPc,
           ProbePc, ReadPc, Ended, Terminal
    <2> QED BY <2>1, SettleFrame
  <1>Claimed. CASE Claimed(w)
    <2>1. Leaves(w)
      BY <1>Claimed, FinalizeDoes
       DEF Types, Claimed, Goto, At, shared, Leaves, Answered, SettlingPc, ProbePc, ReadPc,
           Ended, Terminal
    <2> QED BY <2>1, SettleFrame
  <1>MoveBegin. CASE MoveBegin(w)
    <2>1. Leaves(w)
      BY <1>MoveBegin
       DEF Types, MoveBegin, At, Goto, shared, Leaves, Answered, SettlingPc, ProbePc, ReadPc,
           Ended, Terminal
    <2> QED BY <2>1, SettleFrame
  <1> QED BY <1>Receive, <1>Received, <1>ClaimMove, <1>ClaimRetention, <1>Claimed, <1>MoveBegin
   DEF WorkOwn

LEMMA MoveSettle ==
  ASSUME ~Delayed, Types, EndInv, GateInv, BoundInv, SettleInv, NEW w \in Slots, MoveOwn(w)
  PROVE  OnlyMoves(w) => SettleInv'
  <1> USE ThreadNames, ThreadsDiffer, StateNames, ResultNames
  <1>MoveRefused. CASE MoveRefused(w)
    <2>1. Leaves(w)
      BY <1>MoveRefused, FinalizeDoes
       DEF Types, MoveRefused, Goto, At, shared, Leaves, Answered, SettlingPc, ProbePc, ReadPc,
           Ended, Terminal
    <2> QED BY <2>1, SettleFrame
  <1>MoveDescribe. CASE MoveDescribe(w)
    <2>1. Leaves(w)
      BY ZenonT(60), <1>MoveDescribe, DescribeDoes
       DEF Types, MoveDescribe, At, Goto, Other, EntryType, shared, Leaves, Answered,
           SettlingPc, ProbePc, ReadPc, Ended, Terminal
    <2> QED BY <2>1, SettleFrame
  <1>MoveRegister. CASE MoveRegister(w)
    <2>1. Leaves(w)
      BY <1>MoveRegister
       DEF Types, MoveRegister, At, Goto, Leaves, Answered, SettlingPc, ProbePc, ReadPc, Ended,
           Terminal
    <2> QED BY <2>1, SettleFrame
  <1>MoveEnsure. CASE MoveEnsure(w)
    <2>1. Leaves(w)
      BY <1>MoveEnsure
       DEF Types, MoveEnsure, At, Goto, shared, Leaves, Answered, SettlingPc, ProbePc, ReadPc,
           Ended, Terminal
    <2> QED BY <2>1, SettleFrame
  <1>MoveActivate. CASE MoveActivate(w)
    <2>1. Leaves(w)
      BY SMTT(60), <1>MoveActivate, MoveCountDoes
       DEF Types, MoveActivate, At, Goto, EntryType, shared, Leaves, Answered, SettlingPc,
           ProbePc, ReadPc, Ended, Terminal, AccountType, GateInv
    <2> QED BY <2>1, SettleFrame
  <1>MoveAbandon. CASE MoveAbandon(w)
    <2>1. Leaves(w)
      BY <1>MoveAbandon, FinalizeDoes
       DEF Types, MoveAbandon, Goto, At, EntryType, Leaves, Answered, SettlingPc, ProbePc,
           ReadPc, Ended, Terminal
    <2> QED BY <2>1, SettleFrame
  <1>MoveChecked. CASE MoveChecked(w)
    <2>1. Leaves(w)
      BY <1>MoveChecked
       DEF Types, MoveChecked, MoveCheck, At, Goto, shared, Leaves, Answered, SettlingPc,
           ProbePc, ReadPc, Ended, Terminal
    <2> QED BY <2>1, SettleFrame
  <1>MoveOwner. CASE MoveOwner(w)
    <2>1. Leaves(w)
      BY <1>MoveOwner
       DEF Types, MoveOwner, At, Goto, EntryType, shared, Leaves, Answered, SettlingPc,
           ProbePc, ReadPc, Ended, Terminal, LocalType, Slots
    <2> QED BY <2>1, SettleFrame
  <1>MoveRetention. CASE MoveRetention(w)
    <2>1. Leaves(w)
      BY <1>MoveRetention
       DEF Types, MoveRetention, At, Goto, EntryType, shared, Leaves, Answered, SettlingPc,
           ProbePc, ReadPc, Ended, Terminal
    <2> QED BY <2>1, SettleFrame
  <1>MoveLogical. CASE MoveLogical(w)
    <2>1. Leaves(w)
      BY <1>MoveLogical, MoveCountDoes
       DEF Types, MoveLogical, At, Goto, EntryType, shared, Leaves, Answered, SettlingPc,
           ProbePc, ReadPc, Ended, Terminal, AccountType, GateInv
    <2> QED BY <2>1, SettleFrame
  <1>MovePublish. CASE MovePublish(w)
    <2>1. Leaves(w)
      BY <1>MovePublish
       DEF Types, MovePublish, At, Goto, EntryType, shared, Leaves, Answered, SettlingPc,
           ProbePc, ReadPc, Ended, Terminal
    <2> QED BY <2>1, SettleFrame
  <1>MoveCancel. CASE MoveCancel(w)
    <2>1. Leaves(w)
      BY <1>MoveCancel
       DEF Types, MoveCancel, At, Goto, EntryType, shared, Leaves, Answered, SettlingPc,
           ProbePc, ReadPc, Ended, Terminal
    <2> QED BY <2>1, SettleFrame
  <1>MoveTerminate. CASE MoveTerminate(w)
    <2>1. Leaves(w)
      BY <1>MoveTerminate, TerminatedFields
       DEF Types, MoveTerminate, At, Goto, CanTerminate, EntryType, shared, Leaves, Answered,
           SettlingPc, ProbePc, ReadPc, Ended, Terminal
    <2> QED BY <2>1, SettleFrame
  <1>MoveComplete. CASE MoveComplete(w)
    <2>1. Leaves(w)
      BY <1>MoveComplete
       DEF Types, MoveComplete, At, Goto, shared, Leaves, Answered, SettlingPc, ProbePc,
           ReadPc, Ended, Terminal
    <2> QED BY <2>1, SettleFrame
  <1>MoveEnqueue. CASE MoveEnqueue(w)
    <2>1. Leaves(w)
      BY <1>MoveEnqueue
       DEF Types, MoveEnqueue, At, Goto, Leaves, Answered, SettlingPc, ProbePc, ReadPc, Ended,
           Terminal
    <2> QED BY <2>1, SettleFrame
  <1>MoveClear. CASE MoveClear(w)
    <2>1. Leaves(w)
      BY <1>MoveClear, ClearedFields
       DEF Types, MoveClear, At, Goto, EntryType, shared, Leaves, Answered, SettlingPc,
           ProbePc, ReadPc, Ended, Terminal
    <2> QED BY <2>1, SettleFrame
  <1>MoveUnregister. CASE MoveUnregister(w)
    <2>1. Leaves(w)
      BY <1>MoveUnregister
       DEF Types, MoveUnregister, At, Goto, Leaves, Answered, SettlingPc, ProbePc, ReadPc,
           Ended, Terminal
    <2> QED BY <2>1, SettleFrame
  <1>MoveUncount. CASE MoveUncount(w)
    <2>1. Leaves(w)
      BY <1>MoveUncount, MoveCountDoes
       DEF Types, MoveUncount, At, Goto, shared, Leaves, Answered, SettlingPc, ProbePc, ReadPc,
           Ended, Terminal, AccountType, GateInv
    <2> QED BY <2>1, SettleFrame
  <1> QED BY <1>MoveRefused, <1>MoveDescribe, <1>MoveRegister, <1>MoveEnsure, <1>MoveActivate,
     <1>MoveAbandon, <1>MoveChecked, <1>MoveOwner, <1>MoveRetention, <1>MoveLogical,
     <1>MovePublish, <1>MoveCancel, <1>MoveTerminate, <1>MoveComplete, <1>MoveEnqueue,
     <1>MoveClear, <1>MoveUnregister, <1>MoveUncount DEF MoveOwn

LEMMA MoveFailSettle ==
  ASSUME ~Delayed, Types, EndInv, GateInv, BoundInv, SettleInv, NEW t \in Slots \cup {"auditor"}, MoveFailOwn(t)
  PROVE  OnlyMoves(t) => SettleInv'
  <1> USE ThreadNames, ThreadsDiffer, StateNames, ResultNames
  <1>MoveFail. CASE MoveFail(t)
    <2>1. Leaves(t)
      BY <1>MoveFail, TerminatedFields
       DEF Types, MoveFail, At, Goto, CanTerminate, EntryType, shared, Leaves, Answered,
           SettlingPc, ProbePc, ReadPc, Ended, Terminal
    <2> QED BY <2>1, SettleFrame
  <1>MoveFailClear. CASE MoveFailClear(t)
    <2>1. Leaves(t)
      BY <1>MoveFailClear, ClearedFields, FinalizeDoes
       DEF Types, MoveFailClear, Goto, At, EntryType, Leaves, Answered, SettlingPc, ProbePc,
           ReadPc, Ended, Terminal
    <2> QED BY <2>1, SettleFrame
  <1> QED BY <1>MoveFail, <1>MoveFailClear DEF MoveFailOwn

LEMMA AuditSettle ==
  ASSUME ~Delayed, Types, EndInv, GateInv, BoundInv, SettleInv, AuditOwn
  PROVE  OnlyMoves("auditor") => SettleInv'
  <1> USE ThreadNames, ThreadsDiffer, StateNames, ResultNames
  <1>AuditSnapshot. CASE AuditSnapshot
    <2>1. Leaves("auditor")
      BY <1>AuditSnapshot, LocalEpoch
       DEF Types, AuditSnapshot, At, Goto, Leaves, Answered, SettlingPc, ProbePc, ReadPc,
           Ended, Terminal
    <2> QED BY <2>1, SettleFrame
  <1>AuditState. CASE AuditState
    <2>1. Leaves("auditor")
      BY <1>AuditState, ClearedFields
       DEF Types, AuditState, Goto, At, EntryType, Leaves, Answered, SettlingPc, ProbePc,
           ReadPc, Ended, Terminal
    <2> QED BY <2>1, SettleFrame
  <1>AuditRetention. CASE AuditRetention
    <2>1. Leaves("auditor")
      BY <1>AuditRetention, ClearedFields, AuditRetentionDoes
       DEF Types, AuditRetention, Goto, At, EntryType, Leaves, Answered, SettlingPc, ProbePc,
           ReadPc, Ended, Terminal
    <2> QED BY <2>1, SettleFrame
  <1>AuditAbandon. CASE AuditAbandon
    <2>1. Leaves("auditor")
      BY <1>AuditAbandon, ClearedFields, FinalizeDoes
       DEF Types, AuditAbandon, Goto, At, EntryType, Leaves, Answered, SettlingPc, ProbePc,
           ReadPc, Ended, Terminal, EndInv, EndOwn, FinalPc
    <2> QED BY <2>1, SettleFrame
  <1> QED BY <1>AuditSnapshot, <1>AuditState, <1>AuditRetention, <1>AuditAbandon DEF AuditOwn

LEMMA BizSettle ==
  ASSUME ~Delayed, Types, EndInv, GateInv, BoundInv, SettleInv, BusinessOwn
  PROVE  OnlyMoves("business") => SettleInv'
  <1> USE ThreadNames, ThreadsDiffer, StateNames, ResultNames
  <1>BusinessGranted. CASE BusinessGranted
    <2>1. Leaves("business")
      BY <1>BusinessGranted
       DEF Types, BusinessGranted, At, Goto, shared, Leaves, Answered, SettlingPc, ProbePc,
           ReadPc, Ended, Terminal
    <2> QED BY <2>1, SettleFrame
  <1>BusinessGateClosed. CASE BusinessGateClosed
    <2>1. Leaves("business")
      BY <1>BusinessGateClosed
       DEF Types, BusinessGateClosed, At, Goto, shared, Leaves, Answered, SettlingPc, ProbePc,
           ReadPc, Ended, Terminal
    <2> QED BY <2>1, SettleFrame
  <1>BusinessCheck. CASE BusinessCheck
    <2>1. Leaves("business")
      BY <1>BusinessCheck, FinalizeDoes
       DEF Types, BusinessCheck, Goto, At, shared, Leaves, Answered, SettlingPc, ProbePc,
           ReadPc, Ended, Terminal
    <2> QED BY <2>1, SettleFrame
  <1>TakeForRunning. CASE TakeForRunning
    <2>1. Leaves("business")
      BY <1>TakeForRunning
       DEF Types, TakeForRunning, At, Goto, EntryType, shared, Leaves, Answered, SettlingPc,
           ProbePc, ReadPc, Ended, Terminal, AccountType, GateInv
    <2> QED BY <2>1, SettleFrame
  <1>JobEnds. ASSUME NEW terminal \in {"Completed", "Failed"}, JobEnds(terminal) PROVE OnlyMoves("business") => SettleInv'
    <2>1. Leaves("business")
      BY <1>JobEnds, TerminatedFields, FinalizeDoes
       DEF Types, JobEnds, CanTerminate, Goto, At, EntryType, shared, Leaves, Answered,
           SettlingPc, ProbePc, ReadPc, Ended, Terminal
    <2> QED BY <2>1, SettleFrame
  <1>BusinessAborted. CASE BusinessAborted
    <2>1. Leaves("business")
      BY <1>BusinessAborted, LocalState
       DEF Types, BusinessAborted, Goto, At, shared, Leaves, Answered, SettlingPc, ProbePc,
           ReadPc, Ended, Terminal
    <2> QED BY <2>1, SettleFrame
  <1>Backstop. CASE Backstop
    <2>1. Leaves("business")
      BY <1>Backstop, FinalizeDoes
       DEF Types, Backstop, Goto, At, shared, Leaves, Answered, SettlingPc, ProbePc, ReadPc,
           Ended, Terminal, SettleInv, SettleOwn
    <2> QED BY <2>1, SettleFrame
  <1>BackstopFail. CASE BackstopFail
    <2>1. Leaves("business")
      BY <1>BackstopFail, TerminatedFields, FinalizeDoes
       DEF Types, BackstopFail, Goto, At, CanTerminate, EntryType, shared, Leaves, Answered,
           SettlingPc, ProbePc, ReadPc, Ended, Terminal, SettleInv, SettleOwn
    <2> QED BY <2>1, SettleFrame
  <1> QED BY <1>BusinessGranted, <1>BusinessGateClosed, <1>BusinessCheck, <1>TakeForRunning,
     <1>JobEnds, <1>BusinessAborted, <1>Backstop, <1>BackstopFail DEF BusinessOwn

LEMMA CleanupSettle ==
  ASSUME ~Delayed, Types, EndInv, GateInv, BoundInv, SettleInv, Cleaned
  PROVE  OnlyMoves("cleanup") => SettleInv'
  <1> USE ThreadNames, ThreadsDiffer, StateNames, ResultNames
  <1>Cleaned. CASE Cleaned
    <2>1. Leaves("cleanup")
      BY <1>Cleaned
       DEF Types, Cleaned, At, Goto, Leaves, Answered, SettlingPc, ProbePc, ReadPc, Ended,
           Terminal, AccountType, GateInv, BoundInv
    <2> QED BY <2>1, SettleFrame
  <1> QED BY <1>Cleaned

LEMMA CloserSettle ==
  ASSUME ~Delayed, Types, EndInv, GateInv, BoundInv, SettleInv, CloserOwn
  PROVE  OnlyMoves("closer") => SettleInv'
  <1> USE ThreadNames, ThreadsDiffer, StateNames, ResultNames
  <1>CloseDelayed. CASE CloseDelayed
    <2>1. Leaves("closer")
      BY <1>CloseDelayed
       DEF Types, CloseDelayed, At, Goto, Leaves, Answered, SettlingPc, ProbePc, ReadPc, Ended,
           Terminal
    <2> QED BY <2>1, SettleFrame
  <1>RejectDelayed. CASE RejectDelayed
    <2>1. Leaves("closer")
      BY <1>RejectDelayed, TerminatedFields, FinalizeDoes
       DEF Types, RejectDelayed, Goto, At, CanTerminate, EntryType, shared, Leaves, Answered,
           SettlingPc, ProbePc, ReadPc, Ended, Terminal
    <2> QED BY <2>1, SettleFrame
  <1> QED BY <1>CloseDelayed, <1>RejectDelayed DEF CloserOwn


LEMMA SettleKept ==
  ASSUME ~Delayed, Types, EndInv, GateInv, BoundInv, SettleInv, [Next]_vars
  PROVE  SettleInv'
  <1> USE ThreadNames
  <1>1. ASSUME NEW t \in Threads, FinalizeStep(t) \/ HelpOwn(t)
        PROVE  SettleInv'
    BY <1>1, FinalTypes, HelpTypes, FinalSettle, HelpSettle
  <1>2. CASE PublishOwn
    BY <1>2, PubTypes, PubSettle
  <1>3. ASSUME NEW c \in Callers, CallOwn(c)
        PROVE  SettleInv'
    BY <1>3, CallTypes, CallSettle
  <1>4. ASSUME NEW c \in Callers, ScheduleCleanup(c)
        PROVE  SettleInv'
    <2>1. ~bound
      BY <1>4, ScheduleDoes
    <2> QED BY <2>1 DEF BoundInv
  <1>5. ASSUME NEW w \in Slots, WorkOwn(w) \/ MoveOwn(w)
        PROVE  SettleInv'
    BY <1>5, WorkTypes, MoveTypes, WorkSettle, MoveSettle
  <1>6. ASSUME NEW w \in Slots, Dispatch(w)
        PROVE  SettleInv'
    <2> USE ThreadsDiffer
    <2>1. CASE OnlyMoves(w)
      <3>1. Leaves(w)
        BY <1>6, <2>1, DispatchDoes
           DEF Dispatch, Leaves, Answered, SettlingPc, ProbePc, ReadPc, Ended, Terminal
      <3> QED BY <2>1, <3>1, SettleFrame
    <2>2. CASE ~OnlyMoves(w)
      <3>1. /\ UNCHANGED <<entry, accounts>> /\ pc'["publisher"] = pc["publisher"]
            /\ entry.state \notin Ended /\ pc'[w] = "idle" /\ pc'["business"] = "waiting"
            /\ \A u \in Threads \ {w, "business"} : pc'[u] = pc[u] /\ local'[u] = local[u]
        BY <1>6, <2>2, DispatchDoes DEF Dispatch
      <3>2. \A u \in Threads : pc[u] \notin SettlingPc
        BY <3>1 DEF SettleInv, SettleOwn, Ended
      <3>3. ASSUME NEW u \in Threads
            PROVE  pc'[u] \notin SettlingPc /\ SettleOwn(u)'
        <4>1. CASE u \in {w, "business"}
          BY <3>1, <4>1 DEF SettleOwn, SettlingPc, ProbePc, ReadPc
        <4>2. CASE u \notin {w, "business"}
          <5>1. /\ pc'[u] \notin SettlingPc /\ (pc'[u] \in ProbePc => local'[u].owner \in Slots)
                /\ pc'[u] \in ReadPc => local'[u].state \notin Ended
            BY <3>1, <3>2, <4>2 DEF SettleInv, SettleOwn
          <5> QED BY <5>1 DEF SettleOwn, SettlingPc
        <4> QED BY <4>1, <4>2
      <3> QED BY <3>1, <3>3, StateNames DEF SettleInv, Ended
    <2> QED BY <2>1, <2>2
  <1>7. ASSUME NEW t \in Slots \cup {"auditor"}, MoveFailOwn(t)
        PROVE  SettleInv'
    BY <1>7, MoveFailTypes, MoveFailSettle
  <1>8. CASE AuditOwn
    BY <1>8, AuditTypes, AuditSettle
  <1>9. CASE BusinessOwn
    BY <1>9, BizTypes, BizSettle
  <1>10. CASE Cleaned
    BY <1>10, CleanupTypes, CleanupSettle
  <1>11. CASE CloserOwn
    BY <1>11, CloserTypes, CloserSettle
  <1>12. CASE ForceStop \/ UNCHANGED vars
    BY <1>12 DEF ForceStop, vars, shared, history, SettleInv, SettleOwn, Answered
  <1> QED BY <1>1, <1>2, <1>3, <1>4, <1>5, <1>6, <1>7, <1>8, <1>9, <1>10, <1>11, <1>12, NextCases


LEMMA SettleStart ==
  ASSUME Init
  PROVE  SettleInv
  <1> USE ThreadNames, ThreadsDiffer, StateNames
  <1>1. \A t \in Threads : pc[t] \in {"timer", "place", "off", "idle"}
    BY DEF Init
  <1>2. \A t \in Threads : SettleOwn(t) /\ pc[t] \notin SettlingPc
    BY <1>1 DEF SettleOwn, SettlingPc, ProbePc, ReadPc
  <1>3. /\ entry.owner = "home" /\ entry.state \in {"Delayed", "Enqueueing"}
        /\ accounts.settlements = 0 /\ pc["publisher"] # "dropped"
    BY <1>1 DEF Init
  <1> QED BY <1>2, <1>3 DEF SettleInv, Slots

LEMMA SettledKept ==
  ASSUME ~Delayed
  PROVE  /\ Init => EntryInv /\ SettleInv
         /\ EntryInv /\ SettleInv /\ [Next]_vars => (EntryInv /\ SettleInv)'
  BY EntryKept, SettleStart, SettleKept DEF EntryInv

(* finalize_termination_with_accounting, for a task of submit_now: however *)
(* many threads help to end it, the exchange of the owner for its sentinel *)
(* lets one of them settle it, and the terminal counters are committed     *)
(* once.  A delayed task is left out, for it the claim is false: the       *)
(* rollback of prepare_initial_queue stores the owner back over the        *)
(* sentinel of a canceller.                                                *)
THEOREM SettledHolds == ~Delayed /\ Spec => []SettledOnce
  <1>1. SettleInv => SettledOnce
    BY DEF SettleInv, SettledOnce
  <1>2. SUFFICES ASSUME ~Delayed PROVE Spec => []SettledOnce
    OBVIOUS
  <1>3. /\ Init => EntryInv /\ SettleInv
        /\ EntryInv /\ SettleInv /\ [Next]_vars => (EntryInv /\ SettleInv)'
    BY <1>2, SettledKept
  <1> QED BY <1>1, <1>3, PTL DEF Spec

(* The comment before the last store of finalize_termination, for a task   *)
(* of submit_now: whoever sees a stable terminal state finds payload,      *)
(* permits and physical reference given back and the sentinel in place.    *)
THEOREM CleanHolds == ~Delayed /\ Spec => []TerminalIsClean
  <1>1. SettleInv => TerminalIsClean
    BY DEF SettleInv, TerminalIsClean
  <1>2. SUFFICES ASSUME ~Delayed PROVE Spec => []TerminalIsClean
    OBVIOUS
  <1>3. /\ Init => EntryInv /\ SettleInv
        /\ EntryInv /\ SettleInv /\ [Next]_vars => (EntryInv /\ SettleInv)'
    BY <1>2, SettledKept
  <1> QED BY <1>1, <1>3, PTL DEF Spec

-----------------------------------------------------------------------------
(* A worker from the moment it takes the envelope out of a queue until it  *)
(* hands it on or gives it up.                                             *)
HoldPc == {"received", "claim", "claimretention", "claimed", "handling", "mdescribe",
           "mprepare", "mabandon"} \cup TargetPc

(* There is one envelope: with the publisher, in a queue, with a worker or *)
(* with the business task.                                                 *)
TokenInv ==
  /\ pc["publisher"] # "done" => pc["business"] = "off"
  /\ at # "nowhere" \/ pc["business"] # "off" => \A w \in Slots : pc[w] \notin HoldPc
  /\ pc["business"] # "off" => at = "nowhere"
  /\ \A v, w \in Slots : pc[v] \in HoldPc /\ pc[w] \in HoldPc => v = w

(* A mover from the descriptor on, and while its move may be Moving.       *)
MovePc == {"mabandon", "mclear", "munregister", "mfail", "mfailclear"} \cup TargetPc
ActivePc == {"mcheckpublish", "mpublish", "mfail"} \cup Carry

MoverOwn(w) ==
  /\ pc[w] \in MovePc => entry.epoch >= 1 /\ local[w].epoch = entry.epoch
  /\ pc[w] = "mdescribe" => entry.state # "Moving"
  /\ pc[w] \in MovePc \ ActivePc /\ entry.move # NoMove => entry.state # "Moving"

MoveInv ==
  /\ \A w \in Slots : MoverOwn(w)
  /\ \A w \in Slots : pc[w] \in MovePc \cup {"mdescribe"} =>
                        pc[Other(w)] \notin MovePc \cup {"mdescribe"}
  /\ moving => \E w \in Slots : pc[w] \in MovePc \ {"mregister"}
  /\ entry.move # NoMove => \E w \in Slots : /\ pc[w] \in MovePc \ {"munregister"}
                                             /\ local[w].epoch = entry.move.epoch

(* A step that has no part in the move.                                    *)
Stands(t) ==
  /\ t \in Slots => /\ pc[t] \notin MovePc \cup {"mdescribe"}
                    /\ pc'[t] \notin MovePc \cup {"mdescribe"}
  /\ entry'.epoch = entry.epoch /\ entry'.move \in {entry.move, NoMove}
  /\ entry'.state = "Moving" => entry.state = "Moving"
  /\ moving' => moving

LEMMA StandFrame ==
  ASSUME MoveInv, NEW t \in Threads, OnlyMoves(t), Stands(t)
  PROVE  MoveInv'
  <1> USE SlotPair
  <1>1. ASSUME NEW w \in Slots
        PROVE  \/ pc'[w] = pc[w] /\ local'[w] = local[w]
               \/ /\ pc[w] \notin MovePc \cup {"mdescribe"}
                  /\ pc'[w] \notin MovePc \cup {"mdescribe"}
    BY DEF OnlyMoves, Stands
  <1>2. \A w \in Slots : MoverOwn(w)'
    BY <1>1 DEF MoveInv, MoverOwn, Stands
  <1>3. \A w \in Slots : pc'[w] \in MovePc \cup {"mdescribe"} =>
                           pc'[Other(w)] \notin MovePc \cup {"mdescribe"}
    BY <1>1 DEF MoveInv
  <1>4. moving' => \E w \in Slots : pc'[w] \in MovePc \ {"mregister"}
    BY <1>1 DEF MoveInv, Stands
  <1>5. entry'.move # NoMove => \E w \in Slots : /\ pc'[w] \in MovePc \ {"munregister"}
                                                 /\ local'[w].epoch = entry'.move.epoch
    BY <1>1 DEF MoveInv, Stands
  <1> QED BY <1>2, <1>3, <1>4, <1>5 DEF MoveInv

LEMMA MoverAlone ==
  ASSUME MoveInv, NEW w \in Slots, pc[w] \in MovePc \cup {"mdescribe"}
  PROVE  /\ MoverOwn(w) /\ pc[Other(w)] \notin MovePc \cup {"mdescribe"}
         /\ moving => pc[w] \in MovePc \ {"mregister"}
         /\ entry.move # NoMove => /\ pc[w] \in MovePc \ {"munregister"}
                                   /\ local[w].epoch = entry.move.epoch
  BY SlotPair DEF MoveInv

(* A step of the mover.                                                    *)
Drives(w) ==
  /\ MoverOwn(w)'
  /\ moving' => pc'[w] \in MovePc \ {"mregister"}
  /\ entry'.move # NoMove => pc'[w] \in MovePc \ {"munregister"} /\ local'[w].epoch = entry'.move.epoch

LEMMA MoverFrame ==
  ASSUME NEW w \in Slots, OnlyMoves(w), pc[Other(w)] \notin MovePc \cup {"mdescribe"}, Drives(w)
  PROVE  MoveInv'
  <1> USE SlotPair
  <1>1. pc'[Other(w)] \notin MovePc \cup {"mdescribe"}
    BY DEF OnlyMoves
  <1>2. ASSUME NEW v \in Slots PROVE MoverOwn(v)'
    <2>1. CASE v = w
      BY <2>1 DEF Drives
    <2>2. CASE v = Other(w)
      BY <1>1, <2>2 DEF MoverOwn
    <2> QED BY <2>1, <2>2
  <1>3. \A v \in Slots : pc'[v] \in MovePc \cup {"mdescribe"} =>
                           pc'[Other(v)] \notin MovePc \cup {"mdescribe"}
    BY <1>1
  <1>4. moving' => \E v \in Slots : pc'[v] \in MovePc \ {"mregister"}
    BY DEF Drives
  <1>5. entry'.move # NoMove => \E v \in Slots : /\ pc'[v] \in MovePc \ {"munregister"}
                                                 /\ local'[v].epoch = entry'.move.epoch
    BY DEF Drives
  <1> QED BY <1>2, <1>3, <1>4, <1>5 DEF MoveInv

LEMMA FinalToken ==
  ASSUME Types, EndInv, GateInv, BoundInv, CountInv, TokenInv, NEW t \in Threads, FinalizeStep(t)
  PROVE  OnlyMoves(t) => TokenInv'
  <1> USE ThreadNames, ThreadsDiffer, ResultNames
  <1>FinalizeState. CASE FinalizeState(t)
    BY <1>FinalizeState, ReturnDoes
     DEF Types, FinalizeState, Goto, At, shared, history, OnlyMoves, TokenInv, HoldPc,
         TargetPc, Carry, EndInv, EndOwn, FinalPc, KnownPc
  <1>FinalizePending. CASE FinalizePending(t)
    BY <1>FinalizePending, PendingDoes
     DEF Types, FinalizePending, Goto, At, shared, history, OnlyMoves, TokenInv, HoldPc,
         TargetPc, Carry, EndInv, EndOwn, FinalPc, KnownPc
  <1>FinalizeRetention. CASE FinalizeRetention(t)
    BY <1>FinalizeRetention, ReturnDoes
     DEF Types, FinalizeRetention, Goto, At, shared, history, OnlyMoves, TokenInv, HoldPc,
         TargetPc, Carry, EndInv, EndOwn, FinalPc, KnownPc
  <1>FinalizeOwner. CASE FinalizeOwner(t)
    BY <1>FinalizeOwner, OwnerDoes
     DEF Types, FinalizeOwner, Goto, At, shared, history, OnlyMoves, TokenInv, HoldPc,
         TargetPc, Carry, EndInv, EndOwn, FinalPc, KnownPc
  <1>FinalizeTerminal. CASE FinalizeTerminal(t)
    BY <1>FinalizeTerminal, ReturnDoes
     DEF Types, FinalizeTerminal, Goto, At, shared, history, OnlyMoves, TokenInv, HoldPc,
         TargetPc, Carry, EndInv, EndOwn, FinalPc, KnownPc
  <1>FinalizeMove. CASE FinalizeMove(t)
    BY <1>FinalizeMove, ReturnDoes
     DEF Types, FinalizeMove, Goto, At, shared, history, OnlyMoves, TokenInv, HoldPc, TargetPc,
         Carry, EndInv, EndOwn, FinalPc, KnownPc
  <1>FinalizeClaim. CASE FinalizeClaim(t)
    BY <1>FinalizeClaim, ReturnDoes
     DEF Types, FinalizeClaim, Goto, At, EntryType, shared, history, OnlyMoves, TokenInv,
         HoldPc, TargetPc, Carry, EndInv, EndOwn, FinalPc, KnownPc
  <1>FinalizeDetach. CASE FinalizeDetach(t)
    BY <1>FinalizeDetach
     DEF Types, FinalizeDetach, At, Goto, EntryType, shared, history, OnlyMoves, TokenInv,
         HoldPc, TargetPc, Carry, EndInv, EndOwn, FinalPc, KnownPc
  <1>FinalizeLogical. CASE FinalizeLogical(t)
    BY <1>FinalizeLogical
     DEF Types, FinalizeLogical, At, Goto, EntryType, shared, history, OnlyMoves, TokenInv,
         HoldPc, TargetPc, Carry, EndInv, EndOwn, FinalPc, KnownPc
  <1>FinalizeAccount. CASE FinalizeAccount(t)
    BY <1>FinalizeAccount
     DEF Types, FinalizeAccount, At, Goto, shared, history, OnlyMoves, TokenInv, HoldPc,
         TargetPc, Carry, EndInv, EndOwn, FinalPc, KnownPc
  <1>FinalizePermits. CASE FinalizePermits(t)
    BY <1>FinalizePermits
     DEF Types, FinalizePermits, At, Goto, EntryType, shared, history, OnlyMoves, TokenInv,
         HoldPc, TargetPc, Carry, EndInv, EndOwn, FinalPc, KnownPc
  <1>FinalizeRecord. CASE FinalizeRecord(t)
    BY <1>FinalizeRecord, ReturnDoes
     DEF Types, FinalizeRecord, Goto, At, EntryType, shared, history, OnlyMoves, TokenInv,
         HoldPc, TargetPc, Carry, EndInv, EndOwn, FinalPc, KnownPc
  <1>FinalizeUnpend. CASE FinalizeUnpend(t)
    BY <1>FinalizeUnpend
     DEF Types, FinalizeUnpend, At, Goto, EntryType, shared, history, OnlyMoves, TokenInv,
         HoldPc, TargetPc, Carry, EndInv, EndOwn, FinalPc, KnownPc
  <1>FinalizePublish. CASE FinalizePublish(t)
    BY <1>FinalizePublish, ReturnDoes
     DEF Types, FinalizePublish, Goto, At, EntryType, shared, history, OnlyMoves, TokenInv,
         HoldPc, TargetPc, Carry, EndInv, EndOwn, FinalPc, KnownPc
  <1> QED BY <1>FinalizeState, <1>FinalizePending, <1>FinalizeRetention, <1>FinalizeOwner,
     <1>FinalizeTerminal, <1>FinalizeMove, <1>FinalizeClaim, <1>FinalizeDetach,
     <1>FinalizeLogical, <1>FinalizeAccount, <1>FinalizePermits, <1>FinalizeRecord,
     <1>FinalizeUnpend, <1>FinalizePublish DEF FinalizeStep

LEMMA HelpToken ==
  ASSUME Types, EndInv, GateInv, BoundInv, CountInv, TokenInv, NEW t \in Threads, HelpOwn(t)
  PROVE  OnlyMoves(t) => TokenInv'
  <1> USE ThreadNames, ThreadsDiffer, ResultNames
  <1>Helped. CASE Helped(t)
    BY <1>Helped
     DEF Types, Helped, At, Goto, After, history, OnlyMoves, TokenInv, HoldPc, TargetPc, Carry
  <1>FailBeforeRunning. CASE FailBeforeRunning(t)
    BY <1>FailBeforeRunning, FinalizeDoes
     DEF Types, FailBeforeRunning, Goto, At, After, shared, history, OnlyMoves, TokenInv,
         HoldPc, TargetPc, Carry
  <1>FailQueued. CASE FailQueued(t)
    BY <1>FailQueued, TerminatedFields, FinalizeDoes
     DEF Types, FailQueued, Goto, At, CanTerminate, After, EntryType, shared, history,
         OnlyMoves, TokenInv, HoldPc, TargetPc, Carry
  <1>AuthorityFailure. CASE AuthorityFailure(t)
    BY <1>AuthorityFailure, FinalizeDoes, LocalState
     DEF Types, AuthorityFailure, Goto, At, After, history, OnlyMoves, TokenInv, HoldPc,
         TargetPc, Carry
  <1>AuthorityFailFrom. CASE AuthorityFailFrom(t)
    BY <1>AuthorityFailFrom, TerminatedFields, FinalizeDoes
     DEF Types, AuthorityFailFrom, Goto, At, CanTerminate, After, EntryType, history,
         OnlyMoves, TokenInv, HoldPc, TargetPc, Carry
  <1> QED BY <1>Helped, <1>FailBeforeRunning, <1>FailQueued, <1>AuthorityFailure, <1>AuthorityFailFrom
   DEF HelpOwn

LEMMA PubToken ==
  ASSUME Types, EndInv, GateInv, BoundInv, CountInv, TokenInv, PublishOwn
  PROVE  OnlyMoves("publisher") => TokenInv'
  <1> USE ThreadNames, ThreadsDiffer, ResultNames
  <1>ExpireRemove. CASE ExpireRemove
    BY <1>ExpireRemove
     DEF Types, ExpireRemove, At, Goto, history, OnlyMoves, TokenInv, HoldPc, TargetPc, Carry,
         CountInv, Unseen
  <1>ClaimExpired. CASE ClaimExpired
    BY <1>ClaimExpired
     DEF Types, ClaimExpired, At, Goto, EntryType, shared, history, OnlyMoves, TokenInv,
         HoldPc, TargetPc, Carry, CountInv, Unseen
  <1>AdmitExpired. CASE AdmitExpired
    BY <1>AdmitExpired
     DEF Types, AdmitExpired, At, Goto, shared, history, OnlyMoves, TokenInv, HoldPc, TargetPc,
         Carry, CountInv, Unseen
  <1>RejectUnbound. CASE RejectUnbound
    BY <1>RejectUnbound, TerminatedFields, FinalizeDoes
     DEF Types, RejectUnbound, Goto, At, CanTerminate, EntryType, shared, history, OnlyMoves,
         TokenInv, HoldPc, TargetPc, Carry, CountInv, Unseen
  <1>InstallCheck. CASE InstallCheck
    BY <1>InstallCheck
     DEF Types, InstallCheck, At, Goto, shared, history, OnlyMoves, TokenInv, HoldPc, TargetPc,
         Carry, CountInv, Unseen
  <1>Install. CASE Install
    BY <1>Install
     DEF Types, Install, At, Goto, EntryType, shared, history, OnlyMoves, TokenInv, HoldPc,
         TargetPc, Carry, CountInv, Unseen
  <1>Bind. CASE Bind
    BY <1>Bind
     DEF Types, Bind, At, Goto, history, OnlyMoves, TokenInv, HoldPc, TargetPc, Carry,
         CountInv, Unseen
  <1>Place. ASSUME NEW s \in Slots, Place(s) PROVE OnlyMoves("publisher") => TokenInv'
    <2>1. /\ pc["publisher"] = "place" /\ pc'["publisher"] = "prepare"
          /\ at' = at /\ OnlyMoves("publisher")
      BY <1>Place, PlaceDoes DEF Place, At, shared
    <2> QED BY <2>1 DEF TokenInv, OnlyMoves
  <1>PlacementRefused. CASE PlacementRefused
    BY <1>PlacementRefused
     DEF Types, PlacementRefused, At, Goto, shared, history, OnlyMoves, TokenInv, HoldPc,
         TargetPc, Carry, CountInv, Unseen
  <1>PrepareCheck. CASE PrepareCheck
    BY <1>PrepareCheck
     DEF Types, PrepareCheck, At, Goto, shared, history, OnlyMoves, TokenInv, HoldPc, TargetPc,
         Carry, CountInv, Unseen
  <1>PrepareLogical. CASE PrepareLogical
    BY <1>PrepareLogical
     DEF Types, PrepareLogical, At, Goto, EntryType, shared, history, OnlyMoves, TokenInv,
         HoldPc, TargetPc, Carry, CountInv, Unseen
  <1>PrepareOwner. CASE PrepareOwner
    BY <1>PrepareOwner
     DEF Types, PrepareOwner, At, Goto, EntryType, shared, history, OnlyMoves, TokenInv,
         HoldPc, TargetPc, Carry, CountInv, Unseen
  <1>PrepareRetention. CASE PrepareRetention
    BY <1>PrepareRetention
     DEF Types, PrepareRetention, At, Goto, EntryType, shared, history, OnlyMoves, TokenInv,
         HoldPc, TargetPc, Carry, CountInv, Unseen
  <1>PrepareQueued. CASE PrepareQueued
    BY <1>PrepareQueued
     DEF Types, PrepareQueued, At, Goto, EntryType, shared, history, OnlyMoves, TokenInv,
         HoldPc, TargetPc, Carry, CountInv, Unseen
  <1>UndoRetention. CASE UndoRetention
    BY <1>UndoRetention
     DEF Types, UndoRetention, At, Goto, EntryType, shared, history, OnlyMoves, TokenInv,
         HoldPc, TargetPc, Carry, CountInv, Unseen
  <1>UndoOwner. CASE UndoOwner
    BY <1>UndoOwner
     DEF Types, UndoOwner, At, Goto, EntryType, shared, history, OnlyMoves, TokenInv, HoldPc,
         TargetPc, Carry, CountInv, Unseen
  <1>Uncount. CASE Uncount
    BY <1>Uncount
     DEF Types, Uncount, At, Goto, shared, history, OnlyMoves, TokenInv, HoldPc, TargetPc,
         Carry, CountInv, Unseen
  <1>PublishInitial. CASE PublishInitial
    BY <1>PublishInitial
     DEF Types, PublishInitial, At, Goto, history, OnlyMoves, TokenInv, HoldPc, TargetPc,
         Carry, CountInv, Unseen
  <1>DropUnplaced. CASE DropUnplaced
    BY <1>DropUnplaced
     DEF Types, DropUnplaced, At, Goto, EntryType, shared, history, OnlyMoves, TokenInv,
         HoldPc, TargetPc, Carry, CountInv, Unseen
  <1>Unplaced. CASE Unplaced
    BY <1>Unplaced, FinalizeDoes
     DEF Types, Unplaced, Goto, At, shared, history, OnlyMoves, TokenInv, HoldPc, TargetPc,
         Carry, CountInv, Unseen
  <1>RejectBound. CASE RejectBound
    BY <1>RejectBound, TerminatedFields, FinalizeDoes
     DEF Types, RejectBound, Goto, At, CanTerminate, EntryType, shared, history, OnlyMoves,
         TokenInv, HoldPc, TargetPc, Carry, CountInv, Unseen
  <1>SettleUnplaced. CASE SettleUnplaced
    BY <1>SettleUnplaced
     DEF Types, SettleUnplaced, At, Goto, shared, history, OnlyMoves, TokenInv, HoldPc,
         TargetPc, Carry, CountInv, Unseen
  <1> QED BY <1>ExpireRemove, <1>ClaimExpired, <1>AdmitExpired, <1>RejectUnbound, <1>InstallCheck,
     <1>Install, <1>Bind, <1>Place, <1>PlacementRefused, <1>PrepareCheck, <1>PrepareLogical,
     <1>PrepareOwner, <1>PrepareRetention, <1>PrepareQueued, <1>UndoRetention, <1>UndoOwner,
     <1>Uncount, <1>PublishInitial, <1>DropUnplaced, <1>Unplaced, <1>RejectBound,
     <1>SettleUnplaced DEF PublishOwn

LEMMA CallToken ==
  ASSUME Types, EndInv, GateInv, BoundInv, CountInv, TokenInv, NEW c \in Callers, CallOwn(c)
  PROVE  OnlyMoves(c) => TokenInv'
  <1> USE ThreadNames, ThreadsDiffer, ResultNames
  <1>CancelCall. CASE CancelCall(c)
    BY <1>CancelCall
     DEF Types, CancelCall, At, Goto, shared, history, OnlyMoves, TokenInv, HoldPc, TargetPc,
         Carry
  <1>CancelRead. CASE CancelRead(c)
    BY <1>CancelRead, LocalState
     DEF Types, CancelRead, Goto, At, Answer, shared, OnlyMoves, TokenInv, HoldPc, TargetPc,
         Carry
  <1>CancelTerminate. CASE CancelTerminate(c)
    BY <1>CancelTerminate, TerminatedFields
     DEF Types, CancelTerminate, Goto, At, CanTerminate, Answer, EntryType, shared, OnlyMoves,
         TokenInv, HoldPc, TargetPc, Carry
  <1>CancelDefer. CASE CancelDefer(c)
    BY <1>CancelDefer
     DEF Types, CancelDefer, At, Goto, Answer, EntryType, shared, OnlyMoves, TokenInv, HoldPc,
         TargetPc, Carry
  <1>RetireDelayed. CASE RetireDelayed(c)
    BY <1>RetireDelayed
     DEF Types, RetireDelayed, At, Goto, history, OnlyMoves, TokenInv, HoldPc, TargetPc, Carry
  <1>BindChecked. CASE BindChecked(c)
    BY <1>BindChecked
     DEF Types, BindChecked, At, Goto, shared, history, OnlyMoves, TokenInv, HoldPc, TargetPc,
         Carry
  <1>CancelFinalize. CASE CancelFinalize(c)
    BY <1>CancelFinalize, CancelFinalizeDoes
     DEF Types, CancelFinalize, Goto, At, shared, history, OnlyMoves, TokenInv, HoldPc,
         TargetPc, Carry
  <1>CancelSettled. CASE CancelSettled(c)
    BY <1>CancelSettled
     DEF Types, CancelSettled, At, Goto, Answer, LeftToOther, OnlyMoves, TokenInv, HoldPc,
         TargetPc, Carry
  <1> QED BY <1>CancelCall, <1>CancelRead, <1>CancelTerminate, <1>CancelDefer, <1>RetireDelayed,
     <1>BindChecked, <1>CancelFinalize, <1>CancelSettled DEF CallOwn

LEMMA WorkToken ==
  ASSUME Types, EndInv, GateInv, BoundInv, CountInv, TokenInv, NEW w \in Slots, WorkOwn(w)
  PROVE  OnlyMoves(w) => TokenInv'
  <1> USE ThreadNames, ThreadsDiffer, ResultNames
  <1>Receive. CASE Receive(w)
    BY <1>Receive
     DEF Types, Receive, At, Goto, history, OnlyMoves, TokenInv, HoldPc, TargetPc, Carry,
         CountInv, Unseen
  <1>Received. CASE Received(w)
    BY <1>Received
     DEF Types, Received, At, Goto, shared, history, OnlyMoves, TokenInv, HoldPc, TargetPc,
         Carry, CountInv, Unseen
  <1>ClaimMove. CASE ClaimMove(w)
    BY <1>ClaimMove
     DEF Types, ClaimMove, At, Goto, EntryType, shared, history, OnlyMoves, TokenInv, HoldPc,
         TargetPc, Carry, CountInv, Unseen
  <1>ClaimRetention. CASE ClaimRetention(w)
    BY <1>ClaimRetention
     DEF Types, ClaimRetention, At, Goto, EntryType, shared, history, OnlyMoves, TokenInv,
         HoldPc, TargetPc, Carry, CountInv, Unseen
  <1>Claimed. CASE Claimed(w)
    BY <1>Claimed, FinalizeDoes
     DEF Types, Claimed, Goto, At, shared, history, OnlyMoves, TokenInv, HoldPc, TargetPc,
         Carry, CountInv, Unseen
  <1>MoveBegin. CASE MoveBegin(w)
    BY <1>MoveBegin
     DEF Types, MoveBegin, At, Goto, shared, history, OnlyMoves, TokenInv, HoldPc, TargetPc,
         Carry, CountInv, Unseen
  <1> QED BY <1>Receive, <1>Received, <1>ClaimMove, <1>ClaimRetention, <1>Claimed, <1>MoveBegin
   DEF WorkOwn

LEMMA MoveToken ==
  ASSUME Types, EndInv, GateInv, BoundInv, CountInv, TokenInv, NEW w \in Slots, MoveOwn(w)
  PROVE  OnlyMoves(w) => TokenInv'
  <1> USE ThreadNames, ThreadsDiffer, ResultNames
  <1>MoveRefused. CASE MoveRefused(w)
    BY <1>MoveRefused, FinalizeDoes
     DEF Types, MoveRefused, Goto, At, shared, history, OnlyMoves, TokenInv, HoldPc, TargetPc,
         Carry, CountInv, Unseen
  <1>MoveDescribe. CASE MoveDescribe(w)
    <2>1. /\ pc[w] = "mdescribe" /\ pc'[w] \in {"mregister", "mprepare"}
          /\ at' = at /\ OnlyMoves(w)
      BY <1>MoveDescribe, DescribeDoes DEF MoveDescribe, At, shared
    <2> QED BY <2>1 DEF TokenInv, OnlyMoves, HoldPc
  <1>MoveRegister. CASE MoveRegister(w)
    BY <1>MoveRegister
     DEF Types, MoveRegister, At, Goto, history, OnlyMoves, TokenInv, HoldPc, TargetPc, Carry,
         CountInv, Unseen
  <1>MoveEnsure. CASE MoveEnsure(w)
    BY <1>MoveEnsure
     DEF Types, MoveEnsure, At, Goto, shared, history, OnlyMoves, TokenInv, HoldPc, TargetPc,
         Carry, CountInv, Unseen
  <1>MoveActivate. CASE MoveActivate(w)
    BY <1>MoveActivate
     DEF Types, MoveActivate, At, Goto, EntryType, shared, history, OnlyMoves, TokenInv,
         HoldPc, TargetPc, Carry, CountInv, Unseen
  <1>MoveAbandon. CASE MoveAbandon(w)
    BY <1>MoveAbandon, FinalizeDoes
     DEF Types, MoveAbandon, Goto, At, EntryType, history, OnlyMoves, TokenInv, HoldPc,
         TargetPc, Carry, CountInv, Unseen
  <1>MoveChecked. CASE MoveChecked(w)
    BY <1>MoveChecked
     DEF Types, MoveChecked, MoveCheck, At, Goto, shared, history, OnlyMoves, TokenInv, HoldPc,
         TargetPc, Carry, CountInv, Unseen
  <1>MoveOwner. CASE MoveOwner(w)
    BY <1>MoveOwner
     DEF Types, MoveOwner, At, Goto, EntryType, shared, history, OnlyMoves, TokenInv, HoldPc,
         TargetPc, Carry, CountInv, Unseen
  <1>MoveRetention. CASE MoveRetention(w)
    BY <1>MoveRetention
     DEF Types, MoveRetention, At, Goto, EntryType, shared, history, OnlyMoves, TokenInv,
         HoldPc, TargetPc, Carry, CountInv, Unseen
  <1>MoveLogical. CASE MoveLogical(w)
    BY <1>MoveLogical
     DEF Types, MoveLogical, At, Goto, EntryType, shared, history, OnlyMoves, TokenInv, HoldPc,
         TargetPc, Carry, CountInv, Unseen
  <1>MovePublish. CASE MovePublish(w)
    BY <1>MovePublish
     DEF Types, MovePublish, At, Goto, EntryType, shared, history, OnlyMoves, TokenInv, HoldPc,
         TargetPc, Carry, CountInv, Unseen
  <1>MoveCancel. CASE MoveCancel(w)
    BY <1>MoveCancel
     DEF Types, MoveCancel, At, Goto, EntryType, shared, history, OnlyMoves, TokenInv, HoldPc,
         TargetPc, Carry, CountInv, Unseen
  <1>MoveTerminate. CASE MoveTerminate(w)
    BY <1>MoveTerminate, TerminatedFields
     DEF Types, MoveTerminate, At, Goto, CanTerminate, EntryType, shared, history, OnlyMoves,
         TokenInv, HoldPc, TargetPc, Carry, CountInv, Unseen
  <1>MoveComplete. CASE MoveComplete(w)
    BY <1>MoveComplete
     DEF Types, MoveComplete, At, Goto, shared, history, OnlyMoves, TokenInv, HoldPc, TargetPc,
         Carry, CountInv, Unseen
  <1>MoveEnqueue. CASE MoveEnqueue(w)
    BY <1>MoveEnqueue
     DEF Types, MoveEnqueue, At, Goto, history, OnlyMoves, TokenInv, HoldPc, TargetPc, Carry,
         CountInv, Unseen
  <1>MoveClear. CASE MoveClear(w)
    BY <1>MoveClear, ClearedFields
     DEF Types, MoveClear, At, Goto, EntryType, shared, history, OnlyMoves, TokenInv, HoldPc,
         TargetPc, Carry, CountInv, Unseen
  <1>MoveUnregister. CASE MoveUnregister(w)
    BY <1>MoveUnregister
     DEF Types, MoveUnregister, At, Goto, history, OnlyMoves, TokenInv, HoldPc, TargetPc,
         Carry, CountInv, Unseen
  <1>MoveUncount. CASE MoveUncount(w)
    BY <1>MoveUncount
     DEF Types, MoveUncount, At, Goto, shared, history, OnlyMoves, TokenInv, HoldPc, TargetPc,
         Carry, CountInv, Unseen
  <1> QED BY <1>MoveRefused, <1>MoveDescribe, <1>MoveRegister, <1>MoveEnsure, <1>MoveActivate,
     <1>MoveAbandon, <1>MoveChecked, <1>MoveOwner, <1>MoveRetention, <1>MoveLogical,
     <1>MovePublish, <1>MoveCancel, <1>MoveTerminate, <1>MoveComplete, <1>MoveEnqueue,
     <1>MoveClear, <1>MoveUnregister, <1>MoveUncount DEF MoveOwn

LEMMA MoveFailToken ==
  ASSUME Types, EndInv, GateInv, BoundInv, CountInv, TokenInv, NEW t \in Slots \cup {"auditor"}, MoveFailOwn(t)
  PROVE  OnlyMoves(t) => TokenInv'
  <1> USE ThreadNames, ThreadsDiffer, ResultNames
  <1>MoveFail. CASE MoveFail(t)
    BY <1>MoveFail, TerminatedFields
     DEF Types, MoveFail, At, Goto, CanTerminate, EntryType, shared, history, OnlyMoves,
         TokenInv, HoldPc, TargetPc, Carry
  <1>MoveFailClear. CASE MoveFailClear(t)
    BY <1>MoveFailClear, ClearedFields, FinalizeDoes
     DEF Types, MoveFailClear, Goto, At, EntryType, history, OnlyMoves, TokenInv, HoldPc,
         TargetPc, Carry
  <1> QED BY <1>MoveFail, <1>MoveFailClear DEF MoveFailOwn

LEMMA AuditToken ==
  ASSUME Types, EndInv, GateInv, BoundInv, CountInv, TokenInv, AuditOwn
  PROVE  OnlyMoves("auditor") => TokenInv'
  <1> USE ThreadNames, ThreadsDiffer, ResultNames
  <1>AuditSnapshot. CASE AuditSnapshot
    BY <1>AuditSnapshot, LocalEpoch
     DEF Types, AuditSnapshot, At, Goto, history, OnlyMoves, TokenInv, HoldPc, TargetPc, Carry
  <1>AuditState. CASE AuditState
    BY <1>AuditState, ClearedFields
     DEF Types, AuditState, Goto, At, EntryType, history, OnlyMoves, TokenInv, HoldPc,
         TargetPc, Carry
  <1>AuditRetention. CASE AuditRetention
    BY <1>AuditRetention, ClearedFields, AuditRetentionDoes
     DEF Types, AuditRetention, Goto, At, EntryType, history, OnlyMoves, TokenInv, HoldPc,
         TargetPc, Carry
  <1>AuditAbandon. CASE AuditAbandon
    BY <1>AuditAbandon, ClearedFields, FinalizeDoes
     DEF Types, AuditAbandon, Goto, At, EntryType, history, OnlyMoves, TokenInv, HoldPc,
         TargetPc, Carry, EndInv, EndOwn
  <1> QED BY <1>AuditSnapshot, <1>AuditState, <1>AuditRetention, <1>AuditAbandon DEF AuditOwn

LEMMA BizToken ==
  ASSUME Types, EndInv, GateInv, BoundInv, CountInv, TokenInv, BusinessOwn
  PROVE  OnlyMoves("business") => TokenInv'
  <1> USE ThreadNames, ThreadsDiffer, ResultNames
  <1>BusinessGranted. CASE BusinessGranted
    BY <1>BusinessGranted
     DEF Types, BusinessGranted, At, Goto, shared, history, OnlyMoves, TokenInv, HoldPc,
         TargetPc, Carry
  <1>BusinessGateClosed. CASE BusinessGateClosed
    BY <1>BusinessGateClosed
     DEF Types, BusinessGateClosed, At, Goto, shared, history, OnlyMoves, TokenInv, HoldPc,
         TargetPc, Carry
  <1>BusinessCheck. CASE BusinessCheck
    BY <1>BusinessCheck, FinalizeDoes
     DEF Types, BusinessCheck, Goto, At, shared, history, OnlyMoves, TokenInv, HoldPc,
         TargetPc, Carry
  <1>TakeForRunning. CASE TakeForRunning
    BY <1>TakeForRunning
     DEF Types, TakeForRunning, At, Goto, EntryType, shared, OnlyMoves, TokenInv, HoldPc,
         TargetPc, Carry
  <1>JobEnds. ASSUME NEW terminal \in {"Completed", "Failed"}, JobEnds(terminal) PROVE OnlyMoves("business") => TokenInv'
    BY <1>JobEnds, TerminatedFields, FinalizeDoes
     DEF Types, JobEnds, CanTerminate, Goto, At, EntryType, shared, history, OnlyMoves,
         TokenInv, HoldPc, TargetPc, Carry
  <1>BusinessAborted. CASE BusinessAborted
    BY <1>BusinessAborted, LocalState
     DEF Types, BusinessAborted, Goto, At, shared, history, OnlyMoves, TokenInv, HoldPc,
         TargetPc, Carry
  <1>Backstop. CASE Backstop
    BY <1>Backstop, FinalizeDoes
     DEF Types, Backstop, Goto, At, shared, history, OnlyMoves, TokenInv, HoldPc, TargetPc,
         Carry
  <1>BackstopFail. CASE BackstopFail
    BY <1>BackstopFail, TerminatedFields, FinalizeDoes
     DEF Types, BackstopFail, Goto, At, CanTerminate, EntryType, shared, history, OnlyMoves,
         TokenInv, HoldPc, TargetPc, Carry
  <1> QED BY <1>BusinessGranted, <1>BusinessGateClosed, <1>BusinessCheck, <1>TakeForRunning,
     <1>JobEnds, <1>BusinessAborted, <1>Backstop, <1>BackstopFail DEF BusinessOwn

LEMMA CleanupToken ==
  ASSUME Types, EndInv, GateInv, BoundInv, CountInv, TokenInv, Cleaned
  PROVE  OnlyMoves("cleanup") => TokenInv'
  <1> USE ThreadNames, ThreadsDiffer, ResultNames
  <1>Cleaned. CASE Cleaned
    BY <1>Cleaned
     DEF Types, Cleaned, At, Goto, LeftToOther, history, OnlyMoves, TokenInv, HoldPc, TargetPc,
         Carry
  <1> QED BY <1>Cleaned

LEMMA CloserToken ==
  ASSUME Types, EndInv, GateInv, BoundInv, CountInv, TokenInv, CloserOwn
  PROVE  OnlyMoves("closer") => TokenInv'
  <1> USE ThreadNames, ThreadsDiffer, ResultNames
  <1>CloseDelayed. CASE CloseDelayed
    BY <1>CloseDelayed
     DEF Types, CloseDelayed, At, Goto, history, OnlyMoves, TokenInv, HoldPc, TargetPc, Carry
  <1>RejectDelayed. CASE RejectDelayed
    BY <1>RejectDelayed, TerminatedFields, FinalizeDoes
     DEF Types, RejectDelayed, Goto, At, CanTerminate, EntryType, shared, history, OnlyMoves,
         TokenInv, HoldPc, TargetPc, Carry
  <1> QED BY <1>CloseDelayed, <1>RejectDelayed DEF CloserOwn


LEMMA FinalMover ==
  ASSUME Types, EndInv, TokenInv, MoveInv, NEW t \in Threads, FinalizeStep(t)
  PROVE  OnlyMoves(t) => MoveInv'
  <1> USE ThreadNames, ThreadsDiffer, StateNames, ResultNames
  <1>FinalizeState. CASE FinalizeState(t)
    <2>1. Stands(t)
      BY <1>FinalizeState, ReturnDoes
       DEF Types, FinalizeState, Goto, At, shared, Stands, MovePc, TargetPc, Carry, EndInv,
           EndOwn, FinalPc, KnownPc
    <2> QED BY <2>1, StandFrame
  <1>FinalizePending. CASE FinalizePending(t)
    <2>1. Stands(t)
      BY <1>FinalizePending, PendingDoes
       DEF Types, FinalizePending, Goto, At, shared, Stands, MovePc, TargetPc, Carry, EndInv,
           EndOwn, FinalPc, KnownPc
    <2> QED BY <2>1, StandFrame
  <1>FinalizeRetention. CASE FinalizeRetention(t)
    <2>1. Stands(t)
      BY <1>FinalizeRetention, ReturnDoes
       DEF Types, FinalizeRetention, Goto, At, shared, Stands, MovePc, TargetPc, Carry, EndInv,
           EndOwn, FinalPc, KnownPc
    <2> QED BY <2>1, StandFrame
  <1>FinalizeOwner. CASE FinalizeOwner(t)
    <2>1. Stands(t)
      BY <1>FinalizeOwner, OwnerDoes
       DEF Types, FinalizeOwner, Goto, At, shared, Stands, MovePc, TargetPc, Carry, EndInv,
           EndOwn, FinalPc, KnownPc
    <2> QED BY <2>1, StandFrame
  <1>FinalizeTerminal. CASE FinalizeTerminal(t)
    <2>1. Stands(t)
      BY <1>FinalizeTerminal, ReturnDoes
       DEF Types, FinalizeTerminal, Goto, At, shared, Stands, MovePc, TargetPc, Carry, EndInv,
           EndOwn, FinalPc, KnownPc
    <2> QED BY <2>1, StandFrame
  <1>FinalizeMove. CASE FinalizeMove(t)
    <2>1. Stands(t)
      BY <1>FinalizeMove, ReturnDoes
       DEF Types, FinalizeMove, Goto, At, shared, Stands, MovePc, TargetPc, Carry, EndInv,
           EndOwn, FinalPc, KnownPc
    <2> QED BY <2>1, StandFrame
  <1>FinalizeClaim. CASE FinalizeClaim(t)
    <2>1. Stands(t)
      BY <1>FinalizeClaim, ReturnDoes
       DEF Types, FinalizeClaim, Goto, At, EntryType, shared, Stands, MovePc, TargetPc, Carry,
           EndInv, EndOwn, FinalPc, KnownPc
    <2> QED BY <2>1, StandFrame
  <1>FinalizeDetach. CASE FinalizeDetach(t)
    <2>1. Stands(t)
      BY <1>FinalizeDetach
       DEF Types, FinalizeDetach, At, Goto, EntryType, shared, Stands, MovePc, TargetPc, Carry,
           EndInv, EndOwn, FinalPc, KnownPc
    <2> QED BY <2>1, StandFrame
  <1>FinalizeLogical. CASE FinalizeLogical(t)
    <2>1. Stands(t)
      BY <1>FinalizeLogical
       DEF Types, FinalizeLogical, At, Goto, EntryType, shared, Stands, MovePc, TargetPc,
           Carry, EndInv, EndOwn, FinalPc, KnownPc
    <2> QED BY <2>1, StandFrame
  <1>FinalizeAccount. CASE FinalizeAccount(t)
    <2>1. Stands(t)
      BY <1>FinalizeAccount
       DEF Types, FinalizeAccount, At, Goto, shared, Stands, MovePc, TargetPc, Carry, EndInv,
           EndOwn, FinalPc, KnownPc
    <2> QED BY <2>1, StandFrame
  <1>FinalizePermits. CASE FinalizePermits(t)
    <2>1. Stands(t)
      BY <1>FinalizePermits
       DEF Types, FinalizePermits, At, Goto, EntryType, shared, Stands, MovePc, TargetPc,
           Carry, EndInv, EndOwn, FinalPc, KnownPc
    <2> QED BY <2>1, StandFrame
  <1>FinalizeRecord. CASE FinalizeRecord(t)
    <2>1. Stands(t)
      BY <1>FinalizeRecord, ReturnDoes
       DEF Types, FinalizeRecord, Goto, At, EntryType, shared, Stands, MovePc, TargetPc, Carry,
           EndInv, EndOwn, FinalPc, KnownPc
    <2> QED BY <2>1, StandFrame
  <1>FinalizeUnpend. CASE FinalizeUnpend(t)
    <2>1. Stands(t)
      BY <1>FinalizeUnpend
       DEF Types, FinalizeUnpend, At, Goto, EntryType, shared, Stands, MovePc, TargetPc, Carry,
           EndInv, EndOwn, FinalPc, KnownPc
    <2> QED BY <2>1, StandFrame
  <1>FinalizePublish. CASE FinalizePublish(t)
    <2>1. Stands(t)
      BY <1>FinalizePublish, ReturnDoes
       DEF Types, FinalizePublish, Goto, At, EntryType, shared, Stands, MovePc, TargetPc,
           Carry, EndInv, EndOwn, FinalPc, KnownPc
    <2> QED BY <2>1, StandFrame
  <1> QED BY <1>FinalizeState, <1>FinalizePending, <1>FinalizeRetention, <1>FinalizeOwner,
     <1>FinalizeTerminal, <1>FinalizeMove, <1>FinalizeClaim, <1>FinalizeDetach,
     <1>FinalizeLogical, <1>FinalizeAccount, <1>FinalizePermits, <1>FinalizeRecord,
     <1>FinalizeUnpend, <1>FinalizePublish DEF FinalizeStep

LEMMA HelpMover ==
  ASSUME Types, EndInv, TokenInv, MoveInv, NEW t \in Threads, HelpOwn(t)
  PROVE  OnlyMoves(t) => MoveInv'
  <1> USE ThreadNames, ThreadsDiffer, StateNames, ResultNames
  <1>Helped. CASE Helped(t)
    <2>1. Stands(t)
      BY <1>Helped DEF Types, Helped, At, Goto, After, Stands, MovePc, TargetPc, Carry
    <2> QED BY <2>1, StandFrame
  <1>FailBeforeRunning. CASE FailBeforeRunning(t)
    <2>1. Stands(t)
      BY <1>FailBeforeRunning, FinalizeDoes
       DEF Types, FailBeforeRunning, Goto, At, After, shared, Stands, MovePc, TargetPc, Carry
    <2> QED BY <2>1, StandFrame
  <1>FailQueued. CASE FailQueued(t)
    <2>1. Stands(t)
      BY <1>FailQueued, TerminatedFields, FinalizeDoes
       DEF Types, FailQueued, Goto, At, CanTerminate, After, EntryType, shared, Stands, MovePc,
           TargetPc, Carry
    <2> QED BY <2>1, StandFrame
  <1>AuthorityFailure. CASE AuthorityFailure(t)
    <2>1. Stands(t)
      BY <1>AuthorityFailure, FinalizeDoes, LocalState
       DEF Types, AuthorityFailure, Goto, At, After, Stands, MovePc, TargetPc, Carry
    <2> QED BY <2>1, StandFrame
  <1>AuthorityFailFrom. CASE AuthorityFailFrom(t)
    <2>1. Stands(t)
      BY <1>AuthorityFailFrom, TerminatedFields, FinalizeDoes
       DEF Types, AuthorityFailFrom, Goto, At, CanTerminate, After, EntryType, Stands, MovePc,
           TargetPc, Carry
    <2> QED BY <2>1, StandFrame
  <1> QED BY <1>Helped, <1>FailBeforeRunning, <1>FailQueued, <1>AuthorityFailure, <1>AuthorityFailFrom
   DEF HelpOwn

LEMMA PubMover ==
  ASSUME Types, EndInv, TokenInv, MoveInv, PublishOwn
  PROVE  OnlyMoves("publisher") => MoveInv'
  <1> USE ThreadNames, ThreadsDiffer, StateNames, ResultNames
  <1>ExpireRemove. CASE ExpireRemove
    <2>1. Stands("publisher")
      BY <1>ExpireRemove DEF Types, ExpireRemove, At, Goto, Stands, MovePc, TargetPc, Carry
    <2> QED BY <2>1, StandFrame
  <1>ClaimExpired. CASE ClaimExpired
    <2>1. Stands("publisher")
      BY <1>ClaimExpired
       DEF Types, ClaimExpired, At, Goto, EntryType, shared, Stands, MovePc, TargetPc, Carry
    <2> QED BY <2>1, StandFrame
  <1>AdmitExpired. CASE AdmitExpired
    <2>1. Stands("publisher")
      BY <1>AdmitExpired
       DEF Types, AdmitExpired, At, Goto, shared, Stands, MovePc, TargetPc, Carry
    <2> QED BY <2>1, StandFrame
  <1>RejectUnbound. CASE RejectUnbound
    <2>1. Stands("publisher")
      BY <1>RejectUnbound, TerminatedFields, FinalizeDoes
       DEF Types, RejectUnbound, Goto, At, CanTerminate, EntryType, shared, Stands, MovePc,
           TargetPc, Carry
    <2> QED BY <2>1, StandFrame
  <1>InstallCheck. CASE InstallCheck
    <2>1. Stands("publisher")
      BY <1>InstallCheck
       DEF Types, InstallCheck, At, Goto, shared, Stands, MovePc, TargetPc, Carry
    <2> QED BY <2>1, StandFrame
  <1>Install. CASE Install
    <2>1. Stands("publisher")
      BY <1>Install
       DEF Types, Install, At, Goto, EntryType, shared, Stands, MovePc, TargetPc, Carry
    <2> QED BY <2>1, StandFrame
  <1>Bind. CASE Bind
    <2>1. Stands("publisher")
      BY <1>Bind DEF Types, Bind, At, Goto, Stands, MovePc, TargetPc, Carry
    <2> QED BY <2>1, StandFrame
  <1>Place. ASSUME NEW s \in Slots, Place(s) PROVE OnlyMoves("publisher") => MoveInv'
    <2>1. Stands("publisher")
      BY <1>Place, PlaceDoes DEF Types, Place, At, Goto, shared, Stands, MovePc, TargetPc, Carry
    <2> QED BY <2>1, StandFrame
  <1>PlacementRefused. CASE PlacementRefused
    <2>1. Stands("publisher")
      BY <1>PlacementRefused
       DEF Types, PlacementRefused, At, Goto, shared, Stands, MovePc, TargetPc, Carry
    <2> QED BY <2>1, StandFrame
  <1>PrepareCheck. CASE PrepareCheck
    <2>1. Stands("publisher")
      BY <1>PrepareCheck
       DEF Types, PrepareCheck, At, Goto, shared, Stands, MovePc, TargetPc, Carry
    <2> QED BY <2>1, StandFrame
  <1>PrepareLogical. CASE PrepareLogical
    <2>1. Stands("publisher")
      BY <1>PrepareLogical
       DEF Types, PrepareLogical, At, Goto, EntryType, shared, Stands, MovePc, TargetPc, Carry
    <2> QED BY <2>1, StandFrame
  <1>PrepareOwner. CASE PrepareOwner
    <2>1. Stands("publisher")
      BY <1>PrepareOwner
       DEF Types, PrepareOwner, At, Goto, EntryType, shared, Stands, MovePc, TargetPc, Carry
    <2> QED BY <2>1, StandFrame
  <1>PrepareRetention. CASE PrepareRetention
    <2>1. Stands("publisher")
      BY <1>PrepareRetention
       DEF Types, PrepareRetention, At, Goto, EntryType, shared, Stands, MovePc, TargetPc, Carry
    <2> QED BY <2>1, StandFrame
  <1>PrepareQueued. CASE PrepareQueued
    <2>1. Stands("publisher")
      BY <1>PrepareQueued
       DEF Types, PrepareQueued, At, Goto, EntryType, shared, Stands, MovePc, TargetPc, Carry
    <2> QED BY <2>1, StandFrame
  <1>UndoRetention. CASE UndoRetention
    <2>1. Stands("publisher")
      BY <1>UndoRetention
       DEF Types, UndoRetention, At, Goto, EntryType, shared, Stands, MovePc, TargetPc, Carry
    <2> QED BY <2>1, StandFrame
  <1>UndoOwner. CASE UndoOwner
    <2>1. Stands("publisher")
      BY <1>UndoOwner
       DEF Types, UndoOwner, At, Goto, EntryType, shared, Stands, MovePc, TargetPc, Carry
    <2> QED BY <2>1, StandFrame
  <1>Uncount. CASE Uncount
    <2>1. Stands("publisher")
      BY <1>Uncount DEF Types, Uncount, At, Goto, shared, Stands, MovePc, TargetPc, Carry
    <2> QED BY <2>1, StandFrame
  <1>PublishInitial. CASE PublishInitial
    <2>1. Stands("publisher")
      BY <1>PublishInitial DEF Types, PublishInitial, At, Goto, Stands, MovePc, TargetPc, Carry
    <2> QED BY <2>1, StandFrame
  <1>DropUnplaced. CASE DropUnplaced
    <2>1. Stands("publisher")
      BY <1>DropUnplaced
       DEF Types, DropUnplaced, At, Goto, EntryType, shared, Stands, MovePc, TargetPc, Carry
    <2> QED BY <2>1, StandFrame
  <1>Unplaced. CASE Unplaced
    <2>1. Stands("publisher")
      BY <1>Unplaced, FinalizeDoes
       DEF Types, Unplaced, Goto, At, shared, Stands, MovePc, TargetPc, Carry
    <2> QED BY <2>1, StandFrame
  <1>RejectBound. CASE RejectBound
    <2>1. Stands("publisher")
      BY <1>RejectBound, TerminatedFields, FinalizeDoes
       DEF Types, RejectBound, Goto, At, CanTerminate, EntryType, shared, Stands, MovePc,
           TargetPc, Carry
    <2> QED BY <2>1, StandFrame
  <1>SettleUnplaced. CASE SettleUnplaced
    <2>1. Stands("publisher")
      BY <1>SettleUnplaced
       DEF Types, SettleUnplaced, At, Goto, shared, Stands, MovePc, TargetPc, Carry
    <2> QED BY <2>1, StandFrame
  <1> QED BY <1>ExpireRemove, <1>ClaimExpired, <1>AdmitExpired, <1>RejectUnbound, <1>InstallCheck,
     <1>Install, <1>Bind, <1>Place, <1>PlacementRefused, <1>PrepareCheck, <1>PrepareLogical,
     <1>PrepareOwner, <1>PrepareRetention, <1>PrepareQueued, <1>UndoRetention, <1>UndoOwner,
     <1>Uncount, <1>PublishInitial, <1>DropUnplaced, <1>Unplaced, <1>RejectBound,
     <1>SettleUnplaced DEF PublishOwn

LEMMA CallMover ==
  ASSUME Types, EndInv, TokenInv, MoveInv, NEW c \in Callers, CallOwn(c)
  PROVE  OnlyMoves(c) => MoveInv'
  <1> USE ThreadNames, ThreadsDiffer, StateNames, ResultNames
  <1>CancelCall. CASE CancelCall(c)
    <2>1. Stands(c)
      BY <1>CancelCall DEF Types, CancelCall, At, Goto, shared, Stands, MovePc, TargetPc, Carry
    <2> QED BY <2>1, StandFrame
  <1>CancelRead. CASE CancelRead(c)
    <2>1. Stands(c)
      BY <1>CancelRead, LocalState
       DEF Types, CancelRead, Goto, At, Answer, shared, Stands, MovePc, TargetPc, Carry
    <2> QED BY <2>1, StandFrame
  <1>CancelTerminate. CASE CancelTerminate(c)
    <2>1. Stands(c)
      BY <1>CancelTerminate, TerminatedFields
       DEF Types, CancelTerminate, Goto, At, CanTerminate, Answer, EntryType, shared, Stands,
           MovePc, TargetPc, Carry
    <2> QED BY <2>1, StandFrame
  <1>CancelDefer. CASE CancelDefer(c)
    <2>1. Stands(c)
      BY <1>CancelDefer
       DEF Types, CancelDefer, At, Goto, Answer, EntryType, shared, Stands, MovePc, TargetPc,
           Carry
    <2> QED BY <2>1, StandFrame
  <1>RetireDelayed. CASE RetireDelayed(c)
    <2>1. Stands(c)
      BY <1>RetireDelayed DEF Types, RetireDelayed, At, Goto, Stands, MovePc, TargetPc, Carry
    <2> QED BY <2>1, StandFrame
  <1>BindChecked. CASE BindChecked(c)
    <2>1. Stands(c)
      BY <1>BindChecked
       DEF Types, BindChecked, At, Goto, shared, Stands, MovePc, TargetPc, Carry
    <2> QED BY <2>1, StandFrame
  <1>CancelFinalize. CASE CancelFinalize(c)
    <2>1. Stands(c)
      BY <1>CancelFinalize, CancelFinalizeDoes
       DEF Types, CancelFinalize, Goto, At, shared, Stands, MovePc, TargetPc, Carry
    <2> QED BY <2>1, StandFrame
  <1>CancelSettled. CASE CancelSettled(c)
    <2>1. Stands(c)
      BY <1>CancelSettled
       DEF Types, CancelSettled, At, Goto, Answer, Stands, MovePc, TargetPc, Carry
    <2> QED BY <2>1, StandFrame
  <1> QED BY <1>CancelCall, <1>CancelRead, <1>CancelTerminate, <1>CancelDefer, <1>RetireDelayed,
     <1>BindChecked, <1>CancelFinalize, <1>CancelSettled DEF CallOwn

LEMMA WorkMover ==
  ASSUME Types, EndInv, TokenInv, MoveInv, NEW w \in Slots, WorkOwn(w)
  PROVE  OnlyMoves(w) => MoveInv'
  <1> USE ThreadNames, ThreadsDiffer, StateNames, ResultNames
  <1>Receive. CASE Receive(w)
    <2>1. Stands(w)
      BY <1>Receive DEF Types, Receive, At, Goto, Stands, MovePc, TargetPc, Carry
    <2> QED BY <2>1, StandFrame
  <1>Received. CASE Received(w)
    <2>1. Stands(w)
      BY <1>Received DEF Types, Received, At, Goto, shared, Stands, MovePc, TargetPc, Carry
    <2> QED BY <2>1, StandFrame
  <1>ClaimMove. CASE ClaimMove(w)
    <2>1. Stands(w)
      BY <1>ClaimMove
       DEF Types, ClaimMove, At, Goto, EntryType, shared, Stands, MovePc, TargetPc, Carry
    <2> QED BY <2>1, StandFrame
  <1>ClaimRetention. CASE ClaimRetention(w)
    <2>1. Stands(w)
      BY <1>ClaimRetention
       DEF Types, ClaimRetention, At, Goto, EntryType, shared, Stands, MovePc, TargetPc, Carry
    <2> QED BY <2>1, StandFrame
  <1>Claimed. CASE Claimed(w)
    <2>1. Stands(w)
      BY <1>Claimed, FinalizeDoes
       DEF Types, Claimed, Goto, At, shared, Stands, MovePc, TargetPc, Carry
    <2> QED BY <2>1, StandFrame
  <1>MoveBegin. CASE MoveBegin(w)
    <2> SUFFICES ASSUME OnlyMoves(w) PROVE MoveInv'
      OBVIOUS
    <2>1. /\ pc[w] = "handling" /\ pc'[w] \in {"mdescribe", "mprepare"} /\ MayMove(w)
          /\ pc'[w] = "mdescribe" => entry.state = "Queued"
          /\ UNCHANGED <<entry, local, moving>>
      BY <1>MoveBegin DEF MoveBegin, At, Goto, Types, shared
    <2>2. pc[Other(w)] \notin MovePc \cup {"mdescribe"}
      <3>1. pc[Other(w)] # "mdescribe"
        BY <2>1, SlotPair DEF TokenInv, HoldPc
      <3>2. CASE w = "home"
        BY <2>1, <3>2 DEF MayMove, Other, MovePc, TargetPc, Carry
      <3>3. CASE w # "home"
        BY <2>1, <3>1, <3>3, SlotPair DEF MayMove, MoveInv, MoverOwn
      <3> QED BY <3>2, <3>3
    <2>3. pc[w] \notin MovePc
      BY <2>1 DEF MovePc, TargetPc, Carry
    <2>4. ~moving /\ entry.move = NoMove
      BY <2>2, <2>3, SlotPair DEF MoveInv
    <2>5. Drives(w)
      BY <2>1, <2>4 DEF Drives, MoverOwn, MovePc, TargetPc, Carry
    <2> QED BY <2>2, <2>5, MoverFrame
  <1> QED BY <1>Receive, <1>Received, <1>ClaimMove, <1>ClaimRetention, <1>Claimed, <1>MoveBegin
   DEF WorkOwn

LEMMA MoveMover ==
  ASSUME Types, EndInv, TokenInv, MoveInv, NEW w \in Slots, MoveOwn(w)
  PROVE  OnlyMoves(w) => MoveInv'
  <1> USE ThreadNames, ThreadsDiffer, StateNames, ResultNames
  <1>MoveRefused. CASE MoveRefused(w)
    <2>1. Stands(w)
      BY <1>MoveRefused, FinalizeDoes
       DEF Types, MoveRefused, Goto, At, shared, Stands, MovePc, TargetPc, Carry
    <2> QED BY <2>1, StandFrame
  <1>MoveDescribe. CASE MoveDescribe(w)
    <2>1. /\ MoverOwn(w) /\ pc[Other(w)] \notin MovePc \cup {"mdescribe"}
          /\ pc[w] = "mdescribe" /\ pc[w] \notin MovePc
          /\ ~moving /\ entry.move = NoMove
      BY <1>MoveDescribe, MoverAlone DEF MoveDescribe, At, MovePc, TargetPc, Carry
    <2>2. /\ pc'[w] = "mregister" /\ local'[w].epoch = entry.epoch + 1
          /\ entry'.epoch = entry.epoch + 1 /\ entry'.state = entry.state
          /\ entry'.move = [target |-> Other(w), epoch |-> entry.epoch + 1]
          /\ moving' = moving
      BY <1>MoveDescribe, <2>1, DescribeDoes DEF MoveDescribe, shared
    <2>3. entry'.move.epoch = entry.epoch + 1 /\ entry.epoch \in Nat
      BY <2>2 DEF Types, EntryType
    <2>4. Drives(w)
      BY <2>1, <2>2, <2>3 DEF Drives, MoverOwn, MovePc, TargetPc
    <2> QED BY <2>1, <2>4, MoverFrame
  <1>MoveRegister. CASE MoveRegister(w)
    <2>1. /\ MoverOwn(w) /\ pc[Other(w)] \notin MovePc \cup {"mdescribe"}
          /\ moving => pc[w] \in MovePc \ {"mregister"}
          /\ entry.move # NoMove => /\ pc[w] \in MovePc \ {"munregister"}
                                    /\ local[w].epoch = entry.move.epoch
      BY <1>MoveRegister, MoverAlone DEF MoveRegister, At, MovePc, TargetPc, Carry
    <2>2. Drives(w)
      BY <1>MoveRegister, <2>1
       DEF Types, MoveRegister, At, Goto, Drives, MoverOwn, MovePc, ActivePc, TargetPc, Carry
    <2> QED BY <2>1, <2>2, MoverFrame
  <1>MoveEnsure. CASE MoveEnsure(w)
    <2>1. /\ MoverOwn(w) /\ pc[Other(w)] \notin MovePc \cup {"mdescribe"}
          /\ moving => pc[w] \in MovePc \ {"mregister"}
          /\ entry.move # NoMove => /\ pc[w] \in MovePc \ {"munregister"}
                                    /\ local[w].epoch = entry.move.epoch
      BY <1>MoveEnsure, MoverAlone DEF MoveEnsure, At, MovePc, TargetPc, Carry
    <2>2. Drives(w)
      BY <1>MoveEnsure, <2>1
       DEF Types, MoveEnsure, At, Goto, Ticket, ActiveMove, shared, Drives, MoverOwn, MovePc,
           ActivePc, TargetPc, Carry
    <2> QED BY <2>1, <2>2, MoverFrame
  <1>MoveActivate. CASE MoveActivate(w)
    <2>1. /\ MoverOwn(w) /\ pc[Other(w)] \notin MovePc \cup {"mdescribe"}
          /\ moving => pc[w] \in MovePc \ {"mregister"}
          /\ entry.move # NoMove => /\ pc[w] \in MovePc \ {"munregister"}
                                    /\ local[w].epoch = entry.move.epoch
      BY <1>MoveActivate, MoverAlone DEF MoveActivate, At, MovePc, TargetPc, Carry
    <2>2. Drives(w)
      BY <1>MoveActivate, <2>1
       DEF Types, MoveActivate, At, Goto, EntryType, shared, Drives, MoverOwn, MovePc,
           ActivePc, TargetPc, Carry
    <2> QED BY <2>1, <2>2, MoverFrame
  <1>MoveAbandon. CASE MoveAbandon(w)
    <2>1. /\ MoverOwn(w) /\ pc[Other(w)] \notin MovePc \cup {"mdescribe"}
          /\ moving => pc[w] \in MovePc \ {"mregister"}
          /\ entry.move # NoMove => /\ pc[w] \in MovePc \ {"munregister"}
                                    /\ local[w].epoch = entry.move.epoch
      BY <1>MoveAbandon, MoverAlone DEF MoveAbandon, At, MovePc, TargetPc, Carry
    <2>2. Drives(w)
      BY <1>MoveAbandon, <2>1, FinalizeDoes
       DEF Types, MoveAbandon, Goto, At, Ticket, ActiveMove, EntryType, Drives, MoverOwn,
           MovePc, ActivePc, TargetPc, Carry
    <2> QED BY <2>1, <2>2, MoverFrame
  <1>MoveChecked. CASE MoveChecked(w)
    <2>1. /\ MoverOwn(w) /\ pc[Other(w)] \notin MovePc \cup {"mdescribe"}
          /\ moving => pc[w] \in MovePc \ {"mregister"}
          /\ entry.move # NoMove => /\ pc[w] \in MovePc \ {"munregister"}
                                    /\ local[w].epoch = entry.move.epoch
      BY <1>MoveChecked, MoverAlone DEF MoveChecked, At, MoveCheck, MovePc, TargetPc, Carry
    <2>2. Drives(w)
      BY <1>MoveChecked, <2>1
       DEF Types, MoveChecked, MoveCheck, At, Goto, ActiveMove, Ticket, shared, Drives,
           MoverOwn, MovePc, ActivePc, TargetPc, Carry
    <2> QED BY <2>1, <2>2, MoverFrame
  <1>MoveOwner. CASE MoveOwner(w)
    <2>1. /\ MoverOwn(w) /\ pc[Other(w)] \notin MovePc \cup {"mdescribe"}
          /\ moving => pc[w] \in MovePc \ {"mregister"}
          /\ entry.move # NoMove => /\ pc[w] \in MovePc \ {"munregister"}
                                    /\ local[w].epoch = entry.move.epoch
      BY <1>MoveOwner, MoverAlone DEF MoveOwner, At, MovePc, TargetPc, Carry
    <2>2. Drives(w)
      BY <1>MoveOwner, <2>1
       DEF Types, MoveOwner, At, Goto, EntryType, shared, Drives, MoverOwn, MovePc, ActivePc,
           TargetPc, Carry
    <2> QED BY <2>1, <2>2, MoverFrame
  <1>MoveRetention. CASE MoveRetention(w)
    <2>1. /\ MoverOwn(w) /\ pc[Other(w)] \notin MovePc \cup {"mdescribe"}
          /\ moving => pc[w] \in MovePc \ {"mregister"}
          /\ entry.move # NoMove => /\ pc[w] \in MovePc \ {"munregister"}
                                    /\ local[w].epoch = entry.move.epoch
      BY <1>MoveRetention, MoverAlone DEF MoveRetention, At, MovePc, TargetPc, Carry
    <2>2. Drives(w)
      BY <1>MoveRetention, <2>1
       DEF Types, MoveRetention, At, Goto, EntryType, shared, Drives, MoverOwn, MovePc,
           ActivePc, TargetPc, Carry
    <2> QED BY <2>1, <2>2, MoverFrame
  <1>MoveLogical. CASE MoveLogical(w)
    <2>1. /\ MoverOwn(w) /\ pc[Other(w)] \notin MovePc \cup {"mdescribe"}
          /\ moving => pc[w] \in MovePc \ {"mregister"}
          /\ entry.move # NoMove => /\ pc[w] \in MovePc \ {"munregister"}
                                    /\ local[w].epoch = entry.move.epoch
      BY <1>MoveLogical, MoverAlone DEF MoveLogical, At, MovePc, TargetPc, Carry
    <2>2. Drives(w)
      BY <1>MoveLogical, <2>1
       DEF Types, MoveLogical, At, Goto, EntryType, shared, Drives, MoverOwn, MovePc, ActivePc,
           TargetPc, Carry
    <2> QED BY <2>1, <2>2, MoverFrame
  <1>MovePublish. CASE MovePublish(w)
    <2>1. /\ MoverOwn(w) /\ pc[Other(w)] \notin MovePc \cup {"mdescribe"}
          /\ moving => pc[w] \in MovePc \ {"mregister"}
          /\ entry.move # NoMove => /\ pc[w] \in MovePc \ {"munregister"}
                                    /\ local[w].epoch = entry.move.epoch
      BY <1>MovePublish, MoverAlone DEF MovePublish, At, MovePc, TargetPc, Carry
    <2>2. Drives(w)
      BY <1>MovePublish, <2>1
       DEF Types, MovePublish, At, Goto, EntryType, shared, Drives, MoverOwn, MovePc, ActivePc,
           TargetPc, Carry
    <2> QED BY <2>1, <2>2, MoverFrame
  <1>MoveCancel. CASE MoveCancel(w)
    <2>1. /\ MoverOwn(w) /\ pc[Other(w)] \notin MovePc \cup {"mdescribe"}
          /\ moving => pc[w] \in MovePc \ {"mregister"}
          /\ entry.move # NoMove => /\ pc[w] \in MovePc \ {"munregister"}
                                    /\ local[w].epoch = entry.move.epoch
      BY <1>MoveCancel, MoverAlone DEF MoveCancel, At, MovePc, TargetPc, Carry
    <2>2. Drives(w)
      BY <1>MoveCancel, <2>1
       DEF Types, MoveCancel, At, Goto, EntryType, shared, Drives, MoverOwn, MovePc, ActivePc,
           TargetPc, Carry
    <2> QED BY <2>1, <2>2, MoverFrame
  <1>MoveTerminate. CASE MoveTerminate(w)
    <2>1. /\ MoverOwn(w) /\ pc[Other(w)] \notin MovePc \cup {"mdescribe"}
          /\ moving => pc[w] \in MovePc \ {"mregister"}
          /\ entry.move # NoMove => /\ pc[w] \in MovePc \ {"munregister"}
                                    /\ local[w].epoch = entry.move.epoch
      BY <1>MoveTerminate, MoverAlone DEF MoveTerminate, At, MovePc, TargetPc, Carry
    <2>2. Drives(w)
      BY <1>MoveTerminate, <2>1, TerminatedFields
       DEF Types, MoveTerminate, At, Goto, CanTerminate, EntryType, shared, Drives, MoverOwn,
           MovePc, ActivePc, TargetPc, Carry
    <2> QED BY <2>1, <2>2, MoverFrame
  <1>MoveComplete. CASE MoveComplete(w)
    <2>1. /\ MoverOwn(w) /\ pc[Other(w)] \notin MovePc \cup {"mdescribe"}
          /\ moving => pc[w] \in MovePc \ {"mregister"}
          /\ entry.move # NoMove => /\ pc[w] \in MovePc \ {"munregister"}
                                    /\ local[w].epoch = entry.move.epoch
      BY <1>MoveComplete, MoverAlone DEF MoveComplete, At, MovePc, TargetPc, Carry
    <2>2. Drives(w)
      BY <1>MoveComplete, <2>1
       DEF Types, MoveComplete, At, Goto, shared, Drives, MoverOwn, MovePc, ActivePc, TargetPc,
           Carry
    <2> QED BY <2>1, <2>2, MoverFrame
  <1>MoveEnqueue. CASE MoveEnqueue(w)
    <2>1. /\ MoverOwn(w) /\ pc[Other(w)] \notin MovePc \cup {"mdescribe"}
          /\ moving => pc[w] \in MovePc \ {"mregister"}
          /\ entry.move # NoMove => /\ pc[w] \in MovePc \ {"munregister"}
                                    /\ local[w].epoch = entry.move.epoch
      BY <1>MoveEnqueue, MoverAlone DEF MoveEnqueue, At, MovePc, TargetPc, Carry
    <2>2. Drives(w)
      BY <1>MoveEnqueue, <2>1
       DEF Types, MoveEnqueue, At, Goto, Drives, MoverOwn, MovePc, ActivePc, TargetPc, Carry
    <2> QED BY <2>1, <2>2, MoverFrame
  <1>MoveClear. CASE MoveClear(w)
    <2>1. /\ MoverOwn(w) /\ pc[Other(w)] \notin MovePc \cup {"mdescribe"}
          /\ moving => pc[w] \in MovePc \ {"mregister"}
          /\ entry.move # NoMove => /\ pc[w] \in MovePc \ {"munregister"}
                                    /\ local[w].epoch = entry.move.epoch
      BY <1>MoveClear, MoverAlone DEF MoveClear, At, MovePc, TargetPc, Carry
    <2>2. Drives(w)
      BY <1>MoveClear, <2>1, ClearedFields
       DEF Types, MoveClear, At, Goto, Ticket, ActiveMove, EntryType, shared, Drives, MoverOwn,
           MovePc, ActivePc, TargetPc, Carry
    <2> QED BY <2>1, <2>2, MoverFrame
  <1>MoveUnregister. CASE MoveUnregister(w)
    <2>1. /\ MoverOwn(w) /\ pc[Other(w)] \notin MovePc \cup {"mdescribe"}
          /\ moving => pc[w] \in MovePc \ {"mregister"}
          /\ entry.move # NoMove => /\ pc[w] \in MovePc \ {"munregister"}
                                    /\ local[w].epoch = entry.move.epoch
      BY <1>MoveUnregister, MoverAlone DEF MoveUnregister, At, MovePc, TargetPc, Carry
    <2>2. Drives(w)
      BY <1>MoveUnregister, <2>1
       DEF Types, MoveUnregister, At, Goto, Drives, MoverOwn, MovePc, ActivePc, TargetPc, Carry
    <2> QED BY <2>1, <2>2, MoverFrame
  <1>MoveUncount. CASE MoveUncount(w)
    <2>1. /\ MoverOwn(w) /\ pc[Other(w)] \notin MovePc \cup {"mdescribe"}
          /\ moving => pc[w] \in MovePc \ {"mregister"}
          /\ entry.move # NoMove => /\ pc[w] \in MovePc \ {"munregister"}
                                    /\ local[w].epoch = entry.move.epoch
      BY <1>MoveUncount, MoverAlone DEF MoveUncount, At, MovePc, TargetPc, Carry
    <2>2. Drives(w)
      BY <1>MoveUncount, <2>1
       DEF Types, MoveUncount, At, Goto, shared, Drives, MoverOwn, MovePc, ActivePc, TargetPc,
           Carry
    <2> QED BY <2>1, <2>2, MoverFrame
  <1> QED BY <1>MoveRefused, <1>MoveDescribe, <1>MoveRegister, <1>MoveEnsure, <1>MoveActivate,
     <1>MoveAbandon, <1>MoveChecked, <1>MoveOwner, <1>MoveRetention, <1>MoveLogical,
     <1>MovePublish, <1>MoveCancel, <1>MoveTerminate, <1>MoveComplete, <1>MoveEnqueue,
     <1>MoveClear, <1>MoveUnregister, <1>MoveUncount DEF MoveOwn

LEMMA MoveFailMover ==
  ASSUME Types, EndInv, TokenInv, MoveInv, NEW t \in Slots \cup {"auditor"}, MoveFailOwn(t)
  PROVE  OnlyMoves(t) => MoveInv'
  <1> USE ThreadNames, ThreadsDiffer, StateNames, ResultNames
  <1>MoveFail. CASE MoveFail(t)
    <2>a. CASE t \in Slots
      <3>1. /\ MoverOwn(t) /\ pc[Other(t)] \notin MovePc \cup {"mdescribe"}
            /\ moving => pc[t] \in MovePc \ {"mregister"}
            /\ entry.move # NoMove => /\ pc[t] \in MovePc \ {"munregister"}
                                      /\ local[t].epoch = entry.move.epoch
        BY <1>MoveFail, <2>a, MoverAlone DEF MoveFail, At, MovePc, TargetPc, Carry
      <3>2. Drives(t)
        BY <1>MoveFail, <2>a, <3>1, TerminatedFields
         DEF Types, MoveFail, At, Goto, CanTerminate, ActiveMove, Ticket, EntryType, shared,
             Drives, MoverOwn, MovePc, ActivePc, TargetPc, Carry, EndInv, Ended
      <3> QED BY <2>a, <3>1, <3>2, MoverFrame
    <2>b. CASE t = "auditor"
      <3>1. Stands(t)
        BY <1>MoveFail, <2>b, TerminatedFields
         DEF Types, MoveFail, At, Goto, CanTerminate, EntryType, shared, Stands, MovePc,
             TargetPc, Carry
      <3> QED BY <3>1, StandFrame
    <2> QED BY <2>a, <2>b
  <1>MoveFailClear. CASE MoveFailClear(t)
    <2>a. CASE t \in Slots
      <3>1. /\ MoverOwn(t) /\ pc[Other(t)] \notin MovePc \cup {"mdescribe"}
            /\ moving => pc[t] \in MovePc \ {"mregister"}
            /\ entry.move # NoMove => /\ pc[t] \in MovePc \ {"munregister"}
                                      /\ local[t].epoch = entry.move.epoch
        BY <1>MoveFailClear, <2>a, MoverAlone DEF MoveFailClear, At, MovePc, TargetPc, Carry
      <3>2. Drives(t)
        BY <1>MoveFailClear, <2>a, <3>1, ClearedFields, FinalizeDoes
         DEF Types, MoveFailClear, Goto, At, Ticket, ActiveMove, EntryType, Drives, MoverOwn,
             MovePc, ActivePc, TargetPc, Carry, EndInv, Ended
      <3> QED BY <2>a, <3>1, <3>2, MoverFrame
    <2>b. CASE t = "auditor"
      <3>1. Stands(t)
        BY <1>MoveFailClear, <2>b, ClearedFields, FinalizeDoes
         DEF Types, MoveFailClear, Goto, At, EntryType, Stands, MovePc, TargetPc, Carry
      <3> QED BY <3>1, StandFrame
    <2> QED BY <2>a, <2>b
  <1> QED BY <1>MoveFail, <1>MoveFailClear DEF MoveFailOwn

LEMMA AuditMover ==
  ASSUME Types, EndInv, TokenInv, MoveInv, AuditOwn
  PROVE  OnlyMoves("auditor") => MoveInv'
  <1> USE ThreadNames, ThreadsDiffer, StateNames, ResultNames
  <1>AuditSnapshot. CASE AuditSnapshot
    <2>1. Stands("auditor")
      BY <1>AuditSnapshot, LocalEpoch
       DEF Types, AuditSnapshot, At, Goto, Stands, MovePc, TargetPc, Carry
    <2> QED BY <2>1, StandFrame
  <1>AuditState. CASE AuditState
    <2>1. Stands("auditor")
      BY <1>AuditState, ClearedFields
       DEF Types, AuditState, Goto, At, EntryType, Stands, MovePc, TargetPc, Carry
    <2> QED BY <2>1, StandFrame
  <1>AuditRetention. CASE AuditRetention
    <2>1. Stands("auditor")
      BY <1>AuditRetention, ClearedFields, AuditRetentionDoes
       DEF Types, AuditRetention, Goto, At, EntryType, Stands, MovePc, TargetPc, Carry
    <2> QED BY <2>1, StandFrame
  <1>AuditAbandon. CASE AuditAbandon
    <2>1. Stands("auditor")
      BY <1>AuditAbandon, ClearedFields, FinalizeDoes
       DEF Types, AuditAbandon, Goto, At, EntryType, Stands, MovePc, TargetPc, Carry, EndInv,
           EndOwn
    <2> QED BY <2>1, StandFrame
  <1> QED BY <1>AuditSnapshot, <1>AuditState, <1>AuditRetention, <1>AuditAbandon DEF AuditOwn

LEMMA BizMover ==
  ASSUME Types, EndInv, TokenInv, MoveInv, BusinessOwn
  PROVE  OnlyMoves("business") => MoveInv'
  <1> USE ThreadNames, ThreadsDiffer, StateNames, ResultNames
  <1>BusinessGranted. CASE BusinessGranted
    <2>1. Stands("business")
      BY <1>BusinessGranted
       DEF Types, BusinessGranted, At, Goto, shared, Stands, MovePc, TargetPc, Carry
    <2> QED BY <2>1, StandFrame
  <1>BusinessGateClosed. CASE BusinessGateClosed
    <2>1. Stands("business")
      BY <1>BusinessGateClosed
       DEF Types, BusinessGateClosed, At, Goto, shared, Stands, MovePc, TargetPc, Carry
    <2> QED BY <2>1, StandFrame
  <1>BusinessCheck. CASE BusinessCheck
    <2>1. Stands("business")
      BY <1>BusinessCheck, FinalizeDoes
       DEF Types, BusinessCheck, Goto, At, shared, Stands, MovePc, TargetPc, Carry
    <2> QED BY <2>1, StandFrame
  <1>TakeForRunning. CASE TakeForRunning
    <2>1. Stands("business")
      BY <1>TakeForRunning
       DEF Types, TakeForRunning, At, Goto, EntryType, shared, Stands, MovePc, TargetPc, Carry
    <2> QED BY <2>1, StandFrame
  <1>JobEnds. ASSUME NEW terminal \in {"Completed", "Failed"}, JobEnds(terminal) PROVE OnlyMoves("business") => MoveInv'
    <2>1. Stands("business")
      BY <1>JobEnds, TerminatedFields, FinalizeDoes
       DEF Types, JobEnds, CanTerminate, Goto, At, EntryType, shared, Stands, MovePc, TargetPc,
           Carry
    <2> QED BY <2>1, StandFrame
  <1>BusinessAborted. CASE BusinessAborted
    <2>1. Stands("business")
      BY <1>BusinessAborted, LocalState
       DEF Types, BusinessAborted, Goto, At, shared, Stands, MovePc, TargetPc, Carry
    <2> QED BY <2>1, StandFrame
  <1>Backstop. CASE Backstop
    <2>1. Stands("business")
      BY <1>Backstop, FinalizeDoes
       DEF Types, Backstop, Goto, At, shared, Stands, MovePc, TargetPc, Carry
    <2> QED BY <2>1, StandFrame
  <1>BackstopFail. CASE BackstopFail
    <2>1. Stands("business")
      BY <1>BackstopFail, TerminatedFields, FinalizeDoes
       DEF Types, BackstopFail, Goto, At, CanTerminate, EntryType, shared, Stands, MovePc,
           TargetPc, Carry
    <2> QED BY <2>1, StandFrame
  <1> QED BY <1>BusinessGranted, <1>BusinessGateClosed, <1>BusinessCheck, <1>TakeForRunning,
     <1>JobEnds, <1>BusinessAborted, <1>Backstop, <1>BackstopFail DEF BusinessOwn

LEMMA CleanupMover ==
  ASSUME Types, EndInv, TokenInv, MoveInv, Cleaned
  PROVE  OnlyMoves("cleanup") => MoveInv'
  <1> USE ThreadNames, ThreadsDiffer, StateNames, ResultNames
  <1>Cleaned. CASE Cleaned
    <2>1. Stands("cleanup")
      BY <1>Cleaned DEF Types, Cleaned, At, Goto, Stands, MovePc, TargetPc, Carry
    <2> QED BY <2>1, StandFrame
  <1> QED BY <1>Cleaned

LEMMA CloserMover ==
  ASSUME Types, EndInv, TokenInv, MoveInv, CloserOwn
  PROVE  OnlyMoves("closer") => MoveInv'
  <1> USE ThreadNames, ThreadsDiffer, StateNames, ResultNames
  <1>CloseDelayed. CASE CloseDelayed
    <2>1. Stands("closer")
      BY <1>CloseDelayed DEF Types, CloseDelayed, At, Goto, Stands, MovePc, TargetPc, Carry
    <2> QED BY <2>1, StandFrame
  <1>RejectDelayed. CASE RejectDelayed
    <2>1. Stands("closer")
      BY <1>RejectDelayed, TerminatedFields, FinalizeDoes
       DEF Types, RejectDelayed, Goto, At, CanTerminate, EntryType, shared, Stands, MovePc,
           TargetPc, Carry
    <2> QED BY <2>1, StandFrame
  <1> QED BY <1>CloseDelayed, <1>RejectDelayed DEF CloserOwn


LEMMA TokenKept ==
  ASSUME Types, EndInv, GateInv, BoundInv, CountInv, TokenInv, [Next]_vars
  PROVE  TokenInv'
  <1> USE ThreadNames
  <1>1. ASSUME NEW t \in Threads, FinalizeStep(t) \/ HelpOwn(t)
        PROVE  TokenInv'
    BY <1>1, FinalTypes, HelpTypes, FinalToken, HelpToken
  <1>2. CASE PublishOwn
    BY <1>2, PubTypes, PubToken
  <1>3. ASSUME NEW c \in Callers, CallOwn(c)
        PROVE  TokenInv'
    BY <1>3, CallTypes, CallToken
  <1>4. ASSUME NEW c \in Callers, ScheduleCleanup(c)
        PROVE  TokenInv'
    <2>1. /\ at' = at /\ pc'["publisher"] = pc["publisher"] /\ pc'["business"] = pc["business"]
          /\ \A v \in Slots : pc'[v] = pc[v]
      BY ZenonT(60), <1>4, ScheduleDoes, ThreadsDiffer DEF ScheduleCleanup, shared
    <2> QED BY <2>1 DEF TokenInv
  <1>5. ASSUME NEW w \in Slots, WorkOwn(w) \/ MoveOwn(w)
        PROVE  TokenInv'
    BY <1>5, WorkTypes, MoveTypes, WorkToken, MoveToken
  <1>6. ASSUME NEW w \in Slots, Dispatch(w)
        PROVE  TokenInv'
    <2>1. /\ at' = at /\ pc[w] = "handling" /\ pc'["publisher"] = pc["publisher"]
          /\ pc'[w] \in {"final", "idle", "failrun"} /\ \A v \in Slots \ {w} : pc'[v] = pc[v]
      BY <1>6, DispatchDoes, ThreadsDiffer DEF Dispatch, shared, OnlyMoves
    <2>2. /\ pc["publisher"] = "done" /\ at = "nowhere"
          /\ \A v \in Slots \ {w} : pc[v] \notin HoldPc
      BY <2>1 DEF CountInv, Unseen, TokenInv, HoldPc
    <2> QED BY <2>1, <2>2 DEF TokenInv, HoldPc, TargetPc, Carry
  <1>7. ASSUME NEW t \in Slots \cup {"auditor"}, MoveFailOwn(t)
        PROVE  TokenInv'
    BY <1>7, MoveFailTypes, MoveFailToken
  <1>8. CASE AuditOwn
    BY <1>8, AuditTypes, AuditToken
  <1>9. CASE BusinessOwn
    BY <1>9, BizTypes, BizToken
  <1>10. CASE Cleaned
    BY <1>10, CleanupTypes, CleanupToken
  <1>11. CASE CloserOwn
    BY <1>11, CloserTypes, CloserToken
  <1>12. CASE ForceStop \/ UNCHANGED vars
    BY <1>12 DEF ForceStop, vars, shared, history, TokenInv
  <1> QED BY <1>1, <1>2, <1>3, <1>4, <1>5, <1>6, <1>7, <1>8, <1>9, <1>10, <1>11, <1>12, NextCases


LEMMA MoverKept ==
  ASSUME Types, EndInv, TokenInv, MoveInv, [Next]_vars
  PROVE  MoveInv'
  <1> USE ThreadNames
  <1>1. ASSUME NEW t \in Threads, FinalizeStep(t) \/ HelpOwn(t)
        PROVE  MoveInv'
    BY <1>1, FinalTypes, HelpTypes, FinalMover, HelpMover
  <1>2. CASE PublishOwn
    BY <1>2, PubTypes, PubMover
  <1>3. ASSUME NEW c \in Callers, CallOwn(c)
        PROVE  MoveInv'
    BY <1>3, CallTypes, CallMover
  <1>4. ASSUME NEW c \in Callers, ScheduleCleanup(c)
        PROVE  MoveInv'
    <2>1. /\ UNCHANGED <<entry, moving>>
          /\ \A v \in Slots : pc'[v] = pc[v] /\ local'[v] = local[v]
      BY ZenonT(60), <1>4, ScheduleDoes, ThreadsDiffer DEF ScheduleCleanup, shared
    <2> QED BY <2>1, SlotPair DEF MoveInv, MoverOwn
  <1>5. ASSUME NEW w \in Slots, WorkOwn(w) \/ MoveOwn(w)
        PROVE  MoveInv'
    BY <1>5, WorkTypes, MoveTypes, WorkMover, MoveMover
  <1>6. ASSUME NEW w \in Slots, Dispatch(w)
        PROVE  MoveInv'
    <2>1. UNCHANGED <<entry, moving>> /\ pc[w] = "handling"
      BY <1>6, DispatchDoes DEF Dispatch, shared
    <2>2. /\ pc'[w] \in {"final", "idle", "failrun"}
          /\ \A v \in Slots \ {w} : pc'[v] = pc[v] /\ local'[v] = local[v]
      BY <1>6, DispatchDoes, ThreadsDiffer DEF OnlyMoves
    <2>3. /\ pc[w] \notin MovePc \cup {"mdescribe"} /\ pc'[w] \notin MovePc \cup {"mdescribe"}
      BY <2>1, <2>2 DEF MovePc, TargetPc, Carry
    <2> QED BY <2>1, <2>2, <2>3, SlotPair DEF MoveInv, MoverOwn
  <1>7. ASSUME NEW t \in Slots \cup {"auditor"}, MoveFailOwn(t)
        PROVE  MoveInv'
    BY <1>7, MoveFailTypes, MoveFailMover
  <1>8. CASE AuditOwn
    BY <1>8, AuditTypes, AuditMover
  <1>9. CASE BusinessOwn
    BY <1>9, BizTypes, BizMover
  <1>10. CASE Cleaned
    BY <1>10, CleanupTypes, CleanupMover
  <1>11. CASE CloserOwn
    BY <1>11, CloserTypes, CloserMover
  <1>12. CASE ForceStop \/ UNCHANGED vars
    BY <1>12 DEF ForceStop, vars, shared, history, MoveInv, MoverOwn
  <1> QED BY <1>1, <1>2, <1>3, <1>4, <1>5, <1>6, <1>7, <1>8, <1>9, <1>10, <1>11, <1>12, NextCases


LEMMA HandStart ==
  ASSUME Init
  PROVE  TokenInv /\ MoveInv
  <1> USE ThreadNames, ThreadsDiffer, SlotPair
  <1>1. pc["business"] = "off" /\ \A w \in Slots : pc[w] = "idle"
    BY DEF Init
  <1>2. at = "nowhere" /\ ~moving /\ entry.move = NoMove
    BY DEF Init
  <1> QED BY <1>1, <1>2 DEF TokenInv, MoveInv, MoverOwn, HoldPc, MovePc, TargetPc, Carry

BalanceInv == EntryInv /\ SettleInv /\ TokenInv /\ MoveInv

LEMMA BalanceKept ==
  ASSUME ~Delayed
  PROVE  /\ Init => BalanceInv
         /\ BalanceInv /\ [Next]_vars => BalanceInv'
  BY SettledKept, HandStart, TokenKept, MoverKept DEF BalanceInv, EntryInv

(* For a task of submit_now: when it is over and every thread has left it, *)
(* its counts, its queued projection, its entry in the moving table and    *)
(* its descriptor are gone and its strict sequence is settled, however     *)
(* cancellation, move, audit, forced stop and execution raced to end it.   *)
THEOREM BalancedHolds == ~Delayed /\ Spec => []QuietMeansBalanced
  <1>1. ASSUME ~Delayed, BalanceInv
        PROVE  QuietMeansBalanced
    <2> SUFFICES ASSUME Quiet, entry.state \in Terminal \/ pc["publisher"] = "dropped"
                 PROVE  /\ accounts.logical = 0 /\ \A s \in Slots : accounts.container[s] = 0
                        /\ ~accounts.queued /\ ~moving /\ entry.move = NoMove
                        /\ bound => accounts.strictSettled
      BY DEF QuietMeansBalanced
    <2> USE ThreadNames, SlotPair
    <2>1. \A t \in Threads : pc[t] \in {"off", "idle", "done", "dropped", "returned"}
      BY DEF Quiet
    <2>2. entry.logical = None
      BY <1>1, <2>1 DEF BalanceInv, EntryInv, SettleInv, CountInv, Counts, LogicalPc
    <2>3. Counts /\ Where = None
      BY <1>1, <2>1, <2>2 DEF BalanceInv, EntryInv, CountInv, Where, CountedPc, LogicalPc
    <2>4. \A w \in Slots : pc[w] \notin Carry /\ pc[w] \notin MovePc
      BY <2>1 DEF Carry, MovePc, TargetPc
    <2>5. accounts.logical = 0 /\ \A s \in Slots : accounts.container[s] = 0
      BY <2>3, <2>4 DEF Counts
    <2>6. ~moving /\ entry.move = NoMove
      BY <1>1, <2>4 DEF BalanceInv, MoveInv
    <2>7. ~accounts.queued /\ accounts.strictSettled
      BY <1>1, <2>1 DEF BalanceInv, SettleInv, Answered
    <2> QED BY <2>5, <2>6, <2>7
  <1>2. SUFFICES ASSUME ~Delayed PROVE Spec => []QuietMeansBalanced
    OBVIOUS
  <1>3. Init => BalanceInv
    BY <1>2, BalanceKept
  <1>4. BalanceInv /\ [Next]_vars => BalanceInv'
    BY <1>2, BalanceKept
  <1>5. BalanceInv => QuietMeansBalanced
    BY <1>1, <1>2
  <1> QED BY <1>3, <1>4, <1>5, PTL DEF Spec

-----------------------------------------------------------------------------
FlagType ==
  /\ timer \in BOOLEAN /\ moving \in BOOLEAN /\ forceStop \in BOOLEAN
  /\ typeFailed \in BOOLEAN /\ controlFailed \in BOOLEAN /\ runs \in Nat

LEMMA FlagsKept ==
  ASSUME FlagType, [Next]_vars
  PROVE  FlagType'
  <1>1. ASSUME NEW t \in Threads, FinalizeStep(t)
        PROVE  FlagType'
    BY <1>1
     DEF FlagType, FinalizeStep, FinalizeState, FinalizePending, FinalizeRetention,
         FinalizeOwner, FinalizeTerminal, FinalizeMove, FinalizeClaim, FinalizeDetach,
         FinalizeLogical, FinalizeAccount, FinalizePermits, FinalizeRecord, FinalizeUnpend,
         FinalizePublish, shared, history
  <1>2. ASSUME NEW t \in Threads, HelpOwn(t)
        PROVE  FlagType'
    BY <1>2
     DEF FlagType, HelpOwn, Helped, FailBeforeRunning, FailQueued, AuthorityFailure,
         AuthorityFailFrom, shared, history
  <1>3. CASE PublishOwn
    BY <1>3
     DEF FlagType, PublishOwn, ExpireRemove, ClaimExpired, AdmitExpired, RejectUnbound,
         InstallCheck, Install, Bind, Place, PlacementRefused, PrepareCheck, PrepareLogical,
         PrepareOwner, PrepareRetention, PrepareQueued, UndoRetention, UndoOwner, Uncount,
         PublishInitial, DropUnplaced, Unplaced, RejectBound, SettleUnplaced, shared, history
  <1>4. ASSUME NEW c \in Callers, CallOwn(c)
        PROVE  FlagType'
    BY <1>4
     DEF FlagType, CallOwn, CancelCall, CancelRead, CancelTerminate, CancelDefer,
         RetireDelayed, BindChecked, CancelFinalize, CancelSettled, shared, history
  <1>5. ASSUME NEW w \in Slots, WorkOwn(w)
        PROVE  FlagType'
    BY <1>5
     DEF FlagType, WorkOwn, Receive, Received, ClaimMove, ClaimRetention, Claimed, MoveBegin,
         shared, history
  <1>6. ASSUME NEW w \in Slots, MoveOwn(w)
        PROVE  FlagType'
    BY <1>6
     DEF FlagType, MoveOwn, MoveRefused, MoveDescribe, MoveRegister, MoveEnsure, MoveActivate,
         MoveAbandon, MoveChecked, MoveOwner, MoveRetention, MoveLogical, MovePublish,
         MoveCancel, MoveTerminate, MoveComplete, MoveEnqueue, MoveClear, MoveUnregister,
         MoveUncount, shared, history
  <1>7. ASSUME NEW t \in Slots \cup {"auditor"}, MoveFailOwn(t)
        PROVE  FlagType'
    BY <1>7 DEF FlagType, MoveFailOwn, MoveFail, MoveFailClear, shared, history
  <1>8. CASE AuditOwn
    BY <1>8
     DEF FlagType, AuditOwn, AuditSnapshot, AuditState, AuditRetention, AuditAbandon, shared,
         history
  <1>9. CASE BusinessOwn
    BY <1>9
     DEF FlagType, BusinessOwn, BusinessGranted, BusinessGateClosed, BusinessCheck,
         TakeForRunning, JobEnds, BusinessAborted, Backstop, BackstopFail, shared, history
  <1>10. CASE Cleaned
    BY <1>10 DEF FlagType, Cleaned, shared, history
  <1>11. CASE CloserOwn
    BY <1>11 DEF FlagType, CloserOwn, CloseDelayed, RejectDelayed, shared, history
  <1>12. ASSUME NEW c \in Callers, ScheduleCleanup(c)
        PROVE  FlagType'
    BY <1>12 DEF FlagType, ScheduleCleanup, shared
  <1>13. ASSUME NEW w \in Slots, Dispatch(w)
        PROVE  FlagType'
    BY <1>13 DEF FlagType, Dispatch, shared, history
  <1>14. CASE ForceStop \/ UNCHANGED vars
    BY <1>14 DEF FlagType, ForceStop, vars, shared, history
  <1> QED BY <1>1, <1>2, <1>3, <1>4, <1>5, <1>6, <1>7, <1>8, <1>9, <1>10, <1>11, <1>12, <1>13, <1>14,
     NextCases

(* Every field, projection and thread keeps its type; for a task of        *)
(* submit_now no count of decrement_container and decrement_logical goes   *)
(* below zero, in whatever order movers and settlers give them back.       *)
THEOREM TypeCorrect == ~Delayed /\ Spec => []TypeOK
  <1>1. SUFFICES ASSUME ~Delayed PROVE Spec => []TypeOK
    OBVIOUS
  <1>2. Init => EntryInv /\ FlagType
    <2>1. ASSUME Init PROVE FlagType
      <3>1. /\ timer = Delayed /\ moving = FALSE /\ forceStop = FALSE
            /\ typeFailed = FALSE /\ controlFailed = FALSE /\ runs = 0
        BY <2>1 DEF Init
      <3>2. Delayed \in BOOLEAN
        BY EntryAssumption
      <3> QED BY <3>1, <3>2 DEF FlagType
    <2> QED BY <2>1, EntryKept
  <1>3. EntryInv /\ FlagType /\ [Next]_vars => (EntryInv /\ FlagType)'
    BY EntryKept, FlagsKept
  <1>4. ASSUME EntryInv, FlagType PROVE TypeOK
    <2>1. /\ accounts \in AccountType /\ Counts
      BY <1>1, <1>4 DEF EntryInv, GateInv, CountInv
    <2>2. accounts.logical \in Nat /\ \A s \in Slots : accounts.container[s] \in Nat
      BY <2>1 DEF Counts
    <2>3. accounts \in [queued : BOOLEAN, logical : Nat, container : [Slots -> Nat],
                       settlements : Nat, strictSettled : BOOLEAN]
      BY <2>1, <2>2 DEF AccountType
    <2> QED BY <1>4, <2>3 DEF EntryInv, FlagType, Types, EntryType, LocalType, TypeOK
  <1> QED BY <1>2, <1>3, <1>4, PTL DEF Spec
=============================================================================
