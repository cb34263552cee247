-------------------------- MODULE SagaParticipant --------------------------
(***************************************************************************)
(* The participant's side of a saga step (nasaga-runtime-core,             *)
(* participant.rs, on the gate table of nasaga-mysql / nasaga-pgsql).      *)
(*                                                                         *)
(* A command is handled in one database transaction that holds the step's  *)
(* gate row: admission against the gate, the business handler, the         *)
(* settlement of the gate and the result event commit together or not at   *)
(* all.  Every operator below is such a transaction, as the set of its     *)
(* possible commits [gate, world, out] from a gate row and the state of    *)
(* the world outside.  A transaction that ends in an error commits nothing *)
(* and is not a member: the broker delivers the command again.             *)
(*                                                                         *)
(* world is the business effect itself, which no table of the framework    *)
(* sees: done says the forward effect exists, undone that it was reversed. *)
(* The business handlers are external; what the framework asks of them is  *)
(* that a definite answer is true (SagaStep, SagaCancelStep and            *)
(* SagaResolveStep of nasaga-core/src/step.rs).                            *)
(***************************************************************************)
EXTENDS Naturals, Sequences, FiniteSets

\* The gate row of a step nobody has admitted yet.
NoGate == [fwd |-> "Absent", cancel |-> "None", comp |-> "None", res |-> "None"]

NoWorld == [done |-> FALSE, undone |-> FALSE]

NoResult == "NoResult"

\* A commit of a participant transaction.
Commit(g, w, o) == [gate |-> g, world |-> w, out |-> o]

External(mode) == mode # "Local"

(***************************************************************************)
(* Business handlers (external).  A definite answer is true of the world;  *)
(* Unknown and Halted leave it open whether the call took effect.  The     *)
(* transaction of a local step rolls back with its effect, so only an      *)
(* external step can leave one behind without an answer.                   *)
(***************************************************************************)
ExecuteAnswers(mode, w) ==
    {[w |-> [w EXCEPT !.done = TRUE], o |-> "Succeeded"]}
      \cup (IF w.done THEN {} ELSE {[w |-> w, o |-> "Rejected"]})
      \cup {[w |-> [w EXCEPT !.done = d], o |-> o] :
              d \in {w.done, w.done \/ External(mode)},
              o \in {"Unknown", "Halted"}}

CancelAnswers(w) ==
    IF w.done THEN {"LateSucceeded", "LateHalted", "ResolutionPending"}
              ELSE {"Confirmed", "LateRejected", "LateHalted", "ResolutionPending"}

CompensateAnswers(mode, w) ==
    {[w |-> [w EXCEPT !.undone = TRUE], o |-> "Succeeded"]}
      \cup {[w |-> [w EXCEPT !.undone = u], o |-> o] :
              u \in {w.undone, w.undone \/ External(mode)},
              o \in {"Unknown", "Halted"}}

ResolveAnswers(happened) ==
    {IF happened THEN "Succeeded" ELSE "Rejected", "Unknown", "Halted"}

(***************************************************************************)
(* execute: an admitted command runs the handler and settles its answer;   *)
(* behind a cancellation it is suppressed without a result; a settled gate *)
(* replays its fact under the new attempt.                                 *)
(***************************************************************************)
Executed(mode, a) ==
    LET fact == IF a.o = "Unknown" /\ ~External(mode) THEN "Halted" ELSE a.o
    IN Commit([NoGate EXCEPT !.fwd = fact], a.w, fact)

HandleExecute(mode, g, w) ==
    IF g.fwd = "Absent" THEN {Executed(mode, a) : a \in ExecuteAnswers(mode, w)}
    ELSE IF g.fwd = "Cancelled" THEN {Commit(g, w, NoResult)}
    ELSE {Commit(g, w, g.fwd)}

(***************************************************************************)
(* cancel.  A local step is adjudicated by the gate alone: cancelling      *)
(* before execute arrived inserts the fence.  An external step asks its    *)
(* handler unless the gate already holds an adjudication.                  *)
(***************************************************************************)
Late == [Succeeded |-> "LateSucceeded", Rejected |-> "LateRejected", Halted |-> "LateHalted"]

LateFacts == DOMAIN Late

\* The adjudication a settled forward fact implies: its column and its result.
Adjudicated(f) ==
    IF f = "Cancelled" THEN [cancel |-> "Confirmed", out |-> "Confirmed"]
    ELSE IF f \in LateFacts THEN [cancel |-> "AlreadyTerminal", out |-> Late[f]]
    ELSE [cancel |-> "ResolutionPending", out |-> "ResolutionPending"]

HandleCancelLocal(g, w) ==
    LET g0 == IF g.fwd = "Absent" THEN [g EXCEPT !.fwd = "Cancelled"] ELSE g
        a  == Adjudicated(g0.fwd)
    IN IF g.cancel \in {"None", a.cancel}
       THEN {Commit([g0 EXCEPT !.cancel = a.cancel], w, a.out)} ELSE {}

\* The forward fact and the cancel column an external answer settles.
SettleCancel(g, o) ==
    CASE o = "Confirmed" -> [g EXCEPT !.fwd = "Cancelled", !.cancel = "Confirmed"]
      [] o = "ResolutionPending" ->
            [g EXCEPT !.fwd = "Unknown", !.cancel = "ResolutionPending"]
      [] OTHER -> [g EXCEPT !.fwd = CHOOSE f \in LateFacts : Late[f] = o,
                            !.cancel = "AlreadyTerminal"]

HandleCancelExternal(g, w) ==
    IF g.cancel = "ResolutionPending" THEN {Commit(g, w, "ResolutionPending")}
    ELSE IF g.fwd \in LateFacts \cup {"Cancelled"}
    THEN {Commit([g EXCEPT !.cancel = Adjudicated(g.fwd).cancel], w, Adjudicated(g.fwd).out)}
    ELSE {Commit(SettleCancel(g, o), w, o) : o \in CancelAnswers(w)}

HandleCancel(mode, g, w) ==
    IF External(mode) THEN HandleCancelExternal(g, w) ELSE HandleCancelLocal(g, w)

(***************************************************************************)
(* compensate: only a succeeded forward fact may be reversed.  Succeeded   *)
(* and Unknown replay (a second call could reverse twice); Halted reopens  *)
(* only for a command that carries an audited recovery operation.          *)
(***************************************************************************)
CompensationReplays(rec, g) ==
    \/ g.comp \in {"Succeeded", "Unknown"}
    \/ g.comp = "Halted" /\ (~rec \/ g.fwd # "Succeeded")

\* Mutant of HandleCompensate: the answer of the forward query stays in the gate
\* and is replayed to a query about the compensation.
HandleCompensateKeepsAnswer(mode, rec, g, w) ==
    IF g.fwd = "Absent"
    THEN {Commit([g EXCEPT !.fwd = "Halted", !.comp = "Halted"], w, "Halted")}
    ELSE IF CompensationReplays(rec, g) THEN {Commit(g, w, g.comp)}
    ELSE IF g.fwd # "Succeeded" THEN {Commit([g EXCEPT !.comp = "Halted"], w, "Halted")}
    ELSE {Commit([g EXCEPT !.comp = a.o], a.w, a.o) : a \in CompensateAnswers(mode, w)}

HandleCompensate(mode, rec, g, w) ==
    IF g.fwd = "Absent"
    THEN {Commit([g EXCEPT !.fwd = "Halted", !.comp = "Halted"], w, "Halted")}
    ELSE IF CompensationReplays(rec, g) THEN {Commit(g, w, g.comp)}
    ELSE IF g.fwd # "Succeeded" THEN {Commit([g EXCEPT !.comp = "Halted"], w, "Halted")}
    ELSE {Commit([g EXCEPT !.comp = a.o, !.res = "None"], a.w, a.o) :
             a \in CompensateAnswers(mode, w)}

(***************************************************************************)
(* resolve: the gate decides which unknown effect the query is about, the  *)
(* handler answers for that effect, and the answer settles its column.     *)
(***************************************************************************)
ResolutionReplays(rec, g) ==
    g.res \in {"Succeeded", "Rejected"} \/ (g.res = "Halted" /\ ~rec)

SettleForward(g, o) ==
    IF o \in {"Succeeded", "Rejected"}
    THEN [g EXCEPT !.res = o, !.fwd = o,
                   !.cancel = IF @ = "ResolutionPending" THEN "AlreadyTerminal" ELSE @]
    ELSE [g EXCEPT !.res = IF o = "Unknown" THEN "Pending" ELSE o]

SettleCompensation(g, o) ==
    [g EXCEPT !.res = IF o = "Unknown" THEN "Pending" ELSE o,
              !.comp = CASE o = "Succeeded" -> "Succeeded"
                         [] o = "Rejected" -> "None"
                         [] OTHER -> @]

HandleResolve(rec, g, w) ==
    IF g.fwd = "Absent"
    THEN {Commit([g EXCEPT !.fwd = "Halted", !.res = "Halted"], w, "Halted")}
    ELSE IF ResolutionReplays(rec, g) THEN {Commit(g, w, g.res)}
    ELSE IF g.res = "None" /\ g.comp = "None" /\ g.fwd \in {"Succeeded", "Rejected"}
    THEN {Commit([g EXCEPT !.res = g.fwd], w, g.fwd)}
    ELSE IF g.comp = "Unknown"
    THEN {Commit(SettleCompensation(g, o), w, o) : o \in ResolveAnswers(w.undone)}
    ELSE IF g.fwd = "Unknown"
    THEN {Commit(SettleForward(g, o), w, o) : o \in ResolveAnswers(w.done)}
    ELSE {Commit([g EXCEPT !.res = "Halted"], w, "Halted")}

\* The transaction of a command c = [ph, n, rec] at a step of the given mode.
Handle(mode, c, g, w) ==
    CASE c.ph = "Execute"    -> HandleExecute(mode, g, w)
      [] c.ph = "Cancel"     -> HandleCancel(mode, g, w)
      [] c.ph = "Compensate" -> HandleCompensate(mode, c.rec, g, w)
      [] c.ph = "Resolve"    -> HandleResolve(c.rec, g, w)

\* The worlds a handler call may leave behind when the process dies after the
\* external call and before the commit: the gate did not change.
Interrupted(mode, c, g, w) ==
    IF ~External(mode) THEN {}
    ELSE CASE c.ph = "Execute" /\ g.fwd = "Absent" -> {[w EXCEPT !.done = TRUE]}
           [] c.ph = "Compensate" /\ g.fwd = "Succeeded"
                /\ ~CompensationReplays(c.rec, g) -> {[w EXCEPT !.undone = TRUE]}
           [] OTHER -> {}
=============================================================================
