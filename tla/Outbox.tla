------------------------------- MODULE Outbox -------------------------------
(***************************************************************************)
(* Transactional outbox, dispatchers, retention and the consumer's inbox   *)
(* (naoutbox-core, naoutbox-pgsql, naoutbox-mysql, nainbox-mysql).         *)
(*                                                                         *)
(* A business transaction appends an event row with its own writes; the    *)
(* row takes its id at the insert and is visible at the commit.            *)
(* Dispatchers in several processes compete for one authority, publish the *)
(* oldest pending rows in id order, and mark the published prefix.  A      *)
(* cleaner archives and deletes rows that have left the delivery stream.   *)
(* A consumer handles the published messages under an inbox marker.        *)
(*                                                                         *)
(* The two backends differ where Backend is consulted.  PostgreSQL keeps   *)
(* an authority in a leased owner row with a fencing token and renews it   *)
(* before every publication; MySQL keeps it in a session lock.  In both, a *)
(* lost authority (lease expired, session gone) makes every later fenced   *)
(* statement of its holder fail, and the holder learns of it only there.   *)
(* A process runs one round at a time, so the pair of owner identity and   *)
(* token is the process that holds it.                                     *)
(*                                                                         *)
(* Abstractions.                                                           *)
(*  - Each fenced transaction locks the owner row and commits in one step. *)
(*    A commit whose acknowledgement is lost is that step, then Crash.     *)
(*  - row[i].life numbers the times row i entered a final class (the value *)
(*    of dispatched_at or dead_at); aged says that time is past the        *)
(*    policy's minimum age.  batch_limit of the cleaner is at least Rows,  *)
(*    and the round's clock is read at every fetch.                        *)
(*  - A tenant with a cap has an initialised ledger row: start-up refuses  *)
(*    to become ready otherwise.                                           *)
(*  - Every authority taken from a live holder, crash, transient failure   *)
(*    and lost acknowledgement counts against the bound Faults.            *)
(***************************************************************************)
EXTENDS Naturals, Sequences, FiniteSets

CONSTANTS
    Backend,         \* "pgsql" or "mysql"
    Rows,            \* bound: event rows appended in a behaviour
    Aggregates,      \* aggregate roots
    Cap,             \* quota of the tenant that owns all of them; 0: no quota
    Dispatchers,     \* dispatcher processes
    Cleaner,         \* the process that runs retention rounds
    Nobody,          \* no holder
    Limit,           \* batch size of a dispatch round
    MaxAttempts,     \* refusals before a row is dead
    ArchiveRequired, \* OutboxRetentionPolicy::archive_required
    Faults,          \* bound: faults in a behaviour
    Revivals         \* bound: dead rows an operator replays

ASSUME OutboxAssumption ==
    /\ Backend \in {"pgsql", "mysql"}
    /\ {Rows, Limit, MaxAttempts} \subseteq Nat \ {0}
    /\ {Cap, Faults, Revivals} \subseteq Nat
    /\ ArchiveRequired \in BOOLEAN
    /\ Nobody \notin Dispatchers \cup {Cleaner}

VARIABLES
    row,        \* the table outbox_event, by id
    ledger,     \* in_flight of the tenant
    drifted,    \* a revival bypassed the ledger since the last reconciliation
    owner,      \* role -> the process with its authority, or Nobody
    disp,       \* dispatcher -> its round
    clean,      \* the cleaner's round
    archive,    \* ids the archive has a receipt for
    disposal,   \* ids in outbox_dead_disposal
    log,        \* ids in the order the broker accepted them
    offset,     \* the consumer's acknowledged position in log
    inbox,      \* ids with an inbox marker
    effects,    \* id -> how often its business effect was committed
    faults,     \* faults so far
    revivals    \* revivals so far

table == <<row, ledger, drifted>>
retention == <<clean, archive, disposal>>
consumer == <<offset, inbox, effects>>
vars == <<table, owner, disp, retention, log, consumer, faults, revivals>>

Ids == 1 .. Rows

Roles == {"dispatch", "retention"}

Idle == [pc |-> "idle", batch |-> <<>>, k |-> 0, m |-> 0, err |-> "none", stale |-> 0]

CleanIdle == [pc |-> "idle", cand |-> {}]

Init ==
    /\ row = <<>> /\ ledger = 0 /\ drifted = FALSE
    /\ owner = [r \in Roles |-> Nobody]
    /\ disp = [d \in Dispatchers |-> Idle]
    /\ clean = CleanIdle /\ archive = {} /\ disposal = {}
    /\ log = <<>> /\ offset = 0 /\ inbox = {}
    /\ effects = [i \in Ids |-> 0]
    /\ faults = 0 /\ revivals = 0

InClass(st) == {i \in DOMAIN row : row[i].st = st}

Fault == faults < Faults /\ faults' = faults + 1

(***************************************************************************)
(* Business transactions.  A reservation holds the ledger row's lock until *)
(* its transaction ends.                                                   *)
(***************************************************************************)
LedgerFree == Cap = 0 \/ InClass("Open") = {}

Reserved(n) == IF Cap = 0 THEN ledger ELSE ledger + n

\* release_quota: in_flight never goes below zero.
Released(n) == IF n > ledger THEN 0 ELSE ledger - n

\* append_transactional_with_context: reserve, then insert; a refused
\* reservation writes nothing.  The transactions of one aggregate follow each
\* other, by the row lock their own writes need (external).
AppendEvent(a, poison) ==
    /\ Len(row) < Rows
    /\ \A i \in InClass("Open") : row[i].agg # a
    /\ LedgerFree
    /\ Cap > 0 => ledger < Cap
    /\ ledger' = Reserved(1)
    /\ row' = Append(row, [agg |-> a, poison |-> poison, st |-> "Open",
                           tries |-> 0, life |-> 0, aged |-> FALSE])
    /\ UNCHANGED <<drifted, owner, disp, retention, log, consumer, faults, revivals>>

EndTransaction(i) ==
    /\ i \in InClass("Open")
    /\ \/ row' = [row EXCEPT ![i].st = "Pending"] /\ UNCHANGED ledger
       \/ row' = [row EXCEPT ![i].st = "RolledBack"] /\ ledger' = Released(1)
    /\ UNCHANGED <<drifted, owner, disp, retention, log, consumer, faults, revivals>>

\* reconcile_outbox_tenant_quota: the ledger row is locked, then counted.
Reconcile ==
    /\ Cap > 0
    /\ LedgerFree
    /\ ledger' = Cardinality(InClass("Pending"))
    /\ drifted' = FALSE
    /\ UNCHANGED <<row, owner, disp, retention, log, consumer, faults, revivals>>

(***************************************************************************)
(* Authority.                                                              *)
(***************************************************************************)
TryClaim(role, p) == owner[role] = Nobody /\ owner' = [owner EXCEPT ![role] = p]

Dropped(role, p) ==
    owner' = IF owner[role] = p THEN [owner EXCEPT ![role] = Nobody] ELSE owner

\* A round that ends without release: the session lock of MySQL goes with its
\* session, the lease of PostgreSQL stays until it expires.
Abandoned(role, p) == IF Backend = "mysql" THEN Dropped(role, p) ELSE UNCHANGED owner

Working(p) == IF p = Cleaner THEN clean.pc # "idle" ELSE disp[p].pc # "idle"

\* The lease expires or the session is lost.  The holder need not be dead.
AuthorityLost(role) ==
    /\ owner[role] # Nobody
    /\ owner' = [owner EXCEPT ![role] = Nobody]
    /\ IF Working(owner[role]) THEN Fault ELSE UNCHANGED faults
    /\ UNCHANGED <<table, disp, retention, log, consumer, revivals>>

(***************************************************************************)
(* A dispatch round: claim, poll, publish in order up to the first         *)
(* failure, mark the published prefix, record the failure, release.        *)
(***************************************************************************)
Authority(d) == owner["dispatch"] = d

Goes(d, r) == disp' = [disp EXCEPT ![d] = r]

RoundError(d) ==
    /\ Goes(d, Idle)
    /\ Abandoned("dispatch", d)

Claim(d) ==
    /\ disp[d].pc = "idle"
    /\ TryClaim("dispatch", d)
    /\ Goes(d, [Idle EXCEPT !.pc = "poll"])
    /\ UNCHANGED <<table, retention, log, consumer, faults, revivals>>

\* ORDER BY id ASC LIMIT limit.
Oldest == {i \in InClass("Pending") : Cardinality({j \in InClass("Pending") : j < i}) < Limit}

Enumerations(S) == {b \in [1 .. Cardinality(S) -> S] : S = {b[j] : j \in DOMAIN b}}

\* Mutant of InIdOrder: the newest row first.
InIdOrderBackwards(S) == {b \in Enumerations(S) : \A i, j \in DOMAIN b : i < j => b[i] > b[j]}

\* The batch in id order.
InIdOrder(S) == {b \in Enumerations(S) : \A i, j \in DOMAIN b : i < j => b[i] < b[j]}

PollPending(d) ==
    /\ disp[d].pc = "poll"
    /\ \/ /\ Authority(d)
          /\ \E batch \in InIdOrder(Oldest) :
                Goes(d, [disp[d] EXCEPT !.pc = "send", !.batch = batch])
          /\ UNCHANGED owner
       \/ ~Authority(d) /\ RoundError(d)
    /\ UNCHANGED <<table, retention, log, consumer, faults, revivals>>

\* Mutant of Renewed: the lease is extended without a look at who holds it.
RenewedUnchecked(d) == TRUE

\* renew: only PostgreSQL asks before a publication.
Renewed(d) == Backend = "mysql" \/ Authority(d)

Renew(d) ==
    /\ disp[d].pc = "send"
    /\ disp[d].k < Len(disp[d].batch)
    /\ \/ Renewed(d) /\ Goes(d, [disp[d] EXCEPT !.pc = "publish"]) /\ UNCHANGED owner
       \/ ~Renewed(d) /\ RoundError(d)
    /\ UNCHANGED <<table, retention, log, consumer, faults, revivals>>

\* What the round does after a failed publication: it stops at the row.
StopAt(r, err) == [r EXCEPT !.pc = "mark", !.err = err]

\* The publisher (external): it accepts, refuses a poisoned event for good, or
\* fails with an unknown outcome.  stale counts publications without authority.
Publish(d) ==
    LET r == [disp[d] EXCEPT !.stale = IF Authority(d) THEN @ ELSE @ + 1]
        e == r.batch[r.k + 1]
    IN /\ disp[d].pc = "publish"
       /\ \/ /\ ~row[e].poison
             /\ log' = Append(log, e)
             /\ Goes(d, [r EXCEPT !.pc = "send", !.k = @ + 1])
             /\ UNCHANGED faults
          \/ /\ row[e].poison
             /\ Goes(d, StopAt(r, "terminal"))
             /\ UNCHANGED <<log, faults>>
          \/ /\ Fault
             /\ Goes(d, StopAt(r, "transient"))
             /\ UNCHANGED log \/ (~row[e].poison /\ log' = Append(log, e))
       /\ UNCHANGED <<table, owner, retention, consumer, revivals>>

BatchSent(d) ==
    /\ disp[d].pc = "send"
    /\ disp[d].k = Len(disp[d].batch)
    /\ Goes(d, [disp[d] EXCEPT !.pc = "mark"])
    /\ UNCHANGED <<table, owner, retention, log, consumer, faults, revivals>>

\* Mutant of MarkedNow: the row the round stopped at is marked with the prefix.
MarkedNowPastPrefix(r) ==
    {r.batch[j] : j \in r.m + 1 .. IF r.err = "none" THEN r.k ELSE r.k + 1}

\* Positions a mark statement covers: the whole prefix in one transaction, or
\* (MySQL) one row after the other.
MarkedNow(r) ==
    {r.batch[j] : j \in r.m + 1 .. IF Backend = "pgsql" THEN r.k ELSE r.m + 1}

Final(S, st) ==
    row' = [i \in DOMAIN row |->
              IF i \in S THEN [row[i] EXCEPT !.st = st, !.life = @ + 1, !.aged = FALSE]
              ELSE row[i]]

\* mark_dispatched_exact: PostgreSQL insists that every row is still pending.
MarkDispatched(d) ==
    LET r == disp[d]
        now == MarkedNow(r) \cap InClass("Pending")
    IN /\ r.pc = "mark"
       /\ r.m < r.k
       /\ \/ /\ Authority(d) /\ LedgerFree
             /\ Backend = "pgsql" => now = MarkedNow(r)
             /\ Final(now, "Dispatched")
             /\ ledger' = Released(Cardinality(now))
             /\ Goes(d, [r EXCEPT !.m = IF Backend = "pgsql" THEN r.k ELSE @ + 1])
             /\ UNCHANGED owner
          \/ /\ ~Authority(d) \/ (Backend = "pgsql" /\ MarkedNow(r) # now)
             /\ RoundError(d)
             /\ UNCHANGED <<row, ledger>>
       /\ UNCHANGED <<drifted, retention, log, consumer, faults, revivals>>

\* Mutant of Refused: the row dies but its place in the quota is kept.
RefusedKeepsPlace(i) ==
    IF row[i].tries + 1 >= MaxAttempts
    THEN /\ row' = [row EXCEPT ![i].tries = @ + 1, ![i].st = "Dead",
                               ![i].life = @ + 1, ![i].aged = FALSE]
         /\ UNCHANGED ledger
    ELSE row' = [row EXCEPT ![i].tries = @ + 1] /\ UNCHANGED ledger

\* Mutant of Refused: a refusal is taken for a transient failure.
RefusedUncounted(i) == UNCHANGED <<row, ledger>>

\* One more refusal; the last one makes the row dead and releases its place.
Refused(i) ==
    IF row[i].tries + 1 >= MaxAttempts
    THEN /\ row' = [row EXCEPT ![i].tries = @ + 1, ![i].st = "Dead",
                               ![i].life = @ + 1, ![i].aged = FALSE]
         /\ ledger' = Released(1)
    ELSE row' = [row EXCEPT ![i].tries = @ + 1] /\ UNCHANGED ledger

\* record_failed_attempt: only a refusal counts, a transient failure never does.
RecordFailed(d) ==
    LET r == disp[d]
        failed == r.batch[r.k + 1]
    IN /\ r.pc = "mark"
       /\ r.m = r.k
       /\ r.err = "terminal"
       /\ \/ /\ Authority(d) /\ LedgerFree
             /\ failed \in InClass("Pending")
             /\ Refused(failed)
             /\ Goes(d, [r EXCEPT !.err = "none"])
             /\ UNCHANGED owner
          \/ /\ ~Authority(d) \/ (Backend = "pgsql" /\ failed \notin InClass("Pending"))
             /\ RoundError(d)
             /\ UNCHANGED <<row, ledger>>
       /\ UNCHANGED <<drifted, retention, log, consumer, faults, revivals>>

Release(d) ==
    /\ disp[d].pc = "mark"
    /\ disp[d].m = disp[d].k
    /\ disp[d].err # "terminal"
    /\ Dropped("dispatch", d)
    /\ Goes(d, Idle)
    /\ UNCHANGED <<table, retention, log, consumer, faults, revivals>>

\* The process dies, or the round's future is dropped at an await.
Crash(d) ==
    /\ disp[d].pc # "idle"
    /\ Fault
    /\ RoundError(d)
    /\ UNCHANGED <<table, retention, log, consumer, revivals>>

(***************************************************************************)
(* A retention round: claim, fetch candidates, obtain a receipt for each,  *)
(* delete the ones that are still what they were.                          *)
(***************************************************************************)
Cleans == owner["retention"] = Cleaner

CleanEnds == clean' = CleanIdle /\ Abandoned("retention", Cleaner)

CleanClaim ==
    /\ clean.pc = "idle"
    /\ TryClaim("retention", Cleaner)
    /\ clean' = [CleanIdle EXCEPT !.pc = "fetch"]
    /\ UNCHANGED <<table, disp, archive, disposal, log, consumer, faults, revivals>>

Due(st) ==
    {[id |-> i, st |-> st, life |-> row[i].life] : i \in {j \in InClass(st) : row[j].aged}}

\* PostgreSQL fetches both classes at once, MySQL the dead rows when no other is left.
Candidates ==
    IF Backend = "mysql" /\ Due("Dispatched") # {} THEN Due("Dispatched")
    ELSE Due("Dispatched") \cup Due("Dead")

FetchCandidates ==
    /\ clean.pc = "fetch"
    /\ \/ Cleans /\ Candidates # {}
          /\ clean' = [pc |-> "archive", cand |-> Candidates] /\ UNCHANGED owner
       \/ Cleans /\ Candidates = {} /\ clean' = CleanIdle /\ Dropped("retention", Cleaner)
       \/ ~Cleans /\ CleanEnds
    /\ UNCHANGED <<table, disp, archive, disposal, log, consumer, faults, revivals>>

NeedsReceipt(c) == ArchiveRequired \/ c.st = "Dead"

ReceiptsMissing == {c \in clean.cand : NeedsReceipt(c) /\ c.id \notin archive}

\* confirm_archive_receipt; no authority is checked here.
ArchiveOne ==
    /\ clean.pc = "archive"
    /\ \/ /\ \E c \in ReceiptsMissing : archive' = archive \cup {c.id}
          /\ UNCHANGED clean
       \/ /\ ReceiptsMissing = {}
          /\ clean' = [clean EXCEPT !.pc = "delete"]
          /\ UNCHANGED archive
    /\ UNCHANGED <<table, owner, disp, disposal, log, consumer, faults, revivals>>

\* Mutant of StillCandidate: the delete trusts the candidate list.
StillCandidateTrusted(c) == TRUE

\* PostgreSQL deletes the row in the very state it was fetched in; MySQL checks
\* its class.
StillCandidate(c) ==
    /\ row[c.id].st = c.st
    /\ Backend = "pgsql" => row[c.id].life = c.life

\* The dead rows a delete transaction records as disposed of: PostgreSQL those
\* it deleted, MySQL every dead candidate, before the delete.
Disposed ==
    {c.id : c \in {x \in clean.cand : x.st = "Dead" /\ (Backend = "mysql" \/ StillCandidate(x))}}

\* A batch of which nothing was left to delete ends a round of PostgreSQL.
DeleteCandidates ==
    /\ clean.pc = "delete"
    /\ \/ /\ Cleans
          /\ row' = [i \in DOMAIN row |->
                       IF \E c \in clean.cand : c.id = i /\ StillCandidate(c)
                       THEN [row[i] EXCEPT !.st = "Deleted"] ELSE row[i]]
          /\ disposal' = disposal \cup Disposed
          /\ \/ /\ Backend = "pgsql" /\ \A c \in clean.cand : ~StillCandidate(c)
                /\ clean' = CleanIdle
                /\ Dropped("retention", Cleaner)
             \/ /\ Backend = "mysql" \/ \E c \in clean.cand : StillCandidate(c)
                /\ clean' = [CleanIdle EXCEPT !.pc = "fetch"]
                /\ UNCHANGED owner
       \/ ~Cleans /\ CleanEnds /\ UNCHANGED <<row, disposal>>
    /\ UNCHANGED <<ledger, drifted, disp, archive, log, consumer, faults, revivals>>

\* The round's time budget runs out, or the process dies: nothing is released.
CleanStops ==
    /\ clean.pc # "idle"
    /\ CleanEnds
    /\ UNCHANGED <<table, disp, archive, disposal, log, consumer, faults, revivals>>

\* Time passes: the row reaches its minimum age.
Age(i) ==
    /\ i \in InClass("Dispatched") \cup InClass("Dead")
    /\ ~row[i].aged
    /\ row' = [row EXCEPT ![i].aged = TRUE]
    /\ UNCHANGED <<ledger, drifted, owner, disp, retention, log, consumer, faults, revivals>>

\* An operator replays a dead row once its cause is gone (external): dead = 0.
Revive(i) ==
    /\ i \in InClass("Dead")
    /\ revivals < Revivals
    /\ revivals' = revivals + 1
    /\ row' = [row EXCEPT ![i].st = "Pending", ![i].poison = FALSE, ![i].aged = FALSE]
    /\ drifted' = (Cap > 0)
    /\ UNCHANGED <<ledger, owner, disp, retention, log, consumer, faults>>

(***************************************************************************)
(* The consumer.                                                           *)
(***************************************************************************)

\* MySqlInbox::process: marker and effect commit together, a marker that is there
\* skips the effect.  The acknowledgement may be lost.
Consume ==
    LET e == log[offset + 1]
    IN /\ offset < Len(log)
       /\ inbox' = inbox \cup {e}
       /\ effects' = [effects EXCEPT ![e] = IF e \in inbox THEN @ ELSE @ + 1]
       /\ \/ offset' = offset + 1 /\ UNCHANGED faults
          \/ offset' = offset /\ Fault
       /\ UNCHANGED <<table, owner, disp, retention, log, revivals>>

\* A message of this event may still come: the declared redelivery horizon.
Redeliverable(i) ==
    \/ i \in InClass("Pending") \cup InClass("Dead")
    \/ \E p \in offset + 1 .. Len(log) : log[p] = i
    \/ \E d \in Dispatchers : \E j \in disp[d].k + 1 .. Len(disp[d].batch) : disp[d].batch[j] = i

\* Mutant of MarkerExpired: a marker goes as soon as the message is acknowledged.
MarkerExpiredAtAck(i) == \A p \in offset + 1 .. Len(log) : log[p] # i

\* InboxRetentionPolicy::validate: a marker outlives the redelivery horizon.
MarkerExpired(i) == ~Redeliverable(i)

InboxRetention(i) ==
    /\ i \in inbox
    /\ MarkerExpired(i)
    /\ inbox' = inbox \ {i}
    /\ UNCHANGED <<table, owner, disp, retention, log, offset, effects, faults, revivals>>

(***************************************************************************)
(* The specification.                                                      *)
(***************************************************************************)
Round(d) ==
    \/ PollPending(d)
    \/ Renew(d)
    \/ Publish(d)
    \/ BatchSent(d)
    \/ MarkDispatched(d)
    \/ RecordFailed(d)
    \/ Release(d)

Next ==
    \/ \E a \in Aggregates, poison \in BOOLEAN : AppendEvent(a, poison)
    \/ \E i \in DOMAIN row : EndTransaction(i)
    \/ Reconcile
    \/ \E role \in Roles : AuthorityLost(role)
    \/ \E d \in Dispatchers : Claim(d)
    \/ \E d \in Dispatchers : Round(d)
    \/ \E d \in Dispatchers : Crash(d)
    \/ CleanClaim
    \/ FetchCandidates
    \/ ArchiveOne
    \/ DeleteCandidates
    \/ CleanStops
    \/ \E i \in DOMAIN row : Age(i)
    \/ \E i \in DOMAIN row : Revive(i)
    \/ Consume
    \/ \E i \in inbox : InboxRetention(i)

Spec == Init /\ [][Next]_vars

\* Managed dispatchers poll for ever, leases run out by the clock, transactions
\* end, and the consumer polls.  Faults are finite: the network heals in the end.
LiveSpec ==
    /\ Spec
    /\ WF_vars(\E i \in DOMAIN row : EndTransaction(i))
    /\ WF_vars(AuthorityLost("dispatch") /\ UNCHANGED faults)
    /\ WF_vars(\E d \in Dispatchers : Claim(d))
    /\ \A d \in Dispatchers : WF_vars(Round(d))
    /\ WF_vars(Consume)

(***************************************************************************)
(* Properties.                                                             *)
(***************************************************************************)

States == {"Open", "Pending", "RolledBack", "Dispatched", "Dead", "Deleted"}

Row == [agg : Aggregates, poison : BOOLEAN, st : States, tries : Nat, life : Nat, aged : BOOLEAN]

RoundState == [pc : {"idle", "poll", "send", "publish", "mark"}, batch : Seq(Ids), k : Nat, m : Nat,
               err : {"none", "terminal", "transient"}, stale : Nat]

Candidate == [id : Ids, st : {"Dispatched", "Dead"}, life : Nat]

TableType == row \in Seq(Row) /\ Len(row) <= Rows

RoundsType ==
    /\ disp \in [Dispatchers -> RoundState]
    /\ \A d \in Dispatchers :
          /\ disp[d].m <= disp[d].k /\ disp[d].k <= Len(disp[d].batch)
          /\ disp[d].pc = "poll" => disp[d] = [Idle EXCEPT !.pc = "poll"]
          /\ disp[d].err # "none" => disp[d].pc = "mark"
          /\ disp[d].pc = "publish" \/ disp[d].err = "terminal" => disp[d].k < Len(disp[d].batch)
          /\ \A j \in DOMAIN disp[d].batch : disp[d].batch[j] \in DOMAIN row

CleanType ==
    /\ clean \in [pc : {"idle", "fetch", "archive", "delete"}, cand : SUBSET Candidate]
    /\ \A c \in clean.cand : c.id \in DOMAIN row

LogType ==
    /\ log \in Seq(Ids)
    /\ \A p \in DOMAIN log : log[p] \in DOMAIN row
    /\ offset \in 0 .. Len(log)
    /\ effects \in [Ids -> Nat]

\* The tables and the rounds keep their shape, and nobody refers to a row that
\* is not there.
TypeOK ==
    /\ TableType /\ RoundsType /\ CleanType /\ LogType
    /\ {ledger, faults, revivals} \subseteq Nat
    /\ drifted \in BOOLEAN
    /\ owner \in [Roles -> Dispatchers \cup {Cleaner, Nobody}]
    /\ archive \cup disposal \cup inbox \subseteq Ids

\* Nothing is lost and nothing is invented: what the broker holds was committed,
\* and a committed event leaves the delivery stream only when the broker has it
\* or with a receipt and a disposal record.
NothingLost ==
    /\ \A p \in DOMAIN log : row[log[p]].st \notin {"Open", "RolledBack"}
    /\ \A i \in DOMAIN row :
          /\ row[i].st = "Dispatched" => \E p \in DOMAIN log : log[p] = i
          /\ row[i].st = "Deleted" => \/ \E p \in DOMAIN log : log[p] = i
                                      \/ i \in archive \cap disposal

\* Events of an aggregate are first published in the order of their ids, whoever
\* publishes them and however often the authority changes hands; only a row that
\* died is overtaken.
PublishedInOrder ==
    \A p, q \in DOMAIN log :
        (/\ p < q
         /\ log[q] < log[p]
         /\ row[log[p]].agg = row[log[q]].agg
         /\ row[log[q]].tries < MaxAttempts)
        => \E o \in 1 .. p - 1 : log[o] = log[q]

InFlight == InClass("Pending") \cup InClass("Open")

\* The ledger counts the events in flight exactly, through commits, rollbacks,
\* dispatch and death; after a revival it is short until it is reconciled.  Only
\* revivals take the tenant over its quota.
LedgerExact ==
    Cap > 0 =>
        /\ IF drifted THEN ledger <= Cardinality(InFlight) ELSE ledger = Cardinality(InFlight)
        /\ Cardinality(InFlight) <= Cap + revivals

\* A dispatcher whose authority was taken publishes at most once more.
OneStaleSend == \A d \in Dispatchers : disp[d].stale <= 1

\* The disposal table never speaks of a row that is still there.
DisposalIsTrue == \A i \in disposal : row[i].st = "Deleted"

\* A row is deleted only from a final class, at its minimum age counted from the
\* last time it got there, and with the receipt its class needs.
DeletesAreDue ==
    [][ \A i \in DOMAIN row :
          (row[i].st # "Deleted" /\ row'[i].st = "Deleted") =>
              /\ row[i].st \in {"Dispatched", "Dead"}
              /\ row[i].aged
              /\ (ArchiveRequired \/ row[i].st = "Dead") => i \in archive ]_vars

\* However often an event is published and delivered, its effect is committed once.
EffectOnce == \A i \in Ids : effects[i] <= 1

\* A committed event takes effect at the consumer or dies, and lets go of the rows
\* behind it: no pending row waits for ever.
Delivered ==
    \A i \in Ids : i \in InClass("Pending") ~> (effects[i] > 0 \/ i \in InClass("Dead"))
=============================================================================
