----------------------------- MODULE HashChain ------------------------------
(***************************************************************************)
(* The ledger's run-scoped write path: concurrent HTTP handlers, each one  *)
(* Postgres transaction at READ COMMITTED, that append rows to the hash    *)
(* chains of seven tables.                                                 *)
(*                                                                         *)
(* A request is one call of one of the seven create handlers.  Its steps   *)
(* are the statements of the handler, so the transactions interleave at    *)
(* every statement, between all replicas of the ledger.  created_at is     *)
(* DEFAULT now(), which in Postgres is the time of the BEGIN: a request    *)
(* takes its place in created_at order before it waits for any lock.       *)
(* Advisory locks live in one key space and end with their transaction.    *)
(***************************************************************************)
EXTENDS ChainOrder, FiniteSets

CONSTANTS
  Requests,       \* handler invocations, each used at most once
  Tables,         \* chained tables
  Events,         \* the table whose rows are numbered under a run lock
  CallerIds,      \* tables whose row id the caller supplies (human_approvals)
  Runs,           \* run ids
  Ids,            \* row ids, ordered as UUIDs are
  Keys,           \* advisory lock keys
  RunKey,         \* uuid_to_lock_key: the key events.rs locks, per run
  ChainKey,       \* chain_lock_key: the key compute_chain locks, per chain
  LegacyRows,     \* per chain, rows that predate the chain migration
  MaxClock        \* bound on the database clock

Chains == Tables \X Runs
Numbered == {Events} \X Runs

ASSUME TablesAssumption == Events \in Tables /\ CallerIds \subseteq Tables
ASSUME IdsAssumption == Ids \subseteq Nat \ {0}
ASSUME KeysAssumption == RunKey \in [Runs -> Keys] /\ ChainKey \in [Chains -> Keys]
ASSUME LegacyAssumption == LegacyRows \in [Chains -> Nat]
ASSUME ClockAssumption == MaxClock \in Nat

VARIABLES
  clock,      \* the database server's clock
  runs,       \* rows of the runs table
  pc,         \* where each request's handler is
  target,     \* the chain each request writes to
  row,        \* the row each request is assembling
  holders,    \* advisory locks: the (key, request) pairs now held
  log         \* committed rows per chain, in commit order

vars == <<clock, runs, pc, target, row, holders, log>>

\* A handler that serves an open transaction.
Open == {"begun", "runlocked", "numbered", "chainlocked", "linked", "inserted"}
Ended == {"committed", "rolledback"}

TypeOK ==
  /\ clock \in 0 .. MaxClock
  /\ runs \subseteq Runs
  /\ pc \in [Requests -> {"idle"} \cup Open \cup Ended]
  /\ target \in [Requests -> Chains]
  /\ row \in [Requests -> [id : Ids, created : 0 .. MaxClock, seq : Nat, prev : Nat]]
  /\ holders \subseteq Keys \X Requests
  /\ log \in [Chains -> Seq(RowType)]

Init ==
  /\ clock = 0
  /\ runs = {}
  /\ pc = [r \in Requests |-> "idle"]
  /\ target \in [Requests -> Chains]
  /\ row \in [Requests -> [id : Ids, created : {0}, seq : {0}, prev : {Genesis}]]
  /\ \A q, r \in Requests :     \* minted UUIDs do not repeat; a caller's may
       q # r /\ row[q].id = row[r].id => /\ target[q][1] \in CallerIds
                                         /\ target[r][1] \in CallerIds
  /\ holders = {}
  /\ log = [c \in Chains |-> <<>>]

-----------------------------------------------------------------------------
(* Helpers *)

Free(k, r) == \A q \in Requests : <<k, q>> \in holders => q = r

\* Mutant of Acquire: a shared lock, pg_advisory_xact_lock_shared.
AcquireShared(k, r) == holders' = holders \cup {<<k, r>>}

\* pg_advisory_xact_lock: waits for other holders, and is reentrant.
Acquire(k, r) == Free(k, r) /\ holders' = holders \cup {<<k, r>>}

\* Mutant of ReleaseAll: pg_advisory_lock, held by the pooled session for ever.
ReleaseNone(r) == r \in Requests /\ UNCHANGED holders

ReleaseAll(r) == holders' = { h \in holders : h[2] # r }

\* Transaction end without effect: `?` on any error, or the future is dropped.
Rollback(r) ==
  /\ pc' = [pc EXCEPT ![r] = "rolledback"]
  /\ ReleaseAll(r)
  /\ UNCHANGED <<clock, runs, target, row, log>>

\* PRIMARY KEY (id) of the table, and UNIQUE (run_id, seq) of events.
Clashes(a, c, b, d) ==
  \/ c[1] = d[1] /\ a.id = b.id
  \/ c = d /\ c \in Numbered /\ a.seq = b.seq

ClashesCommitted(r) ==
  \/ \E d \in Chains : \E b \in RowsOf(log[d]) : Clashes(row[r], target[r], b, d)
  \/ target[r] \in Numbered /\ row[r].seq \in 1 .. LegacyRows[target[r]]

ClashesInFlight(r) ==
  \E q \in Requests \ {r} : /\ pc[q] = "inserted"
                            /\ Clashes(row[r], target[r], row[q], target[q])

\* The key a request is about to lock.
NextKey(r) == IF pc[r] = "begun" /\ target[r] \in Numbered
              THEN RunKey[target[r][2]] ELSE ChainKey[target[r]]

AtLock(r) == pc[r] \in {"begun", "numbered"}

WaitsFor(r, q) == q # r /\ AtLock(r) /\ <<NextKey(r), q>> \in holders

\* r waits in a cycle of waiting requests.
InLockCycle(r) ==
  \E S \in SUBSET Requests : r \in S /\ \A p \in S : \E q \in S : WaitsFor(p, q)

-----------------------------------------------------------------------------
(* Environment *)

Tick == /\ clock < MaxClock
        /\ clock' = clock + 1
        /\ UNCHANGED <<runs, pc, target, row, holders, log>>

\* POST /runs
CreateRun(u) == /\ u \notin runs
                /\ runs' = runs \cup {u}
                /\ UNCHANGED <<clock, pc, target, row, holders, log>>

-----------------------------------------------------------------------------
(* One statement of a handler each *)

\* Mutant of Begin: created_at comes from a ledger host whose clock is ahead.
BeginAhead(r) ==
  /\ pc[r] = "idle"
  /\ pc' = [pc EXCEPT ![r] = "begun"]
  /\ row' = [row EXCEPT ![r].created = clock + 1]
  /\ UNCHANGED <<clock, runs, target, holders, log>>

\* state.db.begin(): fixes now(), hence the row's created_at.
Begin(r) ==
  /\ pc[r] = "idle"
  /\ pc' = [pc EXCEPT ![r] = "begun"]
  /\ row' = [row EXCEPT ![r].created = clock]
  /\ UNCHANGED <<clock, runs, target, holders, log>>

\* Mutant of LockRun: the run lock is left out.
LockRunSkipped(r) ==
  /\ pc[r] = "begun" /\ target[r] \in Numbered
  /\ pc' = [pc EXCEPT ![r] = "runlocked"]
  /\ UNCHANGED <<clock, runs, target, row, holders, log>>

\* events.rs only: the per-run lock around MAX(seq)+1.
LockRun(r) ==
  /\ pc[r] = "begun" /\ target[r] \in Numbered
  /\ Acquire(RunKey[target[r][2]], r)
  /\ pc' = [pc EXCEPT ![r] = "runlocked"]
  /\ UNCHANGED <<clock, runs, target, row, log>>

\* Mutant of AssignSeq: a database sequence, which rollbacks leave gaps in.
AssignSeqSerial(r) ==
  /\ pc[r] = "runlocked" /\ target[r][2] \in runs
  /\ row' = [row EXCEPT ![r].seq = LegacyRows[target[r]] + 1 + Cardinality(
              { q \in Requests \ {r} : target[q] = target[r] /\ row[q].seq # 0 })]
  /\ pc' = [pc EXCEPT ![r] = "numbered"]
  /\ UNCHANGED <<clock, runs, target, holders, log>>

\* events.rs only: the run must exist; seq is one past the largest so far.
AssignSeq(r) ==
  /\ pc[r] = "runlocked" /\ target[r][2] \in runs
  /\ row' = [row EXCEPT ![r].seq = MaxSeq(log[target[r]], LegacyRows[target[r]]) + 1]
  /\ pc' = [pc EXCEPT ![r] = "numbered"]
  /\ UNCHANGED <<clock, runs, target, holders, log>>

\* events.rs only: 404.
RunMissing(r) == pc[r] = "runlocked" /\ target[r][2] \notin runs /\ Rollback(r)

\* Mutant of LockChain: the chain lock is left out.
LockChainSkipped(r) ==
  /\ pc[r] = IF target[r] \in Numbered THEN "numbered" ELSE "begun"
  /\ pc' = [pc EXCEPT ![r] = "chainlocked"]
  /\ UNCHANGED <<clock, runs, target, row, holders, log>>

\* compute_chain, first statement.
LockChain(r) ==
  /\ pc[r] = IF target[r] \in Numbered THEN "numbered" ELSE "begun"
  /\ Acquire(ChainKey[target[r]], r)
  /\ pc' = [pc EXCEPT ![r] = "chainlocked"]
  /\ UNCHANGED <<clock, runs, target, row, log>>

\* Mutant of ReadTail: the tail query always asks the events table.
ReadTailOfEvents(r) ==
  /\ pc[r] = "chainlocked"
  /\ row' = [row EXCEPT ![r].prev = TailId(log[<<Events, target[r][2]>>])]
  /\ pc' = [pc EXCEPT ![r] = "linked"]
  /\ UNCHANGED <<clock, runs, target, holders, log>>

\* compute_chain, second statement: the tail lookup and the new link.
ReadTail(r) ==
  /\ pc[r] = "chainlocked"
  /\ row' = [row EXCEPT ![r].prev = TailId(log[target[r]])]
  /\ pc' = [pc EXCEPT ![r] = "linked"]
  /\ UNCHANGED <<clock, runs, target, holders, log>>

\* INSERT: waits while a clashing uncommitted row decides the outcome.
Insert(r) ==
  /\ pc[r] = "linked" /\ target[r][2] \in runs
  /\ ~ClashesCommitted(r) /\ ~ClashesInFlight(r)
  /\ pc' = [pc EXCEPT ![r] = "inserted"]
  /\ UNCHANGED <<clock, runs, target, row, holders, log>>

\* INSERT fails: no such run (foreign key), or a unique violation.
InsertRejected(r) ==
  /\ pc[r] = "linked"
  /\ target[r][2] \notin runs \/ ClashesCommitted(r)
  /\ Rollback(r)

\* COMMIT: the row becomes visible, then the locks are released.
Commit(r) ==
  /\ pc[r] = "inserted"
  /\ log' = [log EXCEPT ![target[r]] = Append(@, row[r])]
  /\ pc' = [pc EXCEPT ![r] = "committed"]
  /\ ReleaseAll(r)
  /\ UNCHANGED <<clock, runs, target, row>>

\* Postgres' deadlock detector errors one waiter of a cycle out.
DeadlockVictim(r) == AtLock(r) /\ InLockCycle(r) /\ Rollback(r)

\* Client gone, ledger or connection lost, database restart.
Abort(r) == pc[r] \in Open /\ Rollback(r)

-----------------------------------------------------------------------------
(* Specification *)

Step(r) == \/ LockRun(r) \/ AssignSeq(r) \/ RunMissing(r)
           \/ LockChain(r) \/ ReadTail(r) \/ Insert(r) \/ InsertRejected(r)
           \/ Commit(r) \/ DeadlockVictim(r)

Next == \/ Tick
        \/ \E u \in Runs : CreateRun(u)
        \/ \E r \in Requests : Begin(r) \/ Step(r) \/ Abort(r)

Spec == Init /\ [][Next]_vars

\* Tokio polls every handler and Postgres executes every statement sent to it.
FairSpec == Spec /\ \A r \in Requests : WF_vars(Step(r))

-----------------------------------------------------------------------------
(* Properties *)

\* The link a handler computed is still the link to the tail when its row is
\* inserted and committed: what chain.rs takes the advisory lock for.
LinkNotStale ==
  \A r \in Requests : pc[r] \in {"linked", "inserted"} =>
                        row[r].prev = TailId(log[target[r]])

\* The seq an append read is still free when its row is inserted and
\* committed: what events.rs takes the run lock for, so that UNIQUE
\* (run_id, seq) never turns a concurrent append into an error.
SeqNotStale ==
  \A r \in Requests :
    /\ pc[r] \in {"numbered", "chainlocked", "linked", "inserted"}
    /\ target[r] \in Numbered
    => row[r].seq = MaxSeq(log[target[r]], LegacyRows[target[r]]) + 1

\* The events of a run are numbered without a gap, in the order in which they
\* committed, whatever was rolled back in between.
SeqConsecutive ==
  \A c \in Numbered : \A i \in 1 .. Len(log[c]) : log[c][i].seq = LegacyRows[c] + i

\* Every chain is one tree grown from its first row: no second row starts
\* afresh with prev_hash NULL, and a row's parent is a row of the same chain
\* that committed before it.
RootedTree ==
  \A c \in Chains : \A i \in 1 .. Len(log[c]) :
    IF i = 1 THEN log[c][i].prev = Genesis
    ELSE \E j \in 1 .. i - 1 : log[c][i].prev = log[c][j].id

\* A row is linked to the row that committed just before it exactly when that
\* row also sorts last by (created_at, id) among the rows of its time: the
\* only way to a fork is to commit out of created_at order.
LinearUnlessOvertaken ==
  \A c \in Chains : \A i \in 1 .. Len(log[c]) - 1 :
    log[c][i + 1].prev = log[c][i].id <=>
      IsNewest(log[c][i], RowsUpTo(log[c], i))

\* chain.rs: the lock is there "so two callers can't both read the same
\* `prev_hash` and then both insert, producing two siblings".  Stated for
\* chains whose created_at values are all different, so that no tie of the
\* clock is to blame.
NoSiblings ==
  \A c \in Chains :
    LET rows == RowsOf(log[c]) IN
    (\A a, b \in rows : a # b => a.created # b.created) =>
      \A a, b \in rows : a # b => a.prev # b.prev

Atomic == INSTANCE ChainLog WITH Times <- 0 .. MaxClock

\* The locked, multi-statement transactions are atomic appends.
AppendsAtomically == Atomic!Spec

\* Every transaction that begins ends, also when lock keys of different runs
\* collide and two appends wait for each other.
EveryRequestEnds == \A r \in Requests : pc[r] \in Open ~> pc[r] \in Ended

=============================================================================
