----------------------------- MODULE Migration -----------------------------
(***************************************************************************)
(* Reviewed migrations: calls of `apply` and `rollback` of                 *)
(* migrations/postgres_backend.py.  Each call runs the DDL of a plan and   *)
(* its ledger row in one SERIALIZABLE transaction, behind an advisory      *)
(* transaction lock that is taken AFTER the snapshot of the transaction.   *)
(* A call stands for its server session too: the slot of a call is free    *)
(* again only when the backend has ended the transaction.  PostgreSQL is   *)
(* external.                                                               *)
(***************************************************************************)
EXTENDS Integers, Sequences, FiniteSets

CONSTANTS
    Calls,      \* concurrent calls, each with the session it uses
    Plans,      \* reviewed plans; a plan stands for its review hash
    NameOf,     \* plan -> migration name, the unique key of the ledger
    Steps,      \* number of steps of a plan
    MaxId,      \* bound: how many ledger ids are handed out
    NoPlan, NoCall

ASSUME ConstantsAssumption ==
    /\ Steps \in Nat \ {0}
    /\ MaxId \in Nat
    /\ NoPlan \notin Plans
    /\ NoCall \notin Calls

VARIABLES
    created,    \* does the ledger table exist?
    rows,       \* the committed rows of the ledger
    schema,     \* the committed effects of executed steps, oldest first
    nextId,     \* next value of the identity sequence; it never rolls back
    lock,       \* the holder of the advisory transaction lock
    pc,         \* call -> the statement it executes next
    kind,       \* call -> apply or rollback
    plan,       \* call -> the plan it is asked for
    saw,        \* call -> the ledger in the snapshot of its transaction
    work,       \* call -> the schema as its transaction has changed it
    step,       \* call -> how many steps it has executed
    row,        \* call -> the ledger row it inserts or deletes
    report,     \* call -> the outcome it reports
    committed   \* calls whose transaction has changed the ledger (history)

durable == <<created, rows, schema>>
local == <<kind, plan, saw, work, step, row>>
vars == <<durable, nextId, lock, pc, local, report, committed>>

Rows == [id : Nat, plan : Plans, batch : Nat]
Effects == [plan : Plans, step : 1..Steps]
NoRow == [id |-> 0, plan |-> NoPlan, batch |-> 0]
NoSnapshot == [created |-> FALSE, rows |-> {}]

PCs == {"idle", "lock", "read", "conclude", "steps", "record", "commit",
        "abort", "orphan", "orphan_commit"}
Uncommitted == {"conflict", "mismatch", "order", "failed", "failed_confirmed",
                "failed_unconfirmed", "timed_out", "already_applied",
                "already_rolled_back"}
Reports == Uncommitted \cup {"none", "applied", "rolled_back", "unknown"}

TypeOK ==
    /\ created \in BOOLEAN
    /\ rows \subseteq Rows
    /\ schema \in Seq(Effects)
    /\ nextId \in Nat \ {0}
    /\ lock \in Calls \cup {NoCall}
    /\ pc \in [Calls -> PCs]
    /\ kind \in [Calls -> {"none", "apply", "rollback"}]
    /\ plan \in [Calls -> Plans \cup {NoPlan}]
    /\ saw \in [Calls -> [created : BOOLEAN, rows : SUBSET Rows]]
    /\ work \in [Calls -> Seq(Effects)]
    /\ step \in [Calls -> 0..Steps]
    /\ row \in [Calls -> Rows \cup {NoRow}]
    /\ report \in [Calls -> Reports]
    /\ committed \subseteq Calls

Init ==
    /\ created = FALSE
    /\ rows = {}
    /\ schema = <<>>
    /\ nextId = 1
    /\ lock = NoCall
    /\ pc = [t \in Calls |-> "idle"]
    /\ kind = [t \in Calls |-> "none"]
    /\ plan = [t \in Calls |-> NoPlan]
    /\ saw = [t \in Calls |-> NoSnapshot]
    /\ work = [t \in Calls |-> <<>>]
    /\ step = [t \in Calls |-> 0]
    /\ row = [t \in Calls |-> NoRow]
    /\ report = [t \in Calls |-> "none"]
    /\ committed = {}

-----------------------------------------------------------------------------
(* A statement as the client sees it: it returns, the server refuses it    *)
(* (an error, a lock or statement timeout, a serialization failure),       *)
(* asyncio.timeout cancels the task while it waits, or the connection is   *)
(* lost.  A cancelled statement may have been executed.                    *)
Replies == {"ok", "refused", "cancelled", "cancelled_done", "lost"}
Done(r) == r \in {"ok", "cancelled_done"}
Cancelled(r) == r \in {"cancelled", "cancelled_done"}

Leave(t, l, outcome) ==
    /\ pc' = [pc EXCEPT ![t] = l]
    /\ report' = [report EXCEPT ![t] = outcome]
Goto(t, l) == Leave(t, l, report[t])

(* The exception handler: a rollback is attempted, which a lost connection *)
(* refuses at once.                                                        *)
Fail(t, r) ==
    \/ r = "refused" /\ Leave(t, "abort", "failed")
    \/ Cancelled(r) /\ Leave(t, "abort", "timed_out")
    \/ r = "lost" /\ Leave(t, "orphan", "failed_unconfirmed")

(* The transaction is over: its lock is released and nothing of it is left.*)
Forget(t) ==
    /\ lock' = IF lock = t THEN NoCall ELSE lock
    /\ kind' = [kind EXCEPT ![t] = "none"]
    /\ plan' = [plan EXCEPT ![t] = NoPlan]
    /\ saw' = [saw EXCEPT ![t] = NoSnapshot]
    /\ work' = [work EXCEPT ![t] = <<>>]
    /\ step' = [step EXCEPT ![t] = 0]
    /\ row' = [row EXCEPT ![t] = NoRow]

(* Wrong on purpose: the transaction is begun READ COMMITTED.              *)
ReadCommitted(t) == t \in Calls

(* SERIALIZABLE: a transaction that read the ledger in its snapshot and    *)
(* writes it cannot commit after another one has changed what it read.     *)
Serializable(t) == rows = saw[t].rows

(* The COMMIT takes effect: rows and schema change together.               *)
Install(t) ==
    /\ Serializable(t)
    /\ created' = TRUE
    /\ rows' = IF kind[t] = "apply" THEN rows \cup {row[t]} ELSE rows \ {row[t]}
    /\ schema' = work[t]
    /\ committed' = committed \cup {t}

SameName(t) == {w \in saw[t].rows : NameOf[w.plan] = NameOf[plan[t]]}
NextBatches(t) == {b \in {w.batch + 1 : w \in saw[t].rows} \cup {1} :
                      \A w \in saw[t].rows : w.batch < b}

(* Wrong on purpose: latest_migration_id falls back to the row's own id.   *)
AnyIsLatest(t, w) == w \in saw[t].rows

IsLatest(t, w) == w \in saw[t].rows /\ \A v \in saw[t].rows : v.id <= w.id

-----------------------------------------------------------------------------
(* _begin up to the lock: the first of the set_config statements fixes the *)
(* snapshot.  A failure leaves the transaction to the pool.                *)
Begin(t, r) ==
    /\ pc[t] = "idle"
    /\ \E k \in {"apply", "rollback"}, p \in Plans :
         /\ k = "apply" =>
              nextId + Cardinality({u \in Calls : kind[u] = "apply"}) <= MaxId
         /\ kind' = [kind EXCEPT ![t] = k]
         /\ plan' = [plan EXCEPT ![t] = p]
    /\ saw' = [saw EXCEPT ![t] = [created |-> created, rows |-> rows]]
    /\ \/ r = "ok" /\ Leave(t, "lock", "none")
       \/ Cancelled(r) /\ Leave(t, "orphan", "timed_out")
       \/ r \in {"refused", "lost"} /\ Leave(t, "orphan", "failed_unconfirmed")
    /\ committed' = committed \ {t}
    /\ UNCHANGED <<durable, nextId, lock, work, step, row>>

(* pg_advisory_xact_lock: waits for the transaction that holds the lock,   *)
(* at most for lock_timeout.  transaction_started is not set yet, so that  *)
(* a failure is not rolled back here either.                               *)
AcquireLock(t, r) ==
    /\ pc[t] = "lock"
    /\ Done(r) => lock = NoCall
    /\ lock' = IF Done(r) THEN t ELSE lock
    /\ \/ r = "ok" /\ Goto(t, "read")
       \/ Cancelled(r) /\ Leave(t, "orphan", "timed_out")
       \/ r \in {"refused", "lost"} /\ Leave(t, "orphan", "failed_unconfirmed")
    /\ UNCHANGED <<durable, nextId, local, committed>>

(* _ensure_ledger and _ledger_exists see the table as it is now; the rows, *)
(* and the catalog rows that _validate_ledger reads, come from the         *)
(* snapshot.                                                               *)
TableUntrusted(t) == created /\ ~saw[t].created

ReadForApply(t) ==
    \/ /\ TableUntrusted(t) \/ \E w \in SameName(t) : w.plan # plan[t]
       /\ Leave(t, "abort", "conflict")
    \/ /\ ~TableUntrusted(t) /\ \E w \in SameName(t) : w.plan = plan[t]
       /\ Leave(t, "conclude", "already_applied")
    \/ /\ ~TableUntrusted(t) /\ SameName(t) = {}
       /\ Goto(t, "steps")

ReadForRollback(t) ==
    \/ /\ TableUntrusted(t)
       /\ Leave(t, "abort", "conflict")
    \/ /\ ~TableUntrusted(t) /\ SameName(t) = {}
       /\ Leave(t, "conclude", "already_rolled_back")
    \/ /\ ~TableUntrusted(t) /\ \E w \in SameName(t) : w.plan # plan[t]
       /\ Leave(t, "abort", "mismatch")
    \/ /\ ~TableUntrusted(t)
       /\ \E w \in SameName(t) : w.plan = plan[t] /\ ~IsLatest(t, w)
       /\ Leave(t, "abort", "order")
    \/ /\ ~TableUntrusted(t)
       /\ \E w \in SameName(t) : w.plan = plan[t] /\ IsLatest(t, w)
       /\ Goto(t, "steps")

ReadLedger(t, r) ==
    /\ pc[t] = "read"
    /\ \/ /\ r = "ok"
          /\ IF kind[t] = "apply" THEN ReadForApply(t) ELSE ReadForRollback(t)
       \/ r # "ok" /\ Fail(t, r)
    /\ work' = [work EXCEPT ![t] = schema]
    /\ UNCHANGED <<durable, nextId, lock, kind, plan, saw, step, row, committed>>

(* A transaction that changes nothing ends, by commit or by rollback.      *)
Conclude(t, r) ==
    /\ pc[t] = "conclude"
    /\ \/ r = "ok" /\ Goto(t, "idle") /\ Forget(t)
       \/ r # "ok" /\ Fail(t, r) /\ UNCHANGED <<lock, local>>
    /\ UNCHANGED <<durable, nextId, committed>>

(* One step of the plan, forward, or its compensation in reverse order.  A *)
(* compensation undoes its step when that is the last effect in force; out *)
(* of order it does something else, which is one more effect.              *)
Effect(t, i) == [plan |-> plan[t], step |-> i]
Compensated(s, e) ==
    IF s # <<>> /\ s[Len(s)] = e THEN SubSeq(s, 1, Len(s) - 1) ELSE Append(s, e)

(* Wrong on purpose: the executor counts its steps from zero.              *)
ExecutedFromZero(t) ==
    IF kind[t] = "apply" THEN Append(work[t], Effect(t, step[t]))
                         ELSE Compensated(work[t], Effect(t, Steps - step[t]))

(* Wrong on purpose: the compensations run in the order of the plan.       *)
ExecutedInOrder(t) ==
    IF kind[t] = "apply" THEN Append(work[t], Effect(t, step[t] + 1))
                         ELSE Compensated(work[t], Effect(t, step[t] + 1))

Executed(t) ==
    IF kind[t] = "apply" THEN Append(work[t], Effect(t, step[t] + 1))
                         ELSE Compensated(work[t], Effect(t, Steps - step[t]))

RunStep(t, r) ==
    /\ pc[t] = "steps"
    /\ \/ /\ r = "ok"
          /\ work' = [work EXCEPT ![t] = Executed(t)]
          /\ step' = [step EXCEPT ![t] = @ + 1]
          /\ Goto(t, IF step[t] + 1 = Steps THEN "record" ELSE "steps")
       \/ r # "ok" /\ Fail(t, r) /\ UNCHANGED <<work, step>>
    /\ UNCHANGED <<durable, nextId, lock, kind, plan, saw, row, committed>>

(* The ledger row is inserted, or the row seen is deleted.  The insertion  *)
(* is refused by the UNIQUE name, the deletion when the row is gone.       *)
Insertable(t) == \A w \in rows : NameOf[w.plan] # NameOf[plan[t]]

WriteRow(t, r) ==
    /\ pc[t] = "record"
    /\ \/ /\ r = "ok" /\ kind[t] = "apply" /\ Insertable(t)
          /\ \E b \in NextBatches(t) :
               row' = [row EXCEPT ![t] = [id |-> nextId, plan |-> plan[t], batch |-> b]]
          /\ nextId' = nextId + 1
          /\ Goto(t, "commit")
       \/ /\ r = "ok" /\ kind[t] = "rollback"
          /\ \E w \in SameName(t) \cap rows : row' = [row EXCEPT ![t] = w]
          /\ UNCHANGED nextId
          /\ Goto(t, "commit")
       \/ r # "ok" /\ Fail(t, r) /\ UNCHANGED <<nextId, row>>
    /\ UNCHANGED <<durable, lock, kind, plan, saw, work, step, committed>>

(* Wrong on purpose: a COMMIT that fails is taken for a rollback.          *)
CommitRollsBack(t, r) ==
    \/ r \in {"refused", "cancelled"} /\ Leave(t, "abort", "failed")
    \/ r = "lost" /\ Leave(t, "orphan_commit", "failed_unconfirmed")

(* Whatever goes wrong with the COMMIT, its outcome is reported as unknown.*)
CommitFails(t, r) ==
    \/ r \in {"refused", "cancelled"} /\ Leave(t, "abort", "unknown")
    \/ r = "lost" /\ Leave(t, "orphan_commit", "unknown")

Commit(t, r) ==
    /\ pc[t] = "commit"
    /\ \/ /\ Done(r) /\ Install(t) /\ Forget(t)
          /\ Leave(t, "idle",
                   IF r # "ok" THEN "unknown"
                   ELSE IF kind[t] = "apply" THEN "applied" ELSE "rolled_back")
       \/ CommitFails(t, r) /\ UNCHANGED <<durable, lock, local, committed>>
    /\ UNCHANGED nextId

(* _attempt_rollback tells a failure whether its rollback was confirmed.   *)
Abort(t, r) ==
    /\ pc[t] = "abort"
    /\ \/ /\ r = "ok" /\ Forget(t)
          /\ Leave(t, "idle",
                   IF report[t] = "failed" THEN "failed_confirmed" ELSE report[t])
       \/ /\ r # "ok" /\ UNCHANGED <<lock, local>>
          /\ Leave(t, "orphan",
                   IF report[t] = "failed" THEN "failed_unconfirmed" ELSE report[t])
    /\ UNCHANGED <<durable, nextId, committed>>

(* Wrong on purpose: no idle_in_transaction_session_timeout is set.        *)
BackendExitAfterCommit(t) ==
    /\ pc[t] = "orphan_commit"
    /\ Install(t)
    /\ Forget(t)
    /\ Goto(t, "idle")
    /\ UNCHANGED nextId

(* A transaction without a client ends: the pool rolls it back, or the     *)
(* backend does on idle_in_transaction_session_timeout or statement_timeout*)
(* or when it notices.  A COMMIT that was under way may still take effect. *)
BackendExit(t) ==
    /\ pc[t] \in {"orphan", "orphan_commit"}
    /\ \/ pc[t] = "orphan_commit" /\ Install(t)
       \/ UNCHANGED <<durable, committed>>
    /\ Forget(t)
    /\ Goto(t, "idle")
    /\ UNCHANGED nextId

(* The server process dies in the middle of its calls.                     *)
Crash ==
    /\ \E t \in Calls : pc[t] \notin {"idle", "orphan", "orphan_commit"}
    /\ pc' = [t \in Calls |-> IF pc[t] = "idle" THEN "idle"
                              ELSE IF pc[t] \in {"commit", "orphan_commit"}
                                THEN "orphan_commit" ELSE "orphan"]
    /\ report' = [t \in Calls |-> IF pc[t] = "idle" THEN report[t] ELSE "none"]
    /\ UNCHANGED <<durable, nextId, lock, local, committed>>

-----------------------------------------------------------------------------
Step(t) == \E r \in Replies :
    \/ AcquireLock(t, r) \/ ReadLedger(t, r) \/ Conclude(t, r) \/ RunStep(t, r)
    \/ WriteRow(t, r) \/ Commit(t, r) \/ Abort(t, r)

Next ==
    \/ \E t \in Calls : (\E r \in Replies : Begin(t, r)) \/ Step(t) \/ BackendExit(t)
    \/ Crash

Spec == Init /\ [][Next]_vars

(* Every statement is bounded by lock_timeout, statement_timeout and       *)
(* asyncio.timeout, and a transaction without a client by                  *)
(* idle_in_transaction_session_timeout.                                    *)
FairSpec == Spec /\ \A t \in Calls : WF_vars(Step(t)) /\ WF_vars(BackendExit(t))

-----------------------------------------------------------------------------
(* A call that reports a change made it, and one that reports commit_state *)
(* not_committed did not and never will: no COMMIT of it is under way.     *)
ReportIsTrue ==
    \A t \in Calls :
        /\ report[t] \in {"applied", "rolled_back"} => t \in committed
        /\ report[t] \in Uncommitted =>
             t \notin committed /\ pc[t] # "orphan_commit"

(* A later migration has a later batch, although the batch is computed     *)
(* from a snapshot that may be older than the lock.                        *)
BatchesFollowIds ==
    \A w1, w2 \in rows : w1.id < w2.id => w1.batch < w2.batch

(* Only the latest migration rolls back, although the check that it is the *)
(* latest reads a snapshot that may be older than the lock.                *)
OnlyLatestRollsBack ==
    [][\A w \in rows \ rows' : \A v \in rows : v.id <= w.id]_vars

(* Every call ends, and so does the transaction it leaves behind.          *)
CallsEnd == \A t \in Calls : pc[t] # "idle" ~> pc[t] = "idle"

(* The ledger is a stack of plans, the schema holds what those plans do,   *)
(* and no interleaving, failure or stale snapshot lets one change without  *)
(* the other or out of order.                                              *)
PlanAt(i) == (CHOOSE w \in rows : Cardinality({v \in rows : v.id <= w.id}) = i).plan
Ledger == INSTANCE MigrationLedger WITH
    stack <- [i \in 1..Cardinality(rows) |-> PlanAt(i)]

IsMigrationLedger == Ledger!Spec

-----------------------------------------------------------------------------
(* "An exact successful replay is idempotent": a call that reads the       *)
(* ledger when its own plan has been applied neither executes the plan     *)
(* again nor reports a conflict.                                           *)
ReplayIsIdempotent ==
    [][\A t \in Calls :
          /\ pc[t] = "read" /\ kind[t] = "apply"
          /\ \E w \in rows : w.plan = plan[t]
          => pc'[t] # "steps" /\ report'[t] # "conflict"]_vars
=============================================================================
