---------------------------- MODULE Maintenance ----------------------------
(***************************************************************************)
(* Reviewed nontransactional maintenance: calls of `apply` and `reconcile` *)
(* of maintenance/postgres.py running concurrently over pooled sessions,   *)
(* the durable ledger table and the session-level advisory lock per target *)
(* object.  PostgreSQL is external: its sessions, locks and the execution  *)
(* of a statement are modelled by what the code relies on.                 *)
(***************************************************************************)
EXTENDS Naturals

CONSTANTS
    Calls,      \* concurrent calls of the apply and reconcile tools
    Sessions,   \* database sessions of the connection pool
    Plans,      \* reviewed plans; a plan stands for its review hash
    Names,      \* operation names, the unique key of the ledger
    Targets,    \* target objects, by oid
    NameOf,     \* the name and ...
    TargetOf,   \* ... the target oid bound by a plan
    Kinds,      \* the kinds of call that are made
    MaxHold,    \* bound: how often one session may hold one reentrant lock
    NoPlan, NoSession

AllKinds == {"apply", "reconcile_succeeded", "reconcile_failed"}

ASSUME ConstantsAssumption ==
    /\ NameOf \in [Plans -> Names]
    /\ TargetOf \in [Plans -> Targets]
    /\ NoPlan \notin Plans
    /\ NoSession \notin Sessions
    /\ Kinds \subseteq AllKinds
    /\ MaxHold \in Nat

(* Wrong on purpose: an operation in doubt, or one that succeeded, is      *)
(* restarted like one that failed.                                         *)
RetryableInDoubt == {"failed", "reconciled_failed", "unknown"}
RetryableAfterSuccess == {"failed", "reconciled_failed", "succeeded"}

(* The statuses a ledger row can have, and the row of an absent name.      *)
TerminalSuccess == {"succeeded", "reconciled_succeeded"}
TerminalFailure == {"failed", "reconciled_failed"}
Unresolved == {"running", "unknown"}
Statuses == TerminalSuccess \cup TerminalFailure \cup Unresolved
NoRow == [plan |-> NoPlan, status |-> "absent"]
Rows == [plan : Plans, status : Statuses] \cup {NoRow}

VARIABLES
    ledger,     \* name -> row of the ledger table
    executed,   \* name -> has the command of the latest attempt taken effect?
    locks,      \* session -> target -> how often it holds the advisory lock
    running,    \* session -> plan whose command its backend is executing
    zombies,    \* sessions whose client is gone and whose backend is not
    suspect,    \* sessions of a pool that was marked invalid
    pc,         \* call -> the statement it executes next
    sess,       \* call -> the session it has checked out
    kind,       \* call -> what was asked for, and ...
    plan,       \* ... the plan it was asked for
    seen,       \* call -> status of the row when the call read it
    report,     \* call -> the outcome it reports when it returns
    acked       \* names whose success was reported to a client (history)

db == <<ledger, executed, locks, running>>
pool == <<zombies, suspect>>
request == <<kind, plan>>
vars == <<db, pool, pc, sess, request, seen, report, acked>>

PCs == {"idle", "lock", "read", "inspect", "record", "execute", "executing",
        "finish", "fail", "fail_completed", "cancelled", "unlock", "reset",
        "read_stored", "resolve"}
Reports == {"none", "succeeded", "already_succeeded", "busy", "conflict",
            "mismatch", "failed", "unknown", "not_started", "error",
            "reconciled_succeeded", "reconciled_failed"}

TypeOK ==
    /\ ledger \in [Names -> Rows]
    /\ executed \in [Names -> BOOLEAN]
    /\ locks \in [Sessions -> [Targets -> Nat]]
    /\ running \in [Sessions -> Plans \cup {NoPlan}]
    /\ zombies \subseteq Sessions
    /\ suspect \subseteq Sessions
    /\ pc \in [Calls -> PCs]
    /\ sess \in [Calls -> Sessions \cup {NoSession}]
    /\ kind \in [Calls -> AllKinds \cup {"none"}]
    /\ plan \in [Calls -> Plans \cup {NoPlan}]
    /\ seen \in [Calls -> Statuses \cup {"absent", "unread"}]
    /\ report \in [Calls -> Reports]
    /\ acked \subseteq Names

Init ==
    /\ ledger = [n \in Names |-> NoRow]
    /\ executed = [n \in Names |-> FALSE]
    /\ locks = [s \in Sessions |-> [o \in Targets |-> 0]]
    /\ running = [s \in Sessions |-> NoPlan]
    /\ zombies = {}
    /\ suspect = {}
    /\ pc = [t \in Calls |-> "idle"]
    /\ sess = [t \in Calls |-> NoSession]
    /\ kind = [t \in Calls |-> "none"]
    /\ plan = [t \in Calls |-> NoPlan]
    /\ seen = [t \in Calls |-> "unread"]
    /\ report = [t \in Calls |-> "none"]
    /\ acked = {}

-----------------------------------------------------------------------------
(* One statement as the client sees it: it returns, it is refused, the     *)
(* task is cancelled while it waits (psycopg then cancels the query and    *)
(* drains the connection), or the connection is lost.  In the last two     *)
(* cases the statement may have taken effect all the same.                 *)
Replies == {"ok", "refused", "cancelled", "cancelled_done", "lost", "lost_done"}
Done(r) == r \in {"ok", "cancelled_done", "lost_done", "refused_done"}

(* Wrong on purpose: a cancellation is handled like any other exception.   *)
CancelledIsFailure(r) == r \notin Replies

Cancelled(r) == r \in {"cancelled", "cancelled_done"}
Lost(r) == r \in {"lost", "lost_done"}

(* Wrong on purpose: without a timeout, a call that has lost its connection*)
(* waits for ever.                                                         *)
AnswersIfConnected(t) == IF sess[t] = NoSession THEN {} ELSE Replies

(* A call that has lost its connection gets an error for every statement.  *)
Answers(t) == IF sess[t] = NoSession THEN {"refused"} ELSE Replies

(* A call that sees its connection lost leaves a backend without a client. *)
Detach(t, r) ==
    /\ sess' = IF Lost(r) THEN [sess EXCEPT ![t] = NoSession] ELSE sess
    /\ zombies' = IF Lost(r) THEN zombies \cup {sess[t]} ELSE zombies

Goto(t, l) == pc' = [pc EXCEPT ![t] = l]
Leave(t, l, outcome) == Goto(t, l) /\ report' = [report EXCEPT ![t] = outcome]

(* What a call reports when it ends before its running record was written. *)
EarlyOutcome(t, r) ==
    IF kind[t] = "apply"
      THEN IF Cancelled(r) THEN "not_started" ELSE "failed"
      ELSE IF Cancelled(r) THEN "unknown" ELSE "error"

SetStatus(n, status) == [ledger EXCEPT ![n] = [plan |-> @.plan, status |-> status]]
Idle(s) == s \notin zombies /\ \A t \in Calls : sess[t] # s
Target(t) == TargetOf[plan[t]]
Row(t) == ledger[NameOf[plan[t]]]

-----------------------------------------------------------------------------
(* A call checks out an idle session and configures it.  A call that was   *)
(* already waiting in a pool when that was marked invalid still gets one   *)
(* of its sessions.                                                        *)
Begin(t) ==
    /\ pc[t] = "idle"
    /\ \E s \in Sessions, k \in Kinds, p \in Plans :
         /\ Idle(s) /\ locks[s][TargetOf[p]] < MaxHold
         /\ sess' = [sess EXCEPT ![t] = s]
         /\ kind' = [kind EXCEPT ![t] = k]
         /\ plan' = [plan EXCEPT ![t] = p]
         /\ Goto(t, IF k = "apply" THEN "lock" ELSE "read_stored")
    /\ UNCHANGED <<db, pool, seen, report, acked>>

SetHold(s, o, n) == [locks EXCEPT ![s] = [locks[s] EXCEPT ![o] = n]]

(* pg_try_advisory_lock: refused when another session holds the lock,      *)
(* counted when this one already does.                                     *)
Free(s, o) == \A s2 \in Sessions \ {s} : locks[s2][o] = 0

Granted(t, r) == Done(r) /\ Free(sess[t], Target(t))

(* Wrong on purpose: the result of pg_try_advisory_lock is not looked at.  *)
AcquireLockUnchecked(t, r) ==
    /\ pc[t] = "lock"
    /\ Detach(t, r)
    /\ locks' = IF Granted(t, r)
                  THEN SetHold(sess[t], Target(t), locks[sess[t]][Target(t)] + 1)
                  ELSE locks
    /\ IF r = "ok"
         THEN Leave(t, IF kind[t] = "apply" THEN "read" ELSE "resolve", report[t])
         ELSE Leave(t, "reset", EarlyOutcome(t, r))
    /\ UNCHANGED <<ledger, executed, running, suspect, request, seen, acked>>

AcquireLock(t, r) ==
    /\ pc[t] = "lock"
    /\ Detach(t, r)
    /\ locks' = IF Granted(t, r)
                  THEN SetHold(sess[t], Target(t), locks[sess[t]][Target(t)] + 1)
                  ELSE locks
    /\ \/ /\ r = "ok" /\ Granted(t, r)
          /\ Goto(t, IF kind[t] = "apply" THEN "read" ELSE "resolve")
          /\ UNCHANGED report
       \/ /\ r = "ok" /\ ~Granted(t, r)
          /\ Leave(t, "reset", "busy")
       \/ /\ r # "ok"
          /\ Leave(t, "reset", EarlyOutcome(t, r))
    /\ UNCHANGED <<ledger, executed, running, suspect, request, seen, acked>>

(* apply reads the row of its name under the lock of its target.  A ledger *)
(* table that does not exist yet reads as one without rows.                *)
ReadRow(t, r) ==
    /\ pc[t] = "read"
    /\ Detach(t, r)
    /\ seen' = IF r = "ok" THEN [seen EXCEPT ![t] = Row(t).status] ELSE seen
    /\ \/ /\ r # "ok"
          /\ Leave(t, "unlock", EarlyOutcome(t, r))
       \/ /\ r = "ok" /\ Row(t).plan \notin {NoPlan, plan[t]}
          /\ Leave(t, "unlock", "conflict")
       \/ /\ r = "ok" /\ Row(t).plan = plan[t]
          /\ Row(t).status \in TerminalSuccess
          /\ Leave(t, "unlock", "already_succeeded")
       \/ /\ r = "ok" /\ Row(t).plan = plan[t]
          /\ Row(t).status \in Unresolved
          /\ Leave(t, "unlock", "conflict")
       \/ /\ r = "ok" /\ Row(t).plan \in {NoPlan, plan[t]}
          /\ Row(t).status \in TerminalFailure \cup {"absent"}
          /\ Goto(t, "inspect") /\ UNCHANGED report
    /\ UNCHANGED <<db, suspect, request, acked>>

(* The live target is compared with the reviewed one; anything may have    *)
(* changed it since the review.                                            *)
InspectTarget(t, r) ==
    /\ pc[t] = "inspect"
    /\ Detach(t, r)
    /\ \/ /\ r = "ok"
          /\ \/ Goto(t, "record") /\ UNCHANGED report
             \/ Leave(t, "unlock", "mismatch")
       \/ /\ r # "ok"
          /\ Leave(t, "unlock", EarlyOutcome(t, r))
    /\ UNCHANGED <<db, suspect, request, seen, acked>>

(* Creates the ledger if need be and inserts the running row, or restarts  *)
(* a failed one.  The insertion is refused by the UNIQUE name when a plan  *)
(* of that name for another target got there first.                        *)
RecordRunning(t, r) ==
    /\ pc[t] = "record"
    /\ seen[t] = "absent" /\ Row(t) # NoRow => ~Done(r)
    /\ ledger' = IF ~Done(r) THEN ledger
                 ELSE IF seen[t] = "absent"
                   THEN [ledger EXCEPT ![NameOf[plan[t]]] =
                           [plan |-> plan[t], status |-> "running"]]
                   ELSE SetStatus(NameOf[plan[t]], "running")
    /\ executed' = IF Done(r) THEN [executed EXCEPT ![NameOf[plan[t]]] = FALSE]
                             ELSE executed
    /\ Detach(t, r)
    /\ \/ /\ r = "ok"
          /\ Goto(t, "execute") /\ UNCHANGED report
       \/ /\ r # "ok"
          /\ Leave(t, "unlock", EarlyOutcome(t, r))
    /\ UNCHANGED <<locks, running, suspect, request, seen, acked>>

(* The command is sent, and the backend starts to execute it.              *)
SendCommand(t) ==
    /\ pc[t] = "execute"
    /\ running' = [running EXCEPT ![sess[t]] = plan[t]]
    /\ Goto(t, "executing")
    /\ UNCHANGED <<ledger, executed, locks, pool, sess, request, seen, report, acked>>

(* The command returns.  When the connection is lost instead, its backend  *)
(* goes on executing without a client.                                     *)
CommandReturns(t, r) ==
    /\ pc[t] = "executing"
    /\ Detach(t, r)
    /\ IF Lost(r)
         THEN UNCHANGED <<running, executed>>
         ELSE /\ running' = [running EXCEPT ![sess[t]] = NoPlan]
              /\ executed' = [executed EXCEPT ![NameOf[plan[t]]] = Done(r)]
    /\ Goto(t, IF r = "ok" THEN "finish"
               ELSE IF Cancelled(r) THEN "cancelled" ELSE "fail")
    /\ UNCHANGED <<ledger, locks, suspect, request, seen, report, acked>>

(* The row is finished as succeeded.                                       *)
FinishRecord(t, r) ==
    /\ pc[t] = "finish"
    /\ ledger' = IF Done(r) THEN SetStatus(NameOf[plan[t]], "succeeded") ELSE ledger
    /\ Detach(t, r)
    /\ \/ /\ r = "ok" /\ Leave(t, "unlock", "succeeded")
       \/ /\ Cancelled(r) /\ Goto(t, "cancelled") /\ UNCHANGED report
       \/ /\ r = "refused" \/ Lost(r)
          /\ Goto(t, "fail_completed") /\ UNCHANGED report
    /\ UNCHANGED <<executed, locks, running, suspect, request, seen, acked>>

(* The handler of an exception: failed if the command did not complete,    *)
(* unknown if it did or if the row cannot be written.                      *)
RecordFailure(t, r) ==
    /\ pc[t] \in {"fail", "fail_completed"}
    /\ ledger' = IF Done(r)
                   THEN SetStatus(NameOf[plan[t]],
                          IF pc[t] = "fail" THEN "failed" ELSE "unknown")
                   ELSE ledger
    /\ Detach(t, r)
    /\ Leave(t, "unlock",
             IF pc[t] = "fail" /\ r = "ok" THEN "failed" ELSE "unknown")
    /\ UNCHANGED <<executed, locks, running, suspect, request, seen, acked>>

(* The handler of a cancellation: a best-effort write of unknown.          *)
RecordCancelled(t, r) ==
    /\ pc[t] = "cancelled"
    /\ ledger' = IF Done(r) THEN SetStatus(NameOf[plan[t]], "unknown") ELSE ledger
    /\ Detach(t, r)
    /\ Leave(t, "unlock", "unknown")
    /\ UNCHANGED <<executed, locks, running, suspect, request, seen, acked>>

(* reconcile reads the row BEFORE it asks for the lock of its target.      *)
ReadStored(t, r) ==
    /\ pc[t] = "read_stored"
    /\ Detach(t, r)
    /\ seen' = IF r = "ok" THEN [seen EXCEPT ![t] = Row(t).status] ELSE seen
    /\ \/ /\ r # "ok"
          /\ Leave(t, "reset", EarlyOutcome(t, r))
       \/ /\ r = "ok" /\ Row(t) = NoRow
          /\ Leave(t, "reset", "conflict")
       \/ /\ r = "ok" /\ Row(t).plan \notin {NoPlan, plan[t]}
          /\ Leave(t, "reset", "mismatch")
       \/ /\ r = "ok" /\ Row(t).plan = plan[t]
          /\ Goto(t, "lock") /\ UNCHANGED report
    /\ UNCHANGED <<db, suspect, request, acked>>

(* reconcile decides by the status it read, and writes the resolution.     *)
Agrees(t) ==
    \/ kind[t] = "reconcile_succeeded" /\ seen[t] \in TerminalSuccess
    \/ kind[t] = "reconcile_failed" /\ seen[t] \in TerminalFailure
Resolution(t) ==
    IF kind[t] = "reconcile_succeeded" THEN "reconciled_succeeded" ELSE "reconciled_failed"

Decide(t) ==
    /\ pc[t] = "resolve" /\ seen[t] \notin Unresolved
    /\ Leave(t, "unlock",
             IF ~Agrees(t) THEN "conflict"
             ELSE IF seen[t] \in TerminalSuccess THEN "already_succeeded" ELSE "failed")
    /\ UNCHANGED <<db, pool, sess, request, seen, acked>>

Resolve(t, r) ==
    /\ pc[t] = "resolve" /\ seen[t] \in Unresolved
    /\ ledger' = IF Done(r) THEN SetStatus(NameOf[plan[t]], Resolution(t)) ELSE ledger
    /\ Detach(t, r)
    /\ Leave(t, "unlock", IF r = "ok" THEN Resolution(t) ELSE EarlyOutcome(t, r))
    /\ UNCHANGED <<executed, locks, running, suspect, request, seen, acked>>

(* The finally clause: unlock if the call knows that it holds the lock,    *)
(* reset the session, return it to the pool and return the outcome.        *)
(* Anything that goes wrong, which may be after the unlock, is swallowed   *)
(* and marks the pool invalid.                                             *)
Cleanup(t) ==
    /\ pc[t] \in {"unlock", "reset"}
    /\ \E r \in Answers(t) \cup (IF sess[t] = NoSession THEN {} ELSE {"refused_done"}) :
         /\ locks' = IF pc[t] = "unlock" /\ Done(r)
                       THEN SetHold(sess[t], Target(t), locks[sess[t]][Target(t)] - 1)
                       ELSE locks
         /\ zombies' = IF Lost(r) THEN zombies \cup {sess[t]} ELSE zombies
         /\ suspect' = IF r = "ok" THEN suspect ELSE Sessions \ zombies'
    /\ acked' = IF report[t] = "succeeded" THEN acked \cup {NameOf[plan[t]]} ELSE acked
    /\ sess' = [sess EXCEPT ![t] = NoSession]
    /\ kind' = [kind EXCEPT ![t] = "none"]
    /\ plan' = [plan EXCEPT ![t] = NoPlan]
    /\ seen' = [seen EXCEPT ![t] = "unread"]
    /\ Leave(t, "idle", "none")
    /\ UNCHANGED <<ledger, executed, running>>

-----------------------------------------------------------------------------
(* An invalid pool is closed by the next use of it: its idle sessions end, *)
(* the others when they are returned.  A new session takes the slot.       *)
CloseSuspect(s) ==
    /\ s \in suspect /\ Idle(s)
    /\ suspect' = suspect \ {s}
    /\ locks' = [locks EXCEPT ![s] = [o \in Targets |-> 0]]
    /\ UNCHANGED <<ledger, executed, running, zombies, pc, sess, request, seen, report, acked>>

(* A backend without a client ends, with or without the effect of the      *)
(* command it was executing; only then are its locks released.             *)
BackendExit(s) ==
    /\ s \in zombies
    /\ zombies' = zombies \ {s}
    /\ suspect' = suspect \ {s}
    /\ locks' = [locks EXCEPT ![s] = [o \in Targets |-> 0]]
    /\ running' = [running EXCEPT ![s] = NoPlan]
    /\ IF running[s] = NoPlan
         THEN UNCHANGED executed
         ELSE \E d \in BOOLEAN : executed' = [executed EXCEPT ![NameOf[running[s]]] = d]
    /\ UNCHANGED <<ledger, pc, sess, request, seen, report, acked>>

(* The server process dies: every call is gone, every backend is orphaned. *)
Crash ==
    /\ \E t \in Calls : pc[t] # "idle"
    /\ pc' = [t \in Calls |-> "idle"]
    /\ sess' = [t \in Calls |-> NoSession]
    /\ kind' = [t \in Calls |-> "none"]
    /\ plan' = [t \in Calls |-> NoPlan]
    /\ seen' = [t \in Calls |-> "unread"]
    /\ report' = [t \in Calls |-> "none"]
    /\ zombies' = Sessions
    /\ suspect' = {}
    /\ UNCHANGED <<db, acked>>

-----------------------------------------------------------------------------
Apply(t, r) ==
    \/ ReadRow(t, r) \/ InspectTarget(t, r) \/ RecordRunning(t, r)
    \/ CommandReturns(t, r) \/ FinishRecord(t, r)
    \/ RecordFailure(t, r) \/ RecordCancelled(t, r)

Reconcile(t, r) == ReadStored(t, r) \/ Resolve(t, r)

Step(t) ==
    \/ \E r \in Answers(t) : AcquireLock(t, r) \/ Apply(t, r) \/ Reconcile(t, r)
    \/ SendCommand(t) \/ Decide(t) \/ Cleanup(t)

Next ==
    \/ \E t \in Calls : Begin(t) \/ Step(t)
    \/ \E s \in Sessions : CloseSuspect(s) \/ BackendExit(s)
    \/ Crash

Spec == Init /\ [][Next]_vars

(* Both tools run under asyncio.timeout and the command under              *)
(* statement_timeout, so a call always takes its next step.                *)
FairSpec == Spec /\ \A t \in Calls : WF_vars(Step(t))

-----------------------------------------------------------------------------
(* At most one backend executes a maintenance command on a target, even    *)
(* when the client of one is gone: the advisory lock belongs to the        *)
(* backend and not to the call.                                            *)
OneCommandPerTarget ==
    \A s1, s2 \in Sessions :
        /\ running[s1] # NoPlan
        /\ running[s2] # NoPlan
        /\ TargetOf[running[s1]] = TargetOf[running[s2]]
        => s1 = s2

(* While a command executes, the ledger has its plan as running: whatever  *)
(* happens to the client, the operation is not retried without an          *)
(* operator's resolution.                                                  *)
ExecutionIsRecorded ==
    \A s \in Sessions :
        running[s] # NoPlan =>
            ledger[NameOf[running[s]]] = [plan |-> running[s], status |-> "running"]

(* A row that says succeeded belongs to a command that took effect, and    *)
(* one that says failed to a command that did not.                         *)
RecordedOutcomeIsTrue ==
    \A n \in Names :
        /\ ledger[n].status = "succeeded" => executed[n]
        /\ ledger[n].status = "failed" => ~executed[n]

(* A command that took effect is started again only after an operator has  *)
(* resolved its row as failed: neither a crash, nor a retry, nor a         *)
(* concurrent call executes it twice.                                      *)
RetryOnlyAfterResolution ==
    [][\A n \in Names :
          executed[n] /\ ~executed'[n] => ledger[n].status = "reconciled_failed"]_vars

(* A row, once written, changes only by a call whose session holds the     *)
(* lock of the row's own target, and keeps its plan for good.              *)
WritesUnderLock ==
    [][\A n \in Names :
          ledger[n] # NoRow /\ ledger'[n] # ledger[n] =>
            /\ ledger'[n].plan = ledger[n].plan
            /\ \E t \in Calls :
                 /\ pc'[t] # pc[t]
                 /\ sess[t] # NoSession
                 /\ locks[sess[t]][TargetOf[ledger[n].plan]] > 0]_vars

(* What apply has reported as succeeded stays recorded as a success.       *)
ReportedSuccessIsDurable ==
    \A n \in acked : ledger[n].status \in TerminalSuccess

(* Every call comes to an end and gives its session back.                  *)
CallsEnd == \A t \in Calls : pc[t] # "idle" ~> pc[t] = "idle"

(* Calls, sessions and locks together keep the promise made for each name: *)
(* what happens to the ledger and to the database is what happens to one   *)
(* reviewed operation at a time.                                           *)
Operation == INSTANCE ReviewedOperation WITH
    status <- [n \in Names |-> ledger[n].status],
    effect <- executed

IsReviewedOperation == Operation!Spec

-----------------------------------------------------------------------------
(* "a successful operation cannot be reconciled as failed"                 *)
SuccessNotReconciledAsFailed ==
    [][\A n \in Names :
          ledger[n].status \in TerminalSuccess =>
            ledger'[n].status # "reconciled_failed"]_vars
=============================================================================
