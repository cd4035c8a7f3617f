---------------------------- MODULE AtomicWrite ----------------------------
(***************************************************************************)
(* Guarded writes in one transaction on a pooled session: the two handlers *)
(* `execute_transaction` of sql/sql_driver.py (mode "transaction") and     *)
(* `_transaction` of data_ops/postgres.py (mode "data").  They share the   *)
(* pool and differ in what they say when something goes wrong.  PostgreSQL *)
(* and the pool are external.                                              *)
(***************************************************************************)
EXTENDS Integers, FiniteSets

CONSTANTS
    Calls,          \* concurrent calls
    Sessions,       \* sessions of the connection pool
    Modes,          \* which of the two handlers are called
    Steps,          \* number of statements of a transaction
    MaxAffected,    \* max_affected_rows of every statement
    NoSession

ASSUME ConstantsAssumption ==
    /\ Modes \subseteq {"transaction", "data"}
    /\ Steps \in Nat \ {0}
    /\ MaxAffected \in Nat
    /\ NoSession \notin Sessions

VARIABLES
    store,      \* the committed writes
    writes,     \* session -> the writes of the transaction open on it
    zombies,    \* sessions whose client is gone and whose backend is not
    limbo,      \* those of them with a COMMIT under way
    pc,         \* call -> the statement it executes next
    mode,       \* call -> the handler that executes it
    expected,   \* call -> expected_rows, or -1 when none is given
    sess,       \* call -> the session it has checked out
    step,       \* call -> how many statements it has executed
    report      \* call -> the outcome it reports

db == <<store, writes>>
servers == <<zombies, limbo>>
request == <<mode, expected>>
vars == <<db, servers, pc, request, sess, step, report>>

AnyNumber == -1
Unreliable == -1
Counts == Unreliable..MaxAffected + 1
Writes == [call : Calls, step : 1..Steps, rows : Counts]
PCs == {"idle", "write", "commit", "rollback", "return"}
Reports == {"none", "committed", "rolled_back", "conflict", "unconfirmed",
            "unknown", "failed", "timed_out"}

TypeOK ==
    /\ store \subseteq Writes
    /\ writes \in [Sessions -> SUBSET Writes]
    /\ zombies \subseteq Sessions /\ limbo \subseteq zombies
    /\ pc \in [Calls -> PCs]
    /\ mode \in [Calls -> Modes \cup {"none"}]
    /\ expected \in [Calls -> AnyNumber..MaxAffected]
    /\ sess \in [Calls -> Sessions \cup {NoSession}]
    /\ step \in [Calls -> 0..Steps]
    /\ report \in [Calls -> Reports]

Init ==
    /\ store = {}
    /\ writes = [s \in Sessions |-> {}]
    /\ zombies = {} /\ limbo = {}
    /\ pc = [t \in Calls |-> "idle"]
    /\ mode = [t \in Calls |-> "none"]
    /\ expected = [t \in Calls |-> AnyNumber]
    /\ sess = [t \in Calls |-> NoSession]
    /\ step = [t \in Calls |-> 0]
    /\ report = [t \in Calls |-> "none"]

-----------------------------------------------------------------------------
(* A statement as the client sees it: it returns, it is refused, the task  *)
(* is cancelled by asyncio.timeout, or the connection is lost; in the last *)
(* two cases it may have taken effect all the same.                        *)
Replies == {"ok", "refused", "cancelled", "cancelled_done", "lost", "lost_done"}
Done(r) == r \in {"ok", "cancelled_done", "lost_done"}
Cancelled(r) == r \in {"cancelled", "cancelled_done"}
Lost(r) == r \in {"lost", "lost_done"}
Answers(t) == IF sess[t] = NoSession THEN {"refused"} ELSE Replies

Leave(t, l, outcome) ==
    /\ pc' = [pc EXCEPT ![t] = l]
    /\ report' = [report EXCEPT ![t] = outcome]

Detach(t, r) ==
    /\ sess' = IF Lost(r) THEN [sess EXCEPT ![t] = NoSession] ELSE sess
    /\ zombies' = IF Lost(r) THEN zombies \cup {sess[t]} ELSE zombies

Idle(s) == s \notin zombies /\ \A t \in Calls : sess[t] # s

-----------------------------------------------------------------------------
(* A call checks out a session.  Its flag for a started transaction is set *)
(* before BEGIN, so that a failure of BEGIN is one of the first statement. *)
(* The name of a call is used again when nothing is left of the call.      *)
Begin(t) ==
    /\ pc[t] = "idle"
    /\ \A s \in Sessions : \A w \in writes[s] : w.call # t
    /\ \E s \in Sessions, m \in Modes, e \in AnyNumber..MaxAffected :
         /\ Idle(s)
         /\ sess' = [sess EXCEPT ![t] = s]
         /\ mode' = [mode EXCEPT ![t] = m]
         /\ expected' = [expected EXCEPT ![t] = e]
    /\ store' = {w \in store : w.call # t}
    /\ step' = [step EXCEPT ![t] = 0]
    /\ Leave(t, "write", "none")
    /\ UNCHANGED <<writes, servers>>

(* Wrong on purpose: one row too many is let through.                      *)
WithinGuardPlusOne(t, rows) ==
    /\ rows # Unreliable
    /\ expected[t] \in {AnyNumber, rows}
    /\ rows <= MaxAffected + 1

(* The guards of a statement: a reliable row count, the expected one, and  *)
(* no more than the maximum.                                               *)
WithinGuard(t, rows) ==
    /\ rows # Unreliable
    /\ expected[t] \in {AnyNumber, rows}
    /\ rows <= MaxAffected

(* Wrong on purpose: one statement too many.                               *)
LastPlusOne(t) == IF mode[t] = "data" THEN 1 ELSE Steps + 1

(* The structured data operations consist of one guarded statement.        *)
Last(t) == IF mode[t] = "data" THEN 1 ELSE Steps

Write(t, r) ==
    /\ pc[t] = "write"
    /\ Detach(t, r)
    /\ \E n \in Counts :
         /\ writes' = IF Done(r)
                        THEN [writes EXCEPT ![sess[t]] =
                                @ \cup {[call |-> t, step |-> step[t] + 1, rows |-> n]}]
                        ELSE writes
         /\ \/ /\ r = "ok" /\ WithinGuard(t, n)
               /\ step' = [step EXCEPT ![t] = @ + 1]
               /\ Leave(t, IF step[t] + 1 = Last(t) THEN "commit" ELSE "write", "none")
            \/ /\ r = "ok" /\ ~WithinGuard(t, n)
               /\ Leave(t, "rollback", IF n = Unreliable THEN "failed" ELSE "conflict")
               /\ UNCHANGED step
            \/ /\ r # "ok"
               /\ Leave(t, "rollback", IF Cancelled(r) THEN "timed_out" ELSE "failed")
               /\ UNCHANGED step
    /\ UNCHANGED <<store, limbo, request>>

(* The data handler takes an OperationalError or InterfaceError of COMMIT, *)
(* a lost connection among them, for an unknown outcome, but not a         *)
(* cancellation; the transaction handler takes everything for a failure.   *)
Commit(t, r) ==
    /\ pc[t] = "commit"
    /\ Detach(t, r)
    /\ store' = IF Done(r) THEN store \cup writes[sess[t]] ELSE store
    /\ writes' = IF Done(r) THEN [writes EXCEPT ![sess[t]] = {}] ELSE writes
    /\ limbo' = IF r = "lost" THEN limbo \cup {sess[t]} ELSE limbo
    /\ \/ r = "ok" /\ Leave(t, "return", "committed")
       \/ Cancelled(r) /\ Leave(t, "rollback", "timed_out")
       \/ /\ r = "refused" \/ Lost(r)
          /\ mode[t] = "data" /\ Leave(t, "rollback", "unknown")
       \/ /\ r = "refused" \/ (Lost(r) /\ mode[t] = "transaction")
          /\ Leave(t, "rollback", "failed")
    /\ UNCHANGED <<request, step>>

(* Wrong on purpose: a COMMIT in doubt is taken for a success.             *)
OptimisticOutcome(t, r) ==
    IF report[t] = "unknown" /\ r # "ok" THEN "committed" ELSE "rolled_back"

(* What is reported after a rollback was tried: execute_transaction says   *)
(* rolled_back whatever happened, the data handler asks.  A rollback that  *)
(* is cancelled ends in the TimeoutError handler, whatever came before.    *)
Outcome(t, r) ==
    IF mode[t] = "transaction" THEN "rolled_back"
    ELSE IF report[t] = "unknown" /\ ~Cancelled(r) THEN "unknown"
    ELSE IF r # "ok" THEN "unconfirmed"
    ELSE IF report[t] = "conflict" THEN "conflict" ELSE "rolled_back"

Rollback(t, r) ==
    /\ pc[t] = "rollback"
    /\ Detach(t, r)
    /\ writes' = IF Done(r) THEN [writes EXCEPT ![sess[t]] = {}] ELSE writes
    /\ Leave(t, "return", Outcome(t, r))
    /\ UNCHANGED <<store, limbo, request, step>>

(* Wrong on purpose: the session goes back as it is.                       *)
ReturnAsItIs(t) ==
    /\ pc[t] = "return"
    /\ sess' = [sess EXCEPT ![t] = NoSession]
    /\ Leave(t, "idle", report[t])
    /\ UNCHANGED <<db, servers, request, step>>

(* The session goes back to the pool, which rolls back what is still open. *)
Return(t) ==
    /\ pc[t] = "return"
    /\ writes' = IF sess[t] = NoSession THEN writes
                 ELSE [writes EXCEPT ![sess[t]] = {}]
    /\ sess' = [sess EXCEPT ![t] = NoSession]
    /\ Leave(t, "idle", report[t])
    /\ UNCHANGED <<store, servers, request, step>>

(* A backend without a client ends and rolls back, unless a COMMIT was     *)
(* under way that it still executes.  A new session takes the slot.        *)
BackendExit(s) ==
    /\ s \in zombies
    /\ \/ UNCHANGED store
       \/ s \in limbo /\ store' = store \cup writes[s]
    /\ writes' = [writes EXCEPT ![s] = {}]
    /\ zombies' = zombies \ {s}
    /\ limbo' = limbo \ {s}
    /\ UNCHANGED <<pc, request, sess, step, report>>

(* The server process dies in the middle of its calls.                     *)
Crash ==
    /\ \E t \in Calls : pc[t] # "idle"
    /\ zombies' = Sessions
    /\ limbo' = limbo \cup {sess[t] : t \in {u \in Calls : pc[u] = "commit"}}
    /\ pc' = [t \in Calls |-> "idle"]
    /\ sess' = [t \in Calls |-> NoSession]
    /\ report' = [t \in Calls |-> IF pc[t] = "idle" THEN report[t] ELSE "none"]
    /\ UNCHANGED <<db, request, step>>

-----------------------------------------------------------------------------
Step(t) ==
    \/ \E r \in Answers(t) : Write(t, r) \/ Commit(t, r) \/ Rollback(t, r)
    \/ Return(t)

Next ==
    \/ \E t \in Calls : Begin(t) \/ Step(t)
    \/ \E s \in Sessions : BackendExit(s)
    \/ Crash

Spec == Init /\ [][Next]_vars

-----------------------------------------------------------------------------
WritesOf(t) == {w \in store : w.call = t}

(* Atomicity of guarded writes: of each call nothing is committed, or all  *)
(* of its statements with row counts that satisfy their guards, whatever   *)
(* fails in between and whoever used the session before.                   *)
AllOrNothingGuarded ==
    \A t \in Calls :
        \/ WritesOf(t) = {}
        \/ /\ \A w \in WritesOf(t) :
                w.rows \in 0..MaxAffected /\ expected[t] \in {AnyNumber, w.rows}
           /\ {w.step : w \in WritesOf(t)} = 1..Last(t)

(* A success that a client is told of is in the database.                  *)
SuccessIsCommitted ==
    \A t \in Calls : report[t] = "committed" => WritesOf(t) # {}

(* A COMMIT makes only the writes of its own call durable: no transaction  *)
(* is inherited with a pooled session.                                     *)
CommitsOwnWorkOnly ==
    \A t \in Calls : sess[t] # NoSession => \A w \in writes[sess[t]] : w.call = t

-----------------------------------------------------------------------------
(* "The server does not report success or failure when PostgreSQL state is *)
(* uncertain": what is reported as rolled back or not committed is not     *)
(* committed, even if COMMIT was tried.                                    *)
FailureIsNotCommitted ==
    \A t \in Calls :
        report[t] \in {"rolled_back", "conflict", "unconfirmed"} => WritesOf(t) = {}
=============================================================================
