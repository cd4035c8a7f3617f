------------------------------- MODULE Pool --------------------------------
(***************************************************************************)
(* The lazy connection pool, DbConnPool of sql/sql_driver.py: tasks of one *)
(* event loop open, verify, use, invalidate and replace psycopg pools.  A  *)
(* step of a task runs from one await to the next.  psycopg_pool itself is *)
(* external.                                                               *)
(***************************************************************************)
EXTENDS Integers, FiniteSets

CONSTANTS
    Tasks,      \* tasks of the event loop
    Pools,      \* identities of psycopg pools, used again when free
    MaxSize,    \* max_size of a pool
    NoPool, NoTask

ASSUME ConstantsAssumption ==
    /\ MaxSize \in Nat \ {0}
    /\ NoPool \notin Pools
    /\ NoTask \notin Tasks

VARIABLES
    current,    \* self.pool
    valid,      \* self._is_valid
    lifecycle,  \* the holder of self._lifecycle_lock
    state,      \* pool -> new, open or closed
    reported,   \* pools of which a failure was reported since they were opened
    pc,         \* task -> what it awaits
    got         \* task -> the pool it is working with

vars == <<current, valid, lifecycle, state, reported, pc, got>>

PCs == {"idle", "wait", "close_old", "open", "verify", "close_failed",
        "checkout", "using", "wait_to_close", "close"}

TypeOK ==
    /\ current \in Pools \cup {NoPool}
    /\ valid \in BOOLEAN
    /\ lifecycle \in Tasks \cup {NoTask}
    /\ state \in [Pools -> {"new", "open", "closed"}]
    /\ reported \subseteq Pools
    /\ pc \in [Tasks -> PCs]
    /\ got \in [Tasks -> Pools \cup {NoPool}]

Init ==
    /\ current = NoPool
    /\ valid = FALSE
    /\ lifecycle = NoTask
    /\ state = [g \in Pools |-> "closed"]
    /\ reported = {}
    /\ pc = [t \in Tasks |-> "idle"]
    /\ got = [t \in Tasks |-> NoPool]

-----------------------------------------------------------------------------
Replies == {"ok", "error", "cancelled"}
Usable == current # NoPool /\ valid
SetState(g, s) == [state EXCEPT ![g] = s]
Goto(t, l, g) ==
    /\ pc' = [pc EXCEPT ![t] = l]
    /\ got' = [got EXCEPT ![t] = g]
Finish(t) == Goto(t, "idle", NoPool)

(* The identity of a new psycopg pool; which one does not matter.          *)
Fresh(g) ==
    /\ state[g] = "closed" /\ g # current
    /\ \A t \in Tasks : got[t] # g

NewPool == {g \in Pools : Fresh(g) /\ g = CHOOSE h \in Pools : Fresh(h)}

(* Wrong on purpose: the candidate becomes self.pool when it is verified.  *)
CreateUnreferenced(t) ==
    \E g \in NewPool :
        /\ current' = NoPool
        /\ state' = [h \in Pools |-> IF h = g THEN "new"
                                     ELSE IF h = got[t] THEN "closed" ELSE state[h]]
        /\ reported' = reported \ {g}
        /\ Goto(t, "open", g)

(* The candidate becomes self.pool at once, before it is opened; the pool  *)
(* that it replaces, if any, is closed.                                    *)
Create(t) ==
    \E g \in NewPool :
        /\ current' = g
        /\ state' = [h \in Pools |-> IF h = g THEN "new"
                                     ELSE IF h = got[t] THEN "closed" ELSE state[h]]
        /\ reported' = reported \ {g}
        /\ Goto(t, "open", g)

-----------------------------------------------------------------------------
(* A request uses the valid pool without awaiting anything, or waits for   *)
(* the lifecycle lock.                                                     *)
Request(t) ==
    /\ pc[t] = "idle"
    /\ IF Usable THEN Goto(t, "checkout", current) ELSE Goto(t, "wait", NoPool)
    /\ UNCHANGED <<current, valid, lifecycle, state, reported>>

(* Wrong on purpose: the lifecycle lock is not asked for.                  *)
LockIsIgnored == lifecycle \in Tasks \cup {NoTask}

LockIsFree == lifecycle = NoTask

(* The lock is granted: another task may have opened a pool meanwhile.     *)
(* Otherwise the pool that is there is given up and closed first.          *)
Connect(t) ==
    /\ pc[t] = "wait" /\ LockIsFree
    /\ \/ /\ Usable
          /\ Goto(t, "checkout", current)
          /\ UNCHANGED <<current, valid, lifecycle, state, reported>>
       \/ /\ ~Usable /\ current # NoPool
          /\ lifecycle' = t
          /\ current' = NoPool /\ valid' = FALSE
          /\ Goto(t, "close_old", current)
          /\ UNCHANGED <<state, reported>>
       \/ /\ ~Usable /\ current = NoPool
          /\ lifecycle' = t
          /\ valid' = FALSE
          /\ Create(t)

(* The old pool is closed; an error of that is logged and ignored.         *)
CloseOld(t, r) ==
    /\ pc[t] = "close_old"
    /\ UNCHANGED valid
    /\ \/ r # "cancelled" /\ Create(t) /\ UNCHANGED lifecycle
       \/ /\ r = "cancelled" /\ Finish(t)
          /\ state' = SetState(got[t], "closed")
          /\ lifecycle' = NoTask
          /\ UNCHANGED <<current, reported>>

(* Wrong on purpose: the lock is not released by a cancelled task.         *)
ReleasedUnlessCancelled(r) == IF r = "cancelled" THEN lifecycle ELSE NoTask

Released(r) == IF r \in Replies THEN NoTask ELSE lifecycle

(* open() and the first SELECT 1 on a connection of the candidate.  What   *)
(* is not an Exception, a cancellation, leaves the candidate in self.pool. *)
Open(t, r) ==
    /\ pc[t] = "open"
    /\ state' = IF r = "ok" THEN SetState(got[t], "open") ELSE state
    /\ \/ /\ r = "ok" /\ Goto(t, "verify", got[t])
          /\ UNCHANGED <<current, valid, lifecycle>>
       \/ /\ r = "error" /\ Goto(t, "close_failed", got[t])
          /\ current' = NoPool /\ valid' = FALSE /\ UNCHANGED lifecycle
       \/ /\ r = "cancelled" /\ Finish(t)
          /\ lifecycle' = Released(r) /\ UNCHANGED <<current, valid>>
    /\ UNCHANGED reported

Verify(t, r) ==
    /\ pc[t] = "verify"
    /\ \/ /\ r = "ok" /\ Goto(t, "checkout", got[t])
          /\ valid' = TRUE /\ lifecycle' = Released(r) /\ UNCHANGED current
       \/ /\ r = "error" /\ Goto(t, "close_failed", got[t])
          /\ current' = NoPool /\ valid' = FALSE /\ UNCHANGED lifecycle
       \/ /\ r = "cancelled" /\ Finish(t)
          /\ lifecycle' = Released(r) /\ UNCHANGED <<current, valid>>
    /\ UNCHANGED <<state, reported>>

(* A candidate that could not be verified, and on close() the current      *)
(* pool, is closed, and the lock released.                                 *)
CloseFailed(t) ==
    /\ pc[t] \in {"close_failed", "close"}
    /\ state' = SetState(got[t], "closed")
    /\ lifecycle' = NoTask
    /\ Finish(t)
    /\ UNCHANGED <<current, valid, reported>>

-----------------------------------------------------------------------------
(* A connection of g is in use, by a query or by the verification of g.    *)
Leases(g) == Cardinality({t \in Tasks : pc[t] \in {"using", "verify"} /\ got[t] = g})

(* Wrong on purpose: the failure is recorded, but not in _is_valid.        *)
MarkInvalidLater(t) == reported' = reported \cup {got[t]} /\ UNCHANGED valid

(* Wrong on purpose: the failure is taken for one of self.pool.            *)
MarkCurrent(t) == reported' = reported \cup {current} /\ valid' = FALSE /\ got[t] # NoPool

(* mark_invalid says nothing of WHICH pool failed: the flag is that of the *)
(* current one.                                                            *)
MarkInvalid(t) == reported' = reported \cup {got[t]} /\ valid' = FALSE

(* Whether an error of a connection is reported depends on the caller.     *)
(* execute_query, execute_bounded_query and execute_transaction report     *)
(* what is an OperationalError or an InterfaceError at its root.  A user   *)
(* of connection() (data operations, migrations, replication) reports      *)
(* nothing, and maintenance only a session that it could not clean up: the *)
(* pool stays valid.                                                       *)
Fail(t) == MarkInvalid(t) \/ UNCHANGED <<valid, reported>>

(* A connection is checked out, or the wait for one times out: PoolTimeout *)
(* and PoolClosed are OperationalErrors like a lost connection.            *)
CheckOut(t, r) ==
    /\ pc[t] = "checkout"
    /\ \/ /\ r = "ok" /\ state[got[t]] = "open" /\ Leases(got[t]) < MaxSize
          /\ Goto(t, "using", got[t]) /\ UNCHANGED <<valid, reported>>
       \/ r = "error" /\ Fail(t) /\ Finish(t)
       \/ r = "cancelled" /\ Finish(t) /\ UNCHANGED <<valid, reported>>
    /\ UNCHANGED <<current, lifecycle, state>>

(* The connection is returned, after a connection failure or without one.  *)
Use(t, r) ==
    /\ pc[t] = "using"
    /\ Finish(t)
    /\ \/ r = "error" /\ Fail(t)
       \/ r # "error" /\ UNCHANGED <<valid, reported>>
    /\ UNCHANGED <<current, lifecycle, state>>

-----------------------------------------------------------------------------
(* close(), which shutdown awaits.                                         *)
RequestClose(t) ==
    /\ pc[t] = "idle"
    /\ Goto(t, "wait_to_close", NoPool)
    /\ UNCHANGED <<current, valid, lifecycle, state, reported>>

Close(t) ==
    /\ pc[t] = "wait_to_close" /\ LockIsFree
    /\ valid' = FALSE /\ current' = NoPool
    /\ IF current = NoPool
         THEN Finish(t) /\ UNCHANGED lifecycle
         ELSE Goto(t, "close", current) /\ lifecycle' = t
    /\ UNCHANGED <<state, reported>>

(* A task that waits for the lock is cancelled.                            *)
CancelWait(t) ==
    /\ pc[t] \in {"wait", "wait_to_close"}
    /\ Finish(t)
    /\ UNCHANGED <<current, valid, lifecycle, state, reported>>

Lock(t) == Connect(t) \/ Close(t)

Await(t) ==
    \/ CloseFailed(t)
    \/ \E r \in Replies :
         CloseOld(t, r) \/ Open(t, r) \/ Verify(t, r) \/ CheckOut(t, r) \/ Use(t, r)

Next == \E t \in Tasks :
    Request(t) \/ RequestClose(t) \/ Lock(t) \/ CancelWait(t) \/ Await(t)

Spec == Init /\ [][Next]_vars

(* The awaits that psycopg_pool bounds: close() waits 5 s, open() does not *)
(* wait, and the wait for a connection ends with PoolTimeout.  The SELECT  *)
(* 1 of Verify has no timeout, nor has a query of the unrestricted mode:   *)
(* nothing obliges their server to answer.                                 *)
BoundedAwait(t) ==
    CloseFailed(t) \/ \E r \in Replies : CloseOld(t, r) \/ Open(t, r) \/ CheckOut(t, r)

(* asyncio.Lock serves its waiters in order.                               *)
FairSpec == Spec /\ \A t \in Tasks : WF_vars(BoundedAwait(t)) /\ SF_vars(Lock(t))

-----------------------------------------------------------------------------
(* No report is lost: the pool that requests take without waiting was      *)
(* opened and verified, is not being closed, and no failure of it was      *)
(* reported since, although mark_invalid does not name the pool and may    *)
(* come between any two awaits of a replacement.                           *)
NoReportIsLost ==
    valid => current # NoPool /\ state[current] = "open" /\ current \notin reported

LifecyclePCs == {"close_old", "open", "verify", "close_failed", "close"}

(* No pool is lost: whatever task is cancelled, a pool that is not closed  *)
(* can still be closed, by its reference in self.pool or by the task that  *)
(* has it in hand.                                                         *)
NoPoolIsLost ==
    \A g \in Pools :
        state[g] # "closed" =>
            g = current \/ \E t \in Tasks : pc[t] \in LifecyclePCs /\ got[t] = g

(* Initialization is exclusive: the tasks that open, verify or close a     *)
(* pool work one at a time, with requests running on whichever pool.       *)
OneLifecycleAtATime ==
    \A t, u \in Tasks : pc[t] \in LifecyclePCs /\ pc[u] \in LifecyclePCs => t = u

(* Nobody waits for ever in the pool, neither for the lock nor for a       *)
(* connection: a call gets to use its connection or ends, even when those  *)
(* that use one never return it.  The one thing that can hold it up is a   *)
(* verification that is never answered: Verify has the lock, and waits     *)
(* without a timeout.                                                      *)
VerificationsEnd == \A t \in Tasks : []<>(pc[t] # "verify")

RequestsAreServed ==
    VerificationsEnd => \A t \in Tasks : pc[t] # "idle" ~> pc[t] \in {"idle", "using"}

-----------------------------------------------------------------------------
(* "It uses at most two pool connections."                                 *)
ConnectionsBounded ==
    Cardinality({t \in Tasks : pc[t] \in {"using", "verify"}}) <= MaxSize
=============================================================================
