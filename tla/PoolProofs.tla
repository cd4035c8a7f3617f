----------------------------- MODULE PoolProofs -----------------------------
(***************************************************************************)
(* Theorems about Pool, for any number of tasks and pools.  They say what  *)
(* the lifecycle lock and the validity flag are worth when every await may *)
(* be cancelled.                                                           *)
(***************************************************************************)
EXTENDS Pool, TLAPS

(* Who opens, verifies or closes a pool has the lock, and until it is done *)
(* nobody takes a pool without waiting.                                    *)
HoldsLock == \A t \in Tasks : pc[t] \in LifecyclePCs => lifecycle = t /\ ~valid

(* The tasks that have a pool in hand.                                     *)
Hands ==
    \A t \in Tasks :
        got[t] = NoPool <=> pc[t] \in {"idle", "wait", "wait_to_close"}

(* The pool in the hand of the task that holds the lock: a candidate is    *)
(* referenced by self.pool, and no other task has it or reported it; a     *)
(* pool that is being closed is not referenced any more.                   *)
Candidate ==
    \A t \in Tasks :
        /\ pc[t] \in {"open", "verify"} =>
             /\ current = got[t] /\ got[t] \notin reported
             /\ \A u \in Tasks \ {t} : got[u] # got[t]
        /\ pc[t] = "verify" => state[got[t]] = "open"
        /\ pc[t] \in {"close_old", "close_failed", "close"} => current = NoPool

Inv == TypeOK /\ HoldsLock /\ Hands /\ Candidate /\ NoReportIsLost /\ NoPoolIsLost

(* There is no pool initially.                                             *)
LEMMA InvInit == Init => Inv
BY ConstantsAssumption
   DEF Init, Inv, TypeOK, PCs, HoldsLock, LifecyclePCs, Hands, Candidate,
       NoReportIsLost, NoPoolIsLost

-----------------------------------------------------------------------------
(* A step that leaves self.pool alone and takes a task from one place      *)
(* without the lock to another one.                                        *)
LEMMA QuietInv ==
    ASSUME Inv, NEW t \in Tasks, NEW l \in PCs \ LifecyclePCs, NEW g, Goto(t, l, g),
           pc[t] \notin LifecyclePCs,
           \/ l \in {"idle", "wait", "wait_to_close"} /\ g = NoPool
           \/ l = "checkout" /\ g = current /\ Usable
           \/ l = "using" /\ g = got[t] /\ pc[t] = "checkout",
           UNCHANGED <<current, lifecycle, state>>,
           UNCHANGED <<valid, reported>> \/ (got[t] # NoPool /\ MarkInvalid(t))
    PROVE  Inv'
<1> USE ConstantsAssumption DEF Inv, TypeOK
<1>1. /\ pc' \in [Tasks -> PCs] /\ pc'[t] = l
      /\ \A u \in Tasks : u # t => pc'[u] = pc[u]
      /\ g \in Pools \cup {NoPool}
      /\ got' \in [Tasks -> Pools \cup {NoPool}] /\ got'[t] = g
      /\ \A u \in Tasks : u # t => got'[u] = got[u]
  BY DEF Goto, Usable
<1>2. /\ valid' \in BOOLEAN /\ reported' \subseteq Pools /\ (valid' => valid)
      /\ \A h \in Pools : h \in reported' => h \in reported \/ (h = got[t] /\ ~valid')
  <2>1. CASE valid' = valid /\ reported' = reported
    BY <2>1
  <2>2. CASE got[t] # NoPool /\ MarkInvalid(t)
    BY <2>2 DEF MarkInvalid
  <2> QED
    BY <2>1, <2>2
<1>3. TypeOK'
  BY <1>1, <1>2
<1>4. HoldsLock'
  BY <1>1, <1>2 DEF HoldsLock
<1>5. Hands'
  BY <1>1 DEF Hands, Usable
<1>6. Candidate'
  <2> SUFFICES ASSUME NEW u \in Tasks
               PROVE  /\ pc'[u] \in {"open", "verify"} =>
                           /\ current = got'[u] /\ got'[u] \notin reported'
                           /\ \A v \in Tasks \ {u} : got'[v] # got'[u]
                      /\ pc'[u] = "verify" => state[got'[u]] = "open"
                      /\ pc'[u] \in {"close_old", "close_failed", "close"} => current = NoPool
    BY DEF Candidate
  <2>1. CASE u = t
    BY <1>1, <2>1 DEF LifecyclePCs
  <2>2. CASE u # t
    <3>1. pc'[u] = pc[u] /\ got'[u] = got[u]
      BY <1>1, <2>2
    <3>2. pc[u] \in LifecyclePCs => ~Usable
      BY DEF HoldsLock, Usable
    <3>3. ASSUME pc[u] \in {"open", "verify"}
          PROVE  /\ got[u] \notin reported' /\ current = got[u] /\ got[u] # NoPool
                 /\ \A v \in Tasks \ {u} : got'[v] # got[u]
      <4>1. /\ current = got[u] /\ got[u] \notin reported
            /\ \A v \in Tasks \ {u} : got[v] # got[u]
        BY <3>3 DEF Candidate
      <4>2. got[u] # NoPool /\ pc[u] \in LifecyclePCs
        BY <3>3 DEF Hands, LifecyclePCs
      <4>3. g # got[u]
        BY <2>2, <3>2, <4>1, <4>2
      <4> QED
        BY <1>1, <1>2, <2>2, <4>1, <4>2, <4>3
    <3> QED
      BY <3>1, <3>3 DEF Candidate
  <2> QED
    BY <2>1, <2>2
<1>7. NoReportIsLost'
  BY <1>2 DEF NoReportIsLost
<1>8. NoPoolIsLost'
  BY <1>1 DEF NoPoolIsLost
<1> QED
  BY <1>3, <1>4, <1>5, <1>6, <1>7, <1>8

(* The lock is granted to a task, or kept by it, and it goes on with a     *)
(* pool that it takes out of self.pool, to close it.                       *)
LEMMA RetireInv ==
    ASSUME Inv, NEW t \in Tasks, NEW l \in {"close_old", "close_failed", "close"},
           \/ lifecycle = NoTask /\ pc[t] \in {"wait", "wait_to_close"}
           \/ pc[t] \in {"open", "verify"},
           current # NoPool, Goto(t, l, current),
           lifecycle' = t, current' = NoPool, valid' = FALSE, UNCHANGED reported,
           state' = state
    PROVE  Inv'
<1> USE ConstantsAssumption DEF Inv, TypeOK
<1>1. /\ pc' \in [Tasks -> PCs] /\ pc'[t] = l
      /\ \A u \in Tasks : u # t => pc'[u] = pc[u]
      /\ got' \in [Tasks -> Pools \cup {NoPool}] /\ got'[t] = current
      /\ \A u \in Tasks : u # t => got'[u] = got[u]
  BY DEF Goto, PCs
<1>2. \A u \in Tasks : u # t => pc[u] \notin LifecyclePCs
  BY DEF HoldsLock, LifecyclePCs
<1>3. TypeOK'
  BY <1>1
<1>4. HoldsLock'
  BY <1>1, <1>2 DEF HoldsLock
<1>5. Hands'
  BY <1>1 DEF Hands
<1>6. Candidate'
  BY <1>1, <1>2 DEF Candidate, LifecyclePCs
<1>7. NoPoolIsLost'
  <2> SUFFICES ASSUME NEW h \in Pools, state[h] # "closed"
               PROVE  \E u \in Tasks : pc'[u] \in LifecyclePCs /\ got'[u] = h
    BY DEF NoPoolIsLost
  <2>1. h = current
    BY <1>2 DEF NoPoolIsLost, Candidate, LifecyclePCs, Hands
  <2> QED
    BY <1>1, <2>1 DEF LifecyclePCs
<1> QED
  BY <1>3, <1>4, <1>5, <1>6, <1>7 DEF NoReportIsLost

(* The lock is released, and nothing but a candidate in self.pool remains  *)
(* of the task's work.                                                     *)
LEMMA ReleaseInv ==
    ASSUME Inv, NEW t \in Tasks, pc[t] \in LifecyclePCs, Finish(t),
           lifecycle' = NoTask, UNCHANGED <<current, valid, reported>>,
           \/ state' = SetState(got[t], "closed") /\ current = NoPool
           \/ state' = state /\ current = got[t]
    PROVE  Inv'
<1> USE ConstantsAssumption DEF Inv, TypeOK
<1>1. /\ pc' \in [Tasks -> PCs] /\ pc'[t] = "idle"
      /\ \A u \in Tasks : u # t => pc'[u] = pc[u]
      /\ got' \in [Tasks -> Pools \cup {NoPool}] /\ got'[t] = NoPool
      /\ \A u \in Tasks : u # t => got'[u] = got[u]
  BY DEF Finish, Goto, PCs
<1>2. ~valid /\ \A u \in Tasks : pc'[u] \notin LifecyclePCs
  BY <1>1 DEF HoldsLock, LifecyclePCs
<1>3. state' \in [Pools -> {"new", "open", "closed"}]
  BY DEF SetState
<1>4. TypeOK'
  BY <1>1, <1>3
<1>5. HoldsLock' /\ Candidate' /\ NoReportIsLost'
  BY <1>2 DEF HoldsLock, Candidate, NoReportIsLost, LifecyclePCs
<1>6. Hands'
  BY <1>1 DEF Hands
<1>7. NoPoolIsLost'
  <2> SUFFICES ASSUME NEW h \in Pools, state'[h] # "closed"
               PROVE  h = current
    BY DEF NoPoolIsLost
  <2>1. state[h] # "closed"
    BY DEF SetState
  <2>2. h = current \/ h = got[t]
    BY <2>1 DEF NoPoolIsLost, HoldsLock
  <2>3. got[t] \in Pools
    BY DEF Hands, LifecyclePCs
  <2> QED
    BY <2>2, <2>3 DEF SetState
<1> QED
  BY <1>4, <1>5, <1>6, <1>7

(* A fresh pool becomes self.pool: no task has ever had it in hand.        *)
LEMMA CreateInv ==
    ASSUME Inv, NEW t \in Tasks, Create(t),
           \/ lifecycle = NoTask /\ pc[t] = "wait"
           \/ pc[t] = "close_old",
           current = NoPool, lifecycle' = t, valid' = FALSE
    PROVE  Inv'
<1> USE ConstantsAssumption DEF Inv, TypeOK
<1>1. PICK g \in NewPool :
        /\ current' = g
        /\ state' = [h \in Pools |-> IF h = g THEN "new"
                                     ELSE IF h = got[t] THEN "closed" ELSE state[h]]
        /\ reported' = reported \ {g}
        /\ Goto(t, "open", g)
  BY DEF Create
<1>2. g \in Pools /\ state[g] = "closed" /\ \A u \in Tasks : got[u] # g
  BY DEF NewPool, Fresh
<1>3. /\ pc' \in [Tasks -> PCs] /\ pc'[t] = "open"
      /\ \A u \in Tasks : u # t => pc'[u] = pc[u]
      /\ got' \in [Tasks -> Pools \cup {NoPool}] /\ got'[t] = g
      /\ \A u \in Tasks : u # t => got'[u] = got[u]
  BY <1>1, <1>2 DEF Goto, PCs
<1>4. \A u \in Tasks : u # t => pc[u] \notin LifecyclePCs
  BY DEF HoldsLock, LifecyclePCs
<1>5. TypeOK'
  BY <1>1, <1>2, <1>3
<1>6. HoldsLock' /\ NoReportIsLost'
  BY <1>3, <1>4 DEF HoldsLock, NoReportIsLost
<1>7. Hands'
  BY <1>2, <1>3 DEF Hands
<1>8. Candidate'
  BY <1>1, <1>2, <1>3, <1>4 DEF Candidate, LifecyclePCs
<1>9. NoPoolIsLost'
  <2> SUFFICES ASSUME NEW h \in Pools, state'[h] # "closed"
               PROVE  h = g
    BY <1>1 DEF NoPoolIsLost
  <2>1. h = g \/ (state[h] # "closed" /\ h # got[t])
    BY <1>1
  <2> QED
    BY <1>4, <2>1 DEF NoPoolIsLost
<1> QED
  BY <1>5, <1>6, <1>7, <1>8, <1>9

(* The candidate has opened.                                               *)
LEMMA OpenedInv ==
    ASSUME Inv, NEW t \in Tasks, pc[t] = "open", Goto(t, "verify", got[t]),
           state' = SetState(got[t], "open"),
           UNCHANGED <<current, valid, lifecycle, reported>>
    PROVE  Inv'
<1> USE ConstantsAssumption DEF Inv, TypeOK
<1>1. /\ pc' \in [Tasks -> PCs] /\ pc'[t] = "verify"
      /\ \A u \in Tasks : u # t => pc'[u] = pc[u]
      /\ got' = got /\ got[t] \in Pools /\ current = got[t]
      /\ state' \in [Pools -> {"new", "open", "closed"}] /\ state'[got[t]] = "open"
      /\ \A h \in Pools : h # got[t] => state'[h] = state[h]
  BY DEF Goto, PCs, SetState, Hands, Candidate
<1>2. TypeOK'
  BY <1>1
<1>3. HoldsLock' /\ Hands'
  BY <1>1 DEF HoldsLock, Hands, LifecyclePCs
<1>4. Candidate'
  <2>1. \A u \in Tasks : u # t => pc[u] \notin LifecyclePCs
    BY DEF HoldsLock, LifecyclePCs
  <2> QED
    BY <1>1, <2>1 DEF Candidate, LifecyclePCs
<1>5. NoReportIsLost'
  BY DEF NoReportIsLost, HoldsLock, LifecyclePCs
<1>6. NoPoolIsLost'
  BY <1>1 DEF NoPoolIsLost, LifecyclePCs
<1> QED
  BY <1>2, <1>3, <1>4, <1>5, <1>6

(* The candidate is verified: from now on requests take it without waiting.*)
LEMMA VerifiedInv ==
    ASSUME Inv, NEW t \in Tasks, pc[t] = "verify", Goto(t, "checkout", got[t]),
           valid' = TRUE, lifecycle' = NoTask, UNCHANGED <<current, state, reported>>
    PROVE  Inv'
<1> USE ConstantsAssumption DEF Inv, TypeOK
<1>1. /\ pc' \in [Tasks -> PCs] /\ pc'[t] = "checkout"
      /\ \A u \in Tasks : u # t => pc'[u] = pc[u]
      /\ got' = got /\ got[t] \in Pools /\ current = got[t]
  BY DEF Goto, PCs, Hands, Candidate
<1>2. \A u \in Tasks : pc'[u] \notin LifecyclePCs
  BY <1>1 DEF HoldsLock, LifecyclePCs
<1>3. TypeOK'
  BY <1>1
<1>4. HoldsLock' /\ Candidate'
  BY <1>2 DEF HoldsLock, Candidate, LifecyclePCs
<1>5. Hands'
  BY <1>1 DEF Hands
<1>6. NoReportIsLost'
  BY <1>1 DEF NoReportIsLost, Candidate
<1>7. NoPoolIsLost'
  <2>1. \A u \in Tasks : u # t => pc[u] \notin LifecyclePCs
    BY DEF HoldsLock, LifecyclePCs
  <2> QED
    BY <1>1, <2>1 DEF NoPoolIsLost
<1> QED
  BY <1>3, <1>4, <1>5, <1>6, <1>7

-----------------------------------------------------------------------------
(* Requests, and what becomes of them.                                     *)
LEMMA RequestStep ==
    ASSUME Inv, NEW t \in Tasks,
           \/ Request(t) \/ RequestClose(t) \/ CancelWait(t)
           \/ \E r \in Replies : CheckOut(t, r) \/ Use(t, r)
    PROVE  Inv'
<1>1. /\ "idle" \in PCs \ LifecyclePCs /\ "wait" \in PCs \ LifecyclePCs
      /\ "wait_to_close" \in PCs \ LifecyclePCs
      /\ "checkout" \in PCs \ LifecyclePCs /\ "using" \in PCs \ LifecyclePCs
  BY DEF PCs, LifecyclePCs
<1>2. CASE Request(t)
  <2>1. CASE Usable
    <3>1. Goto(t, "checkout", current)
      BY <1>2, <2>1 DEF Request
    <3> QED
      BY <1>1, <1>2, <2>1, <3>1, QuietInv DEF Request, LifecyclePCs
  <2>2. CASE ~Usable
    <3>1. Goto(t, "wait", NoPool)
      BY <1>2, <2>2 DEF Request
    <3> QED
      BY <1>1, <1>2, <3>1, QuietInv DEF Request, LifecyclePCs
  <2> QED
    BY <2>1, <2>2
<1>3. CASE RequestClose(t)
  BY <1>1, <1>3, QuietInv DEF RequestClose, LifecyclePCs
<1>4. CASE CancelWait(t)
  BY <1>1, <1>4, QuietInv DEF CancelWait, Finish, LifecyclePCs
<1>5. ASSUME NEW r \in Replies, CheckOut(t, r)
      PROVE  Inv'
  <2>1. pc[t] = "checkout" /\ got[t] # NoPool /\ pc[t] \notin LifecyclePCs
    BY <1>5 DEF CheckOut, Inv, Hands, LifecyclePCs
  <2>2. CASE Goto(t, "using", got[t]) /\ UNCHANGED <<valid, reported>>
    BY <1>1, <1>5, <2>1, <2>2, QuietInv DEF CheckOut
  <2>3. CASE Finish(t) /\ Fail(t)
    BY <1>1, <1>5, <2>1, <2>3, QuietInv DEF CheckOut, Finish, Fail
  <2> QED
    BY <1>5, <2>2, <2>3 DEF CheckOut, Fail
<1>6. ASSUME NEW r \in Replies, Use(t, r)
      PROVE  Inv'
  <2>1. pc[t] = "using" /\ got[t] # NoPool /\ pc[t] \notin LifecyclePCs
    BY <1>6 DEF Use, Inv, Hands, LifecyclePCs
  <2> QED
    BY <1>1, <1>6, <2>1, QuietInv DEF Use, Finish, Fail
<1> QED
  BY <1>2, <1>3, <1>4, <1>5, <1>6

(* The lock is granted.                                                    *)
LEMMA LockStep == ASSUME Inv, NEW t \in Tasks, Lock(t) PROVE Inv'
<1>1. CASE Connect(t)
  <2>1. pc[t] = "wait" /\ lifecycle = NoTask
    BY <1>1 DEF Connect, LockIsFree
  <2>2. CASE /\ Usable /\ Goto(t, "checkout", current)
             /\ UNCHANGED <<current, valid, lifecycle, state, reported>>
    BY <2>1, <2>2, QuietInv DEF PCs, LifecyclePCs
  <2>3. CASE /\ ~Usable /\ current # NoPool
             /\ lifecycle' = t
             /\ current' = NoPool /\ valid' = FALSE
             /\ Goto(t, "close_old", current)
             /\ UNCHANGED <<state, reported>>
    BY <2>1, <2>3, RetireInv
  <2>4. CASE /\ ~Usable /\ current = NoPool
             /\ lifecycle' = t
             /\ valid' = FALSE
             /\ Create(t)
    BY <2>1, <2>4, CreateInv
  <2> QED
    BY <1>1, <2>2, <2>3, <2>4 DEF Connect
<1>2. CASE Close(t)
  <2>1. pc[t] = "wait_to_close" /\ lifecycle = NoTask /\ valid' = FALSE /\ current' = NoPool
    BY <1>2 DEF Close, LockIsFree
  <2>2. CASE current = NoPool
    <3>1. Finish(t) /\ UNCHANGED <<current, lifecycle, state, valid, reported>>
      BY <1>2, <2>1, <2>2 DEF Close, Inv, NoReportIsLost, TypeOK
    <3> QED
      BY <2>1, <3>1, QuietInv DEF Finish, PCs, LifecyclePCs
  <2>3. CASE current # NoPool
    BY <1>2, <2>1, <2>3, RetireInv DEF Close
  <2> QED
    BY <2>2, <2>3
<1> QED
  BY <1>1, <1>2 DEF Lock

(* The task that has the lock goes on, or is cancelled.                    *)
LEMMA LifecycleStep ==
    ASSUME Inv, NEW t \in Tasks,
           \/ CloseFailed(t)
           \/ \E r \in Replies : CloseOld(t, r) \/ Open(t, r) \/ Verify(t, r)
    PROVE  Inv'
<1> USE DEF LifecyclePCs
<1>1. CASE CloseFailed(t)
  BY <1>1, ReleaseInv DEF CloseFailed, Inv, Candidate
<1>2. ASSUME NEW r \in Replies, CloseOld(t, r)
      PROVE  Inv'
  <2>1. pc[t] = "close_old" /\ current = NoPool /\ lifecycle = t /\ ~valid
    BY <1>2 DEF CloseOld, Inv, Candidate, HoldsLock
  <2>2. CASE r # "cancelled" /\ Create(t) /\ UNCHANGED lifecycle
    BY <1>2, <2>1, <2>2, CreateInv DEF CloseOld, Inv, TypeOK
  <2>3. CASE /\ Finish(t)
             /\ state' = SetState(got[t], "closed")
             /\ lifecycle' = NoTask
             /\ UNCHANGED <<current, reported>>
    BY <1>2, <2>1, <2>3, ReleaseInv DEF CloseOld
  <2> QED
    BY <1>2, <2>2, <2>3 DEF CloseOld
<1>3. ASSUME NEW r \in Replies, Open(t, r)
      PROVE  Inv'
  <2>1. /\ pc[t] = "open" /\ current = got[t] /\ got[t] # NoPool /\ lifecycle = t
        /\ Released(r) = NoTask
    BY <1>3 DEF Open, Inv, Candidate, Hands, HoldsLock, Released
  <2>2. CASE r = "ok"
    BY <1>3, <2>1, <2>2, OpenedInv DEF Open
  <2>3. CASE r = "error"
    <3>1. /\ Goto(t, "close_failed", current) /\ current' = NoPool /\ valid' = FALSE
          /\ lifecycle' = t /\ state' = state /\ reported' = reported
      BY <1>3, <2>1, <2>3 DEF Open
    <3> QED
      BY <2>1, <3>1, RetireInv
  <2>4. CASE r = "cancelled"
    BY <1>3, <2>1, <2>4, ReleaseInv DEF Open
  <2> QED
    BY <1>3, <2>2, <2>3, <2>4 DEF Replies
<1>4. ASSUME NEW r \in Replies, Verify(t, r)
      PROVE  Inv'
  <2>1. /\ pc[t] = "verify" /\ current = got[t] /\ got[t] # NoPool /\ lifecycle = t
        /\ Released(r) = NoTask
    BY <1>4 DEF Verify, Inv, Candidate, Hands, HoldsLock, Released
  <2>2. CASE r = "ok"
    BY <1>4, <2>1, <2>2, VerifiedInv DEF Verify
  <2>3. CASE r = "error"
    <3>1. /\ Goto(t, "close_failed", current) /\ current' = NoPool /\ valid' = FALSE
          /\ lifecycle' = t /\ state' = state /\ reported' = reported
      BY <1>4, <2>1, <2>3 DEF Verify
    <3> QED
      BY <2>1, <3>1, RetireInv
  <2>4. CASE r = "cancelled"
    BY <1>4, <2>1, <2>4, ReleaseInv DEF Verify
  <2> QED
    BY <1>4, <2>2, <2>3, <2>4 DEF Replies
<1> QED
  BY <1>1, <1>2, <1>3, <1>4

(* The invariant is inductive.                                             *)
LEMMA InvStep == Inv /\ [Next]_vars => Inv'
<1> SUFFICES ASSUME Inv, [Next]_vars PROVE Inv'
  OBVIOUS
<1>1. CASE UNCHANGED vars
  BY <1>1 DEF vars, Inv, TypeOK, HoldsLock, Hands, Candidate, NoReportIsLost, NoPoolIsLost
<1>2. ASSUME NEW t \in Tasks, Await(t)
      PROVE  Inv'
  BY <1>2, RequestStep, LifecycleStep DEF Await
<1> QED
  BY <1>1, <1>2, RequestStep, LockStep DEF Next

(* Every reachable state satisfies the invariant.                          *)
LEMMA Inductive == Spec => []Inv
BY InvInit, InvStep, PTL DEF Spec

-----------------------------------------------------------------------------
(* The pool's state stays well typed, whatever task is cancelled and when. *)
THEOREM TypeCorrect == Spec => []TypeOK
BY Inductive, PTL DEF Inv

(* The tasks that open, verify or close a pool work one at a time: every   *)
(* way out of them, the cancelled ones too, releases the lifecycle lock,   *)
(* and only then.                                                          *)
THEOREM LifecycleIsExclusive == Spec => []OneLifecycleAtATime
<1>1. Inv => OneLifecycleAtATime
  BY DEF Inv, HoldsLock, OneLifecycleAtATime
<1> QED
  BY <1>1, Inductive, PTL

(* The pool that requests take without waiting was opened and verified,    *)
(* and no failure of it was reported since: mark_invalid does not say      *)
(* which pool failed, yet no report about the current one is lost to a     *)
(* verification that ends after it.  The failures that users of            *)
(* connection() keep to themselves are no reports.                         *)
THEOREM ReportsAreKept == Spec => []NoReportIsLost
BY Inductive, PTL DEF Inv

(* A pool that is not closed can be closed: a cancellation between two     *)
(* awaits of its replacement leaves it in self.pool.                       *)
THEOREM PoolsAreKept == Spec => []NoPoolIsLost
BY Inductive, PTL DEF Inv

-----------------------------------------------------------------------------
(* The safety half of RequestsAreServed: how far a task is among its awaits, and *)
(* who holds the lifecycle lock that others wait for.                      *)
Stage(l) ==
    CASE l = "idle" -> 0
      [] l \in {"wait", "wait_to_close"} -> 1
      [] l = "close_old" -> 2
      [] l = "open" -> 3
      [] l = "verify" -> 4
      [] l = "checkout" -> 5
      [] l \in {"using", "close_failed", "close"} -> 6

Moves(t) == Lock(t) \/ CancelWait(t) \/ Await(t)

TasksAdvance ==
    [][\A t \in Tasks :
          /\ pc'[t] = "idle" \/ Stage(pc[t]) <= Stage(pc'[t])
          /\ Moves(t) => pc'[t] = "idle" \/ Stage(pc[t]) < Stage(pc'[t])]_vars

HolderIsAtWork == lifecycle # NoTask => pc[lifecycle] \in LifecyclePCs

(* A task never comes back to an await: whatever the reply is, it goes on  *)
(* to a later one or ends, after seven awaits at most.                     *)
THEOREM NoAwaitTwice == Spec => TasksAdvance
<1> DEFINE Advance(t) ==
             /\ pc'[t] = "idle" \/ Stage(pc[t]) <= Stage(pc'[t])
             /\ Moves(t) => pc'[t] = "idle" \/ Stage(pc[t]) < Stage(pc'[t])
<1>1. ASSUME Inv, NEW t \in Tasks, Moves(t)
      PROVE  pc'[t] = "idle" \/ Stage(pc[t]) < Stage(pc'[t])
  BY <1>1 DEF Moves, Lock, Connect, Close, Create, CancelWait, Await, CloseFailed, CloseOld, Open,
              Verify, CheckOut, Use, Finish, Goto, Stage, Inv, TypeOK
<1>2. ASSUME Inv, [Next]_vars, NEW t \in Tasks, ~ Moves(t)
      PROVE  pc'[t] = pc[t] \/ pc[t] = "idle"
  <2>1. CASE UNCHANGED vars
    BY <2>1 DEF vars
  <2>2. CASE \E u \in Tasks : Request(u) \/ RequestClose(u) \/ Moves(u)
    <3>1. PICK u \in Tasks : Request(u) \/ RequestClose(u) \/ Moves(u)
      BY <2>2
    <3>2. \A v \in Tasks : v # u => pc'[v] = pc[v]
      BY <1>2, <3>1
         DEF Request, RequestClose, Moves, Lock, Connect, Close, Create, CancelWait, Await,
             CloseFailed, CloseOld, Open, Verify, CheckOut, Use, Finish, Goto, Inv, TypeOK
    <3> QED
      BY <1>2, <3>1, <3>2 DEF Request, RequestClose
  <2> QED
    BY <1>2, <2>1, <2>2 DEF Next, Moves
<1>3. Stage("idle") = 0 /\ \A l \in PCs : Stage(l) \in Nat
  BY DEF Stage, PCs
<1>4. Inv /\ Inv' /\ [Next]_vars => [\A t \in Tasks : Advance(t)]_vars
  <2> SUFFICES ASSUME Inv, Inv', [Next]_vars, NEW t \in Tasks
               PROVE  Advance(t)
    OBVIOUS
  <2>1. Stage(pc[t]) \in Nat /\ Stage(pc'[t]) \in Nat
    BY <1>3 DEF Inv, TypeOK
  <2> QED
    BY <1>1, <1>2, <1>3, <2>1
<1> QED
  BY Inductive, <1>4, PTL DEF Spec, TasksAdvance

(* Nobody waits for a lifecycle lock that nobody gives back: its holder is *)
(* a task at work on a pool, and every way out of that work releases it.   *)
THEOREM LockIsGivenBack == Spec => []HolderIsAtWork
<1>1. Init => HolderIsAtWork
  BY DEF Init, HolderIsAtWork
<1>2. Inv /\ HolderIsAtWork /\ [Next]_vars => HolderIsAtWork'
  <2> SUFFICES ASSUME Inv, HolderIsAtWork, [Next]_vars, lifecycle' # NoTask
               PROVE  pc'[lifecycle'] \in LifecyclePCs
    BY DEF HolderIsAtWork
  <2> USE ConstantsAssumption DEF Inv, TypeOK, Finish, Goto, LifecyclePCs
  <2>1. CASE UNCHANGED vars
    BY <2>1 DEF vars, HolderIsAtWork
  <2>2. ASSUME NEW t \in Tasks, Request(t) \/ RequestClose(t) \/ CancelWait(t)
        PROVE  pc'[lifecycle'] \in LifecyclePCs
    BY <2>2 DEF Request, RequestClose, CancelWait, HolderIsAtWork
  <2>3. ASSUME NEW t \in Tasks, Lock(t)
        PROVE  pc'[lifecycle'] \in LifecyclePCs
    BY <2>3 DEF Lock, Connect, Close, Create, HolderIsAtWork, LockIsFree
  <2>4. ASSUME NEW t \in Tasks, Await(t)
        PROVE  pc'[lifecycle'] \in LifecyclePCs
    BY <2>4 DEF Await, CloseFailed, CloseOld, Create, Open, Verify, CheckOut, Use, Released,
                Replies, HolderIsAtWork, HoldsLock
  <2> QED
    BY <2>1, <2>2, <2>3, <2>4 DEF Next
<1> QED
  BY Inductive, <1>1, <1>2, PTL DEF Spec
=============================================================================
