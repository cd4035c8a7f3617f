------------------------- MODULE AtomicWriteProofs --------------------------
(***************************************************************************)
(* Theorems about AtomicWrite, for any number of calls, sessions and       *)
(* statements and for either handler.                                      *)
(***************************************************************************)
EXTENDS AtomicWrite, TLAPS

Open == {"write", "commit"}

(* A call with an open transaction has its session, an idle one has none.  *)
CallsTyped ==
    \A t \in Calls :
        /\ pc[t] \in Open => sess[t] # NoSession
        /\ pc[t] = "idle" => sess[t] = NoSession

(* A session belongs to one call, which has not lost it.                   *)
OwnersDistinct ==
    \A t, u \in Calls : sess[t] = sess[u] /\ sess[t] # NoSession => t = u
OwnedIsLive == \A t \in Calls : sess[t] \notin zombies

(* No transaction is open on a session that the pool hands out.            *)
IdleIsClean == \A s \in Sessions : Idle(s) => writes[s] = {}

(* Nothing of the call is committed, and nothing is open elsewhere.        *)
Guarded(t, w) == w.rows \in 0..MaxAffected /\ expected[t] \in {AnyNumber, w.rows}
Uncommitted(t, s) ==
    /\ \A w \in store : w.call # t
    /\ \A s2 \in Sessions \ {s} : \A w \in writes[s2] : w.call # t
    /\ \A w \in writes[s] : w.call = t /\ Guarded(t, w)
StepsOn(s) == {w.step : w \in writes[s]}

(* The transaction of a call has its first step[t] writes, all of them     *)
(* within their guards.                                                    *)
Works(t) ==
    /\ pc[t] \in Open => Uncommitted(t, sess[t]) /\ StepsOn(sess[t]) = 1..step[t]
    /\ pc[t] = "write" => step[t] < Last(t)
    /\ pc[t] = "commit" => step[t] = Last(t)
Working == \A t \in Calls : Works(t)

(* The transaction of a COMMIT that lost its client is complete, and its   *)
(* call does not go on with it.                                            *)
Left(t, s) == pc[t] \notin Open /\ Uncommitted(t, s) /\ StepsOn(s) = 1..Last(t)
LimboIsComplete == \A s \in limbo : \E t \in Calls : Left(t, s)

Inv ==
    /\ TypeOK /\ CallsTyped /\ OwnersDistinct /\ OwnedIsLive /\ IdleIsClean
    /\ CommitsOwnWorkOnly /\ Working /\ LimboIsComplete
    /\ AllOrNothingGuarded /\ SuccessIsCommitted

-----------------------------------------------------------------------------
(* A transaction has at least one statement.                               *)
LEMMA LastLemma == \A t \in Calls : Last(t) \in 1..Steps
BY ConstantsAssumption DEF Last

(* Every invariant holds of an empty store with idle calls.                *)
LEMMA InvInit == Init => Inv
BY ConstantsAssumption
   DEF Init, Inv, TypeOK, PCs, Reports, AnyNumber, CallsTyped, Open, OwnersDistinct,
       OwnedIsLive, IdleIsClean, CommitsOwnWorkOnly, Working, Works, LimboIsComplete,
       AllOrNothingGuarded, SuccessIsCommitted, WritesOf

(* What a reply does to the sessions: nothing, or the call loses its own.  *)
LEMMA DetachLemma ==
    ASSUME Inv, NEW t \in Calls, NEW r \in Answers(t), Detach(t, r)
    PROVE  /\ sess' \in [Calls -> Sessions \cup {NoSession}]
           /\ zombies' \subseteq Sessions /\ zombies \subseteq zombies'
           /\ \A u \in Calls : u # t => sess'[u] = sess[u]
           /\ ~Lost(r) => sess' = sess /\ zombies' = zombies
           /\ Lost(r) => /\ sess[t] \in Sessions /\ sess'[t] = NoSession
                         /\ zombies' = zombies \cup {sess[t]}
           /\ Done(r) => sess[t] \in Sessions
           /\ OwnersDistinct' /\ OwnedIsLive'
           /\ \A s \in Sessions : Idle(s)' => Idle(s)
<1> USE ConstantsAssumption DEF Inv, TypeOK
<1>1. Lost(r) \/ Done(r) => sess[t] \in Sessions
  BY DEF Answers, Lost, Done
<1>2. CASE Lost(r)
  <2>1. sess' = [sess EXCEPT ![t] = NoSession] /\ zombies' = zombies \cup {sess[t]}
    BY <1>2 DEF Detach
  <2>2. OwnersDistinct'
    BY <2>1 DEF OwnersDistinct
  <2>3. OwnedIsLive'
    BY <1>1, <1>2, <2>1 DEF OwnersDistinct, OwnedIsLive
  <2>4. \A s \in Sessions : Idle(s)' => Idle(s)
    BY <2>1 DEF Idle
  <2> QED
    BY <1>1, <1>2, <2>1, <2>2, <2>3, <2>4
<1>3. CASE ~Lost(r)
  <2>1. sess' = sess /\ zombies' = zombies
    BY <1>3 DEF Detach
  <2> QED
    BY <1>1, <1>3, <2>1 DEF OwnersDistinct, OwnedIsLive, Idle
<1> QED
  BY <1>2, <1>3

(* No write of a call is added, in the store or in a transaction.          *)
Keeps(t) ==
    /\ \A w \in store' : w.call = t => w \in store
    /\ \A s \in Sessions : \A w \in writes'[s] : w.call = t => w \in writes[s]
    /\ expected'[t] = expected[t] /\ mode'[t] = mode[t]

(* The transaction of a call goes on undisturbed.                          *)
LEMMA WorkKept ==
    ASSUME Inv, NEW t \in Calls, pc[t] \in Open, Keeps(t),
           pc'[t] = pc[t], sess'[t] = sess[t], step'[t] = step[t],
           writes'[sess[t]] = writes[sess[t]]
    PROVE  Works(t)'
<1>1. /\ Uncommitted(t, sess[t]) /\ StepsOn(sess[t]) = 1..step[t] /\ sess[t] \in Sessions
      /\ pc[t] = "write" => step[t] < Last(t)
      /\ pc[t] = "commit" => step[t] = Last(t)
  BY DEF Inv, Working, Works, CallsTyped, TypeOK
<1>2. Uncommitted(t, sess[t])'
  BY <1>1 DEF Uncommitted, Guarded, Keeps
<1>3. StepsOn(sess[t])' = 1..step'[t]
  BY <1>1 DEF StepsOn
<1>4. Last(t)' = Last(t)
  BY DEF Last, Keeps
<1> QED
  BY <1>1, <1>2, <1>3, <1>4 DEF Works

(* A transaction in limbo stays as it is.                                  *)
LEMMA LeftKept ==
    ASSUME Inv, NEW t \in Calls, NEW s \in Sessions, Left(t, s), Keeps(t),
           pc'[t] \notin Open, writes'[s] = writes[s]
    PROVE  Left(t, s)'
BY DEF Inv, Left, Uncommitted, StepsOn, Guarded, Keeps, Last, TypeOK

(* What is committed of a call stays committed.                            *)
LEMMA StoreKept ==
    ASSUME Inv, store' = store, UNCHANGED request
    PROVE  AllOrNothingGuarded'
BY DEF Inv, AllOrNothingGuarded, WritesOf, Last, request

(* A complete transaction is committed, of a call of which nothing was.    *)
LEMMA StoreGrows ==
    ASSUME Inv, NEW t \in Calls, NEW s \in Sessions, Uncommitted(t, s),
           StepsOn(s) = 1..Last(t), store' = store \cup writes[s], UNCHANGED request
    PROVE  /\ AllOrNothingGuarded'
           /\ WritesOf(t)' # {}
           /\ \A u \in Calls : u # t => WritesOf(u)' = WritesOf(u)
<1> USE DEF Inv, TypeOK
<1>1. \A w \in writes[s] : w.call = t /\ Guarded(t, w)
  BY DEF Uncommitted
<1>2. WritesOf(t)' = writes[s]
  BY <1>1 DEF WritesOf, Uncommitted
<1>3. \A u \in Calls : u # t => WritesOf(u)' = WritesOf(u)
  BY <1>1 DEF WritesOf
<1>4. {w.step : w \in writes[s]} = 1..Last(t)
  BY DEF StepsOn
<1>5. AllOrNothingGuarded'
  <2> SUFFICES ASSUME NEW u \in Calls
               PROVE  \/ WritesOf(u)' = {}
                      \/ /\ \A w \in WritesOf(u)' :
                              w.rows \in 0..MaxAffected /\ expected[u] \in {AnyNumber, w.rows}
                         /\ {w.step : w \in WritesOf(u)'} = 1..Last(u)
    BY DEF AllOrNothingGuarded, request, Last
  <2>1. CASE u = t
    BY <1>1, <1>2, <1>4, <2>1 DEF Guarded
  <2>2. CASE u # t
    BY <1>3, <2>2 DEF AllOrNothingGuarded
  <2> QED
    BY <2>1, <2>2
<1>6. writes[s] # {}
  BY <1>4, LastLemma, ConstantsAssumption, SMTT(20)
<1> QED
  BY <1>2, <1>3, <1>5, <1>6

-----------------------------------------------------------------------------
(* A call begins on a clean session, under a name of which nothing is left.*)
LEMMA BeginInv == ASSUME Inv, NEW t \in Calls, Begin(t) PROVE Inv'
<1> USE ConstantsAssumption DEF Inv, TypeOK
<1>1. PICK s \in Sessions, m \in Modes, e \in AnyNumber..MaxAffected :
        /\ Idle(s)
        /\ sess' = [sess EXCEPT ![t] = s]
        /\ mode' = [mode EXCEPT ![t] = m]
        /\ expected' = [expected EXCEPT ![t] = e]
  BY DEF Begin
<1>2. /\ pc[t] = "idle" /\ \A s2 \in Sessions : \A w \in writes[s2] : w.call # t
      /\ store' = {w \in store : w.call # t}
      /\ step' = [step EXCEPT ![t] = 0]
      /\ pc' = [pc EXCEPT ![t] = "write"] /\ report' = [report EXCEPT ![t] = "none"]
      /\ UNCHANGED <<writes, zombies, limbo>>
  BY DEF Begin, Leave, servers
<1>3. TypeOK'
  BY <1>1, <1>2 DEF PCs, Reports
<1>4. CallsTyped' /\ OwnersDistinct' /\ OwnedIsLive'
  BY <1>1, <1>2 DEF CallsTyped, OwnersDistinct, OwnedIsLive, Idle, Open
<1>5. IdleIsClean'
  BY <1>1, <1>2 DEF IdleIsClean, Idle, CallsTyped
<1>6. writes[s] = {}
  BY <1>1 DEF IdleIsClean
<1>7. CommitsOwnWorkOnly'
  BY <1>1, <1>2, <1>6 DEF CommitsOwnWorkOnly
<1>8. \A u \in Calls : u # t => Keeps(u)
  BY <1>1, <1>2 DEF Keeps
<1>9. Working'
  <2> SUFFICES ASSUME NEW u \in Calls, pc'[u] \in Open
               PROVE  Works(u)'
    BY DEF Working, Works, Open
  <2>1. CASE u = t
    <3>1. sess'[t] = s /\ step'[t] = 0 /\ pc'[t] = "write"
      BY <1>1, <1>2
    <3>2. Uncommitted(t, sess[t])'
      BY <1>2, <1>6, <3>1 DEF Uncommitted
    <3>3. StepsOn(sess[t])' = 1..0
      BY <1>2, <1>6, <3>1 DEF StepsOn
    <3>4. 0 < Last(t)'
      BY DEF Last
    <3> QED
      BY <2>1, <3>1, <3>2, <3>3, <3>4 DEF Works
  <2>2. CASE u # t
    <3>1. /\ pc'[u] = pc[u] /\ sess'[u] = sess[u] /\ step'[u] = step[u]
          /\ writes'[sess[u]] = writes[sess[u]]
      BY <1>1, <1>2, <2>2
    <3> QED
      BY <1>8, <2>2, <3>1, WorkKept DEF Open
  <2> QED
    BY <2>1, <2>2
<1>10. LimboIsComplete'
  <2> SUFFICES ASSUME NEW l \in limbo
               PROVE  \E u \in Calls : Left(u, l)'
    BY <1>2 DEF LimboIsComplete
  <2>1. PICK u \in Calls : Left(u, l)
    BY DEF LimboIsComplete
  <2>2. l \in Sessions /\ writes[l] # {}
    BY <2>1, LastLemma DEF Left, StepsOn
  <2>3. u # t
    BY <1>2, <2>1, <2>2 DEF Left, Uncommitted
  <2> QED
    BY <1>2, <1>8, <2>1, <2>2, <2>3, LeftKept DEF Left
<1>11. \A u \in Calls : WritesOf(u)' = IF u = t THEN {} ELSE WritesOf(u)
  BY <1>2 DEF WritesOf
<1>12. AllOrNothingGuarded'
  <2> SUFFICES ASSUME NEW u \in Calls, u # t
               PROVE  \/ WritesOf(u)' = {}
                      \/ /\ \A w \in WritesOf(u)' :
                              w.rows \in 0..MaxAffected /\ expected'[u] \in {AnyNumber, w.rows}
                         /\ {w.step : w \in WritesOf(u)'} = 1..Last(u)'
    BY <1>11 DEF AllOrNothingGuarded
  <2> QED
    BY <1>1, <1>11 DEF AllOrNothingGuarded, Last
<1>13. SuccessIsCommitted'
  BY <1>2, <1>11 DEF SuccessIsCommitted
<1> QED
  BY <1>3, <1>4, <1>5, <1>7, <1>9, <1>10, <1>12, <1>13

(* A statement adds one write to the transaction of its call.              *)
LEMMA WriteInv ==
    ASSUME Inv, NEW t \in Calls, NEW r \in Answers(t), Write(t, r) PROVE Inv'
<1> USE ConstantsAssumption DEF Inv, TypeOK
<1>1. PICK n \in Counts :
         /\ writes' = IF Done(r)
                        THEN [writes EXCEPT ![sess[t]] =
                                @ \cup {[call |-> t, step |-> step[t] + 1, rows |-> n]}]
                        ELSE writes
         /\ \/ /\ r = "ok" /\ WithinGuard(t, n)
               /\ step' = [step EXCEPT ![t] = @ + 1]
               /\ Leave(t, IF step[t] + 1 = Last(t) THEN "commit" ELSE "write", "none")
            \/ /\ \/ Leave(t, "rollback", "failed")
                  \/ Leave(t, "rollback", "conflict")
                  \/ Leave(t, "rollback", "timed_out")
               /\ UNCHANGED step
  BY DEF Write
<1> DEFINE new == [call |-> t, step |-> step[t] + 1, rows |-> n]
<1>2. /\ pc[t] = "write" /\ Detach(t, r)
      /\ UNCHANGED <<store, limbo, mode, expected>>
  BY DEF Write, request
<1>3. sess[t] \in Sessions
  BY <1>2 DEF CallsTyped, Open
<1>4. step[t] + 1 \in 1..Steps /\ step[t] < Last(t)
  BY <1>2, LastLemma DEF Working, Works
<1>5. /\ writes' \in [Sessions -> SUBSET Writes]
      /\ \A s \in Sessions : s # sess[t] => writes'[s] = writes[s]
      /\ writes'[sess[t]] = IF Done(r) THEN writes[sess[t]] \cup {new} ELSE writes[sess[t]]
  <2>1. new \in Writes
    BY <1>4 DEF Writes
  <2> HIDE DEF new
  <2> QED
    BY <1>1, <1>3, <2>1 DEF new
<1>6. /\ pc' \in [Calls -> PCs] /\ pc'[t] \in {"write", "commit", "rollback"}
      /\ report' \in [Calls -> Reports] /\ report'[t] # "committed"
      /\ step' \in [Calls -> 0..Steps]
      /\ \A u \in Calls : u # t =>
           pc'[u] = pc[u] /\ report'[u] = report[u] /\ step'[u] = step[u]
  BY <1>1, <1>4 DEF Leave, PCs, Reports
<1>7. /\ sess' \in [Calls -> Sessions \cup {NoSession}] /\ zombies' \subseteq Sessions
      /\ zombies \subseteq zombies'
      /\ OwnersDistinct' /\ OwnedIsLive' /\ \A s \in Sessions : Idle(s)' => Idle(s)
      /\ \A u \in Calls : u # t => sess'[u] = sess[u]
      /\ ~Lost(r) => sess' = sess
  BY <1>2, DetachLemma
<1>8. ~Idle(sess[t])'
  BY <1>2, <1>3 DEF Detach, Idle
<1>9. pc'[t] \in Open => r = "ok" /\ WithinGuard(t, n) /\ step'[t] = step[t] + 1
  BY <1>1 DEF Leave, Open
<1>10. TypeOK'
  BY <1>2, <1>5, <1>6, <1>7
<1>11. CallsTyped'
  BY <1>2, <1>6, <1>7, <1>9 DEF CallsTyped, Lost, Open
<1>12. IdleIsClean'
  BY <1>5, <1>7, <1>8 DEF IdleIsClean, Idle
<1>13. CommitsOwnWorkOnly'
  <2> SUFFICES ASSUME NEW u \in Calls, sess'[u] # NoSession, NEW w \in writes'[sess'[u]]
               PROVE  w.call = u
    BY DEF CommitsOwnWorkOnly
  <2>1. CASE u = t
    <3>1. sess'[t] = sess[t]
      BY <1>2, <2>1 DEF Detach
    <3> QED
      BY <1>3, <1>5, <2>1, <3>1 DEF CommitsOwnWorkOnly
  <2>2. CASE u # t
    <3>1. sess'[u] = sess[u] /\ sess[u] # sess[t]
      BY <1>7, <2>2 DEF OwnersDistinct
    <3> QED
      BY <1>5, <3>1 DEF CommitsOwnWorkOnly
  <2> QED
    BY <2>1, <2>2
<1>14. \A u \in Calls : u # t => Keeps(u)
  BY <1>2, <1>3, <1>5 DEF Keeps
<1>15. Working'
  <2> SUFFICES ASSUME NEW u \in Calls, pc'[u] \in Open
               PROVE  Works(u)'
    BY DEF Working, Works, Open
  <2>1. CASE u = t
    <3>1. /\ r = "ok" /\ WithinGuard(t, n) /\ step'[t] = step[t] + 1 /\ sess'[t] = sess[t]
          /\ writes'[sess[t]] = writes[sess[t]] \cup {new}
      BY <1>5, <1>7, <1>9, <2>1 DEF Lost, Done
    <3>2. Uncommitted(t, sess[t]) /\ StepsOn(sess[t]) = 1..step[t]
      BY <1>2 DEF Working, Works, Open
    <3>3. n \in 0..MaxAffected /\ expected[t] \in {AnyNumber, n}
      BY <3>1 DEF WithinGuard, Counts, Unreliable, AnyNumber
    <3>4. Uncommitted(t, sess[t])'
      BY <1>2, <1>3, <1>5, <3>1, <3>2, <3>3 DEF Uncommitted, Guarded
    <3>5. StepsOn(sess[t])' = 1..step[t] + 1
      <4>1. new.step = step[t] + 1
        OBVIOUS
      <4> HIDE DEF new
      <4>2. StepsOn(sess[t])' = StepsOn(sess[t]) \cup {step[t] + 1}
        BY <3>1, <4>1 DEF StepsOn
      <4> QED
        BY <3>2, <4>2
    <3>6. /\ pc'[t] = "write" => step'[t] < Last(t)
          /\ pc'[t] = "commit" => step'[t] = Last(t)
      BY <1>1, <1>4, <3>1, LastLemma DEF Leave
    <3> QED
      BY <1>2, <2>1, <3>1, <3>4, <3>5, <3>6 DEF Works, Last
  <2>2. CASE u # t
    <3>1. /\ pc'[u] = pc[u] /\ sess'[u] = sess[u] /\ step'[u] = step[u]
          /\ sess[u] \in Sessions
      BY <1>6, <1>7, <2>2 DEF CallsTyped
    <3>2. writes'[sess[u]] = writes[sess[u]]
      BY <1>3, <1>5, <2>2, <3>1 DEF OwnersDistinct
    <3> QED
      BY <1>14, <2>2, <3>1, <3>2, WorkKept
  <2> QED
    BY <2>1, <2>2
<1>16. LimboIsComplete'
  <2> SUFFICES ASSUME NEW l \in limbo
               PROVE  \E u \in Calls : Left(u, l)'
    BY <1>2 DEF LimboIsComplete
  <2>1. PICK u \in Calls : Left(u, l)
    BY DEF LimboIsComplete
  <2>2. u # t /\ l \in Sessions /\ l # sess[t]
    BY <1>2, <2>1 DEF Left, Open, OwnedIsLive
  <2> QED
    BY <1>5, <1>6, <1>14, <2>1, <2>2, LeftKept DEF Left
<1>17. AllOrNothingGuarded'
  BY <1>2, StoreKept DEF request
<1>18. SuccessIsCommitted'
  BY <1>2, <1>6 DEF SuccessIsCommitted, WritesOf
<1> QED
  BY <1>7, <1>10, <1>11, <1>12, <1>13, <1>15, <1>16, <1>17, <1>18

(* A call is done with its transaction, which is committed, rolled back or *)
(* left to a backend without a client.                                     *)
LEMMA EndInv ==
    ASSUME Inv, NEW t \in Calls, pc[t] # "idle",
           NEW l \in {"rollback", "return", "idle"}, NEW o \in Reports, Leave(t, l, o),
           \/ writes' = writes
           \/ sess[t] \in Sessions /\ writes' = [writes EXCEPT ![sess[t]] = {}],
           \/ store' = store
           \/ pc[t] = "commit" /\ store' = store \cup writes[sess[t]],
           UNCHANGED <<request, step>>,
           sess' \in [Calls -> Sessions \cup {NoSession}],
           \A u \in Calls : u # t => sess'[u] = sess[u],
           sess'[t] \in {sess[t], NoSession}, l = "idle" => sess'[t] = NoSession,
           zombies' \subseteq Sessions, limbo' \subseteq zombies',
           OwnersDistinct', OwnedIsLive',
           \A s \in Sessions : Idle(s)' => Idle(s) \/ writes'[s] = {},
           \A s \in limbo' \ limbo :
                s = sess[t] /\ pc[t] = "commit" /\ UNCHANGED <<store, writes>>
    PROVE  /\ TypeOK' /\ CallsTyped' /\ OwnersDistinct' /\ OwnedIsLive' /\ IdleIsClean'
           /\ CommitsOwnWorkOnly' /\ Working' /\ LimboIsComplete'
<1> USE ConstantsAssumption DEF Inv, TypeOK
<1>1. /\ pc' \in [Calls -> PCs] /\ pc'[t] = l /\ report' \in [Calls -> Reports]
      /\ \A u \in Calls : u # t => pc'[u] = pc[u] /\ step'[u] = step[u]
      /\ UNCHANGED <<mode, expected>>
  BY DEF Leave, PCs, request
<1>2. pc[t] \in Open => sess[t] \in Sessions
  BY DEF CallsTyped
<1>3. /\ writes' \in [Sessions -> SUBSET Writes] /\ store' \subseteq Writes
      /\ \A s \in Sessions : writes'[s] \subseteq writes[s]
      /\ \A s \in Sessions : s # sess[t] => writes'[s] = writes[s]
      /\ \A w \in store' : w \in store \/ (pc[t] = "commit" /\ w.call = t)
  BY <1>2 DEF CommitsOwnWorkOnly, Open
<1>4. TypeOK'
  BY <1>1, <1>3
<1>5. CallsTyped'
  BY <1>1 DEF CallsTyped, Open
<1>6. IdleIsClean'
  BY <1>3 DEF IdleIsClean, Idle
<1>7. CommitsOwnWorkOnly'
  <2> SUFFICES ASSUME NEW u \in Calls, sess'[u] # NoSession, NEW w \in writes'[sess'[u]]
               PROVE  w.call = u
    BY DEF CommitsOwnWorkOnly
  <2>1. sess'[u] = sess[u] /\ sess[u] \in Sessions
    OBVIOUS
  <2> QED
    BY <1>3, <2>1 DEF CommitsOwnWorkOnly
<1>8. \A u \in Calls : u # t \/ pc[t] # "commit" => Keeps(u)
  BY <1>1, <1>3 DEF Keeps
<1>9. Working'
  <2> SUFFICES ASSUME NEW u \in Calls, pc'[u] \in Open
               PROVE  Works(u)'
    BY DEF Working, Works, Open
  <2>1. u # t /\ pc'[u] = pc[u] /\ sess'[u] = sess[u] /\ step'[u] = step[u]
    BY <1>1 DEF Open
  <2>2. sess[u] \in Sessions /\ sess[u] # sess[t]
    BY <2>1 DEF CallsTyped, OwnersDistinct
  <2> QED
    BY <1>3, <1>8, <2>1, <2>2, WorkKept
<1>10. LimboIsComplete'
  <2> SUFFICES ASSUME NEW s \in limbo'
               PROVE  \E u \in Calls : Left(u, s)'
    BY DEF LimboIsComplete
  <2>1. CASE s \in limbo
    <3>1. PICK u \in Calls : Left(u, s)
      BY <2>1 DEF LimboIsComplete
    <3>2. s \in Sessions /\ s # sess[t]
      BY <2>1 DEF OwnedIsLive
    <3>3. (u # t \/ pc[t] # "commit") /\ pc'[u] \notin Open
      BY <1>1, <3>1 DEF Left, Open
    <3> QED
      BY <1>3, <1>8, <3>1, <3>2, <3>3, LeftKept
  <2>2. CASE s \notin limbo
    <3>1. s = sess[t] /\ pc[t] = "commit" /\ UNCHANGED <<store, writes>>
      BY <2>2
    <3>2. Uncommitted(t, s) /\ StepsOn(s) = 1..Last(t)
      BY <3>1 DEF Working, Works, Open
    <3>3. Left(t, s)'
      BY <1>1, <3>1, <3>2 DEF Left, Uncommitted, Guarded, StepsOn, Last, Open
    <3> QED
      BY <3>3
  <2> QED
    BY <2>1, <2>2
<1> QED
  BY <1>4, <1>5, <1>6, <1>7, <1>9, <1>10

(* A COMMIT makes a complete transaction durable, or leaves it in limbo.   *)
LEMMA CommitInv ==
    ASSUME Inv, NEW t \in Calls, NEW r \in Answers(t), Commit(t, r) PROVE Inv'
<1> USE ConstantsAssumption DEF Inv, TypeOK
<1>1. /\ pc[t] = "commit" /\ Detach(t, r) /\ UNCHANGED <<request, step>>
      /\ store' = IF Done(r) THEN store \cup writes[sess[t]] ELSE store
      /\ writes' = IF Done(r) THEN [writes EXCEPT ![sess[t]] = {}] ELSE writes
      /\ limbo' = IF r = "lost" THEN limbo \cup {sess[t]} ELSE limbo
  BY DEF Commit
<1>2. PICK l \in {"rollback", "return"}, o \in Reports :
        Leave(t, l, o) /\ (o = "committed" => r = "ok")
  BY DEF Commit, Reports
<1>3. sess[t] \in Sessions /\ Uncommitted(t, sess[t]) /\ StepsOn(sess[t]) = 1..Last(t)
  BY <1>1 DEF CallsTyped, Working, Works, Open
<1>4. /\ sess' \in [Calls -> Sessions \cup {NoSession}] /\ zombies' \subseteq Sessions
      /\ zombies \subseteq zombies' /\ OwnersDistinct' /\ OwnedIsLive'
      /\ \A s \in Sessions : Idle(s)' => Idle(s)
      /\ \A u \in Calls : u # t => sess'[u] = sess[u]
      /\ sess'[t] \in {sess[t], NoSession} /\ (r = "lost" => sess[t] \in zombies')
  BY <1>1, DetachLemma DEF Lost
<1>5. limbo' \subseteq zombies'
  BY <1>1, <1>4
<1>6. \A s \in limbo' \ limbo :
        s = sess[t] /\ pc[t] = "commit" /\ UNCHANGED <<store, writes>>
  BY <1>1 DEF Done
<1>7. /\ TypeOK' /\ CallsTyped' /\ OwnersDistinct' /\ OwnedIsLive' /\ IdleIsClean'
      /\ CommitsOwnWorkOnly' /\ Working' /\ LimboIsComplete'
  <2>1. /\ pc[t] # "idle" /\ Leave(t, l, o) /\ l # "idle"
        /\ writes' = writes \/ writes' = [writes EXCEPT ![sess[t]] = {}]
        /\ store' = store \/ store' = store \cup writes[sess[t]]
    BY <1>1, <1>2
  <2>2. l \in {"rollback", "return", "idle"} /\ o \in Reports
    OBVIOUS
  <2>3. UNCHANGED <<request, step>>
    BY <1>1
  <2>4. \/ writes' = writes
        \/ sess[t] \in Sessions /\ writes' = [writes EXCEPT ![sess[t]] = {}]
    BY <1>3, <2>1
  <2>5. \/ store' = store
        \/ pc[t] = "commit" /\ store' = store \cup writes[sess[t]]
    BY <1>1, <2>1
  <2> HIDE DEF Inv, TypeOK
  <2> QED
    BY <1>3, <1>4, <1>5, <1>6, <2>1, <2>2, <2>3, <2>4, <2>5, EndInv
<1>8. \A u \in Calls : u # t => report'[u] = report[u]
  BY <1>2 DEF Leave
<1>9. CASE Done(r)
  <2>1. /\ AllOrNothingGuarded' /\ WritesOf(t)' # {}
        /\ \A u \in Calls : u # t => WritesOf(u)' = WritesOf(u)
    BY <1>1, <1>3, <1>9, StoreGrows
  <2>2. SuccessIsCommitted'
    BY <1>8, <2>1 DEF SuccessIsCommitted
  <2> QED
    BY <1>7, <2>1, <2>2
<1>10. CASE ~Done(r)
  <2>1. AllOrNothingGuarded'
    BY <1>1, <1>10, StoreKept
  <2>2. report'[t] # "committed"
    BY <1>2, <1>10 DEF Leave, Done
  <2>3. SuccessIsCommitted'
    BY <1>1, <1>8, <1>10, <2>2 DEF SuccessIsCommitted, WritesOf
  <2> QED
    BY <1>7, <2>1, <2>3
<1> QED
  BY <1>9, <1>10

(* A rollback ends the transaction, or leaves it to the pool.              *)
LEMMA RollbackInv ==
    ASSUME Inv, NEW t \in Calls, NEW r \in Answers(t), Rollback(t, r) PROVE Inv'
<1> USE ConstantsAssumption DEF Inv, TypeOK
<1>1. /\ pc[t] = "rollback" /\ Detach(t, r) /\ UNCHANGED <<store, limbo, request, step>>
      /\ writes' = IF Done(r) THEN [writes EXCEPT ![sess[t]] = {}] ELSE writes
      /\ Leave(t, "return", Outcome(t, r))
  BY DEF Rollback
<1>2. Outcome(t, r) \in Reports \ {"committed"}
  BY DEF Outcome, Reports
<1>3. /\ sess' \in [Calls -> Sessions \cup {NoSession}] /\ zombies' \subseteq Sessions
      /\ zombies \subseteq zombies' /\ OwnersDistinct' /\ OwnedIsLive'
      /\ \A s \in Sessions : Idle(s)' => Idle(s)
      /\ \A u \in Calls : u # t => sess'[u] = sess[u]
      /\ sess'[t] \in {sess[t], NoSession} /\ (Done(r) => sess[t] \in Sessions)
  BY <1>1, DetachLemma
<1>4. /\ TypeOK' /\ CallsTyped' /\ OwnersDistinct' /\ OwnedIsLive' /\ IdleIsClean'
      /\ CommitsOwnWorkOnly' /\ Working' /\ LimboIsComplete'
  BY <1>1, <1>2, <1>3, EndInv
<1>5. AllOrNothingGuarded'
  BY <1>1, StoreKept
<1>6. SuccessIsCommitted'
  BY <1>1, <1>2 DEF SuccessIsCommitted, WritesOf, Leave
<1> QED
  BY <1>4, <1>5, <1>6

(* The pool gets a clean session back.                                     *)
LEMMA ReturnInv == ASSUME Inv, NEW t \in Calls, Return(t) PROVE Inv'
<1> USE ConstantsAssumption DEF Inv, TypeOK
<1>1. /\ pc[t] = "return" /\ UNCHANGED <<store, zombies, limbo, request, step>>
      /\ writes' = IF sess[t] = NoSession THEN writes
                   ELSE [writes EXCEPT ![sess[t]] = {}]
      /\ sess' = [sess EXCEPT ![t] = NoSession]
      /\ Leave(t, "idle", report[t])
  BY DEF Return, servers
<1>2. OwnersDistinct' /\ OwnedIsLive'
  BY <1>1 DEF OwnersDistinct, OwnedIsLive
<1>3. \A s \in Sessions : Idle(s)' => Idle(s) \/ writes'[s] = {}
  BY <1>1 DEF Idle
<1>4. /\ TypeOK' /\ CallsTyped' /\ OwnersDistinct' /\ OwnedIsLive' /\ IdleIsClean'
      /\ CommitsOwnWorkOnly' /\ Working' /\ LimboIsComplete'
  BY <1>1, <1>2, <1>3, EndInv
<1>5. AllOrNothingGuarded'
  BY <1>1, StoreKept
<1>6. SuccessIsCommitted'
  BY <1>1 DEF SuccessIsCommitted, WritesOf, Leave
<1> QED
  BY <1>4, <1>5, <1>6

(* A backend without a client ends: only the transaction of a COMMIT that  *)
(* was under way, which is complete, may take effect.                      *)
LEMMA BackendExitInv == ASSUME Inv, NEW s \in Sessions, BackendExit(s) PROVE Inv'
<1> USE ConstantsAssumption DEF Inv, TypeOK
<1>1. /\ s \in zombies
      /\ store' = store \/ (s \in limbo /\ store' = store \cup writes[s])
      /\ writes' = [writes EXCEPT ![s] = {}]
      /\ zombies' = zombies \ {s} /\ limbo' = limbo \ {s}
      /\ UNCHANGED <<pc, mode, expected, sess, step, report>>
  BY DEF BackendExit, request
<1>2. /\ TypeOK' /\ CallsTyped' /\ OwnersDistinct' /\ OwnedIsLive'
  BY <1>1 DEF CallsTyped, OwnersDistinct, OwnedIsLive
<1>3. IdleIsClean'
  BY <1>1 DEF IdleIsClean, Idle
<1>4. \A u \in Calls : sess[u] # s
  BY <1>1 DEF OwnedIsLive
<1>5. CommitsOwnWorkOnly'
  BY <1>1, <1>4 DEF CommitsOwnWorkOnly
<1>6. ASSUME NEW u \in Calls, NEW x \in Sessions \ {s}, Uncommitted(u, x)
      PROVE  Keeps(u)
  <2>1. \A w \in writes[s] : w.call # u
    BY <1>6 DEF Uncommitted
  <2> QED
    BY <1>1, <2>1 DEF Keeps
<1>7. Working'
  <2> SUFFICES ASSUME NEW u \in Calls, pc'[u] \in Open
               PROVE  Works(u)'
    BY DEF Working, Works, Open
  <2>1. pc[u] \in Open /\ sess[u] \in Sessions \ {s} /\ Uncommitted(u, sess[u])
    BY <1>1, <1>4 DEF CallsTyped, Working, Works
  <2> QED
    BY <1>1, <1>6, <2>1, WorkKept
<1>8. LimboIsComplete'
  <2> SUFFICES ASSUME NEW x \in limbo \ {s}
               PROVE  \E u \in Calls : Left(u, x)'
    BY <1>1 DEF LimboIsComplete
  <2>1. PICK u \in Calls : Left(u, x)
    BY DEF LimboIsComplete
  <2>2. x \in Sessions \ {s} /\ Uncommitted(u, x) /\ pc'[u] \notin Open
    BY <1>1, <2>1 DEF Left
  <2> QED
    BY <1>1, <1>6, <2>1, <2>2, LeftKept
<1>9. CASE store' = store
  <2>1. AllOrNothingGuarded'
    BY <1>1, <1>9, StoreKept DEF request
  <2>2. SuccessIsCommitted'
    BY <1>1, <1>9 DEF SuccessIsCommitted, WritesOf
  <2> QED
    BY <1>2, <1>3, <1>5, <1>7, <1>8, <2>1, <2>2
<1>10. CASE s \in limbo /\ store' = store \cup writes[s]
  <2>1. PICK u \in Calls : Left(u, s)
    BY <1>10 DEF LimboIsComplete
  <2>2. /\ AllOrNothingGuarded' /\ WritesOf(u)' # {}
        /\ \A v \in Calls : v # u => WritesOf(v)' = WritesOf(v)
    BY <1>1, <1>10, <2>1, StoreGrows DEF Left, request
  <2>3. SuccessIsCommitted'
    BY <1>1, <2>2 DEF SuccessIsCommitted
  <2> QED
    BY <1>2, <1>3, <1>5, <1>7, <1>8, <2>2, <2>3
<1> QED
  BY <1>1, <1>9, <1>10

(* A crash leaves every transaction to its backend.                        *)
LEMMA CrashInv == ASSUME Inv, Crash PROVE Inv'
<1> USE ConstantsAssumption DEF Inv, TypeOK
<1>1. /\ zombies' = Sessions
      /\ limbo' = limbo \cup {sess[t] : t \in {u \in Calls : pc[u] = "commit"}}
      /\ pc' = [t \in Calls |-> "idle"]
      /\ sess' = [t \in Calls |-> NoSession]
      /\ report' = [t \in Calls |-> IF pc[t] = "idle" THEN report[t] ELSE "none"]
      /\ UNCHANGED <<store, writes, mode, expected, step>>
  BY DEF Crash, db, request
<1>2. \A t \in Calls : pc[t] = "commit" => sess[t] \in Sessions
  BY DEF CallsTyped, Open
<1>3. TypeOK'
  BY <1>1, <1>2 DEF PCs, Reports
<1>4. /\ CallsTyped' /\ OwnersDistinct' /\ OwnedIsLive' /\ IdleIsClean'
      /\ CommitsOwnWorkOnly' /\ Working'
  BY <1>1 DEF CallsTyped, OwnersDistinct, OwnedIsLive, IdleIsClean, Idle,
              CommitsOwnWorkOnly, Working, Works, Open
<1>5. LimboIsComplete'
  <2> SUFFICES ASSUME NEW s \in limbo'
               PROVE  \E u \in Calls : Left(u, s)'
    BY DEF LimboIsComplete
  <2>1. PICK u \in Calls : Uncommitted(u, s) /\ StepsOn(s) = 1..Last(u)
    <3>1. CASE s \in limbo
      BY <3>1 DEF LimboIsComplete, Left
    <3>2. ASSUME NEW t \in Calls, pc[t] = "commit", s = sess[t]
          PROVE  Uncommitted(t, s) /\ StepsOn(s) = 1..Last(t)
      BY <3>2 DEF Working, Works, Open
    <3> QED
      BY <1>1, <3>1, <3>2
  <2>2. Left(u, s)'
    BY <1>1, <2>1 DEF Left, Uncommitted, Guarded, StepsOn, Last, Open
  <2> QED
    BY <2>2
<1>6. AllOrNothingGuarded'
  BY <1>1, StoreKept DEF request
<1>7. SuccessIsCommitted'
  BY <1>1 DEF SuccessIsCommitted, WritesOf
<1> QED
  BY <1>3, <1>4, <1>5, <1>6, <1>7

(* The invariant is inductive.                                             *)
LEMMA InvStep == Inv /\ [Next]_vars => Inv'
<1> SUFFICES ASSUME Inv, [Next]_vars PROVE Inv'
  OBVIOUS
<1>1. CASE UNCHANGED vars
  <2>1. UNCHANGED <<store, writes, zombies, limbo, pc, mode, expected, sess, step, report>>
    BY <1>1 DEF vars, db, servers, request
  <2>2. TypeOK' /\ CallsTyped' /\ OwnersDistinct' /\ OwnedIsLive' /\ IdleIsClean'
    BY <2>1 DEF Inv, TypeOK, CallsTyped, OwnersDistinct, OwnedIsLive, IdleIsClean, Idle
  <2>3. CommitsOwnWorkOnly' /\ Working' /\ LimboIsComplete'
    BY <2>1 DEF Inv, CommitsOwnWorkOnly, Working, Works, LimboIsComplete, Left,
                Uncommitted, Guarded, StepsOn, Last
  <2>4. AllOrNothingGuarded' /\ SuccessIsCommitted'
    BY <2>1 DEF Inv, AllOrNothingGuarded, SuccessIsCommitted, WritesOf, Last
  <2> QED
    BY <2>2, <2>3, <2>4 DEF Inv
<1>2. ASSUME NEW t \in Calls, Step(t)
      PROVE  Inv'
  BY <1>2, WriteInv, CommitInv, RollbackInv, ReturnInv DEF Step
<1> QED
  BY <1>1, <1>2, BeginInv, BackendExitInv, CrashInv DEF Next

(* Every reachable state satisfies the invariant.                          *)
LEMMA Inductive == Spec => []Inv
BY InvInit, InvStep, PTL DEF Spec

-----------------------------------------------------------------------------
(* Sessions, transactions and calls stay well typed: no handler runs past  *)
(* its last statement, and only sessions without a client are in limbo.    *)
THEOREM TypeCorrect == Spec => []TypeOK
BY Inductive, PTL DEF Inv

(* Of each call nothing is committed, or all of its statements with counts *)
(* within their guards, whatever fails, whatever backend commits without a *)
(* client, and whoever used the session before.                            *)
THEOREM GuardedWritesAreAtomic == Spec => []AllOrNothingGuarded
BY Inductive, PTL DEF Inv

(* No transaction is inherited with a pooled session.                      *)
THEOREM SessionsAreClean == Spec => []CommitsOwnWorkOnly
BY Inductive, PTL DEF Inv

(* A success that a client is told of is in the database and stays there.  *)
THEOREM SuccessesAreCommitted == Spec => []SuccessIsCommitted
BY Inductive, PTL DEF Inv
=============================================================================
