------------------------- MODULE MaintenanceProofs -------------------------
(***************************************************************************)
(* Theorems about Maintenance, for any number of calls, sessions, plans,   *)
(* names and targets.                                                      *)
(***************************************************************************)
EXTENDS Maintenance, TLAPS

(* The calls that pass a statement to the ledger or to the target after    *)
(* the lock was granted, and those that still have their session.          *)
LockedPCs == {"read", "inspect", "record", "execute", "executing", "finish",
              "fail", "fail_completed", "cancelled", "unlock", "resolve"}
AttachedPCs == {"lock", "read", "inspect", "record", "execute", "executing",
                "finish", "cancelled", "read_stored", "resolve"}

-----------------------------------------------------------------------------
(* Type correctness: the ledger only ever holds rows of reviewed plans in  *)
(* a known status, lock counts stay natural, calls stay in known states.   *)

(* A running call knows its plan, an idle one has no session: without this *)
(* the lock count an unlock lowers would not be known to be positive.      *)
CallsTyped ==
    \A t \in Calls :
        /\ pc[t] # "idle" => plan[t] \in Plans /\ kind[t] \in AllKinds
        /\ pc[t] = "idle" => sess[t] = NoSession
        /\ pc[t] \in AttachedPCs => sess[t] # NoSession

(* A session belongs to one call, which has not lost it.                   *)
OwnersDistinct ==
    \A t, u \in Calls : sess[t] = sess[u] /\ sess[t] # NoSession => t = u
OwnedIsLive == \A t \in Calls : sess[t] \notin zombies

(* A call past the grant holds its target's lock on its session.           *)
HoldsLock ==
    \A t \in Calls :
        pc[t] \in LockedPCs /\ sess[t] # NoSession => locks[sess[t]][Target(t)] > 0

(* A call that is about to write the row of its name has found there a     *)
(* row of its own plan.                                                    *)
WriterPCs == {"execute", "executing", "finish", "fail", "fail_completed",
              "cancelled", "resolve"}
RowKnown ==
    \A t \in Calls :
        \/ pc[t] \in WriterPCs
        \/ pc[t] \in {"inspect", "record"} /\ seen[t] # "absent"
        \/ pc[t] = "lock" /\ kind[t] # "apply"
        => Row(t).plan = plan[t]

BaseInv ==
    TypeOK /\ CallsTyped /\ OwnersDistinct /\ OwnedIsLive /\ HoldsLock /\ RowKnown

(* The strengthened type invariant holds initially.                        *)
LEMMA BaseInit == Init => BaseInv
BY ConstantsAssumption
   DEF Init, BaseInv, TypeOK, CallsTyped, OwnersDistinct, OwnedIsLive, HoldsLock, RowKnown, WriterPCs,
       NoRow, Rows, PCs, Reports, AllKinds, LockedPCs, AttachedPCs

(* What a reply does to the sessions: nothing, or the call loses its own.  *)
LEMMA DetachLemma ==
    ASSUME BaseInv, NEW t \in Calls, NEW r \in Answers(t), Detach(t, r)
    PROVE  /\ r \in Replies
           /\ sess' \in [Calls -> Sessions \cup {NoSession}]
           /\ zombies' \subseteq Sessions
           /\ zombies \subseteq zombies'
           /\ \A u \in Calls : u # t => sess'[u] = sess[u]
           /\ sess'[t] \in {sess[t], NoSession}
           /\ ~Lost(r) => sess' = sess /\ zombies' = zombies
           /\ Lost(r) => /\ sess[t] \in Sessions
                         /\ sess' = [sess EXCEPT ![t] = NoSession]
                         /\ zombies' = zombies \cup {sess[t]}
           /\ Done(r) => sess[t] \in Sessions
           /\ OwnersDistinct'
           /\ OwnedIsLive'
<1>1. r \in Replies
  BY DEF Answers, Replies
<1>2. Lost(r) \/ Done(r) => sess[t] # NoSession
  BY DEF Answers, Lost, Done
<1>3. /\ sess \in [Calls -> Sessions \cup {NoSession}]
      /\ zombies \subseteq Sessions
      /\ NoSession \notin Sessions
      /\ \A u \in Calls : sess[u] \notin zombies
  BY ConstantsAssumption DEF BaseInv, TypeOK, OwnedIsLive
<1>4. CASE Lost(r)
  <2>1. sess' = [sess EXCEPT ![t] = NoSession] /\ zombies' = zombies \cup {sess[t]}
    BY <1>4 DEF Detach
  <2>2. OwnersDistinct'
    BY <1>3, <2>1 DEF OwnersDistinct, BaseInv
  <2>3. OwnedIsLive'
    BY <1>2, <1>3, <1>4, <2>1 DEF OwnersDistinct, OwnedIsLive, BaseInv
  <2> QED
    BY <1>1, <1>2, <1>3, <1>4, <2>1, <2>2, <2>3
<1>5. CASE ~Lost(r)
  <2>1. sess' = sess /\ zombies' = zombies
    BY <1>5 DEF Detach
  <2> QED
    BY <1>1, <1>2, <1>3, <1>5, <2>1 DEF OwnersDistinct, OwnedIsLive, BaseInv
<1> QED
  BY <1>4, <1>5

(* What an early end reports is a report.                                  *)
LEMMA EarlyOutcomeType ==
    ASSUME NEW t, NEW r
    PROVE  EarlyOutcome(t, r) \in Reports
BY DEF EarlyOutcome, Reports

(* A status write keeps the plan of the row and touches no other row.      *)
LEMMA SetStatusLemma ==
    ASSUME ledger \in [Names -> Rows], NEW n \in Names, NEW st \in Statuses,
           ledger[n].plan \in Plans
    PROVE  /\ SetStatus(n, st) \in [Names -> Rows]
           /\ SetStatus(n, st)[n] = [plan |-> ledger[n].plan, status |-> st]
           /\ \A m \in Names \ {n} : SetStatus(n, st)[m] = ledger[m]
<1>1. [plan |-> ledger[n].plan, status |-> st] \in Rows
  BY DEF Rows
<1> QED
  BY <1>1 DEF SetStatus

(* A lock count of one session and target changes, and no other.           *)
LEMMA SetHoldLemma ==
    ASSUME locks \in [Sessions -> [Targets -> Nat]],
           NEW s \in Sessions, NEW o \in Targets, NEW n \in Nat
    PROVE  /\ SetHold(s, o, n) \in [Sessions -> [Targets -> Nat]]
           /\ SetHold(s, o, n)[s][o] = n
           /\ \A s2 \in Sessions, o2 \in Targets :
                s2 # s \/ o2 # o => SetHold(s, o, n)[s2][o2] = locks[s2][o2]
<1> DEFINE h == [locks[s] EXCEPT ![o] = n]
<1>1. /\ h \in [Targets -> Nat] /\ h[o] = n
      /\ \A o2 \in Targets : o2 # o => h[o2] = locks[s][o2]
  OBVIOUS
<1>2. SetHold(s, o, n) = [locks EXCEPT ![s] = h]
  BY DEF SetHold
<1> HIDE DEF h
<1> QED
  BY <1>1, <1>2

(* The writes of a row of the call's own plan.                             *)
LEMMA RowWriteLemma ==
    ASSUME TypeOK, NEW t \in Calls, NEW st \in Statuses,
           plan[t] \in Plans, Row(t).plan = plan[t],
           ledger' = SetStatus(NameOf[plan[t]], st)
    PROVE  /\ ledger' \in [Names -> Rows]
           /\ \A n \in Names : ledger'[n].plan = ledger[n].plan
<1>1. NameOf[plan[t]] \in Names /\ ledger[NameOf[plan[t]]].plan \in Plans
      /\ ledger \in [Names -> Rows]
  BY ConstantsAssumption DEF Row, TypeOK
<1>2. ledger' = SetStatus(NameOf[plan[t]], st)
  OBVIOUS
<1> DEFINE n == NameOf[plan[t]]
<1>3. /\ SetStatus(n, st) \in [Names -> Rows]
      /\ SetStatus(n, st)[n] = [plan |-> ledger[n].plan, status |-> st]
      /\ \A m \in Names \ {n} : SetStatus(n, st)[m] = ledger[m]
  <2> HIDE DEF n
  <2> QED
    BY <1>1, SetStatusLemma DEF n
<1>4. ledger'[n].plan = ledger[n].plan
  BY <1>2, <1>3
<1> QED
  BY <1>2, <1>3, <1>4

(* A row has a plan exactly when it exists.                                *)
LEMMA RowLemma ==
    ASSUME NEW row \in Rows
    PROVE  /\ row.plan \in Plans \cup {NoPlan}
           /\ row.status \in Statuses \cup {"absent"}
           /\ row.plan \in Plans <=> row # NoRow
           /\ row = NoRow <=> row.status = "absent"
<1>1. "absent" \notin Statuses
  BY DEF Statuses, TerminalSuccess, TerminalFailure, Unresolved
<1> QED
  BY <1>1, ConstantsAssumption DEF Rows, NoRow

(* AcquireLock preserves the type invariant.                               *)
LEMMA BaseAcquireLock ==
    ASSUME BaseInv, NEW t \in Calls, NEW r \in Answers(t), AcquireLock(t, r)
    PROVE  BaseInv'
<1> USE ConstantsAssumption DEF AcquireLock, Goto, Leave, db, pool, request
<1>1. Detach(t, r)
  OBVIOUS
<1>2. /\ TypeOK /\ CallsTyped /\ HoldsLock /\ RowKnown
      /\ plan[t] \in Plans /\ kind[t] \in AllKinds
      /\ Target(t) \in Targets /\ NameOf[plan[t]] \in Names /\ Row(t) \in Rows
      /\ pc[t] \in AttachedPCs => sess[t] \in Sessions
  BY DEF BaseInv, TypeOK, CallsTyped, Target, Row
<1>3. ledger' = ledger
  OBVIOUS
<1>4. \A n \in Names : ledger'[n].plan = ledger[n].plan
  BY <1>3
<1>5. TypeOK'
  <2>1. ledger' \in [Names -> Rows]
    BY <1>2, <1>3 DEF TypeOK
  <2>2. pc' \in [Calls -> PCs]
    BY <1>2, ZenonT(30) DEF TypeOK, PCs
  <2>3. report' \in [Calls -> Reports]
    <3>1. /\ {"busy", "conflict", "already_succeeded", "mismatch", "succeeded", "unknown", "failed",
              "reconciled_succeeded", "reconciled_failed"} \subseteq Reports
          /\ EarlyOutcome(t, r) \in Reports
      BY EarlyOutcomeType DEF Reports
    <3> QED
      BY <1>2, <3>1 DEF TypeOK
  <2>4. seen' \in [Calls -> Statuses \cup {"absent", "unread"}]
    BY <1>2, RowLemma DEF TypeOK
  <2>5. executed' \in [Names -> BOOLEAN] /\ running' \in [Sessions -> Plans \cup {NoPlan}]
    <3>1. Done(r) \in BOOLEAN
      BY DEF Done
    <3> QED
      BY <1>1, <1>2, <3>1, DetachLemma DEF TypeOK
  <2>6. locks' \in [Sessions -> [Targets -> Nat]]
    <3>1. sess[t] \in Sessions /\ locks[sess[t]][Target(t)] + 1 \in Nat
      BY <1>2 DEF TypeOK, AttachedPCs
    <3> QED
      BY <1>2, <3>1, SetHoldLemma DEF TypeOK
  <2> QED
    BY <1>1, <1>2, <2>1, <2>2, <2>3, <2>4, <2>5, <2>6, DetachLemma DEF TypeOK
<1>6. CallsTyped'
  BY <1>1, <1>2, DetachLemma DEF TypeOK, CallsTyped, AttachedPCs, Lost, Cancelled
<1>7. HoldsLock'
  <2>1. ASSUME NEW u \in Calls, u # t, pc'[u] \in LockedPCs, sess'[u] # NoSession
        PROVE  locks'[sess'[u]][Target(u)'] > 0
    <3>1. /\ sess'[u] = sess[u] /\ pc'[u] = pc[u] /\ Target(u)' = Target(u)
          /\ sess[u] \in Sessions /\ sess[t] \in Sessions /\ Target(u) \in Targets
          /\ sess[u] # sess[t]
      BY <1>1, <1>2, <2>1, DetachLemma
         DEF TypeOK, Target, AttachedPCs, BaseInv, OwnersDistinct, CallsTyped, LockedPCs
    <3>2. locks[sess[t]][Target(t)] + 1 \in Nat
      BY <1>2, <3>1 DEF TypeOK
    <3>3. locks'[sess[u]][Target(u)] = locks[sess[u]][Target(u)]
      BY <1>2, <3>1, <3>2, SetHoldLemma DEF TypeOK
    <3> QED
      BY <1>2, <2>1, <3>1, <3>3 DEF HoldsLock
  <2>2. ASSUME pc'[t] \in LockedPCs, sess'[t] # NoSession
        PROVE  locks'[sess'[t]][Target(t)'] > 0
    <3>1. r = "ok" /\ Granted(t, r)
      BY <1>2, <2>2 DEF TypeOK, LockedPCs
    <3>2. sess[t] \in Sessions /\ sess' = sess /\ plan' = plan
      BY <1>1, <1>2, <2>2, <3>1, DetachLemma DEF AttachedPCs, Lost
    <3>3. locks' = SetHold(sess[t], Target(t), locks[sess[t]][Target(t)] + 1)
      BY <3>1
    <3>4. locks[sess[t]][Target(t)] \in Nat /\ Target(t)' = Target(t)
      BY <1>2, <3>2 DEF TypeOK, Target
    <3>5. locks'[sess[t]][Target(t)] = locks[sess[t]][Target(t)] + 1
      BY <1>2, <3>2, <3>3, <3>4, SetHoldLemma DEF TypeOK
    <3> QED
      BY <3>2, <3>4, <3>5
  <2> QED
    BY <2>1, <2>2 DEF HoldsLock
<1>8. RowKnown'
  BY <1>2, <1>4 DEF TypeOK, CallsTyped, RowKnown, WriterPCs, Row, NoRow
<1> QED
  BY <1>1, <1>5, <1>6, <1>7, <1>8, DetachLemma DEF BaseInv

(* ReadRow preserves the type invariant.                                   *)
LEMMA BaseReadRow ==
    ASSUME BaseInv, NEW t \in Calls, NEW r \in Answers(t), ReadRow(t, r)
    PROVE  BaseInv'
<1> USE ConstantsAssumption DEF ReadRow, Goto, Leave, db, pool, request
<1>1. Detach(t, r)
  OBVIOUS
<1>2. /\ TypeOK /\ CallsTyped /\ HoldsLock /\ RowKnown
      /\ plan[t] \in Plans /\ kind[t] \in AllKinds
      /\ Target(t) \in Targets /\ NameOf[plan[t]] \in Names /\ Row(t) \in Rows
      /\ pc[t] \in AttachedPCs => sess[t] \in Sessions
  BY DEF BaseInv, TypeOK, CallsTyped, Target, Row
<1>3. ledger' = ledger
  OBVIOUS
<1>4. \A n \in Names : ledger'[n].plan = ledger[n].plan
  BY <1>3
<1>5. TypeOK'
  <2>1. ledger' \in [Names -> Rows]
    BY <1>2, <1>3 DEF TypeOK
  <2>2. pc' \in [Calls -> PCs]
    BY <1>2 DEF TypeOK, PCs
  <2>3. report' \in [Calls -> Reports]
    <3>1. /\ {"busy", "conflict", "already_succeeded", "mismatch", "succeeded", "unknown", "failed",
              "reconciled_succeeded", "reconciled_failed"} \subseteq Reports
          /\ EarlyOutcome(t, r) \in Reports
      BY EarlyOutcomeType DEF Reports
    <3> QED
      BY <1>2, <3>1 DEF TypeOK
  <2>4. seen' \in [Calls -> Statuses \cup {"absent", "unread"}]
    BY <1>2, RowLemma DEF TypeOK
  <2>5. executed' \in [Names -> BOOLEAN] /\ running' \in [Sessions -> Plans \cup {NoPlan}]
    <3>1. Done(r) \in BOOLEAN
      BY DEF Done
    <3> QED
      BY <1>1, <1>2, <3>1, DetachLemma DEF TypeOK
  <2>6. locks' \in [Sessions -> [Targets -> Nat]]
    BY <1>2 DEF TypeOK
  <2> QED
    BY <1>1, <1>2, <2>1, <2>2, <2>3, <2>4, <2>5, <2>6, DetachLemma DEF TypeOK
<1>6. CallsTyped'
  BY <1>1, <1>2, DetachLemma DEF TypeOK, CallsTyped, AttachedPCs, Lost, Cancelled
<1>7. HoldsLock'
  BY <1>1, <1>2, DetachLemma DEF TypeOK, HoldsLock, LockedPCs, Target
<1>8. RowKnown'
  BY <1>2, <1>4, <1>3, RowLemma DEF TypeOK, CallsTyped, RowKnown, WriterPCs, Row, NoRow
<1> QED
  BY <1>1, <1>5, <1>6, <1>7, <1>8, DetachLemma DEF BaseInv

(* InspectTarget preserves the type invariant.                             *)
LEMMA BaseInspectTarget ==
    ASSUME BaseInv, NEW t \in Calls, NEW r \in Answers(t), InspectTarget(t, r)
    PROVE  BaseInv'
<1> USE ConstantsAssumption DEF InspectTarget, Goto, Leave, db, pool, request
<1>1. Detach(t, r)
  OBVIOUS
<1>2. /\ TypeOK /\ CallsTyped /\ HoldsLock /\ RowKnown
      /\ plan[t] \in Plans /\ kind[t] \in AllKinds
      /\ Target(t) \in Targets /\ NameOf[plan[t]] \in Names /\ Row(t) \in Rows
      /\ pc[t] \in AttachedPCs => sess[t] \in Sessions
  BY DEF BaseInv, TypeOK, CallsTyped, Target, Row
<1>3. ledger' = ledger
  OBVIOUS
<1>4. \A n \in Names : ledger'[n].plan = ledger[n].plan
  BY <1>3
<1>5. TypeOK'
  <2>1. ledger' \in [Names -> Rows]
    BY <1>2, <1>3 DEF TypeOK
  <2>2. pc' \in [Calls -> PCs]
    BY <1>2, SMTT(20) DEF TypeOK, PCs
  <2>3. report' \in [Calls -> Reports]
    <3>1. /\ {"busy", "conflict", "already_succeeded", "mismatch", "succeeded", "unknown", "failed",
              "reconciled_succeeded", "reconciled_failed"} \subseteq Reports
          /\ EarlyOutcome(t, r) \in Reports
      BY EarlyOutcomeType DEF Reports
    <3> QED
      BY <1>2, <3>1 DEF TypeOK
  <2>4. seen' \in [Calls -> Statuses \cup {"absent", "unread"}]
    BY <1>2, RowLemma DEF TypeOK
  <2>5. executed' \in [Names -> BOOLEAN] /\ running' \in [Sessions -> Plans \cup {NoPlan}]
    <3>1. Done(r) \in BOOLEAN
      BY DEF Done
    <3> QED
      BY <1>1, <1>2, <3>1, DetachLemma DEF TypeOK
  <2>6. locks' \in [Sessions -> [Targets -> Nat]]
    BY <1>2 DEF TypeOK
  <2> QED
    BY <1>1, <1>2, <2>1, <2>2, <2>3, <2>4, <2>5, <2>6, DetachLemma DEF TypeOK
<1>6. CallsTyped'
  BY <1>1, <1>2, DetachLemma DEF TypeOK, CallsTyped, AttachedPCs, Lost, Cancelled
<1>7. HoldsLock'
  BY <1>1, <1>2, DetachLemma DEF TypeOK, HoldsLock, LockedPCs, Target
<1>8. RowKnown'
  BY <1>2, <1>4 DEF TypeOK, CallsTyped, RowKnown, WriterPCs, Row, NoRow
<1> QED
  BY <1>1, <1>5, <1>6, <1>7, <1>8, DetachLemma DEF BaseInv

(* RecordRunning preserves the type invariant.                             *)
LEMMA BaseRecordRunning ==
    ASSUME BaseInv, NEW t \in Calls, NEW r \in Answers(t), RecordRunning(t, r)
    PROVE  BaseInv'
<1> USE ConstantsAssumption DEF RecordRunning, Goto, Leave, db, pool, request
<1>1. Detach(t, r)
  OBVIOUS
<1>2. /\ TypeOK /\ CallsTyped /\ HoldsLock /\ RowKnown
      /\ plan[t] \in Plans /\ kind[t] \in AllKinds
      /\ Target(t) \in Targets /\ NameOf[plan[t]] \in Names /\ Row(t) \in Rows
      /\ pc[t] \in AttachedPCs => sess[t] \in Sessions
  BY DEF BaseInv, TypeOK, CallsTyped, Target, Row
<1>a. "running" \in Statuses
  BY DEF Statuses, Unresolved
<1> DEFINE Kept ==
        /\ ledger' \in [Names -> Rows]
        /\ \A n \in Names : ledger[n].plan # NoPlan => ledger'[n].plan = ledger[n].plan
        /\ r = "ok" => Row(t)'.plan = plan[t]
<1>b. ASSUME ledger' = ledger PROVE Kept
  <2>1. ~Done(r) \/ Row(t).plan = plan[t]
    BY <1>2, <1>b DEF TypeOK, RowKnown, Row, NoRow
  <2> QED
    BY <1>2, <1>b, <2>1 DEF TypeOK, Row, Done
<1>c. ASSUME ledger' # ledger, seen[t] # "absent" PROVE Kept
  <2>1. Row(t).plan = plan[t] /\ ledger' = SetStatus(NameOf[plan[t]], "running")
    BY <1>c, <1>2 DEF RowKnown
  <2> QED
    BY <1>2, <1>a, <2>1, RowWriteLemma DEF Row
<1>d. ASSUME ledger' # ledger, seen[t] = "absent" PROVE Kept
  <2> DEFINE new == [plan |-> plan[t], status |-> "running"]
  <2>1. /\ ledger' = [ledger EXCEPT ![NameOf[plan[t]]] = new]
        /\ Row(t) = NoRow
    BY <1>d
  <2>2. new \in Rows /\ ledger[NameOf[plan[t]]].plan = NoPlan
    BY <1>2, <1>a, <2>1 DEF Rows, Row, NoRow
  <2>3. ledger \in [Names -> Rows] /\ NameOf[plan[t]] \in Names
    BY <1>2 DEF TypeOK
  <2> HIDE DEF new
  <2>4. /\ ledger' \in [Names -> Rows]
        /\ \A n \in Names : ledger[n].plan # NoPlan => ledger'[n] = ledger[n]
    BY <2>1, <2>2, <2>3
  <2>5. Row(t)' = new
    BY <2>1, <2>2, <2>3 DEF Row
  <2> QED
    BY <2>4, <2>5 DEF new
<1>4. /\ ledger' \in [Names -> Rows]
      /\ \A n \in Names : ledger[n].plan # NoPlan => ledger'[n].plan = ledger[n].plan
      /\ r = "ok" => Row(t)'.plan = plan[t]
  BY <1>b, <1>c, <1>d
<1>5. TypeOK'
  <2>1. ledger' \in [Names -> Rows]
    BY <1>4
  <2>2. pc' \in [Calls -> PCs]
    BY <1>2 DEF TypeOK, PCs
  <2>3. report' \in [Calls -> Reports]
    <3>1. /\ {"busy", "conflict", "already_succeeded", "mismatch", "succeeded", "unknown", "failed",
              "reconciled_succeeded", "reconciled_failed"} \subseteq Reports
          /\ EarlyOutcome(t, r) \in Reports
      BY EarlyOutcomeType DEF Reports
    <3> QED
      BY <1>2, <3>1 DEF TypeOK
  <2>4. seen' \in [Calls -> Statuses \cup {"absent", "unread"}]
    BY <1>2, RowLemma DEF TypeOK
  <2>5. executed' \in [Names -> BOOLEAN] /\ running' \in [Sessions -> Plans \cup {NoPlan}]
    <3>1. Done(r) \in BOOLEAN
      BY DEF Done
    <3> QED
      BY <1>1, <1>2, <3>1, DetachLemma DEF TypeOK
  <2>6. locks' \in [Sessions -> [Targets -> Nat]]
    BY <1>2 DEF TypeOK
  <2> QED
    BY <1>1, <1>2, <2>1, <2>2, <2>3, <2>4, <2>5, <2>6, DetachLemma DEF TypeOK
<1>6. CallsTyped'
  BY <1>1, <1>2, DetachLemma DEF TypeOK, CallsTyped, AttachedPCs, Lost, Cancelled
<1>7. HoldsLock'
  BY <1>1, <1>2, DetachLemma DEF TypeOK, HoldsLock, LockedPCs, Target
<1>8. RowKnown'
  BY <1>2, <1>4 DEF TypeOK, CallsTyped, RowKnown, WriterPCs, Row, NoRow
<1> QED
  BY <1>1, <1>5, <1>6, <1>7, <1>8, DetachLemma DEF BaseInv

(* CommandReturns preserves the type invariant.                            *)
LEMMA BaseCommandReturns ==
    ASSUME BaseInv, NEW t \in Calls, NEW r \in Answers(t), CommandReturns(t, r)
    PROVE  BaseInv'
<1> USE ConstantsAssumption DEF CommandReturns, Goto, Leave, db, pool, request
<1>1. Detach(t, r)
  OBVIOUS
<1>2. /\ TypeOK /\ CallsTyped /\ HoldsLock /\ RowKnown
      /\ plan[t] \in Plans /\ kind[t] \in AllKinds
      /\ Target(t) \in Targets /\ NameOf[plan[t]] \in Names /\ Row(t) \in Rows
      /\ pc[t] \in AttachedPCs => sess[t] \in Sessions
  BY DEF BaseInv, TypeOK, CallsTyped, Target, Row
<1>3. ledger' = ledger
  OBVIOUS
<1>4. \A n \in Names : ledger'[n].plan = ledger[n].plan
  BY <1>3
<1>5. TypeOK'
  <2>1. ledger' \in [Names -> Rows]
    BY <1>2, <1>3 DEF TypeOK
  <2>2. pc' \in [Calls -> PCs]
    BY <1>2 DEF TypeOK, PCs
  <2>3. report' \in [Calls -> Reports]
    <3>1. /\ {"busy", "conflict", "already_succeeded", "mismatch", "succeeded", "unknown", "failed",
              "reconciled_succeeded", "reconciled_failed"} \subseteq Reports
          /\ EarlyOutcome(t, r) \in Reports
      BY EarlyOutcomeType DEF Reports
    <3> QED
      BY <1>2, <3>1 DEF TypeOK
  <2>4. seen' \in [Calls -> Statuses \cup {"absent", "unread"}]
    BY <1>2, RowLemma DEF TypeOK
  <2>5. executed' \in [Names -> BOOLEAN] /\ running' \in [Sessions -> Plans \cup {NoPlan}]
    <3>1. Done(r) \in BOOLEAN
      BY DEF Done
    <3> QED
      BY <1>1, <1>2, <3>1, DetachLemma DEF TypeOK
  <2>6. locks' \in [Sessions -> [Targets -> Nat]]
    BY <1>2 DEF TypeOK
  <2> QED
    BY <1>1, <1>2, <2>1, <2>2, <2>3, <2>4, <2>5, <2>6, DetachLemma DEF TypeOK
<1>6. CallsTyped'
  BY <1>1, <1>2, DetachLemma DEF TypeOK, CallsTyped, AttachedPCs, Lost, Cancelled
<1>7. HoldsLock'
  BY <1>1, <1>2, DetachLemma DEF TypeOK, HoldsLock, LockedPCs, Target
<1>8. RowKnown'
  BY <1>2, <1>4 DEF TypeOK, CallsTyped, RowKnown, WriterPCs, Row, NoRow
<1> QED
  BY <1>1, <1>5, <1>6, <1>7, <1>8, DetachLemma DEF BaseInv

(* FinishRecord preserves the type invariant.                              *)
LEMMA BaseFinishRecord ==
    ASSUME BaseInv, NEW t \in Calls, NEW r \in Answers(t), FinishRecord(t, r)
    PROVE  BaseInv'
<1> USE ConstantsAssumption DEF FinishRecord, Goto, Leave, db, pool, request
<1>1. Detach(t, r)
  OBVIOUS
<1>2. /\ TypeOK /\ CallsTyped /\ HoldsLock /\ RowKnown
      /\ plan[t] \in Plans /\ kind[t] \in AllKinds
      /\ Target(t) \in Targets /\ NameOf[plan[t]] \in Names /\ Row(t) \in Rows
      /\ pc[t] \in AttachedPCs => sess[t] \in Sessions
  BY DEF BaseInv, TypeOK, CallsTyped, Target, Row
<1> DEFINE st == "succeeded"
<1>a. st \in Statuses
  BY DEF Statuses, TerminalSuccess, TerminalFailure, Unresolved
<1>3. ledger' = ledger \/ (ledger' = SetStatus(NameOf[plan[t]], st) /\ Row(t).plan = plan[t])
  BY <1>2 DEF RowKnown, WriterPCs
<1> HIDE DEF st, FinishRecord
<1>4. /\ ledger' \in [Names -> Rows]
      /\ \A n \in Names : ledger'[n].plan = ledger[n].plan
  <2>1. CASE ledger' = ledger
    BY <1>2, <2>1 DEF TypeOK
  <2>2. CASE ledger' # ledger
    BY <1>2, <1>3, <1>a, <2>2, RowWriteLemma
  <2> QED
    BY <2>1, <2>2
<1> USE DEF FinishRecord
<1>5. TypeOK'
  <2>1. ledger' \in [Names -> Rows]
    BY <1>4
  <2>2. pc' \in [Calls -> PCs]
    BY <1>2 DEF TypeOK, PCs
  <2>3. report' \in [Calls -> Reports]
    <3>1. /\ {"busy", "conflict", "already_succeeded", "mismatch", "succeeded", "unknown", "failed",
              "reconciled_succeeded", "reconciled_failed"} \subseteq Reports
          /\ EarlyOutcome(t, r) \in Reports
      BY EarlyOutcomeType DEF Reports
    <3> QED
      BY <1>2, <3>1 DEF TypeOK
  <2>4. seen' \in [Calls -> Statuses \cup {"absent", "unread"}]
    BY <1>2, RowLemma DEF TypeOK
  <2>5. executed' \in [Names -> BOOLEAN] /\ running' \in [Sessions -> Plans \cup {NoPlan}]
    <3>1. Done(r) \in BOOLEAN
      BY DEF Done
    <3> QED
      BY <1>1, <1>2, <3>1, DetachLemma DEF TypeOK
  <2>6. locks' \in [Sessions -> [Targets -> Nat]]
    BY <1>2 DEF TypeOK
  <2> QED
    BY <1>1, <1>2, <2>1, <2>2, <2>3, <2>4, <2>5, <2>6, DetachLemma DEF TypeOK
<1>6. CallsTyped'
  BY <1>1, <1>2, DetachLemma DEF TypeOK, CallsTyped, AttachedPCs, Lost, Cancelled
<1>7. HoldsLock'
  BY <1>1, <1>2, DetachLemma DEF TypeOK, HoldsLock, LockedPCs, Target
<1>8. RowKnown'
  BY <1>2, <1>4 DEF TypeOK, CallsTyped, RowKnown, WriterPCs, Row, NoRow
<1> QED
  BY <1>1, <1>5, <1>6, <1>7, <1>8, DetachLemma DEF BaseInv

(* RecordFailure preserves the type invariant.                             *)
LEMMA BaseRecordFailure ==
    ASSUME BaseInv, NEW t \in Calls, NEW r \in Answers(t), RecordFailure(t, r)
    PROVE  BaseInv'
<1> USE ConstantsAssumption DEF RecordFailure, Goto, Leave, db, pool, request
<1>1. Detach(t, r)
  OBVIOUS
<1>2. /\ TypeOK /\ CallsTyped /\ HoldsLock /\ RowKnown
      /\ plan[t] \in Plans /\ kind[t] \in AllKinds
      /\ Target(t) \in Targets /\ NameOf[plan[t]] \in Names /\ Row(t) \in Rows
      /\ pc[t] \in AttachedPCs => sess[t] \in Sessions
  BY DEF BaseInv, TypeOK, CallsTyped, Target, Row
<1> DEFINE st == IF pc[t] = "fail" THEN "failed" ELSE "unknown"
<1>a. st \in Statuses
  BY DEF Statuses, TerminalSuccess, TerminalFailure, Unresolved
<1>3. ledger' = ledger \/ (ledger' = SetStatus(NameOf[plan[t]], st) /\ Row(t).plan = plan[t])
  BY <1>2 DEF RowKnown, WriterPCs
<1> HIDE DEF st, RecordFailure
<1>4. /\ ledger' \in [Names -> Rows]
      /\ \A n \in Names : ledger'[n].plan = ledger[n].plan
  <2>1. CASE ledger' = ledger
    BY <1>2, <2>1 DEF TypeOK
  <2>2. CASE ledger' # ledger
    BY <1>2, <1>3, <1>a, <2>2, RowWriteLemma
  <2> QED
    BY <2>1, <2>2
<1> USE DEF RecordFailure
<1>5. TypeOK'
  <2>1. ledger' \in [Names -> Rows]
    BY <1>4
  <2>2. pc' \in [Calls -> PCs]
    BY <1>2 DEF TypeOK, PCs
  <2>3. report' \in [Calls -> Reports]
    <3>1. /\ {"busy", "conflict", "already_succeeded", "mismatch", "succeeded", "unknown", "failed",
              "reconciled_succeeded", "reconciled_failed"} \subseteq Reports
          /\ EarlyOutcome(t, r) \in Reports
      BY EarlyOutcomeType DEF Reports
    <3> QED
      BY <1>2, <3>1 DEF TypeOK
  <2>4. seen' \in [Calls -> Statuses \cup {"absent", "unread"}]
    BY <1>2, RowLemma DEF TypeOK
  <2>5. executed' \in [Names -> BOOLEAN] /\ running' \in [Sessions -> Plans \cup {NoPlan}]
    <3>1. Done(r) \in BOOLEAN
      BY DEF Done
    <3> QED
      BY <1>1, <1>2, <3>1, DetachLemma DEF TypeOK
  <2>6. locks' \in [Sessions -> [Targets -> Nat]]
    BY <1>2 DEF TypeOK
  <2> QED
    BY <1>1, <1>2, <2>1, <2>2, <2>3, <2>4, <2>5, <2>6, DetachLemma DEF TypeOK
<1>6. CallsTyped'
  BY <1>1, <1>2, DetachLemma DEF TypeOK, CallsTyped, AttachedPCs, Lost, Cancelled
<1>7. HoldsLock'
  BY <1>1, <1>2, DetachLemma DEF TypeOK, HoldsLock, LockedPCs, Target
<1>8. RowKnown'
  BY <1>2, <1>4 DEF TypeOK, CallsTyped, RowKnown, WriterPCs, Row, NoRow
<1> QED
  BY <1>1, <1>5, <1>6, <1>7, <1>8, DetachLemma DEF BaseInv

(* RecordCancelled preserves the type invariant.                           *)
LEMMA BaseRecordCancelled ==
    ASSUME BaseInv, NEW t \in Calls, NEW r \in Answers(t), RecordCancelled(t, r)
    PROVE  BaseInv'
<1> USE ConstantsAssumption DEF RecordCancelled, Goto, Leave, db, pool, request
<1>1. Detach(t, r)
  OBVIOUS
<1>2. /\ TypeOK /\ CallsTyped /\ HoldsLock /\ RowKnown
      /\ plan[t] \in Plans /\ kind[t] \in AllKinds
      /\ Target(t) \in Targets /\ NameOf[plan[t]] \in Names /\ Row(t) \in Rows
      /\ pc[t] \in AttachedPCs => sess[t] \in Sessions
  BY DEF BaseInv, TypeOK, CallsTyped, Target, Row
<1> DEFINE st == "unknown"
<1>a. st \in Statuses
  BY DEF Statuses, TerminalSuccess, TerminalFailure, Unresolved
<1>3. ledger' = ledger \/ (ledger' = SetStatus(NameOf[plan[t]], st) /\ Row(t).plan = plan[t])
  BY <1>2 DEF RowKnown, WriterPCs
<1> HIDE DEF st, RecordCancelled
<1>4. /\ ledger' \in [Names -> Rows]
      /\ \A n \in Names : ledger'[n].plan = ledger[n].plan
  <2>1. CASE ledger' = ledger
    BY <1>2, <2>1 DEF TypeOK
  <2>2. CASE ledger' # ledger
    BY <1>2, <1>3, <1>a, <2>2, RowWriteLemma
  <2> QED
    BY <2>1, <2>2
<1> USE DEF RecordCancelled
<1>5. TypeOK'
  <2>1. ledger' \in [Names -> Rows]
    BY <1>4
  <2>2. pc' \in [Calls -> PCs]
    BY <1>2 DEF TypeOK, PCs
  <2>3. report' \in [Calls -> Reports]
    <3>1. /\ {"busy", "conflict", "already_succeeded", "mismatch", "succeeded", "unknown", "failed",
              "reconciled_succeeded", "reconciled_failed"} \subseteq Reports
          /\ EarlyOutcome(t, r) \in Reports
      BY EarlyOutcomeType DEF Reports
    <3> QED
      BY <1>2, <3>1 DEF TypeOK
  <2>4. seen' \in [Calls -> Statuses \cup {"absent", "unread"}]
    BY <1>2, RowLemma DEF TypeOK
  <2>5. executed' \in [Names -> BOOLEAN] /\ running' \in [Sessions -> Plans \cup {NoPlan}]
    <3>1. Done(r) \in BOOLEAN
      BY DEF Done
    <3> QED
      BY <1>1, <1>2, <3>1, DetachLemma DEF TypeOK
  <2>6. locks' \in [Sessions -> [Targets -> Nat]]
    BY <1>2 DEF TypeOK
  <2> QED
    BY <1>1, <1>2, <2>1, <2>2, <2>3, <2>4, <2>5, <2>6, DetachLemma DEF TypeOK
<1>6. CallsTyped'
  BY <1>1, <1>2, DetachLemma DEF TypeOK, CallsTyped, AttachedPCs, Lost, Cancelled
<1>7. HoldsLock'
  BY <1>1, <1>2, DetachLemma DEF TypeOK, HoldsLock, LockedPCs, Target
<1>8. RowKnown'
  BY <1>2, <1>4 DEF TypeOK, CallsTyped, RowKnown, WriterPCs, Row, NoRow
<1> QED
  BY <1>1, <1>5, <1>6, <1>7, <1>8, DetachLemma DEF BaseInv

(* ReadStored preserves the type invariant.                                *)
LEMMA BaseReadStored ==
    ASSUME BaseInv, NEW t \in Calls, NEW r \in Answers(t), ReadStored(t, r)
    PROVE  BaseInv'
<1> USE ConstantsAssumption DEF ReadStored, Goto, Leave, db, pool, request
<1>1. Detach(t, r)
  OBVIOUS
<1>2. /\ TypeOK /\ CallsTyped /\ HoldsLock /\ RowKnown
      /\ plan[t] \in Plans /\ kind[t] \in AllKinds
      /\ Target(t) \in Targets /\ NameOf[plan[t]] \in Names /\ Row(t) \in Rows
      /\ pc[t] \in AttachedPCs => sess[t] \in Sessions
  BY DEF BaseInv, TypeOK, CallsTyped, Target, Row
<1>3. ledger' = ledger
  OBVIOUS
<1>4. \A n \in Names : ledger'[n].plan = ledger[n].plan
  BY <1>3
<1>5. TypeOK'
  <2>1. ledger' \in [Names -> Rows]
    BY <1>2, <1>3 DEF TypeOK
  <2>2. pc' \in [Calls -> PCs]
    BY <1>2, ZenonT(30) DEF TypeOK, PCs
  <2>3. report' \in [Calls -> Reports]
    <3>1. /\ {"busy", "conflict", "already_succeeded", "mismatch", "succeeded", "unknown", "failed",
              "reconciled_succeeded", "reconciled_failed"} \subseteq Reports
          /\ EarlyOutcome(t, r) \in Reports
      BY EarlyOutcomeType DEF Reports
    <3> QED
      BY <1>2, <3>1 DEF TypeOK
  <2>4. seen' \in [Calls -> Statuses \cup {"absent", "unread"}]
    BY <1>2, RowLemma DEF TypeOK
  <2>5. executed' \in [Names -> BOOLEAN] /\ running' \in [Sessions -> Plans \cup {NoPlan}]
    <3>1. Done(r) \in BOOLEAN
      BY DEF Done
    <3> QED
      BY <1>1, <1>2, <3>1, DetachLemma DEF TypeOK
  <2>6. locks' \in [Sessions -> [Targets -> Nat]]
    BY <1>2 DEF TypeOK
  <2> QED
    BY <1>1, <1>2, <2>1, <2>2, <2>3, <2>4, <2>5, <2>6, DetachLemma DEF TypeOK
<1>6. CallsTyped'
  BY <1>1, <1>2, DetachLemma DEF TypeOK, CallsTyped, AttachedPCs, Lost, Cancelled
<1>7. HoldsLock'
  BY <1>1, <1>2, DetachLemma DEF TypeOK, HoldsLock, LockedPCs, Target
<1>8. RowKnown'
  BY <1>2, <1>4, <1>3, RowLemma DEF TypeOK, CallsTyped, RowKnown, WriterPCs, Row, NoRow
<1> QED
  BY <1>1, <1>5, <1>6, <1>7, <1>8, DetachLemma DEF BaseInv

(* Resolve preserves the type invariant.                                   *)
LEMMA BaseResolve ==
    ASSUME BaseInv, NEW t \in Calls, NEW r \in Answers(t), Resolve(t, r)
    PROVE  BaseInv'
<1> USE ConstantsAssumption DEF Resolve, Goto, Leave, db, pool, request
<1>1. Detach(t, r)
  OBVIOUS
<1>2. /\ TypeOK /\ CallsTyped /\ HoldsLock /\ RowKnown
      /\ plan[t] \in Plans /\ kind[t] \in AllKinds
      /\ Target(t) \in Targets /\ NameOf[plan[t]] \in Names /\ Row(t) \in Rows
      /\ pc[t] \in AttachedPCs => sess[t] \in Sessions
  BY DEF BaseInv, TypeOK, CallsTyped, Target, Row
<1> DEFINE st == Resolution(t)
<1>a. st \in Statuses
  BY DEF Statuses, TerminalSuccess, TerminalFailure, Unresolved, Resolution
<1>3. ledger' = ledger \/ (ledger' = SetStatus(NameOf[plan[t]], st) /\ Row(t).plan = plan[t])
  BY <1>2 DEF RowKnown, WriterPCs
<1> HIDE DEF st, Resolve
<1>4. /\ ledger' \in [Names -> Rows]
      /\ \A n \in Names : ledger'[n].plan = ledger[n].plan
  <2>1. CASE ledger' = ledger
    BY <1>2, <2>1 DEF TypeOK
  <2>2. CASE ledger' # ledger
    BY <1>2, <1>3, <1>a, <2>2, RowWriteLemma
  <2> QED
    BY <2>1, <2>2
<1> USE DEF Resolve
<1>5. TypeOK'
  <2>1. ledger' \in [Names -> Rows]
    BY <1>4
  <2>2. pc' \in [Calls -> PCs]
    BY <1>2 DEF TypeOK, PCs
  <2>3. report' \in [Calls -> Reports]
    <3>1. /\ {"busy", "conflict", "already_succeeded", "mismatch", "succeeded", "unknown", "failed",
              "reconciled_succeeded", "reconciled_failed"} \subseteq Reports
          /\ EarlyOutcome(t, r) \in Reports
      BY EarlyOutcomeType DEF Reports
    <3> QED
      BY <1>2, <3>1 DEF TypeOK, Resolution
  <2>4. seen' \in [Calls -> Statuses \cup {"absent", "unread"}]
    BY <1>2, RowLemma DEF TypeOK
  <2>5. executed' \in [Names -> BOOLEAN] /\ running' \in [Sessions -> Plans \cup {NoPlan}]
    <3>1. Done(r) \in BOOLEAN
      BY DEF Done
    <3> QED
      BY <1>1, <1>2, <3>1, DetachLemma DEF TypeOK
  <2>6. locks' \in [Sessions -> [Targets -> Nat]]
    BY <1>2 DEF TypeOK
  <2> QED
    BY <1>1, <1>2, <2>1, <2>2, <2>3, <2>4, <2>5, <2>6, DetachLemma DEF TypeOK
<1>6. CallsTyped'
  BY <1>1, <1>2, DetachLemma DEF TypeOK, CallsTyped, AttachedPCs, Lost, Cancelled
<1>7. HoldsLock'
  BY <1>1, <1>2, DetachLemma DEF TypeOK, HoldsLock, LockedPCs, Target
<1>8. RowKnown'
  BY <1>2, <1>4 DEF TypeOK, CallsTyped, RowKnown, WriterPCs, Row, NoRow
<1> QED
  BY <1>1, <1>5, <1>6, <1>7, <1>8, DetachLemma DEF BaseInv

(* Begin preserves the type invariant.                                     *)
LEMMA BaseBegin ==
    ASSUME BaseInv, NEW t \in Calls, Begin(t)
    PROVE  BaseInv'
<1> USE ConstantsAssumption DEF Begin, Goto, Leave, db, pool, request, BaseInv
<1>1. PICK s \in Sessions, k \in Kinds, p \in Plans : Begin(t)!2!(s, k, p)
  OBVIOUS
<1>2. /\ \A u \in Calls : sess[u] # s
      /\ s \notin zombies /\ k \in AllKinds
  BY <1>1 DEF Idle
<1>3. TypeOK'
  BY <1>1, <1>2 DEF TypeOK, PCs
<1>4. CallsTyped'
  BY <1>1, <1>2 DEF TypeOK, CallsTyped, AttachedPCs
<1>5. OwnersDistinct' /\ OwnedIsLive'
  BY <1>1, <1>2 DEF TypeOK, OwnersDistinct, OwnedIsLive
<1>6. HoldsLock'
  BY <1>1, <1>2 DEF TypeOK, HoldsLock, LockedPCs, Target
<1>7. RowKnown'
  BY <1>1, <1>2 DEF TypeOK, RowKnown, WriterPCs, Row
<1> QED
  BY <1>3, <1>4, <1>5, <1>6, <1>7

(* SendCommand preserves the type invariant.                               *)
LEMMA BaseSendCommand ==
    ASSUME BaseInv, NEW t \in Calls, SendCommand(t)
    PROVE  BaseInv'
<1> USE ConstantsAssumption DEF SendCommand, Goto, pool, request, BaseInv
<1>1. TypeOK'
  BY DEF TypeOK, PCs, CallsTyped, AttachedPCs
<1>2. CallsTyped' /\ OwnersDistinct' /\ OwnedIsLive'
  BY DEF TypeOK, CallsTyped, AttachedPCs, OwnersDistinct, OwnedIsLive
<1>3. HoldsLock'
  BY DEF TypeOK, HoldsLock, LockedPCs, Target
<1>4. RowKnown'
  BY DEF TypeOK, RowKnown, WriterPCs, Row
<1> QED
  BY <1>1, <1>2, <1>3, <1>4

(* Decide preserves the type invariant.                                    *)
LEMMA BaseDecide ==
    ASSUME BaseInv, NEW t \in Calls, Decide(t)
    PROVE  BaseInv'
<1> USE ConstantsAssumption DEF Decide, Goto, Leave, db, pool, request, BaseInv
<1>1. TypeOK'
  BY DEF TypeOK, PCs, Reports
<1>2. CallsTyped' /\ OwnersDistinct' /\ OwnedIsLive'
  BY DEF TypeOK, CallsTyped, AttachedPCs, OwnersDistinct, OwnedIsLive
<1>3. HoldsLock'
  BY DEF TypeOK, HoldsLock, LockedPCs, Target
<1>4. RowKnown'
  BY DEF TypeOK, RowKnown, WriterPCs, Row
<1> QED
  BY <1>1, <1>2, <1>3, <1>4

(* The unlock lowers a count that HoldsLock knows to be positive, and no   *)
(* other call holds its lock on the same session.                          *)
LEMMA BaseCleanup ==
    ASSUME BaseInv, NEW t \in Calls, Cleanup(t)
    PROVE  BaseInv'
<1> USE ConstantsAssumption DEF Goto, Leave, db, pool, request, BaseInv
<1>1. PICK r : /\ r \in Answers(t) \cup (IF sess[t] = NoSession THEN {} ELSE {"refused_done"})
               /\ locks' = IF pc[t] = "unlock" /\ Done(r)
                             THEN SetHold(sess[t], Target(t), locks[sess[t]][Target(t)] - 1)
                             ELSE locks
               /\ zombies' = IF Lost(r) THEN zombies \cup {sess[t]} ELSE zombies
               /\ suspect' = IF r = "ok" THEN suspect ELSE Sessions \ zombies'
  BY DEF Cleanup
<1>2. /\ pc[t] \in {"unlock", "reset"} /\ plan[t] \in Plans
      /\ Target(t) \in Targets /\ NameOf[plan[t]] \in Names
      /\ sess' = [sess EXCEPT ![t] = NoSession]
      /\ kind' = [kind EXCEPT ![t] = "none"]
      /\ plan' = [plan EXCEPT ![t] = NoPlan]
      /\ seen' = [seen EXCEPT ![t] = "unread"]
      /\ pc' = [pc EXCEPT ![t] = "idle"]
      /\ report' = [report EXCEPT ![t] = "none"]
      /\ acked' \in {acked, acked \cup {NameOf[plan[t]]}}
      /\ UNCHANGED <<ledger, executed, running>>
  BY DEF Cleanup, TypeOK, CallsTyped, Target
<1>3. Done(r) \/ Lost(r) => sess[t] \in Sessions
  BY <1>1 DEF Answers, Done, Lost, TypeOK
<1>4. /\ locks' \in [Sessions -> [Targets -> Nat]]
      /\ \A s \in Sessions, o \in Targets : s # sess[t] => locks'[s][o] = locks[s][o]
  <2>1. CASE pc[t] = "unlock" /\ Done(r)
    <3>1. locks' = SetHold(sess[t], Target(t), locks[sess[t]][Target(t)] - 1)
      BY <1>1, <2>1
    <3>2. sess[t] \in Sessions /\ locks[sess[t]][Target(t)] > 0
      BY <1>3, <2>1 DEF HoldsLock, LockedPCs
    <3>3. locks[sess[t]][Target(t)] - 1 \in Nat
      BY <1>2, <3>2 DEF TypeOK
    <3> QED
      BY <1>2, <3>1, <3>2, <3>3, SetHoldLemma DEF TypeOK
  <2>2. CASE ~(pc[t] = "unlock" /\ Done(r))
    BY <1>1, <2>2 DEF TypeOK
  <2> QED
    BY <2>1, <2>2
<1>5. zombies' \subseteq Sessions /\ suspect' \subseteq Sessions
  BY <1>1, <1>3 DEF TypeOK
<1>6. TypeOK'
  <2>1. report' \in [Calls -> Reports] /\ pc' \in [Calls -> PCs]
    BY <1>2 DEF TypeOK, Reports, PCs
  <2> QED
    BY <1>2, <1>4, <1>5, <2>1 DEF TypeOK
<1>7. CallsTyped' /\ OwnersDistinct'
  BY <1>2 DEF TypeOK, CallsTyped, AttachedPCs, OwnersDistinct
<1>8. OwnedIsLive'
  BY <1>1, <1>2, <1>3, <1>5 DEF TypeOK, OwnedIsLive, OwnersDistinct
<1>9. HoldsLock'
  <2> SUFFICES ASSUME NEW u \in Calls, pc'[u] \in LockedPCs, sess'[u] # NoSession
               PROVE  locks'[sess'[u]][Target(u)'] > 0
    BY DEF HoldsLock
  <2>1. u # t
    BY <1>2 DEF TypeOK, LockedPCs
  <2>2. /\ sess'[u] = sess[u] /\ pc'[u] = pc[u] /\ Target(u)' = Target(u)
        /\ sess[u] \in Sessions /\ Target(u) \in Targets /\ sess[u] # sess[t]
    BY <1>2, <2>1 DEF TypeOK, CallsTyped, Target, LockedPCs, OwnersDistinct
  <2> QED
    BY <1>4, <2>2 DEF HoldsLock
<1>10. RowKnown'
  BY <1>2 DEF TypeOK, CallsTyped, RowKnown, WriterPCs, Row
<1> QED
  BY <1>6, <1>7, <1>8, <1>9, <1>10

(* The end of a session that no call has: its locks are nobody's.          *)
LEMMA BaseSessionEnds ==
    ASSUME BaseInv, NEW s \in Sessions, CloseSuspect(s) \/ BackendExit(s)
    PROVE  BaseInv'
<1> USE ConstantsAssumption DEF db, pool, request, BaseInv
<1>1. /\ \A u \in Calls : sess[u] # s
      /\ locks' = [locks EXCEPT ![s] = [o \in Targets |-> 0]]
      /\ suspect' = suspect \ {s}
      /\ zombies' \in {zombies, zombies \ {s}}
      /\ UNCHANGED <<ledger, pc, sess, kind, plan, seen, report, acked>>
  BY DEF CloseSuspect, BackendExit, Idle, OwnedIsLive
<1>2. /\ running' \in [Sessions -> Plans \cup {NoPlan}]
      /\ executed' \in [Names -> BOOLEAN]
  <2>1. CASE CloseSuspect(s)
    BY <2>1 DEF CloseSuspect, TypeOK
  <2>2. CASE BackendExit(s) /\ running[s] = NoPlan
    BY <2>2 DEF BackendExit, TypeOK
  <2>3. CASE BackendExit(s) /\ running[s] # NoPlan
    <3>1. PICK d \in BOOLEAN : executed' = [executed EXCEPT ![NameOf[running[s]]] = d]
      BY <2>3 DEF BackendExit
    <3> QED
      BY <2>3, <3>1 DEF BackendExit, TypeOK
  <2> QED
    BY <2>1, <2>2, <2>3
<1>3. TypeOK'
  BY <1>1, <1>2 DEF TypeOK
<1>4. CallsTyped' /\ OwnersDistinct' /\ OwnedIsLive'
  BY <1>1 DEF TypeOK, CallsTyped, OwnersDistinct, OwnedIsLive
<1>5. HoldsLock'
  BY <1>1 DEF TypeOK, HoldsLock, Target
<1>6. RowKnown'
  BY <1>1 DEF RowKnown, Row
<1> QED
  BY <1>3, <1>4, <1>5, <1>6

(* A crash leaves calls without plan and session: nothing to hold.         *)
LEMMA BaseCrash == BaseInv /\ Crash => BaseInv'
BY ConstantsAssumption
   DEF Crash, BaseInv, TypeOK, CallsTyped, OwnersDistinct, OwnedIsLive, HoldsLock,
       RowKnown, WriterPCs, LockedPCs, AttachedPCs, PCs, Reports, AllKinds, db

(* The strengthened type invariant is inductive.                           *)
LEMMA BaseStep == BaseInv /\ [Next]_vars => BaseInv'
<1> SUFFICES ASSUME BaseInv, [Next]_vars PROVE BaseInv'
  OBVIOUS
<1>1. CASE \E t \in Calls : Begin(t)
  BY <1>1, BaseBegin
<1>2. ASSUME NEW t \in Calls, NEW r \in Answers(t),
             AcquireLock(t, r) \/ Apply(t, r) \/ Reconcile(t, r)
      PROVE  BaseInv'
  BY <1>2, BaseAcquireLock, BaseReadRow, BaseInspectTarget, BaseRecordRunning,
     BaseCommandReturns, BaseFinishRecord, BaseRecordFailure, BaseRecordCancelled,
     BaseReadStored, BaseResolve DEF Apply, Reconcile
<1>3. ASSUME NEW t \in Calls, SendCommand(t) \/ Decide(t) \/ Cleanup(t)
      PROVE  BaseInv'
  BY <1>3, BaseSendCommand, BaseDecide, BaseCleanup
<1>4. CASE \E s \in Sessions : CloseSuspect(s) \/ BackendExit(s)
  BY <1>4, BaseSessionEnds
<1>5. CASE Crash
  BY <1>5, BaseCrash
<1>6. CASE UNCHANGED vars
  BY <1>6 DEF vars, db, pool, request, BaseInv, TypeOK, CallsTyped, OwnersDistinct,
     OwnedIsLive, HoldsLock, RowKnown, Target, Row
<1> QED
  BY <1>1, <1>2, <1>3, <1>4, <1>5, <1>6 DEF Next, Step

(* TypeOK holds for every number of calls and sessions.  It is not         *)
(* inductive alone: an unlock must know that it holds the lock, a status   *)
(* write that its row exists.                                              *)
THEOREM TypeCorrect == Spec => []TypeOK
<1>1. Spec => []BaseInv
  BY BaseInit, BaseStep, PTL DEF Spec
<1>2. BaseInv => TypeOK
  BY DEF BaseInv
<1> QED
  BY <1>1, <1>2, PTL

-----------------------------------------------------------------------------
(* Mutual exclusion: the lock of a target has at most one session, and a   *)
(* backend that executes a command holds the lock of its target, whether   *)
(* its client is still there or not.                                       *)
LockExclusive ==
    \A s1, s2 \in Sessions, o \in Targets :
        locks[s1][o] > 0 /\ locks[s2][o] > 0 => s1 = s2
RunningHoldsLock ==
    \A s \in Sessions :
        running[s] # NoPlan => locks[s][TargetOf[running[s]]] > 0
RunningIsOwned ==
    \A s \in Sessions :
        running[s] # NoPlan =>
            \/ s \in zombies
            \/ \E t \in Calls : sess[t] = s /\ pc[t] = "executing"
ExecutingRuns == \A t \in Calls : pc[t] = "executing" => running[sess[t]] = plan[t]

LockInv == LockExclusive /\ RunningHoldsLock /\ RunningIsOwned /\ ExecutingRuns

(* No command runs and no lock is held initially.                          *)
LEMMA LockInit == Init => LockInv
BY ConstantsAssumption
   DEF Init, LockInv, LockExclusive, RunningHoldsLock, RunningIsOwned, ExecutingRuns

(* A statement that neither takes a lock nor starts or ends a command.     *)
LEMMA LockQuiet ==
    ASSUME BaseInv, LockInv, NEW t \in Calls, NEW r \in Answers(t), Detach(t, r),
           UNCHANGED <<locks, running, plan>>, NEW l \in PCs \ {"executing"},
           pc' = [pc EXCEPT ![t] = l], pc[t] # "executing"
    PROVE  LockInv'
<1>1. LockExclusive' /\ RunningHoldsLock'
  BY DEF LockInv, LockExclusive, RunningHoldsLock
<1>2. RunningIsOwned'
  BY DetachLemma DEF BaseInv, TypeOK, LockInv, RunningIsOwned
<1>3. ExecutingRuns'
  BY DetachLemma DEF BaseInv, TypeOK, LockInv, ExecutingRuns
<1> QED
  BY <1>1, <1>2, <1>3 DEF LockInv

(* AcquireLock preserves mutual exclusion.                                 *)
LEMMA LockAcquire ==
    ASSUME BaseInv, LockInv, NEW t \in Calls, NEW r \in Answers(t), AcquireLock(t, r)
    PROVE  LockInv'
<1> USE ConstantsAssumption DEF Goto, Leave, request
<1>1. /\ Detach(t, r) /\ pc[t] = "lock" /\ UNCHANGED <<running, plan>>
      /\ sess[t] \in Sessions /\ Target(t) \in Targets
      /\ locks \in [Sessions -> [Targets -> Nat]]
      /\ running \in [Sessions -> Plans \cup {NoPlan}]
  BY DEF AcquireLock, BaseInv, TypeOK, CallsTyped, AttachedPCs, Target
<1>2. PICK l \in PCs \ {"executing"} : pc' = [pc EXCEPT ![t] = l]
  BY DEF AcquireLock, PCs
<1>3. CASE ~Granted(t, r)
  <2>1. locks' = locks
    BY <1>3 DEF AcquireLock
  <2> QED
    BY <1>1, <1>2, <2>1, LockQuiet
<1>4. CASE Granted(t, r)
  <2>1. locks' = SetHold(sess[t], Target(t), locks[sess[t]][Target(t)] + 1)
    BY <1>4 DEF AcquireLock
  <2>2. locks[sess[t]][Target(t)] + 1 \in Nat /\ locks[sess[t]][Target(t)] + 1 > 0
    BY <1>1
  <2>3. /\ locks'[sess[t]][Target(t)] > 0
        /\ \A s2 \in Sessions, o2 \in Targets :
             s2 # sess[t] \/ o2 # Target(t) => locks'[s2][o2] = locks[s2][o2]
    <3> DEFINE n == locks[sess[t]][Target(t)] + 1
    <3>1. n \in Nat /\ n > 0 /\ locks' = SetHold(sess[t], Target(t), n)
      BY <2>1, <2>2
    <3> HIDE DEF n
    <3>2. locks'[sess[t]][Target(t)] = n
      BY <1>1, <3>1, SetHoldLemma
    <3>3. \A s2 \in Sessions, o2 \in Targets :
            s2 # sess[t] \/ o2 # Target(t) => locks'[s2][o2] = locks[s2][o2]
      BY <1>1, <3>1, SetHoldLemma
    <3> QED
      BY <3>1, <3>2, <3>3
  <2>4. \A s2 \in Sessions \ {sess[t]} : locks[s2][Target(t)] = 0
    BY <1>4 DEF Granted, Free
  <2>5. LockExclusive'
    BY <1>1, <2>3, <2>4 DEF LockInv, LockExclusive
  <2>6. RunningHoldsLock'
    BY <1>1, <2>3 DEF LockInv, RunningHoldsLock
  <2>7. RunningIsOwned'
    BY <1>1, <1>2, DetachLemma DEF BaseInv, TypeOK, LockInv, RunningIsOwned
  <2>8. ExecutingRuns'
    BY <1>1, <1>2, DetachLemma DEF BaseInv, TypeOK, LockInv, ExecutingRuns
  <2> QED
    BY <2>5, <2>6, <2>7, <2>8 DEF LockInv
<1> QED
  BY <1>3, <1>4

(* SendCommand preserves mutual exclusion.                                 *)
LEMMA LockSend ==
    ASSUME BaseInv, LockInv, NEW t \in Calls, SendCommand(t)
    PROVE  LockInv'
<1> USE DEF BaseInv, TypeOK, LockInv
<1>1. /\ sess[t] \in Sessions /\ pc[t] = "execute" /\ pc' = [pc EXCEPT ![t] = "executing"]
      /\ running' = [running EXCEPT ![sess[t]] = plan[t]]
      /\ UNCHANGED <<locks, zombies, sess, plan>>
      /\ locks[sess[t]][TargetOf[plan[t]]] > 0
  BY DEF SendCommand, Goto, pool, request, CallsTyped, AttachedPCs, HoldsLock, LockedPCs, Target
<1>2. LockExclusive'
  BY <1>1 DEF LockExclusive
<1>3. RunningHoldsLock'
  BY <1>1 DEF RunningHoldsLock
<1>4. RunningIsOwned'
  BY <1>1 DEF RunningIsOwned
<1>5. ExecutingRuns'
  BY <1>1 DEF ExecutingRuns, OwnersDistinct, CallsTyped, AttachedPCs
<1> QED
  BY <1>2, <1>3, <1>4, <1>5

(* CommandReturns preserves mutual exclusion.                              *)
LEMMA LockReturns ==
    ASSUME BaseInv, LockInv, NEW t \in Calls, NEW r \in Answers(t), CommandReturns(t, r)
    PROVE  LockInv'
<1> USE DEF BaseInv, TypeOK, LockInv
<1>1. /\ Detach(t, r) /\ pc[t] = "executing" /\ sess[t] \in Sessions
      /\ UNCHANGED <<locks, plan>>
      /\ Lost(r) => running' = running
      /\ ~Lost(r) => running' = [running EXCEPT ![sess[t]] = NoPlan]
  BY DEF CommandReturns, request, CallsTyped, AttachedPCs
<1>2. PICK l \in PCs \ {"executing"} : pc' = [pc EXCEPT ![t] = l]
  <2>1. {"finish", "cancelled", "fail"} \subseteq PCs \ {"executing"}
    BY DEF PCs
  <2> QED
    BY <2>1 DEF CommandReturns, Goto
<1>3. LockExclusive' /\ RunningHoldsLock'
  BY <1>1 DEF LockExclusive, RunningHoldsLock
<1>4. RunningIsOwned'
  BY <1>1, <1>2, DetachLemma, SMTT(20) DEF RunningIsOwned
<1>5. ExecutingRuns'
  BY <1>1, <1>2, DetachLemma DEF ExecutingRuns, OwnersDistinct, CallsTyped, AttachedPCs
<1> QED
  BY <1>3, <1>4, <1>5

(* Begin preserves mutual exclusion.                                       *)
LEMMA LockBegin ==
    ASSUME BaseInv, LockInv, NEW t \in Calls, Begin(t)
    PROVE  LockInv'
<1> USE DEF BaseInv, TypeOK, LockInv
<1>1. /\ pc[t] = "idle" /\ sess[t] = NoSession
      /\ \E l \in {"lock", "read_stored"} : pc' = [pc EXCEPT ![t] = l]
      /\ \E s \in Sessions : sess' = [sess EXCEPT ![t] = s]
      /\ \E p \in Plans : plan' = [plan EXCEPT ![t] = p]
      /\ UNCHANGED <<locks, running, zombies>>
  BY DEF Begin, Goto, db, pool, CallsTyped
<1>2. LockExclusive' /\ RunningHoldsLock'
  BY <1>1 DEF LockExclusive, RunningHoldsLock
<1>3. RunningIsOwned'
  BY <1>1, ConstantsAssumption DEF RunningIsOwned
<1>4. ExecutingRuns'
  BY <1>1 DEF ExecutingRuns
<1> QED
  BY <1>2, <1>3, <1>4

(* The session of a call that cleans up executes nothing, so the lock it   *)
(* gives back protects no command.                                         *)
LEMMA LockCleanup ==
    ASSUME BaseInv, LockInv, NEW t \in Calls, Cleanup(t)
    PROVE  LockInv'
<1> USE DEF BaseInv, TypeOK, LockInv
<1>1. PICK r : /\ r \in Answers(t) \cup (IF sess[t] = NoSession THEN {} ELSE {"refused_done"})
               /\ locks' = IF pc[t] = "unlock" /\ Done(r)
                             THEN SetHold(sess[t], Target(t), locks[sess[t]][Target(t)] - 1)
                             ELSE locks
               /\ zombies' = IF Lost(r) THEN zombies \cup {sess[t]} ELSE zombies
  BY DEF Cleanup
<1>2. /\ pc[t] \in {"unlock", "reset"} /\ Target(t) \in Targets
      /\ sess' = [sess EXCEPT ![t] = NoSession]
      /\ pc' = [pc EXCEPT ![t] = "idle"]
      /\ plan' = [plan EXCEPT ![t] = NoPlan]
      /\ running' = running
  BY ConstantsAssumption DEF Cleanup, CallsTyped, Target, Goto, Leave
<1>3. Done(r) \/ Lost(r) => sess[t] \in Sessions
  BY <1>1 DEF Answers, Done, Lost
<1>4. /\ \A s \in Sessions, o \in Targets : s # sess[t] => locks'[s][o] = locks[s][o]
      /\ \A s \in Sessions, o \in Targets : locks'[s][o] > 0 => locks[s][o] > 0
  <2>1. CASE pc[t] = "unlock" /\ Done(r)
    <3>1. locks' = SetHold(sess[t], Target(t), locks[sess[t]][Target(t)] - 1)
      BY <1>1, <2>1
    <3>2. sess[t] \in Sessions /\ locks[sess[t]][Target(t)] > 0
      BY <1>3, <2>1, ConstantsAssumption DEF HoldsLock, LockedPCs
    <3>3. locks[sess[t]][Target(t)] - 1 \in Nat
      BY <1>2, <3>2
    <3>4. \A s \in Sessions, o \in Targets :
            s # sess[t] \/ o # Target(t) => locks'[s][o] = locks[s][o]
      BY <1>2, <3>1, <3>2, <3>3, SetHoldLemma
    <3> QED
      BY <3>2, <3>4
  <2>2. CASE ~(pc[t] = "unlock" /\ Done(r))
    BY <1>1, <2>2
  <2> QED
    BY <2>1, <2>2
<1>5. sess[t] \in Sessions => running[sess[t]] = NoPlan
  BY <1>2, ConstantsAssumption DEF RunningIsOwned, OwnersDistinct, OwnedIsLive
<1>6. LockExclusive'
  BY <1>4 DEF LockExclusive
<1>7. RunningHoldsLock'
  BY <1>2, <1>4, <1>5, ConstantsAssumption DEF RunningHoldsLock
<1>8. RunningIsOwned'
  BY <1>1, <1>2, <1>5 DEF RunningIsOwned
<1>9. ExecutingRuns'
  BY <1>2 DEF ExecutingRuns
<1> QED
  BY <1>6, <1>7, <1>8, <1>9

(* A session that ends preserves mutual exclusion.                         *)
LEMMA LockSessionEnds ==
    ASSUME BaseInv, LockInv, NEW s \in Sessions, CloseSuspect(s) \/ BackendExit(s)
    PROVE  LockInv'
<1> USE DEF BaseInv, TypeOK, LockInv
<1>1. /\ \A u \in Calls : sess[u] # s
      /\ locks' = [locks EXCEPT ![s] = [o \in Targets |-> 0]]
      /\ zombies' \in {zombies, zombies \ {s}}
      /\ UNCHANGED <<pc, sess, plan>>
  BY DEF CloseSuspect, BackendExit, Idle, OwnedIsLive, request
<1>2. running' = [running EXCEPT ![s] = NoPlan]
  BY <1>1 DEF CloseSuspect, BackendExit, Idle, RunningIsOwned
<1>3. LockExclusive'
  BY <1>1 DEF LockExclusive
<1>4. RunningHoldsLock'
  BY <1>1, <1>2, ConstantsAssumption DEF RunningHoldsLock
<1>5. RunningIsOwned'
  BY <1>1, <1>2 DEF RunningIsOwned
<1>6. ExecutingRuns'
  BY <1>1, <1>2 DEF ExecutingRuns
<1> QED
  BY <1>3, <1>4, <1>5, <1>6

(* Crash preserves mutual exclusion.                                       *)
LEMMA LockCrash == BaseInv /\ LockInv /\ Crash => LockInv'
BY DEF Crash, BaseInv, TypeOK, LockInv, LockExclusive, RunningHoldsLock,
       RunningIsOwned, ExecutingRuns, db

(* The remaining statements are quiet.                                     *)
LEMMA LockStatement ==
    ASSUME BaseInv, LockInv, NEW t \in Calls, NEW r \in Answers(t),
           \/ ReadRow(t, r) \/ InspectTarget(t, r) \/ RecordRunning(t, r)
           \/ FinishRecord(t, r) \/ RecordFailure(t, r) \/ RecordCancelled(t, r)
           \/ ReadStored(t, r) \/ Resolve(t, r)
    PROVE  LockInv'
<1>1. Detach(t, r) /\ UNCHANGED <<locks, running, plan>> /\ pc[t] # "executing"
  BY DEF ReadRow, InspectTarget, RecordRunning, FinishRecord, RecordFailure,
         RecordCancelled, ReadStored, Resolve, db, request
<1>2. \E l \in PCs \ {"executing"} : pc' = [pc EXCEPT ![t] = l]
  <2>1. {"inspect", "record", "execute", "unlock", "reset", "lock", "cancelled",
         "fail_completed"} \subseteq PCs \ {"executing"}
    BY DEF PCs
  <2> QED
    BY <2>1 DEF ReadRow, InspectTarget, RecordRunning, FinishRecord, RecordFailure,
         RecordCancelled, ReadStored, Resolve, Goto, Leave
<1> QED
  BY <1>1, <1>2, LockQuiet

(* Every step preserves mutual exclusion.                                  *)
LEMMA LockStep == BaseInv /\ LockInv /\ [Next]_vars => LockInv'
<1> SUFFICES ASSUME BaseInv, LockInv, [Next]_vars PROVE LockInv'
  OBVIOUS
<1>1. CASE \E t \in Calls : Begin(t)
  BY <1>1, LockBegin
<1>2. ASSUME NEW t \in Calls, NEW r \in Answers(t),
             AcquireLock(t, r) \/ Apply(t, r) \/ Reconcile(t, r)
      PROVE  LockInv'
  BY <1>2, LockAcquire, LockReturns, LockStatement DEF Apply, Reconcile
<1>3. ASSUME NEW t \in Calls, SendCommand(t) \/ Cleanup(t)
      PROVE  LockInv'
  BY <1>3, LockSend, LockCleanup
<1>4. ASSUME NEW t \in Calls, Decide(t) PROVE LockInv'
  BY <1>4 DEF Decide, Leave, Goto, db, pool, request, BaseInv, TypeOK, LockInv,
     LockExclusive, RunningHoldsLock, RunningIsOwned, ExecutingRuns
<1>5. CASE \E s \in Sessions : CloseSuspect(s) \/ BackendExit(s)
  BY <1>5, LockSessionEnds
<1>6. CASE Crash
  BY <1>6, LockCrash
<1>7. CASE UNCHANGED vars
  BY <1>7 DEF vars, db, pool, request, LockInv, LockExclusive, RunningHoldsLock,
     RunningIsOwned, ExecutingRuns
<1> QED
  BY <1>1, <1>2, <1>3, <1>4, <1>5, <1>6, <1>7 DEF Next, Step

(* At most one backend executes a command on a target, also when calls are *)
(* cancelled, connections are lost and the server process dies.            *)
THEOREM MutualExclusion == Spec => []OneCommandPerTarget
<1>1. Spec => [](BaseInv /\ LockInv)
  BY BaseInit, BaseStep, LockInit, LockStep, PTL DEF Spec
<1>2. BaseInv /\ LockInv => OneCommandPerTarget
  <2> SUFFICES ASSUME BaseInv, LockInv, NEW s1 \in Sessions, NEW s2 \in Sessions,
                      running[s1] # NoPlan, running[s2] # NoPlan,
                      TargetOf[running[s1]] = TargetOf[running[s2]]
               PROVE  s1 = s2
    BY DEF OneCommandPerTarget
  <2>1. TargetOf[running[s1]] \in Targets
    BY ConstantsAssumption DEF BaseInv, TypeOK
  <2> QED
    BY <2>1 DEF LockInv, LockExclusive, RunningHoldsLock
<1> QED
  BY <1>1, <1>2, PTL

-----------------------------------------------------------------------------
(* The ledger tells the truth: what a call knows of its row and of its     *)
(* command stays so while it acts, since every other writer of the row     *)
(* needs the lock the call holds.                                          *)
CallRow(t) ==
    /\ pc[t] = "execute" => Row(t).status = "running" /\ ~executed[NameOf[plan[t]]]
    /\ pc[t] = "finish" => executed[NameOf[plan[t]]]
    /\ pc[t] = "fail" /\ sess[t] # NoSession => ~executed[NameOf[plan[t]]]
    /\ pc[t] \in {"inspect", "record"} =>
         seen[t] = "absent" \/ (seen[t] \in TerminalFailure /\ Row(t).status = seen[t])

RunningRow(s) ==
    running[s] # NoPlan =>
        /\ ledger[NameOf[running[s]]] = [plan |-> running[s], status |-> "running"]
        /\ ~executed[NameOf[running[s]]]

TrueRow(n) ==
    /\ ledger[n].status = "succeeded" => executed[n]
    /\ ledger[n].status \in {"failed", "absent"} => ~executed[n]

RowInv ==
    /\ \A t \in Calls : CallRow(t)
    /\ \A s \in Sessions : RunningRow(s)
    /\ \A n \in Names : TrueRow(n)

(* Init establishes the truth of the ledger.                               *)
LEMMA RowInit == Init => RowInv
BY DEF Init, RowInv, CallRow, RunningRow, TrueRow, NoRow

(* A call that may write a row is alone with it.                           *)
LEMMA AloneLemma ==
    ASSUME BaseInv, LockInv, RowInv, NEW t \in Calls,
           pc[t] \in LockedPCs, sess[t] # NoSession,
           Row(t).plan = plan[t] \/ Row(t) = NoRow
    PROVE  /\ \A u \in Calls \ {t} :
                \/ pc[u] \in {"execute", "finish"}
                \/ pc[u] = "fail" /\ sess[u] # NoSession
                \/ pc[u] \in {"inspect", "record"} /\ seen[u] # "absent"
                => NameOf[plan[u]] # NameOf[plan[t]]
           /\ \A s \in Sessions :
                running[s] # NoPlan /\ (pc[t] # "executing" \/ s # sess[t])
                => NameOf[running[s]] # NameOf[plan[t]]
<1> USE ConstantsAssumption DEF BaseInv, TypeOK
<1>1. /\ plan[t] \in Plans /\ sess[t] \in Sessions /\ Target(t) \in Targets
      /\ locks[sess[t]][Target(t)] > 0 /\ sess[t] \notin zombies
  BY DEF CallsTyped, HoldsLock, LockedPCs, Target, OwnedIsLive
<1>2. ASSUME NEW s \in Sessions, running[s] = plan[t]
      PROVE  s = sess[t] /\ pc[t] = "executing"
  <2>1. locks[s][Target(t)] > 0
    BY <1>1, <1>2 DEF LockInv, RunningHoldsLock, Target
  <2>2. s = sess[t]
    BY <1>1, <2>1 DEF LockInv, LockExclusive
  <2> QED
    BY <1>1, <1>2, <2>2 DEF LockInv, RunningIsOwned, OwnersDistinct
<1>3. ASSUME NEW u \in Calls \ {t}, pc[u] \in LockedPCs, sess[u] # NoSession,
             plan[u] = plan[t]
      PROVE  FALSE
  <2>1. locks[sess[u]][Target(t)] > 0 /\ sess[u] \in Sessions
    BY <1>3 DEF HoldsLock, Target
  <2>2. sess[u] = sess[t]
    BY <1>1, <2>1 DEF LockInv, LockExclusive
  <2> QED
    BY <1>1, <1>3, <2>2 DEF OwnersDistinct
<1>4. ASSUME NEW u \in Calls \ {t},
             \/ pc[u] \in {"execute", "finish"}
             \/ pc[u] = "fail" /\ sess[u] # NoSession
             \/ pc[u] \in {"inspect", "record"} /\ seen[u] # "absent",
             NameOf[plan[u]] = NameOf[plan[t]]
      PROVE  FALSE
  <2>1. Row(u).plan = plan[u] /\ plan[u] \in Plans
    BY <1>4 DEF RowKnown, WriterPCs, CallsTyped
  <2>2. Row(u) = Row(t)
    BY <1>4 DEF Row
  <2>3. plan[u] = plan[t]
    BY <2>1, <2>2 DEF NoRow
  <2>4. sess[u] # NoSession /\ pc[u] \in LockedPCs
    BY <1>4 DEF CallsTyped, AttachedPCs, LockedPCs
  <2> QED
    BY <1>3, <2>3, <2>4
<1>5. ASSUME NEW s \in Sessions, running[s] # NoPlan, pc[t] # "executing" \/ s # sess[t],
             NameOf[running[s]] = NameOf[plan[t]]
      PROVE  FALSE
  <2>1. ledger[NameOf[running[s]]] = [plan |-> running[s], status |-> "running"]
    BY <1>5 DEF RowInv, RunningRow
  <2>2. Row(t).plan = running[s] /\ running[s] \in Plans
    BY <1>5, <2>1 DEF Row
  <2> QED
    BY <1>2, <1>5, <2>2 DEF NoRow
<1> QED
  BY <1>4, <1>5

(* So what it writes disturbs no other call, backend or row.               *)
LEMMA RowFrame ==
    ASSUME BaseInv, LockInv, RowInv, NEW t \in Calls, NEW r \in Answers(t), Detach(t, r),
           pc[t] \in LockedPCs \ {"executing"},
           \/ ledger' = ledger /\ executed' = executed
           \/ /\ sess[t] # NoSession
              /\ Row(t).plan = plan[t] \/ Row(t) = NoRow,
           \A m \in Names : m # NameOf[plan[t]] =>
              ledger'[m] = ledger[m] /\ executed'[m] = executed[m],
           \A u \in Calls : u # t => pc'[u] = pc[u] /\ seen'[u] = seen[u],
           UNCHANGED <<running, plan>>,
           CallRow(t)', TrueRow(NameOf[plan[t]])'
    PROVE  RowInv'
<1> USE DEF BaseInv, TypeOK
<1>1. CASE ledger' = ledger /\ executed' = executed
  <2>1. \A u \in Calls : u # t => CallRow(u)'
    BY <1>1, DetachLemma DEF RowInv, CallRow, Row
  <2>2. \A s \in Sessions : RunningRow(s)'
    BY <1>1 DEF RowInv, RunningRow
  <2>3. \A n \in Names : TrueRow(n)'
    BY <1>1 DEF RowInv, TrueRow
  <2> QED
    BY <2>1, <2>2, <2>3 DEF RowInv
<1>2. CASE ~(ledger' = ledger /\ executed' = executed)
  <2>1. \A u \in Calls : u # t => CallRow(u)'
    <3> SUFFICES ASSUME NEW u \in Calls, u # t PROVE CallRow(u)'
      OBVIOUS
    <3>1. /\ pc'[u] = pc[u] /\ seen'[u] = seen[u] /\ sess'[u] = sess[u] /\ plan'[u] = plan[u]
      BY DetachLemma
    <3>2. pc[u] # "idle" => NameOf[plan[u]] \in Names
      BY ConstantsAssumption DEF CallsTyped
    <3>3. \/ pc[u] \in {"execute", "finish"}
          \/ pc[u] = "fail" /\ sess[u] # NoSession
          \/ pc[u] \in {"inspect", "record"} /\ seen[u] # "absent"
          => /\ ledger'[NameOf[plan[u]]] = ledger[NameOf[plan[u]]]
             /\ executed'[NameOf[plan[u]]] = executed[NameOf[plan[u]]]
      BY <1>2, <3>2, AloneLemma
    <3> QED
      BY <3>1, <3>3 DEF RowInv, CallRow, Row
  <2>2. \A s \in Sessions : RunningRow(s)'
    <3> SUFFICES ASSUME NEW s \in Sessions, running[s] # NoPlan PROVE RunningRow(s)'
      BY DEF RunningRow
    <3>1. NameOf[running[s]] \in Names /\ NameOf[running[s]] # NameOf[plan[t]]
      BY <1>2, AloneLemma, ConstantsAssumption
    <3> QED
      BY <3>1 DEF RowInv, RunningRow
  <2>3. \A n \in Names : TrueRow(n)'
    BY DEF RowInv, TrueRow
  <2> QED
    BY <2>1, <2>2, <2>3 DEF RowInv
<1> QED
  BY <1>1, <1>2

(* A plain statement preserves the truth of the ledger.                    *)
LEMMA RowStatement ==
    ASSUME BaseInv, LockInv, RowInv, NEW t \in Calls, NEW r \in Answers(t),
           \/ ReadRow(t, r) \/ InspectTarget(t, r) \/ RecordRunning(t, r)
           \/ FinishRecord(t, r) \/ RecordFailure(t, r) \/ RecordCancelled(t, r)
           \/ Resolve(t, r)
    PROVE  RowInv'
<1> USE DEF Goto, Leave, request, db
<1> DEFINE n == NameOf[plan[t]]
<1>1. /\ Detach(t, r) /\ pc[t] \in LockedPCs \ {"executing"}
      /\ \A u \in Calls : u # t => pc'[u] = pc[u] /\ seen'[u] = seen[u]
      /\ UNCHANGED <<running, plan>>
  BY DEF ReadRow, InspectTarget, RecordRunning, FinishRecord, RecordFailure,
         RecordCancelled, Resolve, LockedPCs, BaseInv, TypeOK
<1>2. /\ plan[t] \in Plans /\ n \in Names /\ ledger \in [Names -> Rows]
      /\ executed \in [Names -> BOOLEAN] /\ pc \in [Calls -> PCs] /\ r \in Replies
      /\ seen \in [Calls -> Statuses \cup {"absent", "unread"}]
      /\ CallRow(t) /\ TrueRow(n)
  BY <1>1, DetachLemma, ConstantsAssumption DEF BaseInv, TypeOK, CallsTyped, LockedPCs, RowInv
<1>3. CASE ReadRow(t, r)
  <2>1. ledger' = ledger /\ executed' = executed
    BY <1>3 DEF ReadRow
  <2>2. \/ pc'[t] = "unlock"
        \/ /\ pc'[t] = "inspect" /\ seen'[t] = Row(t).status
           /\ Row(t).status \in TerminalFailure \cup {"absent"}
    BY <1>2, <1>3 DEF ReadRow
  <2>3. CallRow(t)'
    BY <1>1, <2>1, <2>2 DEF CallRow, Row
  <2> QED
    BY <1>1, <1>2, <2>1, <2>3, RowFrame DEF TrueRow
<1>4. CASE InspectTarget(t, r)
  <2>1. ledger' = ledger /\ executed' = executed /\ seen' = seen /\ pc[t] = "inspect"
    BY <1>4 DEF InspectTarget
  <2>2. pc'[t] \in {"record", "unlock"}
    BY <1>2, <1>4 DEF InspectTarget
  <2>3. CallRow(t)'
    BY <1>1, <1>2, <2>1, <2>2 DEF CallRow, Row
  <2> QED
    BY <1>1, <1>2, <2>1, <2>3, RowFrame DEF TrueRow
<1>5. CASE RecordRunning(t, r)
  <2>1. /\ pc[t] = "record" /\ seen' = seen
        /\ \/ pc'[t] = "execute" /\ Done(r)
           \/ pc'[t] = "unlock"
    BY <1>2, <1>5 DEF RecordRunning, Done
  <2>2. CASE ~Done(r)
    <3>1. ledger' = ledger /\ executed' = executed
      BY <1>5, <2>2 DEF RecordRunning
    <3> QED
      BY <1>1, <1>2, <2>1, <2>2, <3>1, RowFrame DEF TrueRow, CallRow
  <2>3. CASE Done(r)
    <3>1. executed' = [executed EXCEPT ![n] = FALSE] /\ sess[t] # NoSession
      BY <1>5, <2>1, <2>3 DEF RecordRunning, BaseInv, CallsTyped, AttachedPCs
    <3>2. \/ /\ seen[t] = "absent" /\ Row(t) = NoRow
             /\ ledger' = [ledger EXCEPT ![n] = [plan |-> plan[t], status |-> "running"]]
          \/ /\ Row(t).plan = plan[t]
             /\ ledger' = SetStatus(n, "running")
      BY <1>5, <2>1, <2>3 DEF RecordRunning, BaseInv, RowKnown
    <3>3. /\ Row(t).plan = plan[t] \/ Row(t) = NoRow
          /\ \A m \in Names : m # n => ledger'[m] = ledger[m]
          /\ ledger'[n].status = "running"
      BY <1>2, <3>2 DEF SetStatus
    <3>4. ledger'[n].status = "running" /\ ~executed'[n] /\ plan' = plan
      BY <1>1, <1>2, <3>1, <3>3
    <3>5. CallRow(t)'
      BY <2>1, <3>4 DEF CallRow, Row
    <3>6. TrueRow(n)'
      BY <3>4 DEF TrueRow
    <3> QED
      BY <1>1, <1>2, <3>1, <3>3, <3>5, <3>6, RowFrame
  <2> QED
    BY <2>2, <2>3
<1>6. CASE FinishRecord(t, r) \/ RecordFailure(t, r) \/ RecordCancelled(t, r) \/ Resolve(t, r)
  <2>1. /\ executed' = executed
        /\ pc'[t] \in {"unlock", "cancelled", "fail_completed"}
        /\ pc[t] \in WriterPCs
    BY <1>2, <1>6 DEF FinishRecord, RecordFailure, RecordCancelled, Resolve, WriterPCs
  <2>2. CallRow(t)'
    BY <2>1 DEF CallRow
  <2>3. CASE ~Done(r)
    <3>1. ledger' = ledger
      BY <1>6, <2>3 DEF FinishRecord, RecordFailure, RecordCancelled, Resolve
    <3> QED
      BY <1>1, <1>2, <2>1, <2>2, <3>1, RowFrame DEF TrueRow
  <2>4. CASE Done(r)
    <3>1. Row(t).plan = plan[t] /\ sess[t] # NoSession
      BY <1>1, <2>1, <2>4, DetachLemma, ConstantsAssumption DEF BaseInv, RowKnown
    <3>2. \E st \in Statuses :
            /\ ledger' = SetStatus(n, st)
            /\ st = "succeeded" => pc[t] = "finish"
            /\ st = "failed" => pc[t] = "fail"
      <4>1. {"succeeded", "failed", "unknown", "reconciled_succeeded", "reconciled_failed"}
              \subseteq Statuses
        BY DEF Statuses, TerminalSuccess, TerminalFailure, Unresolved
      <4> QED
        BY <1>6, <2>4, <4>1
           DEF FinishRecord, RecordFailure, RecordCancelled, Resolve, Resolution
    <3>3. PICK st \in Statuses :
            /\ ledger' = SetStatus(n, st)
            /\ st = "succeeded" => pc[t] = "finish"
            /\ st = "failed" => pc[t] = "fail"
      BY <3>2
    <3>4. ledger'[n].status = st /\ \A m \in Names : m # n => ledger'[m] = ledger[m]
      BY <1>2, <3>3 DEF SetStatus
    <3>5. TrueRow(n)'
      <4>1. ledger'[n].status = st /\ executed'[n] = executed[n] /\ plan' = plan
        BY <1>1, <2>1, <3>4
      <4>2. st = "succeeded" => executed[n]
        BY <1>2, <3>3 DEF CallRow
      <4>3. st = "failed" => ~executed[n]
        BY <1>2, <3>1, <3>3 DEF CallRow
      <4>4. st # "absent"
        BY DEF Statuses, TerminalSuccess, TerminalFailure, Unresolved
      <4> QED
        BY <4>1, <4>2, <4>3, <4>4 DEF TrueRow
    <3> QED
      BY <1>1, <1>2, <2>1, <2>2, <3>1, <3>4, <3>5, RowFrame
  <2> QED
    BY <2>3, <2>4
<1> QED
  BY <1>3, <1>4, <1>5, <1>6

(* Steps that leave ledger and executed alone.                             *)
LEMMA RowUntouched ==
    ASSUME BaseInv, RowInv, UNCHANGED <<ledger, executed>>,
           \A s \in Sessions : running'[s] \in {running[s], NoPlan},
           NEW t \in Calls,
           \A u \in Calls : u # t =>
               /\ pc'[u] = pc[u] /\ plan'[u] = plan[u] /\ seen'[u] = seen[u]
               /\ sess'[u] = sess[u],
           CallRow(t)'
    PROVE  RowInv'
<1>1. \A u \in Calls : u # t => CallRow(u)'
  BY DEF RowInv, CallRow, Row
<1>2. \A s \in Sessions : RunningRow(s)'
  BY DEF RowInv, RunningRow
<1>3. \A n \in Names : TrueRow(n)'
  BY DEF RowInv, TrueRow
<1> QED
  BY <1>1, <1>2, <1>3 DEF RowInv

(* Begin preserves the truth of the ledger.                                *)
LEMMA RowBegin ==
    ASSUME BaseInv, RowInv, NEW t \in Calls, Begin(t) PROVE RowInv'
<1>1. /\ pc'[t] \in {"lock", "read_stored"}
      /\ UNCHANGED <<ledger, executed, running, seen>>
      /\ \A u \in Calls : u # t => pc'[u] = pc[u] /\ plan'[u] = plan[u] /\ sess'[u] = sess[u]
  BY DEF Begin, Goto, db, BaseInv, TypeOK
<1>2. CallRow(t)'
  BY <1>1 DEF CallRow
<1> QED
  BY <1>1, <1>2, RowUntouched

(* AcquireLock preserves the truth of the ledger.                          *)
LEMMA RowLock ==
    ASSUME BaseInv, RowInv, NEW t \in Calls, NEW r \in Answers(t),
           AcquireLock(t, r) \/ ReadStored(t, r)
    PROVE  RowInv'
<1>1. /\ Detach(t, r) /\ pc'[t] \in {"read", "resolve", "reset", "lock"}
      /\ UNCHANGED <<ledger, executed, running, plan>>
      /\ \A u \in Calls : u # t => pc'[u] = pc[u] /\ seen'[u] = seen[u]
  BY DEF AcquireLock, ReadStored, Goto, Leave, db, request, BaseInv, TypeOK
<1>2. CallRow(t)'
  BY <1>1 DEF CallRow
<1> QED
  BY <1>1, <1>2, RowUntouched, DetachLemma

(* SendCommand preserves the truth of the ledger.                          *)
LEMMA RowSend ==
    ASSUME BaseInv, LockInv, RowInv, NEW t \in Calls, SendCommand(t) PROVE RowInv'
<1> USE DEF BaseInv, TypeOK
<1>1. /\ pc[t] = "execute" /\ pc' = [pc EXCEPT ![t] = "executing"]
      /\ running' = [running EXCEPT ![sess[t]] = plan[t]]
      /\ sess[t] \in Sessions /\ plan[t] \in Plans /\ plan[t] # NoPlan
      /\ UNCHANGED <<ledger, executed, sess, plan, seen>>
  BY ConstantsAssumption DEF SendCommand, Goto, pool, request, CallsTyped, AttachedPCs
<1>2. \A u \in Calls : CallRow(u)'
  BY <1>1 DEF RowInv, CallRow, Row
<1>3. \A s \in Sessions : RunningRow(s)'
  <2>1. RunningRow(sess[t])'
    <3>1. Row(t).plan = plan[t] /\ Row(t).status = "running" /\ ~executed[NameOf[plan[t]]]
      BY <1>1 DEF RowInv, CallRow, RowKnown, WriterPCs
    <3>2. Row(t) = [plan |-> plan[t], status |-> "running"]
      <4>1. Row(t) \in Rows
        BY <1>1, ConstantsAssumption DEF Row
      <4> QED
        BY <1>1, <3>1, <4>1 DEF Rows, NoRow
    <3> QED
      BY <1>1, <3>1, <3>2 DEF RunningRow, Row
  <2>2. ASSUME NEW s \in Sessions, s # sess[t] PROVE RunningRow(s)'
    BY <1>1, <2>2 DEF RowInv, RunningRow
  <2>3. ASSUME NEW s \in Sessions, s = sess[t] PROVE RunningRow(s)'
    BY <1>1, <2>1, <2>3 DEF RunningRow
  <2> QED
    BY <2>2, <2>3
<1>4. \A n \in Names : TrueRow(n)'
  BY <1>1 DEF RowInv, TrueRow
<1> QED
  BY <1>2, <1>3, <1>4 DEF RowInv

(* The command's effect is recorded for its own name only, whose row says  *)
(* running.                                                                *)
LEMMA RowReturns ==
    ASSUME BaseInv, LockInv, RowInv, NEW t \in Calls, NEW r \in Answers(t),
           CommandReturns(t, r)
    PROVE  RowInv'
<1> USE DEF BaseInv, TypeOK
<1> DEFINE n == NameOf[plan[t]]
<1>1. /\ Detach(t, r) /\ pc[t] = "executing" /\ plan[t] \in Plans /\ n \in Names
      /\ sess[t] \in Sessions /\ running[sess[t]] = plan[t] /\ plan[t] # NoPlan
      /\ UNCHANGED <<ledger, plan, seen>>
      /\ r \in Replies
      /\ pc' = [pc EXCEPT ![t] = IF r = "ok" THEN "finish"
                                 ELSE IF Cancelled(r) THEN "cancelled" ELSE "fail"]
  BY ConstantsAssumption, DetachLemma
     DEF CommandReturns, Goto, request, CallsTyped, AttachedPCs, LockInv, ExecutingRuns
<1>2. CASE Lost(r)
  <2>1. UNCHANGED <<ledger, executed, running>> /\ sess'[t] = NoSession
    BY <1>1, <1>2, DetachLemma DEF CommandReturns
  <2>2. CallRow(t)'
    BY <1>1, <1>2, <2>1 DEF CallRow, Lost, Cancelled
  <2> QED
    BY <1>1, <2>1, <2>2, RowUntouched, DetachLemma
<1>3. CASE ~Lost(r)
  <2>1. /\ running' = [running EXCEPT ![sess[t]] = NoPlan]
        /\ executed' = [executed EXCEPT ![n] = Done(r)]
        /\ sess' = sess
    BY <1>1, <1>3, DetachLemma DEF CommandReturns
  <2>2. ledger[n] = [plan |-> plan[t], status |-> "running"]
    BY <1>1 DEF RowInv, RunningRow
  <2>3. /\ Row(t).plan = plan[t] /\ sess[t] # NoSession /\ pc[t] \in LockedPCs
    BY <1>1, <2>2, ConstantsAssumption DEF Row, LockedPCs
  <2>4. CallRow(t)'
    BY <1>1, <1>3, <2>1 DEF CallRow, Done, Lost, Cancelled, Replies
  <2>5. ASSUME NEW u \in Calls, u # t PROVE CallRow(u)'
    <3>1. pc[u] # "idle" => NameOf[plan[u]] \in Names
      BY ConstantsAssumption DEF CallsTyped
    <3>2. \/ pc[u] \in {"execute", "finish"}
          \/ pc[u] = "fail" /\ sess[u] # NoSession
          \/ pc[u] \in {"inspect", "record"} /\ seen[u] # "absent"
          => executed'[NameOf[plan[u]]] = executed[NameOf[plan[u]]]
      BY <2>1, <2>3, <2>5, <3>1, AloneLemma
    <3> QED
      BY <1>1, <2>1, <2>5, <3>2 DEF RowInv, CallRow, Row
  <2>6. ASSUME NEW s \in Sessions, running'[s] # NoPlan PROVE RunningRow(s)'
    <3>1. s # sess[t] /\ running'[s] = running[s] /\ running[s] # NoPlan
      BY <2>1, <2>6
    <3>2. NameOf[running[s]] # n /\ NameOf[running[s]] \in Names
      BY <2>3, <3>1, AloneLemma, ConstantsAssumption
    <3> QED
      BY <1>1, <2>1, <3>1, <3>2 DEF RowInv, RunningRow
  <2>7. \A m \in Names : TrueRow(m)'
    BY <1>1, <2>1, <2>2 DEF RowInv, TrueRow
  <2> QED
    BY <2>4, <2>5, <2>6, <2>7 DEF RowInv, RunningRow
<1> QED
  BY <1>2, <1>3

(* Decide preserves the truth of the ledger.                               *)
LEMMA RowDecide ==
    ASSUME BaseInv, RowInv, NEW t \in Calls, Decide(t) PROVE RowInv'
<1>1. /\ pc'[t] = "unlock"
      /\ UNCHANGED <<ledger, executed, running, seen, plan, sess>>
      /\ \A u \in Calls : u # t => pc'[u] = pc[u]
  BY DEF Decide, Goto, Leave, db, request, BaseInv, TypeOK
<1>2. CallRow(t)'
  BY <1>1 DEF CallRow
<1> QED
  BY <1>1, <1>2, RowUntouched

(* Cleanup preserves the truth of the ledger.                              *)
LEMMA RowCleanup ==
    ASSUME BaseInv, RowInv, NEW t \in Calls, Cleanup(t) PROVE RowInv'
<1>1. /\ pc'[t] = "idle"
      /\ UNCHANGED <<ledger, executed, running>>
      /\ \A u \in Calls : u # t => /\ pc'[u] = pc[u] /\ plan'[u] = plan[u]
                                   /\ seen'[u] = seen[u] /\ sess'[u] = sess[u]
  BY DEF Cleanup, Goto, Leave, BaseInv, TypeOK
<1>2. CallRow(t)'
  BY <1>1 DEF CallRow
<1> QED
  BY <1>1, <1>2, RowUntouched

(* An orphaned backend ends: its row still says running.                   *)
LEMMA RowSessionEnds ==
    ASSUME BaseInv, LockInv, RowInv, NEW s \in Sessions, CloseSuspect(s) \/ BackendExit(s)
    PROVE  RowInv'
<1> USE DEF BaseInv, TypeOK
<1>1. /\ \A u \in Calls : sess[u] # s
      /\ UNCHANGED <<ledger, pc, sess, plan, seen>>
  BY DEF CloseSuspect, BackendExit, Idle, OwnedIsLive, request
<1>2. CASE executed' = executed /\ \A s2 \in Sessions : running'[s2] \in {running[s2], NoPlan}
  BY <1>1, <1>2 DEF RowInv, CallRow, RunningRow, TrueRow, Row
<1>3. CASE running[s] # NoPlan /\ running' = [running EXCEPT ![s] = NoPlan]
           /\ \E d \in BOOLEAN : executed' = [executed EXCEPT ![NameOf[running[s]]] = d]
  <2> DEFINE n == NameOf[running[s]]
  <2>1. /\ n \in Names /\ ledger[n] = [plan |-> running[s], status |-> "running"]
        /\ running[s] \in Plans
        /\ locks[s][TargetOf[running[s]]] > 0
        /\ TargetOf[running[s]] \in Targets
    BY <1>3, ConstantsAssumption DEF RowInv, RunningRow, LockInv, RunningHoldsLock
  <2>2. \A m \in Names : m # n => executed'[m] = executed[m]
    BY <1>3
  <2>3. ASSUME NEW u \in Calls PROVE CallRow(u)'
    <3>1. \/ pc[u] \in {"execute", "finish"}
          \/ pc[u] = "fail" /\ sess[u] # NoSession
          \/ pc[u] \in {"inspect", "record"} /\ seen[u] # "absent"
          => NameOf[plan[u]] # n /\ NameOf[plan[u]] \in Names
      <4> SUFFICES ASSUME \/ pc[u] \in {"execute", "finish"}
                          \/ pc[u] = "fail" /\ sess[u] # NoSession
                          \/ pc[u] \in {"inspect", "record"} /\ seen[u] # "absent",
                          NameOf[plan[u]] = n
                   PROVE  FALSE
        BY ConstantsAssumption DEF CallsTyped
      <4>1. plan[u] = running[s]
        BY <2>1 DEF RowKnown, WriterPCs, Row
      <4>2. sess[u] \in Sessions /\ locks[sess[u]][TargetOf[running[s]]] > 0
        BY <4>1 DEF HoldsLock, LockedPCs, Target, CallsTyped, AttachedPCs
      <4> QED
        BY <1>1, <2>1, <4>2 DEF LockInv, LockExclusive
    <3> QED
      BY <1>1, <2>2, <3>1 DEF RowInv, CallRow, Row
  <2>4. ASSUME NEW s2 \in Sessions, running'[s2] # NoPlan PROVE RunningRow(s2)'
    <3>1. s2 # s /\ running'[s2] = running[s2] /\ running[s2] \in Plans
      BY <1>3, <2>4
    <3>2. NameOf[running[s2]] # n
      <4> SUFFICES ASSUME NameOf[running[s2]] = n PROVE FALSE
        OBVIOUS
      <4>1. running[s2] = running[s]
        <5>1. ledger[NameOf[running[s2]]].plan = running[s2]
          <6>1. running[s2] # NoPlan
            BY <2>4, <3>1
          <6>2. ledger[NameOf[running[s2]]] = [plan |-> running[s2], status |-> "running"]
            BY <6>1 DEF RowInv, RunningRow
          <6> QED
            BY <6>2
        <5>2. ledger[n].plan = running[s]
          BY <2>1
        <5> QED
          BY <5>1, <5>2
      <4> QED
        BY <2>1, <2>4, <3>1, <4>1 DEF LockInv, LockExclusive, RunningHoldsLock
    <3> QED
      BY <1>1, <2>2, <3>1, <3>2, ConstantsAssumption DEF RowInv, RunningRow
  <2>5. \A m \in Names : TrueRow(m)'
    BY <1>1, <2>1, <2>2 DEF RowInv, TrueRow
  <2> QED
    BY <2>3, <2>4, <2>5 DEF RowInv, RunningRow
<1> QED
  BY <1>2, <1>3 DEF CloseSuspect, BackendExit

(* Crash preserves the truth of the ledger.                                *)
LEMMA RowCrash == BaseInv /\ RowInv /\ Crash => RowInv'
BY DEF Crash, db, RowInv, CallRow, RunningRow, TrueRow

(* Every step preserves the truth of the ledger.                           *)
LEMMA RowStep == BaseInv /\ LockInv /\ RowInv /\ [Next]_vars => RowInv'
<1> SUFFICES ASSUME BaseInv, LockInv, RowInv, [Next]_vars PROVE RowInv'
  OBVIOUS
<1>1. CASE \E t \in Calls : Begin(t)
  BY <1>1, RowBegin
<1>2. ASSUME NEW t \in Calls, NEW r \in Answers(t),
             AcquireLock(t, r) \/ Apply(t, r) \/ Reconcile(t, r)
      PROVE  RowInv'
  BY <1>2, RowLock, RowReturns, RowStatement DEF Apply, Reconcile
<1>3. ASSUME NEW t \in Calls, SendCommand(t) \/ Decide(t) \/ Cleanup(t)
      PROVE  RowInv'
  BY <1>3, RowSend, RowDecide, RowCleanup
<1>4. CASE \E s \in Sessions : CloseSuspect(s) \/ BackendExit(s)
  BY <1>4, RowSessionEnds
<1>5. CASE Crash
  BY <1>5, RowCrash
<1>6. CASE UNCHANGED vars
  BY <1>6 DEF vars, db, pool, request, RowInv, CallRow, RunningRow, TrueRow, Row
<1> QED
  BY <1>1, <1>2, <1>3, <1>4, <1>5, <1>6 DEF Next, Step

(* The three strengthenings hold together, whatever the kinds of the calls. *)
LEMMA RowAlways == Spec => [](BaseInv /\ LockInv /\ RowInv)
BY BaseInit, BaseStep, LockInit, LockStep, RowInit, RowStep, PTL DEF Spec

(* The ledger tells the truth about a command after it was executed:       *)
(* succeeded only if it took effect, failed only if it did not.            *)
THEOREM LedgerIsTrue == Spec => []RecordedOutcomeIsTrue
<1>1. RowInv => RecordedOutcomeIsTrue
  BY DEF RowInv, TrueRow, RecordedOutcomeIsTrue
<1> QED
  BY RowAlways, <1>1, PTL

(* While a backend executes a command, with or without a client, the row   *)
(* of its name has its plan as running: no call restarts the name.         *)
THEOREM ExecutionsAreRecorded == Spec => []ExecutionIsRecorded
<1>1. RowInv => ExecutionIsRecorded
  BY DEF RowInv, RunningRow, ExecutionIsRecorded
<1> QED
  BY RowAlways, <1>1, PTL

(* A command that took effect is started again only after its row was      *)
(* resolved as failed by an operator.                                      *)
THEOREM NoSilentRetry == Spec => RetryOnlyAfterResolution
<1> DEFINE A == \A n \in Names :
                  executed[n] /\ ~executed'[n] => ledger[n].status = "reconciled_failed"
<1>1. Spec => [](BaseInv /\ LockInv /\ RowInv)
  BY BaseInit, BaseStep, LockInit, LockStep, RowInit, RowStep, PTL DEF Spec
<1>2. BaseInv /\ LockInv /\ RowInv /\ [Next]_vars => [A]_vars
  <2> SUFFICES ASSUME BaseInv, LockInv, RowInv, Next, NEW n \in Names,
                      executed[n], ~executed'[n]
               PROVE  ledger[n].status = "reconciled_failed"
    OBVIOUS
  <2>1. ASSUME NEW t \in Calls, NEW r \in Answers(t), RecordRunning(t, r)
        PROVE  ledger[n].status = "reconciled_failed"
    <3>1. n = NameOf[plan[t]] /\ Done(r) /\ pc[t] = "record"
      BY <2>1 DEF RecordRunning, BaseInv, TypeOK
    <3>2. seen[t] = "absent" => Row(t) = NoRow
      BY <2>1, <3>1 DEF RecordRunning
    <3>3. seen[t] # "absent" => Row(t).status \in TerminalFailure
      BY <3>1 DEF RowInv, CallRow
    <3>4. TrueRow(n)
      BY DEF RowInv
    <3> QED
      BY <3>1, <3>2, <3>3, <3>4 DEF Row, NoRow, TrueRow, TerminalFailure
  <2>2. ASSUME NEW t \in Calls, NEW r \in Answers(t), CommandReturns(t, r)
        PROVE  FALSE
    <3>1. executed' = executed \/ (n = NameOf[plan[t]] /\ pc[t] = "executing")
      BY <2>2 DEF CommandReturns, BaseInv, TypeOK
    <3>2. pc[t] = "executing" =>
            sess[t] \in Sessions /\ running[sess[t]] = plan[t] /\ plan[t] # NoPlan
      BY ConstantsAssumption
         DEF BaseInv, TypeOK, CallsTyped, AttachedPCs, LockInv, ExecutingRuns
    <3> QED
      BY <3>1, <3>2 DEF RowInv, RunningRow
  <2>3. ASSUME NEW s \in Sessions, BackendExit(s) PROVE FALSE
    <3>1. executed' = executed \/ (n = NameOf[running[s]] /\ running[s] # NoPlan)
      BY <2>3 DEF BackendExit, BaseInv, TypeOK
    <3> QED
      BY <3>1 DEF RowInv, RunningRow
  <2>4. CASE UNCHANGED executed
    BY <2>4
  <2>5. \/ UNCHANGED executed
        \/ \E t \in Calls : \E r \in Answers(t) : RecordRunning(t, r) \/ CommandReturns(t, r)
        \/ \E s \in Sessions : BackendExit(s)
    BY DEF Next, Step, Apply, Reconcile, Begin, AcquireLock, ReadRow, InspectTarget,
           SendCommand, FinishRecord, RecordFailure, RecordCancelled, ReadStored,
           Resolve, Decide, Cleanup, CloseSuspect, Crash, db
  <2> QED
    BY <2>1, <2>2, <2>3, <2>4, <2>5
<1> QED
  BY <1>1, <1>2, PTL DEF Spec, RetryOnlyAfterResolution

-----------------------------------------------------------------------------
(* A row is written with the lock of its own target held, and keeps its    *)
(* plan, whoever writes it: the writer has found its own plan in the row,  *)
(* so that the lock of its target is the lock of the row.                  *)
THEOREM WritesAreLocked == Spec => WritesUnderLock
<1> DEFINE A == \A n \in Names :
                  ledger[n] # NoRow /\ ledger'[n] # ledger[n] =>
                    /\ ledger'[n].plan = ledger[n].plan
                    /\ \E t \in Calls :
                         /\ pc'[t] # pc[t]
                         /\ sess[t] # NoSession
                         /\ locks[sess[t]][TargetOf[ledger[n].plan]] > 0
<1>1. Spec => []BaseInv
  BY BaseInit, BaseStep, PTL DEF Spec
<1>2. BaseInv /\ [Next]_vars => [A]_vars
  <2> SUFFICES ASSUME BaseInv, Next, NEW n \in Names,
                      ledger[n] # NoRow, ledger'[n] # ledger[n]
               PROVE  /\ ledger'[n].plan = ledger[n].plan
                      /\ \E t \in Calls :
                           /\ pc'[t] # pc[t]
                           /\ sess[t] # NoSession
                           /\ locks[sess[t]][TargetOf[ledger[n].plan]] > 0
    OBVIOUS
  <2> USE ConstantsAssumption
  <2> DEFINE Writes(t, r) ==
               \/ RecordRunning(t, r) \/ FinishRecord(t, r) \/ RecordFailure(t, r)
               \/ RecordCancelled(t, r) \/ Resolve(t, r)
  <2>1. PICK t \in Calls : \E r \in Answers(t) : Writes(t, r)
    BY DEF Next, Step, Apply, Reconcile, Begin, AcquireLock, ReadRow, InspectTarget,
           SendCommand, CommandReturns, ReadStored, Decide, Cleanup, CloseSuspect,
           BackendExit, Crash, db
  <2>2. PICK r \in Answers(t) : Writes(t, r)
    BY <2>1
  <2>3. /\ pc[t] \in {"record", "finish", "fail", "fail_completed", "cancelled", "resolve"}
        /\ Detach(t, r) /\ plan[t] \in Plans
        /\ pc[t] = "record" /\ seen[t] = "absent" => Row(t) = NoRow \/ ~Done(r)
    BY <2>2 DEF RecordRunning, FinishRecord, RecordFailure, RecordCancelled, Resolve,
                BaseInv, CallsTyped
  <2>4. pc'[t] \in {"execute", "unlock"} \cup
                   (IF pc[t] = "finish" THEN {"cancelled", "fail_completed"} ELSE {})
    BY <2>2 DEF RecordRunning, FinishRecord, RecordFailure, RecordCancelled, Resolve,
                Leave, Goto, BaseInv, TypeOK
  <2>5. Done(r) /\ n = NameOf[plan[t]]
    BY <2>2 DEF RecordRunning, FinishRecord, RecordFailure, RecordCancelled, Resolve,
                SetStatus, BaseInv, TypeOK
  <2>6. Row(t).plan = plan[t] /\ Row(t) = ledger[n]
    BY <2>3, <2>5 DEF Row, RowKnown, WriterPCs, BaseInv
  <2>7. sess[t] \in Sessions
    BY <2>3, <2>5, DetachLemma
  <2>8. locks[sess[t]][TargetOf[ledger[n].plan]] > 0
    BY <2>3, <2>6, <2>7 DEF HoldsLock, LockedPCs, Target, BaseInv
  <2>9. ledger'[n].plan = ledger[n].plan
    <3>1. \/ ledger' = [ledger EXCEPT ![n] = [plan |-> plan[t], status |-> "running"]]
          \/ \E st : ledger' = SetStatus(n, st)
      BY <2>2, <2>5 DEF RecordRunning, FinishRecord, RecordFailure, RecordCancelled, Resolve
    <3> QED
      BY <2>6, <3>1 DEF SetStatus, BaseInv, TypeOK
  <2> QED
    BY <2>3, <2>4, <2>7, <2>8, <2>9
<1> QED
  BY <1>1, <1>2, PTL DEF Spec, WritesUnderLock

-----------------------------------------------------------------------------
(* Durability of what apply reports, when an operator who reconciles is    *)
(* left alone.  A reported success is safe because nobody else is past the *)
(* lock then, and because a call only gets there when the row is not a     *)
(* success; reconcile goes by what it read before it had the lock, which   *)
(* is still so if nobody else was at work meanwhile.                       *)
Reconciles(t) == kind[t] \in AllKinds \ {"apply"}
ReconcilesUndisturbed ==
    \A t \in Calls : Reconciles(t) => \A u \in Calls \ {t} : pc[u] = "idle"

Fresh(t) ==
    /\ pc[t] \in {"read_stored", "resolve"} => Reconciles(t)
    /\ pc[t] \in {"lock", "resolve"} /\ Reconciles(t) => Row(t).status = seen[t]

ActivePCs == {"execute", "executing", "finish", "fail", "fail_completed", "cancelled"}

Reported(t) ==
    report[t] = "succeeded" =>
        /\ pc[t] = "unlock" /\ sess[t] # NoSession
        /\ Row(t).plan = plan[t] /\ Row(t).status = "succeeded"
Unacked(t) ==
    pc[t] \in ActivePCs /\ sess[t] # NoSession => NameOf[plan[t]] \notin acked

AckInv ==
    /\ \A t \in Calls : Fresh(t) /\ Reported(t) /\ Unacked(t)
    /\ ReportedSuccessIsDurable

Safe == BaseInv /\ LockInv /\ RowInv /\ AckInv

(* Nothing is reported initially.                                          *)
LEMMA AckInit == Init => AckInv
BY DEF Init, AckInv, Fresh, Reported, Unacked, ActivePCs, ReportedSuccessIsDurable

(* A call that may write the row of a name is not there while another one  *)
(* reports its success, and no success was reported of that name.          *)
LEMMA WriterAlone ==
    ASSUME Safe, NEW t \in Calls, sess[t] # NoSession, NEW u \in Calls,
           report[u] = "succeeded", NameOf[plan[u]] = NameOf[plan[t]],
           pc[t] \in ActivePCs \cup {"resolve"} \/ (pc[t] = "record" /\ Row(t).plan = plan[t])
    PROVE  FALSE
<1> USE ConstantsAssumption DEF Safe, BaseInv, TypeOK
<1>1. /\ pc[u] = "unlock" /\ sess[u] # NoSession
      /\ Row(u).plan = plan[u] /\ Row(u).status = "succeeded"
  BY DEF AckInv, Reported
<1>2. Row(t).plan = plan[t]
  BY DEF RowKnown, WriterPCs, ActivePCs
<1>3. plan[t] = plan[u] /\ plan[t] \in Plans
  BY <1>1, <1>2 DEF Row, CallsTyped, ActivePCs
<1>4. locks[sess[t]][Target(t)] > 0 /\ locks[sess[u]][Target(t)] > 0
  BY <1>1, <1>3 DEF HoldsLock, LockedPCs, ActivePCs, Target
<1>5. Target(t) \in Targets
  BY <1>3 DEF Target
<1>6. sess[t] = sess[u]
  BY <1>1, <1>4, <1>5 DEF LockInv, LockExclusive
<1>7. t = u
  BY <1>1, <1>6 DEF OwnersDistinct
<1> QED
  BY <1>1, <1>7 DEF ActivePCs

(* A step that writes no row and acknowledges nothing.                     *)
LEMMA AckQuiet ==
    ASSUME Safe, NEW t \in Calls, UNCHANGED <<ledger, acked, kind, plan>>,
           \A u \in Calls : u # t => /\ pc'[u] = pc[u] /\ sess'[u] = sess[u]
                                     /\ report'[u] = report[u],
           \A u \in Calls : u # t => seen'[u] = seen[u],
           sess'[t] \in {sess[t], NoSession}, report'[t] # "succeeded", Fresh(t)',
           pc'[t] \in ActivePCs => pc[t] \in ActivePCs
    PROVE  AckInv'
<1>1. \A u \in Calls : Fresh(u)'
  BY DEF Safe, AckInv, Fresh, Reconciles, Row
<1>2. \A u \in Calls : Reported(u)' /\ Unacked(u)'
  BY DEF Safe, AckInv, Reported, Unacked, Row, BaseInv, TypeOK
<1> QED
  BY <1>1, <1>2 DEF Safe, AckInv, ReportedSuccessIsDurable

(* A call that is past the lock writes the row of its plan.                *)
LEMMA AckWrite ==
    ASSUME Safe, ReconcilesUndisturbed, NEW t \in Calls, NEW st, sess[t] # NoSession,
           \/ pc[t] \in ActivePCs \cup {"resolve"}
           \/ pc[t] = "record" /\ Row(t).plan \in {NoPlan, plan[t]},
           NameOf[plan[t]] \notin acked, UNCHANGED <<acked, kind, plan>>,
           ledger' = [ledger EXCEPT ![NameOf[plan[t]]] = [plan |-> plan[t], status |-> st]],
           \A u \in Calls : u # t => /\ pc'[u] = pc[u] /\ sess'[u] = sess[u]
                                     /\ report'[u] = report[u],
           report'[t] = "succeeded" =>
             st = "succeeded" /\ pc'[t] = "unlock" /\ sess'[t] # NoSession,
           pc'[t] \notin {"read_stored", "lock", "resolve"}
    PROVE  AckInv'
<1> USE ConstantsAssumption DEF Safe, BaseInv, TypeOK
<1>1. plan[t] \in Plans /\ NameOf[plan[t]] \in Names
  BY DEF CallsTyped, ActivePCs
<1>2. /\ \A n \in Names \ {NameOf[plan[t]]} : ledger'[n] = ledger[n]
      /\ ledger'[NameOf[plan[t]]] = [plan |-> plan[t], status |-> st]
  BY <1>1
<1>3. ASSUME NEW u \in Calls \ {t}, report[u] = "succeeded"
      PROVE  NameOf[plan[u]] # NameOf[plan[t]]
  <2>1. Row(u).plan = plan[u] /\ plan[u] \in Plans
    BY <1>3 DEF AckInv, Reported, CallsTyped
  <2>2. NameOf[plan[u]] = NameOf[plan[t]] => Row(t).plan \in Plans
    BY <2>1 DEF Row
  <2> QED
    BY <1>3, <2>2, WriterAlone
<1>4. \A u \in Calls : Reported(u)'
  <2> SUFFICES ASSUME NEW u \in Calls, report'[u] = "succeeded"
               PROVE  /\ pc'[u] = "unlock" /\ sess'[u] # NoSession
                      /\ Row(u)'.plan = plan'[u] /\ Row(u)'.status = "succeeded"
    BY DEF Reported
  <2>1. CASE u = t
    BY <1>2, <2>1 DEF Row
  <2>2. CASE u # t
    <3>1. /\ pc[u] = "unlock" /\ sess[u] # NoSession /\ plan[u] \in Plans
          /\ Row(u).plan = plan[u] /\ Row(u).status = "succeeded"
      BY <2>2 DEF AckInv, Reported, CallsTyped
    <3>2. NameOf[plan[u]] \in Names \ {NameOf[plan[t]]}
      BY <1>3, <2>2, <3>1
    <3> QED
      BY <1>2, <2>2, <3>1, <3>2 DEF Row
  <2> QED
    BY <2>1, <2>2
<1>5. \A u \in Calls : Unacked(u)'
  BY DEF AckInv, Unacked
<1>6. ReportedSuccessIsDurable'
  BY <1>2 DEF AckInv, ReportedSuccessIsDurable
<1>7. \A u \in Calls : Fresh(u)'
  <2>1. \A u \in Calls \ {t} : ~ Reconciles(u)
    BY DEF ReconcilesUndisturbed, ActivePCs
  <2> QED
    BY <2>1 DEF AckInv, Fresh, Reconciles
<1> QED
  BY <1>4, <1>5, <1>6, <1>7 DEF AckInv

(* The steps that write no row.                                            *)
LEMMA AckQuietStep ==
    ASSUME Safe, NEW t \in Calls,
           \/ SendCommand(t) \/ Decide(t)
           \/ \E r \in Answers(t) :
                \/ AcquireLock(t, r) \/ ReadRow(t, r) \/ InspectTarget(t, r)
                \/ CommandReturns(t, r) \/ ReadStored(t, r)
    PROVE  AckInv'
<1> USE ConstantsAssumption
<1>1. pc[t] # "unlock" => report[t] # "succeeded"
  BY DEF Safe, AckInv, Reported
<1>2. Fresh(t) /\ (pc[t] # "idle" => kind[t] \in AllKinds)
  BY DEF Safe, AckInv, BaseInv, CallsTyped
<1>3. CASE SendCommand(t) \/ Decide(t)
  <2>1. \/ pc[t] = "execute" /\ pc'[t] = "executing" /\ report' = report
        \/ pc[t] = "resolve" /\ pc'[t] = "unlock" /\ report'[t] # "succeeded"
    BY <1>3 DEF SendCommand, Decide, Goto, Leave, Safe, BaseInv, TypeOK
  <2>2. /\ UNCHANGED <<ledger, acked, kind, plan, sess, seen>>
        /\ \A u \in Calls : u # t => pc'[u] = pc[u] /\ report'[u] = report[u]
    BY <1>3 DEF SendCommand, Decide, Goto, Leave, pool, db, request, Safe, BaseInv, TypeOK
  <2>3. Fresh(t)'
    BY <2>1 DEF Fresh
  <2> QED
    BY <1>1, <2>1, <2>2, <2>3, AckQuiet DEF ActivePCs
<1>4. ASSUME NEW r \in Answers(t),
             \/ AcquireLock(t, r) \/ ReadRow(t, r) \/ InspectTarget(t, r)
             \/ CommandReturns(t, r) \/ ReadStored(t, r)
      PROVE  AckInv'
  <2>1. /\ pc[t] \in {"lock", "read", "inspect", "executing", "read_stored"}
        /\ UNCHANGED <<ledger, acked, kind, plan>> /\ Detach(t, r)
    BY <1>4 DEF AcquireLock, ReadRow, InspectTarget, CommandReturns, ReadStored, db, request
  <2>2. /\ \A u \in Calls : u # t => sess'[u] = sess[u]
        /\ sess'[t] \in {sess[t], NoSession}
    BY <2>1, DetachLemma DEF Safe
  <2>3. /\ \A u \in Calls : u # t => /\ pc'[u] = pc[u] /\ report'[u] = report[u]
                                     /\ seen'[u] = seen[u]
        /\ pc'[t] \in ActivePCs => pc[t] \in ActivePCs
        /\ report'[t] # "succeeded"
    BY <1>1, <1>4, <2>1
       DEF AcquireLock, ReadRow, InspectTarget, CommandReturns, ReadStored, Goto, Leave,
           EarlyOutcome, ActivePCs, Safe, BaseInv, TypeOK
  <2>4. Fresh(t)'
    <3>1. CASE AcquireLock(t, r)
      <4>1. /\ pc[t] = "lock" /\ pc'[t] \in {"read", "resolve", "reset"} /\ seen' = seen
            /\ pc'[t] = "resolve" => kind[t] # "apply"
        BY <3>1 DEF AcquireLock, Goto, Leave, Safe, BaseInv, TypeOK
      <4> QED
        BY <1>2, <2>1, <4>1 DEF Fresh, Reconciles, Row
    <3>2. CASE ReadStored(t, r)
      <4>1. /\ pc[t] = "read_stored" /\ pc'[t] \in {"lock", "reset"}
            /\ pc'[t] = "lock" => seen'[t] = Row(t).status
        BY <3>2 DEF ReadStored, Goto, Leave, Safe, BaseInv, TypeOK
      <4> QED
        BY <2>1, <4>1 DEF Fresh, Row
    <3>3. CASE ReadRow(t, r) \/ InspectTarget(t, r) \/ CommandReturns(t, r)
      <4>1. pc'[t] \notin {"read_stored", "lock", "resolve"}
        BY <3>3 DEF ReadRow, InspectTarget, CommandReturns, Goto, Leave, Safe, BaseInv, TypeOK
      <4> QED
        BY <4>1 DEF Fresh
    <3> QED
      BY <1>4, <3>1, <3>2, <3>3
  <2> QED
    BY <2>1, <2>2, <2>3, <2>4, AckQuiet
<1> QED
  BY <1>3, <1>4

(* The steps that write a row.                                             *)
LEMMA AckWriteStep ==
    ASSUME Safe, ReconcilesUndisturbed, NEW t \in Calls, NEW r \in Answers(t),
           \/ RecordRunning(t, r) \/ FinishRecord(t, r)
           \/ RecordFailure(t, r) \/ RecordCancelled(t, r) \/ Resolve(t, r)
    PROVE  AckInv'
<1> USE ConstantsAssumption
<1>1. /\ pc[t] \in {"record", "finish", "fail", "fail_completed", "cancelled", "resolve"}
      /\ UNCHANGED <<acked, kind, plan, seen>> /\ Detach(t, r)
  BY DEF RecordRunning, FinishRecord, RecordFailure, RecordCancelled, Resolve, request
<1>2. /\ \A u \in Calls : u # t => sess'[u] = sess[u]
      /\ sess'[t] \in {sess[t], NoSession} /\ (~Lost(r) => sess' = sess)
      /\ Done(r) => sess[t] \in Sessions
  BY <1>1, DetachLemma DEF Safe
<1>3. report[t] # "succeeded"
  BY <1>1 DEF Safe, AckInv, Reported
<1>4. /\ \A u \in Calls : u # t => pc'[u] = pc[u] /\ report'[u] = report[u]
      /\ pc'[t] \notin {"read_stored", "lock", "resolve"}
      /\ report'[t] = "succeeded" => r = "ok" /\ pc[t] = "finish" /\ pc'[t] = "unlock"
      /\ pc'[t] \in ActivePCs => pc[t] \in ActivePCs \/ r = "ok"
  BY <1>1, <1>3
     DEF RecordRunning, FinishRecord, RecordFailure, RecordCancelled, Resolve, Resolution, Goto,
         Leave, EarlyOutcome, ActivePCs, Safe, BaseInv, TypeOK
<1>5. CASE ~Done(r)
  <2>1. ledger' = ledger /\ r # "ok"
    BY <1>5 DEF RecordRunning, FinishRecord, RecordFailure, RecordCancelled, Resolve, Done
  <2>2. Fresh(t)'
    BY <1>4 DEF Fresh
  <2> QED
    BY <1>1, <1>2, <1>4, <2>1, <2>2, AckQuiet
<1>6. CASE Done(r)
  <2>1. sess[t] # NoSession /\ plan[t] \in Plans /\ NameOf[plan[t]] \in Names
    BY <1>1, <1>2, <1>6 DEF Safe, BaseInv, CallsTyped
  <2>2. /\ pc[t] = "record" /\ seen[t] = "absent" => Row(t) = NoRow
        /\ pc[t] # "record" \/ seen[t] # "absent" => Row(t).plan = plan[t]
    BY <1>1, <1>6 DEF RecordRunning, FinishRecord, RecordFailure, RecordCancelled, Resolve,
                      Safe, BaseInv, RowKnown, WriterPCs
  <2>3. NameOf[plan[t]] \notin acked
    <3>1. CASE pc[t] = "record"
      <4>1. Row(t).status \notin TerminalSuccess
        BY <2>2, <3>1 DEF NoRow, Safe, RowInv, CallRow, TerminalSuccess, TerminalFailure
      <4> QED
        BY <4>1 DEF Row, Safe, AckInv, ReportedSuccessIsDurable
    <3>2. CASE pc[t] = "resolve"
      <4>1. Row(t).status \in Unresolved
        BY <1>1, <3>2 DEF Resolve, RecordRunning, FinishRecord, RecordFailure, RecordCancelled,
                          Safe, AckInv, Fresh
      <4> QED
        BY <4>1 DEF Row, Unresolved, TerminalSuccess, Safe, AckInv, ReportedSuccessIsDurable
    <3>3. CASE pc[t] \notin {"record", "resolve"}
      BY <1>1, <2>1, <3>3 DEF Safe, AckInv, Unacked, ActivePCs
    <3> QED
      BY <3>1, <3>2, <3>3
  <2>4. PICK st :
          /\ \/ /\ pc[t] = "record" /\ seen[t] = "absent"
                /\ ledger' = [ledger EXCEPT ![NameOf[plan[t]]] =
                                [plan |-> plan[t], status |-> st]]
             \/ /\ pc[t] # "record" \/ seen[t] # "absent"
                /\ ledger' = SetStatus(NameOf[plan[t]], st)
          /\ pc[t] = "finish" => st = "succeeded"
    BY <1>1, <1>6 DEF RecordRunning, FinishRecord, RecordFailure, RecordCancelled, Resolve
  <2>5. ledger' = [ledger EXCEPT ![NameOf[plan[t]]] = [plan |-> plan[t], status |-> st]]
    BY <2>2, <2>4 DEF SetStatus, Row
  <2>6. \/ pc[t] \in ActivePCs \cup {"resolve"}
        \/ pc[t] = "record" /\ Row(t).plan \in {NoPlan, plan[t]}
    BY <1>1, <2>2 DEF ActivePCs, NoRow
  <2>7. report'[t] = "succeeded" =>
          st = "succeeded" /\ pc'[t] = "unlock" /\ sess'[t] # NoSession
    BY <1>2, <1>4, <2>1, <2>4 DEF Lost
  <2> QED
    BY <1>1, <1>2, <1>4, <2>1, <2>3, <2>5, <2>6, <2>7, AckWrite
<1> QED
  BY <1>5, <1>6

(* A success is acknowledged when the call returns its session.            *)
LEMMA AckCleanup == ASSUME Safe, NEW t \in Calls, Cleanup(t) PROVE AckInv'
<1>1. /\ pc' = [pc EXCEPT ![t] = "idle"] /\ report' = [report EXCEPT ![t] = "none"]
      /\ sess' = [sess EXCEPT ![t] = NoSession] /\ kind' = [kind EXCEPT ![t] = "none"]
      /\ plan' = [plan EXCEPT ![t] = NoPlan] /\ UNCHANGED ledger
      /\ acked' = IF report[t] = "succeeded" THEN acked \cup {NameOf[plan[t]]} ELSE acked
  BY DEF Cleanup, Leave, Goto
<1>2. \A u \in Calls : Fresh(u)'
  <2>1. /\ \A u \in Calls : u # t => /\ pc'[u] = pc[u] /\ kind'[u] = kind[u]
                                     /\ plan'[u] = plan[u] /\ seen'[u] = seen[u]
        /\ pc'[t] = "idle"
    BY <1>1 DEF Cleanup, Safe, BaseInv, TypeOK
  <2> QED
    BY <1>1, <2>1 DEF Safe, AckInv, Fresh, Reconciles, Row
<1>3. \A u \in Calls : Reported(u)'
  BY <1>1 DEF Safe, AckInv, Reported, Row, BaseInv, TypeOK
<1>4. \A u \in Calls : Unacked(u)'
  <2> SUFFICES ASSUME NEW u \in Calls, pc'[u] \in ActivePCs, sess'[u] # NoSession
               PROVE  NameOf[plan'[u]] \notin acked'
    BY DEF Unacked
  <2>1. u # t /\ pc[u] \in ActivePCs /\ sess[u] # NoSession /\ plan'[u] = plan[u]
    BY <1>1 DEF Safe, BaseInv, TypeOK, ActivePCs
  <2>2. NameOf[plan[u]] \notin acked
    BY <2>1 DEF Safe, AckInv, Unacked
  <2>3. report[t] = "succeeded" => NameOf[plan[u]] # NameOf[plan[t]]
    BY <2>1, WriterAlone
  <2> QED
    BY <1>1, <2>1, <2>2, <2>3
<1>5. ReportedSuccessIsDurable'
  BY <1>1 DEF Safe, AckInv, ReportedSuccessIsDurable, Reported, Row, TerminalSuccess
<1> QED
  BY <1>2, <1>3, <1>4, <1>5 DEF AckInv

(* Undisturbed, the durability of reported successes is inductive.         *)
LEMMA AckStep == ASSUME ReconcilesUndisturbed, Safe, [Next]_vars PROVE AckInv'
<1>1. ASSUME NEW t \in Calls, Begin(t)
      PROVE  AckInv'
  <2>1. /\ pc[t] = "idle" /\ UNCHANGED <<ledger, report, acked, seen>>
        /\ \A u \in Calls : u # t => /\ pc'[u] = pc[u] /\ sess'[u] = sess[u]
                                     /\ kind'[u] = kind[u] /\ plan'[u] = plan[u]
        /\ \/ pc'[t] = "lock" /\ kind'[t] = "apply"
           \/ pc'[t] = "read_stored" /\ kind'[t] \in AllKinds \ {"apply"}
    BY <1>1, ConstantsAssumption DEF Begin, Goto, db, Safe, BaseInv, TypeOK
  <2> QED
    BY <2>1 DEF Safe, AckInv, Fresh, Reconciles, Reported, Unacked, ActivePCs, Row,
                ReportedSuccessIsDurable
<1>2. ASSUME NEW t \in Calls, Step(t)
      PROVE  AckInv'
  BY <1>2, AckQuietStep, AckWriteStep, AckCleanup DEF Step, Apply, Reconcile
<1>3. ASSUME NEW s \in Sessions, CloseSuspect(s) \/ BackendExit(s)
      PROVE  AckInv'
  BY <1>3 DEF CloseSuspect, BackendExit, request, Safe, AckInv, Fresh, Reconciles, Reported,
              Unacked, Row, ReportedSuccessIsDurable
<1>4. CASE Crash
  BY <1>4 DEF Crash, db, Safe, AckInv, Fresh, Reported, Unacked, ActivePCs,
              ReportedSuccessIsDurable
<1>5. CASE UNCHANGED vars
  BY <1>5 DEF vars, db, request, Safe, AckInv, Fresh, Reconciles, Reported, Unacked, Row,
              ReportedSuccessIsDurable
<1> QED
  BY <1>1, <1>2, <1>3, <1>4, <1>5 DEF Next

(* As long as an operator who reconciles is left alone, what apply has     *)
(* reported as succeeded stays recorded as a success, whatever fails and   *)
(* however many calls of however many plans compete for the name.  Without *)
(* this it does not: reconcile decides by a status it read before it had   *)
(* the lock.                                                               *)
THEOREM ReportedSuccessStands ==
    Spec /\ []ReconcilesUndisturbed => []ReportedSuccessIsDurable
<1>1. Init => Safe
  BY BaseInit, LockInit, RowInit, AckInit DEF Safe
<1>2. ReconcilesUndisturbed /\ Safe /\ [Next]_vars => Safe'
  BY BaseStep, LockStep, RowStep, AckStep DEF Safe
<1>3. Safe => ReportedSuccessIsDurable
  BY DEF Safe, AckInv
<1> QED
  BY <1>1, <1>2, <1>3, PTL DEF Spec

-----------------------------------------------------------------------------
(* Refinement of ReviewedOperation, when reconciles are undisturbed.       *)

(* A call that settles its attempt finds its row as running, or, after a   *)
(* cancelled write of the success, as succeeded.                           *)
SettlingPCs == {"finish", "fail", "fail_completed", "cancelled"}
Settling(t) ==
    pc[t] \in SettlingPCs /\ sess[t] # NoSession =>
        /\ Row(t).status = "running" \/ (pc[t] = "cancelled" /\ Row(t).status = "succeeded")
        /\ pc[t] = "fail_completed" => executed[NameOf[plan[t]]]
SettleInv == \A t \in Calls : Settling(t)

LEMMA SettleInit == Init => SettleInv
BY DEF Init, SettleInv, Settling, SettlingPCs

(* Nobody else settles a row that a call writes.                           *)
LEMMA SettleAlone ==
    ASSUME BaseInv, LockInv, NEW t \in Calls, pc[t] \in LockedPCs, sess[t] # NoSession,
           Row(t).plan = plan[t] \/ Row(t) = NoRow,
           NEW u \in Calls, u # t, pc[u] \in SettlingPCs, sess[u] # NoSession
    PROVE  NameOf[plan[u]] # NameOf[plan[t]]
<1> USE ConstantsAssumption DEF BaseInv, TypeOK
<1> SUFFICES ASSUME NameOf[plan[u]] = NameOf[plan[t]] PROVE FALSE
  OBVIOUS
<1>1. plan[u] = plan[t] /\ plan[t] \in Plans
  BY DEF RowKnown, WriterPCs, SettlingPCs, CallsTyped, Row, NoRow, LockedPCs
<1>2. locks[sess[u]][Target(t)] > 0 /\ locks[sess[t]][Target(t)] > 0
  BY <1>1 DEF HoldsLock, LockedPCs, SettlingPCs, Target
<1>3. sess[u] = sess[t]
  BY <1>1, <1>2 DEF LockInv, LockExclusive, Target
<1> QED
  BY <1>3 DEF OwnersDistinct

(* A statement of an apply leaves the other calls' settling as it was.     *)
LEMMA SettleFrame ==
    ASSUME BaseInv, LockInv, SettleInv, NEW t \in Calls, NEW r \in Answers(t), Detach(t, r),
           \/ ledger' = ledger /\ executed' = executed
           \/ /\ pc[t] \in LockedPCs /\ sess[t] # NoSession
              /\ Row(t).plan = plan[t] \/ Row(t) = NoRow,
           \A m \in Names : m # NameOf[plan[t]] =>
              ledger'[m] = ledger[m] /\ executed'[m] = executed[m],
           \A u \in Calls : u # t => pc'[u] = pc[u],
           UNCHANGED plan,
           Settling(t)'
    PROVE  SettleInv'
<1> SUFFICES ASSUME NEW u \in Calls, u # t, pc[u] \in SettlingPCs, sess[u] # NoSession
             PROVE  Settling(u)'
  BY DetachLemma DEF SettleInv, Settling
<1>1. sess'[u] = sess[u] /\ plan'[u] = plan[u] /\ pc'[u] = pc[u] /\ Settling(u)
  BY DetachLemma DEF SettleInv
<1>2. NameOf[plan[u]] \in Names
  BY ConstantsAssumption DEF SettlingPCs, BaseInv, CallsTyped
<1>3. /\ ledger'[NameOf[plan[u]]] = ledger[NameOf[plan[u]]]
      /\ executed'[NameOf[plan[u]]] = executed[NameOf[plan[u]]]
  BY <1>2, SettleAlone
<1> QED
  BY <1>1, <1>3 DEF Settling, Row

(* Statements keep every call's knowledge of the attempt it settles.       *)
LEMMA SettleStatement ==
    ASSUME BaseInv, LockInv, RowInv, SettleInv, NEW t \in Calls, NEW r \in Answers(t),
           \/ AcquireLock(t, r) \/ Apply(t, r) \/ Reconcile(t, r)
    PROVE  SettleInv'
<1> USE ConstantsAssumption DEF Goto, Leave, request, db
<1> DEFINE n == NameOf[plan[t]]
<1>1. /\ Detach(t, r) /\ UNCHANGED plan /\ pc[t] # "idle"
      /\ \A u \in Calls : u # t => pc'[u] = pc[u]
  BY DEF Apply, Reconcile, AcquireLock, ReadRow, InspectTarget, RecordRunning, CommandReturns,
         FinishRecord, RecordFailure, RecordCancelled, ReadStored, Resolve, BaseInv, TypeOK
<1>2. /\ plan[t] \in Plans /\ n \in Names /\ ledger \in [Names -> Rows]
      /\ executed \in [Names -> BOOLEAN] /\ pc \in [Calls -> PCs] /\ r \in Replies
      /\ Done(r) => sess[t] # NoSession
      /\ ~Lost(r) => sess' = sess
      /\ Lost(r) => sess'[t] = NoSession
  BY <1>1, DetachLemma DEF BaseInv, TypeOK, CallsTyped
<1>3. CASE AcquireLock(t, r) \/ ReadRow(t, r) \/ InspectTarget(t, r) \/ ReadStored(t, r)
  <2>1. ledger' = ledger /\ executed' = executed /\ pc'[t] \notin SettlingPCs
    BY <1>2, <1>3 DEF AcquireLock, ReadRow, InspectTarget, ReadStored, SettlingPCs
  <2> QED
    BY <1>1, <2>1, SettleFrame DEF Settling
<1>4. CASE RecordRunning(t, r) \/ RecordFailure(t, r) \/ RecordCancelled(t, r) \/ Resolve(t, r)
  <2>1. pc'[t] \notin SettlingPCs /\ pc[t] \in LockedPCs
    BY <1>2, <1>4 DEF RecordRunning, RecordFailure, RecordCancelled, Resolve, SettlingPCs, LockedPCs
  <2>2. \A m \in Names : m # n => ledger'[m] = ledger[m] /\ executed'[m] = executed[m]
    BY <1>2, <1>4 DEF RecordRunning, RecordFailure, RecordCancelled, Resolve, SetStatus
  <2>3. Done(r) => Row(t).plan = plan[t] \/ Row(t) = NoRow
    BY <1>4 DEF RecordRunning, RecordFailure, RecordCancelled, Resolve, BaseInv, RowKnown, WriterPCs
  <2>4. ~Done(r) => ledger' = ledger /\ executed' = executed
    BY <1>4 DEF RecordRunning, RecordFailure, RecordCancelled, Resolve
  <2> QED
    BY <1>1, <1>2, <2>1, <2>2, <2>3, <2>4, SettleFrame DEF Settling
<1>5. CASE CommandReturns(t, r)
  <2>1. /\ pc[t] = "executing" /\ ledger' = ledger /\ sess[t] \in Sessions
        /\ Row(t) = [plan |-> plan[t], status |-> "running"]
    <3>1. /\ pc[t] = "executing" /\ ledger' = ledger /\ sess[t] \in Sessions
          /\ running[sess[t]] = plan[t] /\ plan[t] # NoPlan
      BY <1>2, <1>5 DEF CommandReturns, BaseInv, TypeOK, CallsTyped, AttachedPCs, LockInv,
                        ExecutingRuns
    <3>2. RunningRow(sess[t])
      BY <3>1 DEF RowInv
    <3> QED
      BY <3>1, <3>2 DEF RunningRow, Row
  <2>2. pc'[t] # "fail_completed" /\ Row(t)' = Row(t)
    BY <1>1, <1>2, <1>5, <2>1 DEF CommandReturns, Row
  <2>3. \A m \in Names : m # n => executed'[m] = executed[m]
    BY <1>2, <1>5 DEF CommandReturns
  <2> QED
    BY <1>1, <2>1, <2>2, <2>3, SettleFrame DEF Settling, LockedPCs
<1>6. CASE FinishRecord(t, r)
  <2>1. /\ pc[t] = "finish" /\ sess[t] # NoSession /\ executed' = executed /\ executed[n]
        /\ Row(t).status = "running" /\ Row(t).plan = plan[t]
    BY <1>6 DEF FinishRecord, BaseInv, CallsTyped, AttachedPCs, SettleInv, Settling, SettlingPCs,
                RowInv, CallRow, RowKnown, WriterPCs
  <2>2. /\ \A m \in Names : m # n => ledger'[m] = ledger[m]
        /\ ~Done(r) => ledger' = ledger
        /\ Done(r) => ledger'[n].status = "succeeded"
    BY <1>2, <1>6 DEF FinishRecord, SetStatus
  <2>3. /\ pc'[t] = "fail_completed" => ~Done(r) \/ Lost(r)
        /\ pc'[t] \in SettlingPCs => pc'[t] = "cancelled" \/ pc'[t] = "fail_completed"
    BY <1>2, <1>6 DEF FinishRecord, SettlingPCs, Done, Lost
  <2>4. Settling(t)'
    BY <1>1, <1>2, <2>1, <2>2, <2>3 DEF Settling, Row
  <2> QED
    BY <1>1, <2>1, <2>2, <2>4, SettleFrame DEF LockedPCs
<1> QED
  BY <1>3, <1>4, <1>5, <1>6 DEF Apply, Reconcile

LEMMA SettleStep == BaseInv /\ LockInv /\ RowInv /\ SettleInv /\ [Next]_vars => SettleInv'
<1> SUFFICES ASSUME BaseInv, LockInv, RowInv, SettleInv, [Next]_vars PROVE SettleInv'
  OBVIOUS
<1> USE DEF SettleInv, Settling, SettlingPCs, Row, BaseInv, TypeOK, Goto, Leave, request, db, pool
<1>1. ASSUME NEW t \in Calls, Begin(t) \/ SendCommand(t) \/ Decide(t) \/ Cleanup(t)
      PROVE  SettleInv'
  BY <1>1 DEF Begin, SendCommand, Decide, Cleanup
<1>2. ASSUME NEW s \in Sessions, BackendExit(s)
      PROVE  SettleInv'
  <2>1. ASSUME NEW t \in Calls, pc[t] = "fail_completed", sess[t] # NoSession, running[s] # NoPlan
        PROVE  NameOf[plan[t]] # NameOf[running[s]]
    <3>1. RunningRow(s) /\ Settling(t)
      BY DEF RowInv
    <3> QED
      BY <2>1, <3>1 DEF RunningRow
  <2>2. \A n \in Names : executed'[n] # executed[n] => running[s] # NoPlan /\ n = NameOf[running[s]]
    BY <1>2 DEF BackendExit
  <2>3. \A t \in Calls : pc[t] \in SettlingPCs => NameOf[plan[t]] \in Names
    BY ConstantsAssumption DEF CallsTyped
  <2>4. UNCHANGED <<ledger, pc, sess, plan>>
    BY <1>2 DEF BackendExit
  <2> QED
    BY <2>1, <2>2, <2>3, <2>4
<1>3. ASSUME NEW s \in Sessions, CloseSuspect(s)
      PROVE  SettleInv'
  BY <1>3 DEF CloseSuspect
<1>4. CASE Crash
  BY <1>4 DEF Crash
<1>5. CASE UNCHANGED vars
  BY <1>5 DEF vars
<1>6. ASSUME NEW t \in Calls, NEW r \in Answers(t),
             AcquireLock(t, r) \/ Apply(t, r) \/ Reconcile(t, r)
      PROVE  SettleInv'
  BY <1>6, SettleStatement
<1> QED
  BY <1>1, <1>2, <1>3, <1>4, <1>5, <1>6 DEF Next, Step

-----------------------------------------------------------------------------
(* The status the abstract specification sees.                             *)
StatusOf == [n \in Names |-> ledger[n].status]

(* A write of one row is a write of one status.                            *)
LEMMA StatusWrite ==
    ASSUME ledger \in [Names -> Rows], NEW n \in Names, NEW p, NEW st,
           ledger' = [ledger EXCEPT ![n] = [plan |-> p, status |-> st]]
    PROVE  StatusOf' = [StatusOf EXCEPT ![n] = st]
BY DEF StatusOf

LEMMA RefinesInit == Init => Operation!Init
BY DEF Init, Operation!Init, NoRow

(* The statements that change what the abstract specification sees.        *)
LEMMA RefinesStatement ==
    ASSUME Safe, SettleInv, NEW t \in Calls, NEW r \in Answers(t), Apply(t, r)
    PROVE  Operation!Next \/ UNCHANGED Operation!vars
<1> USE ConstantsAssumption DEF Safe
<1> DEFINE n == NameOf[plan[t]]
<1>1. /\ Detach(t, r) /\ pc[t] # "idle" /\ acked' = acked
      /\ plan[t] \in Plans /\ n \in Names /\ ledger \in [Names -> Rows]
      /\ executed \in [Names -> BOOLEAN]
  BY DEF Apply, ReadRow, InspectTarget, RecordRunning, CommandReturns,
         FinishRecord, RecordFailure, RecordCancelled, BaseInv, TypeOK, CallsTyped
<1>2. (Done(r) => sess[t] # NoSession) /\ r \in Replies
  BY <1>1, DetachLemma
<1>3. StatusOf[n] = Row(t).status /\ CallRow(t) /\ Settling(t) /\ Unacked(t) /\ TrueRow(n)
  BY <1>1 DEF StatusOf, Row, RowInv, SettleInv, AckInv
<1>4. CASE ledger' = ledger /\ executed' = executed
  BY <1>1, <1>4 DEF Operation!vars
<1>5. CASE RecordRunning(t, r) /\ Done(r)
  <2>1. StatusOf' = [StatusOf EXCEPT ![n] = "running"]
    BY <1>1, <1>5, StatusWrite DEF RecordRunning, SetStatus
  <2>2. executed' = [executed EXCEPT ![n] = FALSE]
    BY <1>5 DEF RecordRunning
  <2>3. StatusOf[n] \in {"absent", "failed", "reconciled_failed"}
    BY <1>3, <1>5 DEF RecordRunning, CallRow, NoRow, TerminalFailure
  <2> QED
    BY <1>1, <2>1, <2>2, <2>3 DEF Operation!Next, Operation!Open, StatusOf
<1>6. CASE CommandReturns(t, r)
  <2>1. /\ sess[t] \in Sessions /\ running[sess[t]] = plan[t] /\ ledger' = ledger
        /\ executed' = executed \/ executed' = [executed EXCEPT ![n] = Done(r)]
    BY <1>6 DEF CommandReturns, BaseInv, TypeOK, CallsTyped, AttachedPCs, LockInv, ExecutingRuns
  <2>2. StatusOf[n] = "running" /\ ~executed[n]
    <3>1. RunningRow(sess[t]) /\ plan[t] # NoPlan
      BY <1>1, <2>1 DEF RowInv
    <3> QED
      BY <1>3, <2>1, <3>1 DEF RunningRow, Row
  <2>3. CASE Done(r) /\ executed' # executed
    <3>1. executed' = [executed EXCEPT ![n] = TRUE]
      <4>1. Done(r) = TRUE
        BY <2>3 DEF Done
      <4> QED
        BY <2>1, <2>3, <4>1
    <3> QED
      BY <1>1, <2>1, <2>2, <3>1 DEF Operation!Next, Operation!TakeEffect, StatusOf
  <2>4. CASE ~Done(r)
    <3>1. Done(r) = FALSE /\ executed[n] = FALSE
      <4>1. Done(r) \in BOOLEAN
        BY DEF Done
      <4> QED
        BY <1>1, <2>2, <2>4, <4>1
    <3> QED
      BY <1>1, <1>4, <2>1, <3>1
  <2> QED
    BY <1>4, <2>1, <2>3, <2>4
<1>7. CASE Done(r) /\ (FinishRecord(t, r) \/ RecordFailure(t, r) \/ RecordCancelled(t, r))
  <2>1. PICK st : /\ StatusOf' = [StatusOf EXCEPT ![n] = st]
                  /\ pc[t] = "finish" => st = "succeeded"
                  /\ pc[t] = "fail" => st = "failed"
                  /\ pc[t] \in {"fail_completed", "cancelled"} => st = "unknown"
    BY <1>1, <1>7, StatusWrite DEF FinishRecord, RecordFailure, RecordCancelled, SetStatus
  <2>2. pc[t] \in SettlingPCs /\ executed' = executed
    BY <1>7 DEF FinishRecord, RecordFailure, RecordCancelled, SettlingPCs
  <2>3. CASE StatusOf[n] = "running"
    <3>1. st \in (IF executed[n] THEN {"succeeded"} ELSE {"failed"}) \cup {"unknown"}
      BY <1>2, <1>3, <1>7, <2>1, <2>2 DEF CallRow, SettlingPCs
    <3> QED
      BY <1>1, <2>1, <2>2, <2>3, <3>1 DEF Operation!Next, Operation!Settle, StatusOf
  <2>4. CASE StatusOf[n] # "running"
    <3>1. pc[t] = "cancelled" /\ StatusOf[n] = "succeeded" /\ n \notin acked
      BY <1>2, <1>3, <1>7, <2>2, <2>4 DEF Settling, Unacked, ActivePCs
    <3> QED
      BY <1>1, <2>1, <2>2, <3>1 DEF Operation!Next, Operation!Doubt, StatusOf
  <2> QED
    BY <2>3, <2>4
<1> QED
  BY <1>4, <1>5, <1>6, <1>7
     DEF Apply, ReadRow, InspectTarget, RecordRunning, FinishRecord, RecordFailure,
         RecordCancelled, db

(* Every step is one of the abstract specification, or changes nothing     *)
(* that it sees.                                                           *)
LEMMA RefinesNext ==
    ASSUME Safe, SettleInv, [Next]_vars
    PROVE  Operation!Next \/ UNCHANGED Operation!vars
<1> USE ConstantsAssumption DEF Safe
<1>1. CASE UNCHANGED <<ledger, executed, acked>>
  BY <1>1 DEF Operation!vars
<1>2. ASSUME NEW t \in Calls, NEW r \in Answers(t), Apply(t, r)
      PROVE  Operation!Next \/ UNCHANGED Operation!vars
  BY <1>2, RefinesStatement
<1>3. ASSUME NEW t \in Calls, Cleanup(t)
      PROVE  Operation!Next \/ UNCHANGED Operation!vars
  <2>1. /\ ledger' = ledger /\ executed' = executed
        /\ acked' = IF report[t] = "succeeded" THEN acked \cup {NameOf[plan[t]]} ELSE acked
    BY <1>3 DEF Cleanup
  <2>2. CASE report[t] = "succeeded"
    <3>1. NameOf[plan[t]] \in Names
      BY <1>3 DEF Cleanup, BaseInv, CallsTyped
    <3>2. Row(t).status = "succeeded" /\ TrueRow(NameOf[plan[t]])
      BY <2>2, <3>1 DEF AckInv, Reported, RowInv
    <3> QED
      BY <2>1, <2>2, <3>1, <3>2 DEF Operation!Next, Operation!Acknowledge, Row, TrueRow
  <2> QED
    BY <1>1, <2>1, <2>2
<1>4. ASSUME NEW s \in Sessions, BackendExit(s)
      PROVE  Operation!Next \/ UNCHANGED Operation!vars
  <2>1. ledger' = ledger /\ acked' = acked
    BY <1>4 DEF BackendExit
  <2>2. CASE running[s] # NoPlan
    <3>1. /\ NameOf[running[s]] \in Names
          /\ ledger[NameOf[running[s]]].status = "running" /\ ~executed[NameOf[running[s]]]
      <4>1. RunningRow(s) /\ running[s] \in Plans
        BY <2>2 DEF BaseInv, TypeOK, RowInv
      <4> QED
        BY <2>2, <4>1 DEF RunningRow
    <3>2. PICK d \in BOOLEAN : executed' = [executed EXCEPT ![NameOf[running[s]]] = d]
      BY <1>4, <2>2 DEF BackendExit
    <3>3. CASE d
      BY <2>1, <3>1, <3>2, <3>3 DEF Operation!Next, Operation!TakeEffect
    <3>4. CASE ~d
      BY <1>1, <2>1, <3>1, <3>2, <3>4 DEF BaseInv, TypeOK
    <3> QED
      BY <3>3, <3>4
  <2> QED
    BY <1>1, <1>4, <2>1, <2>2 DEF BackendExit
<1>5. ASSUME NEW t \in Calls, NEW r \in Answers(t), Reconcile(t, r)
      PROVE  Operation!Next \/ UNCHANGED Operation!vars
  <2>1. CASE ledger' = ledger
    BY <1>1, <1>5, <2>1 DEF Reconcile, ReadStored, Resolve, db
  <2>2. CASE ledger' # ledger
    <3>1. /\ ledger' = SetStatus(NameOf[plan[t]], Resolution(t)) /\ pc[t] = "resolve"
          /\ seen[t] \in Unresolved /\ UNCHANGED <<executed, acked>>
      BY <1>5, <2>2 DEF Reconcile, ReadStored, Resolve, db
    <3>2. /\ NameOf[plan[t]] \in Names /\ ledger \in [Names -> Rows]
          /\ Row(t).status = seen[t] /\ Resolution(t) \in {"reconciled_succeeded", "reconciled_failed"}
      BY <3>1 DEF BaseInv, TypeOK, CallsTyped, AckInv, Fresh, Resolution
    <3>3. /\ StatusOf' = [StatusOf EXCEPT ![NameOf[plan[t]]] = Resolution(t)]
          /\ StatusOf[NameOf[plan[t]]] \in {"running", "unknown"}
      BY <3>1, <3>2, StatusWrite DEF SetStatus, StatusOf, Row, Unresolved
    <3> QED
      BY <3>1, <3>2, <3>3 DEF Operation!Next, Operation!Resolve, StatusOf
  <2> QED
    BY <2>1, <2>2
<1>6. ASSUME NEW t \in Calls,
             \/ Begin(t) \/ SendCommand(t) \/ Decide(t)
             \/ \E r \in Answers(t) : AcquireLock(t, r)
      PROVE  UNCHANGED <<ledger, executed, acked>>
  BY <1>6 DEF Begin, SendCommand, Decide, AcquireLock, db
<1>7. CASE (\E s \in Sessions : CloseSuspect(s)) \/ Crash \/ UNCHANGED vars
  BY <1>1, <1>7 DEF CloseSuspect, Crash, vars, db
<1> QED
  BY <1>1, <1>2, <1>3, <1>4, <1>5, <1>6, <1>7 DEF Next, Step

(* The tools keep the promise made for each name: with any number of       *)
(* concurrent applies, sessions, crashes and orphaned backends, and an     *)
(* operator who reconciles while no other call is at work, the ledger and  *)
(* the database change as one reviewed operation at a time would have it,  *)
(* an attempt opened only when none is in doubt, its command effective at  *)
(* most once, its outcome settled truthfully or left in doubt, only a      *)
(* doubt reconciled, and no acknowledged success ever put in doubt.        *)
THEOREM UndisturbedCallsAreReviewedOperations ==
    Spec /\ []ReconcilesUndisturbed => IsReviewedOperation
<1> DEFINE All == Safe /\ SettleInv
<1>1. Init => All
  BY BaseInit, LockInit, RowInit, AckInit, SettleInit DEF Safe
<1>2. ReconcilesUndisturbed /\ All /\ [Next]_vars => All'
  BY BaseStep, LockStep, RowStep, AckStep, SettleStep DEF Safe
<1>3. All /\ [Next]_vars => [Operation!Next]_Operation!vars
  BY RefinesNext
<1> QED
  BY RefinesInit, <1>1, <1>2, <1>3, PTL DEF Spec, IsReviewedOperation, Operation!Spec

(* Without reconcile there is nobody to disturb ...                        *)
THEOREM AppliesAreReviewedOperations ==
    ASSUME Kinds = {"apply"} PROVE Spec => IsReviewedOperation
<1> DEFINE NoneReconciles == \A t \in Calls : kind[t] \in {"none", "apply"}
<1>1. Init => NoneReconciles
  BY DEF Init
<1>2. BaseInv /\ NoneReconciles /\ [Next]_vars => NoneReconciles'
  <2> SUFFICES ASSUME NoneReconciles, BaseInv, [Next]_vars PROVE NoneReconciles'
    OBVIOUS
  <2>1. ASSUME NEW t \in Calls, Begin(t)
        PROVE  NoneReconciles'
    BY <2>1 DEF Begin, BaseInv, TypeOK
  <2>2. ASSUME NEW t \in Calls, Cleanup(t)
        PROVE  NoneReconciles'
    BY <2>2 DEF Cleanup, BaseInv, TypeOK
  <2>3. ASSUME NEW t \in Calls, Step(t), ~ Cleanup(t)
        PROVE  kind' = kind
    BY <2>3 DEF Step, Apply, Reconcile, AcquireLock, ReadRow, InspectTarget, RecordRunning,
                CommandReturns, FinishRecord, RecordFailure, RecordCancelled, ReadStored,
                Resolve, SendCommand, Decide, request
  <2> QED
    BY <2>1, <2>2, <2>3 DEF Next, CloseSuspect, BackendExit, Crash, request, vars
<1>3. NoneReconciles => ReconcilesUndisturbed
  BY DEF ReconcilesUndisturbed, Reconciles, AllKinds
<1> QED
  BY BaseInit, BaseStep, <1>1, <1>2, <1>3, UndisturbedCallsAreReviewedOperations, PTL DEF Spec

(* ... and a call that comes after the other cannot be disturbed.          *)
THEOREM SerialCallsAreReviewedOperations ==
    ASSUME \A t, u \in Calls : t = u PROVE Spec => IsReviewedOperation
<1>1. ReconcilesUndisturbed
  BY DEF ReconcilesUndisturbed
<1> QED
  BY <1>1, UndisturbedCallsAreReviewedOperations, PTL

-----------------------------------------------------------------------------
(* The safety half of CallsEnd: how far a call is among its statements.    *)
Stage(l) ==
    CASE l = "idle" -> 0
      [] l = "read_stored" -> 1
      [] l = "lock" -> 2
      [] l \in {"read", "resolve"} -> 3
      [] l = "inspect" -> 4
      [] l = "record" -> 5
      [] l = "execute" -> 6
      [] l = "executing" -> 7
      [] l = "finish" -> 8
      [] l \in {"fail", "fail_completed", "cancelled"} -> 9
      [] l \in {"unlock", "reset"} -> 10

CallsAdvance ==
    [][\A t \in Calls :
          /\ pc'[t] = "idle" \/ Stage(pc[t]) <= Stage(pc'[t])
          /\ Step(t) => pc'[t] = "idle" \/ Stage(pc[t]) < Stage(pc'[t])]_vars

(* A call never comes back to a statement: each of its steps takes it on,  *)
(* whatever the reply is, and no other call or backend takes it back, so   *)
(* that it ends after ten steps at most.                                   *)
THEOREM NoStatementTwice == Spec => CallsAdvance
<1> DEFINE Advance(t) ==
             /\ pc'[t] = "idle" \/ Stage(pc[t]) <= Stage(pc'[t])
             /\ Step(t) => pc'[t] = "idle" \/ Stage(pc[t]) < Stage(pc'[t])
<1>1. ASSUME BaseInv, NEW t \in Calls, Step(t)
      PROVE  pc'[t] = "idle" \/ Stage(pc[t]) < Stage(pc'[t])
  BY <1>1 DEF Step, Apply, Reconcile, AcquireLock, ReadRow, InspectTarget, RecordRunning,
              CommandReturns, FinishRecord, RecordFailure, RecordCancelled, ReadStored, Resolve,
              SendCommand, Decide, Cleanup, Goto, Leave, Stage, BaseInv, TypeOK
<1>2. ASSUME BaseInv, [Next]_vars, NEW t \in Calls, ~ Step(t)
      PROVE  pc'[t] = "idle" \/ pc'[t] = pc[t] \/ pc[t] = "idle"
  <2>1. CASE \E u \in Calls : Begin(u) \/ Step(u)
    <3>1. PICK u \in Calls : Begin(u) \/ Step(u)
      BY <2>1
    <3>2. \A v \in Calls : v # u => pc'[v] = pc[v]
      BY <1>2, <3>1
         DEF Begin, Step, Apply, Reconcile, AcquireLock, ReadRow, InspectTarget, RecordRunning,
             CommandReturns, FinishRecord, RecordFailure, RecordCancelled, ReadStored, Resolve,
             SendCommand, Decide, Cleanup, Goto, Leave, BaseInv, TypeOK
    <3> QED
      BY <1>2, <3>1, <3>2 DEF Begin
  <2> QED
    BY <1>2, <2>1 DEF Next, CloseSuspect, BackendExit, Crash, vars
<1>3. Stage("idle") = 0 /\ \A l \in PCs : Stage(l) \in Nat
  BY DEF Stage, PCs
<1>4. BaseInv /\ BaseInv' /\ [Next]_vars => [\A t \in Calls : Advance(t)]_vars
  <2> SUFFICES ASSUME BaseInv, BaseInv', [Next]_vars, NEW t \in Calls
               PROVE  Advance(t)
    OBVIOUS
  <2>1. Stage(pc[t]) \in Nat /\ Stage(pc'[t]) \in Nat
    BY <1>3 DEF BaseInv, TypeOK
  <2> QED
    BY <1>1, <1>2, <1>3, <2>1
<1> QED
  BY BaseInit, BaseStep, <1>4, PTL DEF Spec, CallsAdvance

=============================================================================
