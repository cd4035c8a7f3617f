-------------------------- MODULE MigrationProofs --------------------------
(***************************************************************************)
(* Theorems about Migration, for any number of calls, plans and steps.     *)
(* What the ledger alone promises rests on the SERIALIZABLE isolation of   *)
(* the transactions and not on the advisory lock; that the schema goes     *)
(* with the ledger, the refinement at the end, needs the lock as well.     *)
(***************************************************************************)
EXTENDS Migration, FiniteSetTheorems, SequenceTheorems, TLAPS

(* A call at work knows its plan and its kind, and counts its steps from   *)
(* zero.                                                                   *)
CallsTyped ==
    \A t \in Calls :
        /\ pc[t] # "idle" => plan[t] \in Plans /\ kind[t] \in {"apply", "rollback"}
        /\ pc[t] \in {"idle", "lock", "read"} => step[t] = 0
        /\ pc[t] = "steps" => step[t] < Steps

(* Ids are handed out in order, and every ledger, the committed one or a   *)
(* snapshot of it, has one row per name.                                   *)
LedgerOk(ledger) ==
    /\ \A w \in ledger : w.id < nextId
    /\ \A w1, w2 \in ledger : NameOf[w1.plan] = NameOf[w2.plan] => w1 = w2

LedgersOk == LedgerOk(rows) /\ \A t \in Calls : LedgerOk(saw[t].rows)

(* What a call found in its snapshot before it executes its steps: no row  *)
(* of its name, or the latest row.                                         *)
Checked ==
    \A t \in Calls :
        /\ pc[t] \in {"steps", "record"} /\ kind[t] = "apply" =>
             \A w \in saw[t].rows : NameOf[w.plan] # NameOf[plan[t]]
        /\ pc[t] \in {"steps", "record"} /\ kind[t] = "rollback" =>
             \A w, v \in saw[t].rows : NameOf[w.plan] = NameOf[plan[t]] => v.id <= w.id

(* The row that a COMMIT is about to insert, or to delete.                 *)
Committing == {"commit", "orphan_commit"}
RowPrepared ==
    \A t \in Calls : pc[t] \in Committing =>
        /\ row[t] \in Rows
        /\ kind[t] = "apply" =>
             /\ row[t].id < nextId
             /\ \A w \in saw[t].rows :
                  /\ w.id < row[t].id /\ w.batch < row[t].batch
                  /\ NameOf[w.plan] # NameOf[row[t].plan]
        /\ kind[t] = "rollback" =>
             row[t] \in saw[t].rows /\ \A v \in saw[t].rows : v.id <= row[t].id

(* A call at work has not committed, and says nothing about its outcome    *)
(* before it knows.                                                        *)
NothingClaimed ==
    \A t \in Calls :
        /\ pc[t] # "idle" => t \notin committed
        /\ pc[t] \in {"lock", "read", "steps", "record", "commit"} => report[t] = "none"

Inv ==
    /\ TypeOK /\ CallsTyped /\ LedgersOk /\ Checked /\ RowPrepared
    /\ BatchesFollowIds /\ NothingClaimed /\ ReportIsTrue

-----------------------------------------------------------------------------
(* Every invariant holds of an empty ledger with idle calls.               *)
LEMMA InvInit == Init => Inv
<1> SUFFICES ASSUME Init PROVE Inv
  OBVIOUS
<1> USE ConstantsAssumption DEF Init
<1>1. TypeOK
  <2>1. schema \in Seq(Effects) /\ work \in [Calls -> Seq(Effects)]
    BY EmptySeq
  <2>2. saw \in [Calls -> [created : BOOLEAN, rows : SUBSET Rows]]
    BY DEF NoSnapshot
  <2>3. pc \in [Calls -> PCs] /\ report \in [Calls -> Reports]
    BY DEF PCs, Reports
  <2>4. row \in [Calls -> Rows \cup {NoRow}] /\ step \in [Calls -> 0..Steps]
    OBVIOUS
  <2>5. rows \subseteq Rows /\ committed \subseteq Calls
    OBVIOUS
  <2>6. created \in BOOLEAN
    OBVIOUS
  <2>7. nextId \in Nat \ {0} /\ lock \in Calls \cup {NoCall}
    OBVIOUS
  <2>8. kind \in [Calls -> {"none", "apply", "rollback"}]
    OBVIOUS
  <2>9. plan \in [Calls -> Plans \cup {NoPlan}]
    OBVIOUS
  <2> HIDE DEF Init
  <2> QED
    BY <2>1, <2>2, <2>3, <2>4, <2>5, <2>6, <2>7, <2>8, <2>9 DEF TypeOK
<1>2. CallsTyped /\ LedgersOk /\ Checked /\ RowPrepared
  BY DEF CallsTyped, LedgersOk, LedgerOk, Checked, RowPrepared, Committing, NoSnapshot
<1>3. BatchesFollowIds /\ NothingClaimed /\ ReportIsTrue
  BY DEF BatchesFollowIds, NothingClaimed, ReportIsTrue, Uncommitted
<1> QED
  BY <1>1, <1>2, <1>3 DEF Inv

-----------------------------------------------------------------------------
(* A call that is forgotten leaves the others as they are.                 *)
LEMMA ForgetLemma ==
    ASSUME TypeOK, NEW t \in Calls, Forget(t)
    PROVE  /\ lock' \in Calls \cup {NoCall}
           /\ kind' \in [Calls -> {"none", "apply", "rollback"}]
           /\ plan' \in [Calls -> Plans \cup {NoPlan}]
           /\ saw' \in [Calls -> [created : BOOLEAN, rows : SUBSET Rows]]
           /\ work' \in [Calls -> Seq(Effects)]
           /\ step' \in [Calls -> 0..Steps]
           /\ row' \in [Calls -> Rows \cup {NoRow}]
           /\ step'[t] = 0 /\ saw'[t].rows = {}
           /\ \A u \in Calls \ {t} :
                /\ kind'[u] = kind[u] /\ plan'[u] = plan[u] /\ saw'[u] = saw[u]
                /\ step'[u] = step[u] /\ row'[u] = row[u]
<1> USE ConstantsAssumption DEF Forget, TypeOK
<1>1. saw' \in [Calls -> [created : BOOLEAN, rows : SUBSET Rows]]
  <2>1. NoSnapshot \in [created : BOOLEAN, rows : SUBSET Rows]
    BY DEF NoSnapshot
  <2> QED
    BY <2>1
<1>2. work' \in [Calls -> Seq(Effects)]
  <2>1. <<>> \in Seq(Effects)
    BY EmptySeq
  <2> QED
    BY <2>1
<1>3. step' \in [Calls -> 0..Steps] /\ row' \in [Calls -> Rows \cup {NoRow}]
  <2>1. 0 \in 0..Steps
    OBVIOUS
  <2> QED
    BY <2>1
<1>4. /\ lock' \in Calls \cup {NoCall}
      /\ kind' \in [Calls -> {"none", "apply", "rollback"}]
      /\ plan' \in [Calls -> Plans \cup {NoPlan}]
  OBVIOUS
<1>5. step'[t] = 0 /\ saw'[t].rows = {}
  BY DEF NoSnapshot
<1>6. \A u \in Calls \ {t} :
        /\ kind'[u] = kind[u] /\ plan'[u] = plan[u] /\ saw'[u] = saw[u]
        /\ step'[u] = step[u] /\ row'[u] = row[u]
  OBVIOUS
<1> QED
  BY <1>1, <1>2, <1>3, <1>4, <1>5, <1>6

(* A transaction that ends without a COMMIT.                               *)
LEMMA EndInv ==
    ASSUME Inv, NEW t \in Calls, NEW outcome \in Reports,
           pc[t] # "idle", outcome \notin {"applied", "rolled_back"},
           Forget(t), Leave(t, "idle", outcome), UNCHANGED <<durable, nextId, committed>>
    PROVE  Inv'
<1> USE DEF Inv, Leave, durable
<1>1. TypeOK'
  BY ForgetLemma DEF TypeOK, PCs
<1>2. CallsTyped' /\ Checked'
  BY ForgetLemma DEF TypeOK, CallsTyped, Checked
<1>3. LedgersOk' /\ BatchesFollowIds'
  BY ForgetLemma DEF TypeOK, LedgersOk, LedgerOk, BatchesFollowIds
<1>4. RowPrepared'
  BY ForgetLemma DEF TypeOK, RowPrepared, Committing
<1>5. NothingClaimed' /\ ReportIsTrue'
  BY DEF TypeOK, NothingClaimed, ReportIsTrue
<1> QED
  BY <1>1, <1>2, <1>3, <1>4, <1>5

(* A COMMIT that takes effect: the snapshot is the ledger, so that the row *)
(* that is new to the one is new to the other.                             *)
LEMMA InstallInv ==
    ASSUME Inv, NEW t \in Calls, NEW outcome \in Reports \ Uncommitted,
           pc[t] \in Committing, Install(t), Forget(t), Leave(t, "idle", outcome),
           UNCHANGED nextId
    PROVE  Inv'
<1> USE DEF Inv, Leave
<1>1. /\ rows = saw[t].rows /\ row[t] \in Rows /\ kind[t] \in {"apply", "rollback"}
      /\ rows' = IF kind[t] = "apply" THEN rows \cup {row[t]} ELSE rows \ {row[t]}
      /\ created' = TRUE /\ schema' = work[t] /\ committed' = committed \cup {t}
  BY DEF Install, Serializable, RowPrepared, CallsTyped, Committing
<1>2. TypeOK'
  BY <1>1, ForgetLemma DEF TypeOK, PCs
<1>3. CallsTyped' /\ Checked'
  BY ForgetLemma DEF TypeOK, CallsTyped, Checked
<1>4. LedgersOk'
  <2>1. LedgerOk(rows)'
    BY <1>1 DEF LedgersOk, LedgerOk, RowPrepared, TypeOK, Rows
  <2>2. ASSUME NEW u \in Calls PROVE LedgerOk(saw[u].rows)'
    BY <1>1, ForgetLemma DEF LedgersOk, LedgerOk
  <2> QED
    BY <2>1, <2>2 DEF LedgersOk
<1>5. BatchesFollowIds'
  BY <1>1 DEF BatchesFollowIds, RowPrepared, TypeOK, Rows
<1>6. RowPrepared'
  BY ForgetLemma DEF TypeOK, RowPrepared, Committing
<1>7. NothingClaimed' /\ ReportIsTrue'
  BY <1>1 DEF TypeOK, NothingClaimed, ReportIsTrue
<1> QED
  BY <1>2, <1>3, <1>4, <1>5, <1>6, <1>7

(* A statement that fails: the call turns to its rollback, or leaves its   *)
(* transaction behind.                                                     *)
LEMMA FailureInv ==
    ASSUME Inv, NEW t \in Calls, NEW outcome \in Reports,
           NEW l \in {"abort", "orphan", "orphan_commit", "conclude"},
           pc[t] # "idle", outcome \notin {"applied", "rolled_back"},
           l = "orphan_commit" => pc[t] = "commit" /\ outcome \notin Uncommitted,
           Leave(t, l, outcome),
           UNCHANGED <<durable, nextId, saw, row, kind, plan, step, committed>>,
           lock' \in Calls \cup {NoCall}, work' \in [Calls -> Seq(Effects)]
    PROVE  Inv'
<1> USE DEF Inv, Leave, durable
<1>1. TypeOK'
  BY DEF TypeOK, PCs
<1>2. CallsTyped' /\ Checked'
  BY DEF TypeOK, CallsTyped, Checked
<1>3. LedgersOk' /\ BatchesFollowIds'
  BY DEF LedgersOk, LedgerOk, BatchesFollowIds
<1>4. RowPrepared'
  BY DEF TypeOK, RowPrepared, Committing
<1>5. NothingClaimed' /\ ReportIsTrue'
  BY DEF TypeOK, NothingClaimed, ReportIsTrue
<1> QED
  BY <1>1, <1>2, <1>3, <1>4, <1>5

-----------------------------------------------------------------------------
(* A snapshot is as good as the ledger it was taken of.                    *)
LEMMA BeginInv ==
    ASSUME Inv, NEW t \in Calls, NEW r \in Replies, Begin(t, r)
    PROVE  Inv'
<1> USE DEF Inv, Begin, Replies, Cancelled, Leave, durable
<1>1. TypeOK'
  <2>1. pc' \in [Calls -> PCs] /\ report' \in [Calls -> Reports]
    BY DEF TypeOK, PCs, Reports, Uncommitted
  <2>2. saw' \in [Calls -> [created : BOOLEAN, rows : SUBSET Rows]]
    BY DEF TypeOK
  <2>3. /\ kind' \in [Calls -> {"none", "apply", "rollback"}]
        /\ plan' \in [Calls -> Plans \cup {NoPlan}] /\ committed' \subseteq Calls
    BY DEF TypeOK
  <2> QED
    BY <2>1, <2>2, <2>3 DEF TypeOK
<1>2. CallsTyped' /\ Checked'
  BY DEF TypeOK, CallsTyped, Checked
<1>3. LedgersOk' /\ BatchesFollowIds'
  BY DEF TypeOK, LedgersOk, LedgerOk, BatchesFollowIds
<1>4. RowPrepared'
  BY DEF TypeOK, RowPrepared, Committing
<1>5. NothingClaimed' /\ ReportIsTrue'
  BY DEF TypeOK, NothingClaimed, ReportIsTrue, Uncommitted
<1> QED
  BY <1>1, <1>2, <1>3, <1>4, <1>5

(* The lock is granted, or the call leaves without it.                     *)
LEMMA AcquireLockInv ==
    ASSUME Inv, NEW t \in Calls, NEW r \in Replies, AcquireLock(t, r)
    PROVE  Inv'
<1> USE DEF AcquireLock, durable, local
<1>1. lock' \in Calls \cup {NoCall}
  BY DEF Inv, TypeOK
<1>2. CASE r = "ok"
  <2> USE <1>2 DEF Inv, Goto, Leave, Cancelled
  <2>1. pc' = [pc EXCEPT ![t] = "read"] /\ report' = [report EXCEPT ![t] = report[t]]
    OBVIOUS
  <2>2. TypeOK'
    BY <1>1, <2>1 DEF TypeOK, PCs
  <2>3. CallsTyped' /\ Checked' /\ RowPrepared'
    BY <2>1 DEF TypeOK, CallsTyped, Checked, RowPrepared, Committing
  <2>4. LedgersOk' /\ BatchesFollowIds'
    BY DEF LedgersOk, LedgerOk, BatchesFollowIds
  <2>5. NothingClaimed' /\ ReportIsTrue'
    BY <2>1 DEF TypeOK, NothingClaimed, ReportIsTrue
  <2> QED
    BY <2>2, <2>3, <2>4, <2>5
<1>3. CASE r # "ok"
  <2>1. \E o \in {"timed_out", "failed_unconfirmed"} : Leave(t, "orphan", o)
    BY <1>3 DEF Replies
  <2>2. work' \in [Calls -> Seq(Effects)]
    BY DEF Inv, TypeOK
  <2> QED
    BY <1>1, <2>1, <2>2, FailureInv DEF Reports, Uncommitted
<1> QED
  BY <1>2, <1>3

(* What a failing statement of an open transaction reports.                *)
LEMMA FailLemma ==
    ASSUME NEW t \in Calls, NEW r \in Replies, Fail(t, r)
    PROVE  \E l \in {"abort", "orphan"}, o \in Reports \ {"applied", "rolled_back"} :
               Leave(t, l, o)
  BY DEF Fail, Reports, Uncommitted, Replies, Cancelled

(* Behind the lock the snapshot decides: nothing of the name is there, or  *)
(* the row of the plan is the latest one.                                  *)
LEMMA ReadLedgerInv ==
    ASSUME Inv, NEW t \in Calls, NEW r \in Replies, ReadLedger(t, r)
    PROVE  Inv'
<1> USE DEF ReadLedger, durable
<1>1. work' \in [Calls -> Seq(Effects)] /\ lock' \in Calls \cup {NoCall}
  BY DEF Inv, TypeOK
<1>2. CASE r = "ok" /\ pc' = [pc EXCEPT ![t] = "steps"]
                    /\ report' = [report EXCEPT ![t] = report[t]]
                    /\ IF kind[t] = "apply" THEN ReadForApply(t) ELSE ReadForRollback(t)
  <2> USE <1>2 DEF Inv
  <2>0. /\ kind[t] = "apply" => SameName(t) = {}
        /\ kind[t] # "apply" => \E w \in SameName(t) : IsLatest(t, w)
    <3>1. pc[t] = "read" /\ pc'[t] = "steps"
      BY DEF TypeOK
    <3> QED
      BY <3>1 DEF ReadForApply, ReadForRollback, Leave, Goto
  <2>1. TypeOK'
    BY <1>1 DEF TypeOK, PCs
  <2>2. CallsTyped' /\ RowPrepared'
    BY ConstantsAssumption DEF TypeOK, CallsTyped, RowPrepared, Committing
  <2>3. Checked'
    <3>1. \A u \in Calls \ {t} : pc'[u] = pc[u]
      BY DEF TypeOK
    <3>2. CASE kind[t] = "apply"
      BY <2>0, <3>1, <3>2 DEF Checked, SameName
    <3>3. CASE kind[t] # "apply"
      <4>1. PICK w \in SameName(t) : IsLatest(t, w)
        BY <2>0, <3>3
      <4>2. \A v \in SameName(t) : v = w
        BY <4>1 DEF SameName, LedgersOk, LedgerOk
      <4> QED
        BY <3>1, <3>3, <4>1, <4>2 DEF Checked, SameName, IsLatest
    <3> QED
      BY <3>2, <3>3
  <2>4. LedgersOk' /\ BatchesFollowIds'
    BY DEF LedgersOk, LedgerOk, BatchesFollowIds
  <2>5. NothingClaimed' /\ ReportIsTrue'
    BY DEF TypeOK, NothingClaimed, ReportIsTrue
  <2> QED
    BY <2>1, <2>2, <2>3, <2>4, <2>5
<1>3. CASE \E l \in {"abort", "orphan", "conclude"},
              o \in Reports \ {"applied", "rolled_back"} : Leave(t, l, o)
  BY <1>1, <1>3, FailureInv
<1>4. CASE r = "ok"
  BY <1>2, <1>3, <1>4
     DEF ReadForApply, ReadForRollback, Goto, Leave, Reports, Uncommitted
<1>5. CASE r # "ok"
  BY <1>3, <1>5, FailLemma
<1> QED
  BY <1>4, <1>5

(* A transaction that has changed nothing ends as it is reported.          *)
LEMMA ConcludeInv ==
    ASSUME Inv, NEW t \in Calls, NEW r \in Replies, Conclude(t, r)
    PROVE  Inv'
<1> USE DEF Conclude, durable, local
<1>1. CASE r = "ok"
  <2>1. report[t] \in Reports \ {"applied", "rolled_back"}
    BY DEF Inv, TypeOK, NothingClaimed, ReportIsTrue
  <2> QED
    BY <1>1, <2>1, EndInv DEF Goto
<1>2. CASE r # "ok"
  <2>1. \E l \in {"abort", "orphan"}, o \in Reports \ {"applied", "rolled_back"} :
           Leave(t, l, o)
    BY <1>2, FailLemma
  <2>2. work' \in [Calls -> Seq(Effects)] /\ lock' \in Calls \cup {NoCall}
    BY <1>2 DEF Inv, TypeOK, Fail
  <2> QED
    BY <1>2, <2>1, <2>2, FailureInv
<1> QED
  BY <1>1, <1>2

(* An effect in force is one of a step of a plan.                          *)
LEMMA ExecutedLemma ==
    ASSUME TypeOK, NEW t \in Calls, plan[t] \in Plans, step[t] < Steps
    PROVE  Executed(t) \in Seq(Effects)
<1> USE ConstantsAssumption
<1>1. step[t] \in 0..Steps /\ work[t] \in Seq(Effects)
  BY DEF TypeOK
<1>2. Effect(t, step[t] + 1) \in Effects /\ Effect(t, Steps - step[t]) \in Effects
  BY <1>1 DEF Effect, Effects
<1>3. ASSUME NEW e \in Effects PROVE Compensated(work[t], e) \in Seq(Effects)
  <2>1. Append(work[t], e) \in Seq(Effects)
    BY <1>1
  <2>2. SubSeq(work[t], 1, Len(work[t]) - 1) \in Seq(Effects)
    <3>1. Len(work[t]) \in Nat /\ \A i \in 1..Len(work[t]) : work[t][i] \in Effects
      BY <1>1
    <3> QED
      BY <3>1, SubSeqProperties
  <2> QED
    BY <2>1, <2>2 DEF Compensated
<1>4. Append(work[t], Effect(t, step[t] + 1)) \in Seq(Effects)
  BY <1>1, <1>2
<1> QED
  BY <1>2, <1>3, <1>4 DEF Executed

(* A step of the plan changes the work of the transaction, and nothing     *)
(* that was checked.                                                       *)
LEMMA RunStepInv ==
    ASSUME Inv, NEW t \in Calls, NEW r \in Replies, RunStep(t, r)
    PROVE  Inv'
<1> USE DEF RunStep, durable
<1>1. CASE r = "ok"
  <2> USE <1>1 DEF Inv, Goto, Leave, Fail
  <2>0. /\ plan[t] \in Plans /\ step[t] < Steps /\ step[t] \in 0..Steps
        /\ pc' = [pc EXCEPT ![t] = IF step[t] + 1 = Steps THEN "record" ELSE "steps"]
        /\ report' = [report EXCEPT ![t] = report[t]]
        /\ work' = [work EXCEPT ![t] = Executed(t)]
        /\ step' = [step EXCEPT ![t] = step[t] + 1]
    BY DEF CallsTyped, TypeOK
  <2>1. TypeOK'
    <3>1. work' \in [Calls -> Seq(Effects)]
      BY <2>0, ExecutedLemma DEF TypeOK
    <3>2. step[t] + 1 \in 0..Steps
      BY <2>0, ConstantsAssumption
    <3>3. step' \in [Calls -> 0..Steps]
      BY <2>0, <3>2 DEF TypeOK
    <3>4. pc' \in [Calls -> PCs] /\ report' \in [Calls -> Reports]
      BY <2>0 DEF TypeOK, PCs
    <3> QED
      BY <3>1, <3>3, <3>4 DEF TypeOK
  <2>2. CallsTyped'
    <3>1. step[t] + 1 # Steps => step[t] + 1 < Steps
      BY <2>0, ConstantsAssumption
    <3>2. \A u \in Calls \ {t} : pc'[u] = pc[u] /\ step'[u] = step[u]
      BY <2>0 DEF TypeOK
    <3>3. /\ pc'[t] = IF step[t] + 1 = Steps THEN "record" ELSE "steps"
          /\ step'[t] = step[t] + 1
      BY <2>0 DEF TypeOK
    <3> QED
      BY <2>0, <3>1, <3>2, <3>3 DEF CallsTyped
  <2>3. Checked' /\ RowPrepared'
    BY <2>0 DEF TypeOK, Checked, RowPrepared, Committing
  <2>4. LedgersOk' /\ BatchesFollowIds'
    BY DEF LedgersOk, LedgerOk, BatchesFollowIds
  <2>5. NothingClaimed' /\ ReportIsTrue'
    BY <2>0 DEF TypeOK, NothingClaimed, ReportIsTrue
  <2> QED
    BY <2>1, <2>2, <2>3, <2>4, <2>5
<1>2. CASE r # "ok"
  <2>1. \E l \in {"abort", "orphan"}, o \in Reports \ {"applied", "rolled_back"} :
           Leave(t, l, o)
    BY <1>2, FailLemma
  <2>2. work' \in [Calls -> Seq(Effects)] /\ lock' \in Calls \cup {NoCall}
    BY <1>2 DEF Inv, TypeOK, Fail
  <2> QED
    BY <1>2, <2>1, <2>2, FailureInv
<1> QED
  BY <1>1, <1>2

(* The new row has an id and a batch above all that the snapshot has; the  *)
(* deleted row is the latest of the snapshot.                              *)
LEMMA WriteRowInv ==
    ASSUME Inv, NEW t \in Calls, NEW r \in Replies, WriteRow(t, r)
    PROVE  Inv'
<1> USE DEF WriteRow, durable
<1>1. CASE r = "ok" /\ kind[t] = "apply"
  <2> USE <1>1 DEF Inv, Goto, Leave, Fail
  <2>1. PICK b \in NextBatches(t) :
           row' = [row EXCEPT ![t] = [id |-> nextId, plan |-> plan[t], batch |-> b]]
    OBVIOUS
  <2>2. /\ nextId \in Nat /\ nextId' = nextId + 1 /\ plan[t] \in Plans
        /\ pc' = [pc EXCEPT ![t] = "commit"] /\ report' = [report EXCEPT ![t] = report[t]]
    BY DEF TypeOK, CallsTyped
  <2>3. b \in Nat /\ \A w \in saw[t].rows : w.batch < b
    <3>1. saw[t].rows \subseteq Rows
      BY DEF TypeOK
    <3> QED
      BY <2>1, <3>1 DEF NextBatches, Rows
  <2>4. /\ row'[t] \in Rows /\ row'[t].id = nextId
        /\ row'[t].batch = b /\ row'[t].plan = plan[t]
        /\ \A u \in Calls \ {t} : row'[u] = row[u]
    BY <2>1, <2>2, <2>3 DEF TypeOK, Rows
  <2>5. TypeOK'
    <3>1. row' \in [Calls -> Rows \cup {NoRow}]
      BY <2>1, <2>4 DEF TypeOK
    <3> QED
      BY <2>2, <3>1 DEF TypeOK, PCs
  <2>6. CallsTyped' /\ Checked'
    BY <2>2 DEF TypeOK, CallsTyped, Checked
  <2>7. LedgersOk'
    <3>1. rows \in SUBSET Rows /\ \A u \in Calls : saw[u].rows \in SUBSET Rows
      BY DEF TypeOK
    <3> QED
      BY <2>2, <3>1 DEF LedgersOk, LedgerOk, Rows
  <2>8. RowPrepared'
    <3>1. \A w \in saw[t].rows : w.id < nextId /\ NameOf[w.plan] # NameOf[plan[t]]
      BY DEF LedgersOk, LedgerOk, Checked
    <3>2. \A u \in Calls \ {t} : pc'[u] = pc[u]
      BY <2>2 DEF TypeOK
    <3>3. \A u \in Calls : row[u] \in Rows => row[u].id \in Nat
      BY DEF Rows
    <3> QED
      BY <2>2, <2>3, <2>4, <3>1, <3>2, <3>3 DEF RowPrepared, Committing
  <2>9. BatchesFollowIds' /\ NothingClaimed' /\ ReportIsTrue'
    BY <2>2 DEF TypeOK, BatchesFollowIds, NothingClaimed, ReportIsTrue
  <2> QED
    BY <2>5, <2>6, <2>7, <2>8, <2>9
<1>2. CASE r = "ok" /\ kind[t] = "rollback"
  <2> USE <1>2 DEF Inv, Goto, Leave, Fail
  <2>1. PICK w \in SameName(t) \cap rows : row' = [row EXCEPT ![t] = w]
    OBVIOUS
  <2>2. /\ pc' = [pc EXCEPT ![t] = "commit"] /\ report' = [report EXCEPT ![t] = report[t]]
        /\ UNCHANGED nextId
    OBVIOUS
  <2>3. w \in Rows /\ w \in saw[t].rows /\ NameOf[w.plan] = NameOf[plan[t]]
    BY <2>1 DEF SameName, TypeOK
  <2>4. TypeOK'
    BY <2>1, <2>2, <2>3 DEF TypeOK, PCs
  <2>5. CallsTyped' /\ Checked'
    BY <2>2 DEF TypeOK, CallsTyped, Checked
  <2>6. LedgersOk' /\ BatchesFollowIds'
    BY <2>2 DEF LedgersOk, LedgerOk, BatchesFollowIds
  <2>7. RowPrepared'
    BY <2>1, <2>2, <2>3 DEF TypeOK, RowPrepared, Committing, Checked
  <2>8. NothingClaimed' /\ ReportIsTrue'
    BY <2>2 DEF TypeOK, NothingClaimed, ReportIsTrue
  <2> QED
    BY <2>4, <2>5, <2>6, <2>7, <2>8
<1>3. CASE r # "ok"
  <2>1. \E l \in {"abort", "orphan"}, o \in Reports \ {"applied", "rolled_back"} :
           Leave(t, l, o)
    BY <1>3, FailLemma
  <2>2. work' \in [Calls -> Seq(Effects)] /\ lock' \in Calls \cup {NoCall}
    BY <1>3 DEF Inv, TypeOK, Fail
  <2> QED
    BY <1>3, <2>1, <2>2, FailureInv
<1> QED
  BY <1>1, <1>2, <1>3

(* COMMIT takes effect, or leaves its transaction in doubt.                *)
LEMMA CommitInv ==
    ASSUME Inv, NEW t \in Calls, NEW r \in Replies, Commit(t, r)
    PROVE  Inv'
<1> USE DEF Commit, durable, local
<1>1. CASE Install(t) /\ Forget(t)
           /\ \E o \in {"unknown", "applied", "rolled_back"} : Leave(t, "idle", o)
  BY <1>1, InstallInv DEF Reports, Uncommitted, Committing
<1>2. CASE CommitFails(t, r) /\ UNCHANGED <<lock, local, committed>> /\ UNCHANGED <<created, rows, schema>>
  <2>1. \E l \in {"abort", "orphan_commit"} : Leave(t, l, "unknown")
    BY <1>2 DEF CommitFails
  <2>2. "unknown" \in Reports \ (Uncommitted \cup {"applied", "rolled_back"})
    BY DEF Reports, Uncommitted
  <2>3. work' \in [Calls -> Seq(Effects)] /\ lock' \in Calls \cup {NoCall}
    BY <1>2 DEF Inv, TypeOK
  <2> QED
    BY <1>2, <2>1, <2>2, <2>3, FailureInv
<1> QED
  BY <1>1, <1>2

(* The rollback ends the transaction, or leaves it to the pool.            *)
LEMMA AbortInv ==
    ASSUME Inv, NEW t \in Calls, NEW r \in Replies, Abort(t, r)
    PROVE  Inv'
<1> USE DEF Abort, durable, local
<1>1. report[t] \in Reports \ {"applied", "rolled_back"}
  BY DEF Inv, TypeOK, NothingClaimed, ReportIsTrue
<1>2. CASE r = "ok"
  <2>1. \E o \in Reports \ {"applied", "rolled_back"} : Leave(t, "idle", o)
    BY <1>1, <1>2 DEF Reports, Uncommitted
  <2> QED
    BY <1>2, <2>1, EndInv
<1>3. CASE r # "ok"
  <2>1. \E o \in Reports \ {"applied", "rolled_back"} : Leave(t, "orphan", o)
    BY <1>1, <1>3 DEF Reports, Uncommitted
  <2> QED
    BY <1>3, <2>1, FailureInv DEF Inv, TypeOK
<1> QED
  BY <1>2, <1>3

(* A transaction without a client ends; only a COMMIT that was under way   *)
(* takes effect, and nobody has been told that it did not.                 *)
LEMMA BackendExitInv ==
    ASSUME Inv, NEW t \in Calls, BackendExit(t)
    PROVE  Inv'
<1> USE DEF BackendExit, durable, Goto
<1>1. report[t] \in Reports \ {"applied", "rolled_back"}
  BY DEF Inv, TypeOK, NothingClaimed, ReportIsTrue
<1>2. CASE pc[t] = "orphan_commit" /\ Install(t)
  <2>1. report[t] \notin Uncommitted
    BY <1>2 DEF Inv, ReportIsTrue
  <2> QED
    BY <1>1, <1>2, <2>1, InstallInv DEF Committing
<1>3. CASE UNCHANGED <<created, rows, schema, committed>>
  BY <1>1, <1>3, EndInv
<1> QED
  BY <1>2, <1>3

(* A crash leaves the transactions as they are, and takes back what was    *)
(* about to be reported.                                                   *)
LEMMA CrashInv ==
    ASSUME Inv, Crash
    PROVE  Inv'
<1> USE DEF Inv, Crash, durable, local
<1>1. TypeOK'
  BY DEF TypeOK, PCs, Reports
<1>2. CallsTyped' /\ Checked'
  BY DEF TypeOK, CallsTyped, Checked
<1>3. LedgersOk' /\ BatchesFollowIds'
  BY DEF LedgersOk, LedgerOk, BatchesFollowIds
<1>4. RowPrepared'
  BY DEF TypeOK, RowPrepared, Committing
<1>5. NothingClaimed' /\ ReportIsTrue'
  BY DEF TypeOK, NothingClaimed, ReportIsTrue, Uncommitted
<1> QED
  BY <1>1, <1>2, <1>3, <1>4, <1>5

(* The invariant is inductive.                                             *)
LEMMA InvStep == Inv /\ [Next]_vars => Inv'
<1> SUFFICES ASSUME Inv, [Next]_vars PROVE Inv'
  OBVIOUS
<1>1. CASE \E t \in Calls, r \in Replies : Begin(t, r)
  BY <1>1, BeginInv
<1>2. CASE \E t \in Calls : Step(t)
  BY <1>2, AcquireLockInv, ReadLedgerInv, ConcludeInv, RunStepInv, WriteRowInv,
     CommitInv, AbortInv DEF Step
<1>3. CASE \E t \in Calls : BackendExit(t)
  BY <1>3, BackendExitInv
<1>4. CASE Crash
  BY <1>4, CrashInv
<1>5. CASE UNCHANGED vars
  BY <1>5
  DEF vars, durable, local, Inv, TypeOK, CallsTyped, LedgersOk, LedgerOk, Checked,
      RowPrepared, BatchesFollowIds, NothingClaimed, ReportIsTrue
<1> QED
  BY <1>1, <1>2, <1>3, <1>4, <1>5 DEF Next

(* Every reachable state satisfies the invariant.                         *)
LEMMA Inductive == Spec => []Inv
  BY InvInit, InvStep, PTL DEF Spec

-----------------------------------------------------------------------------
(* Ledger, snapshots and schema stay well typed, for any number of calls,  *)
(* plans and steps: an executor never runs past the last step of its plan. *)
THEOREM TypeCorrect == Spec => []TypeOK
  BY Inductive, PTL DEF Inv

(* A later migration has a later batch, whatever snapshot it was computed  *)
(* from.                                                                   *)
THEOREM BatchesInOrder == Spec => []BatchesFollowIds
  BY Inductive, PTL DEF Inv

(* What apply and rollback report is true when it is reported and stays    *)
(* true: a change that is claimed was made, and what is reported as not    *)
(* committed is not committed later by a backend without a client.         *)
THEOREM ReportsAreTrue == Spec => []ReportIsTrue
  BY Inductive, PTL DEF Inv

(* Only the latest migration of the ledger is ever rolled back.            *)
THEOREM LastInFirstOut == Spec => OnlyLatestRollsBack
<1>1. ASSUME Inv, [Next]_vars
      PROVE  \A w \in rows \ rows' : \A v \in rows : v.id <= w.id
  <2>1. CASE UNCHANGED rows
    BY <2>1
  <2>2. CASE \E t \in Calls : pc[t] \in Committing /\ Install(t)
    <3>1. PICK t \in Calls : pc[t] \in Committing /\ Install(t)
      BY <2>2
    <3>2. /\ rows = saw[t].rows /\ kind[t] \in {"apply", "rollback"}
          /\ rows' = IF kind[t] = "apply" THEN rows \cup {row[t]} ELSE rows \ {row[t]}
      BY <1>1, <3>1 DEF Install, Serializable, Inv, CallsTyped, Committing
    <3> QED
      BY <1>1, <3>1, <3>2 DEF Inv, RowPrepared
  <2>3. UNCHANGED rows \/ \E t \in Calls : pc[t] \in Committing /\ Install(t)
    BY <1>1
    DEF Next, Step, Begin, AcquireLock, ReadLedger, Conclude, RunStep, WriteRow, Commit,
        Abort, BackendExit, Crash, Committing, vars, durable
  <2> QED
    BY <2>1, <2>2, <2>3
<1>2. Inv /\ [Next]_vars => [\A w \in rows \ rows' : \A v \in rows : v.id <= w.id]_vars
  BY <1>1
<1> QED
  BY <1>2, Inductive, PTL DEF Spec, OnlyLatestRollsBack

-----------------------------------------------------------------------------
(* Rows in the order of their ids: the rank of a row, and the row of a     *)
(* rank.                                                                   *)
Below(R, w) == {v \in R : v.id <= w.id}
Rank(R, w) == Cardinality(Below(R, w))
At(R, i) == CHOOSE w \in R : Rank(R, w) = i

Ranked(R) ==
    /\ R \subseteq Rows /\ IsFiniteSet(R)
    /\ \A v, w \in R : v.id = w.id => v = w
    /\ \A i \in 1..Cardinality(R) : \E w \in R : Rank(R, w) = i

(* A row has one rank and a rank has one row.                              *)
LEMMA RankLemma ==
    ASSUME NEW R, Ranked(R)
    PROVE  /\ Cardinality(R) \in Nat
           /\ \A w \in R : Rank(R, w) \in 1..Cardinality(R) /\ At(R, Rank(R, w)) = w
           /\ \A i \in 1..Cardinality(R) : At(R, i) \in R /\ Rank(R, At(R, i)) = i
<1>1. Cardinality(R) \in Nat /\ R \subseteq Rows
  BY FS_CardinalityType DEF Ranked
<1>2. ASSUME NEW w \in R
      PROVE  /\ IsFiniteSet(Below(R, w)) /\ w \in Below(R, w)
             /\ Rank(R, w) \in 1..Cardinality(R)
  <2>1. Below(R, w) \in SUBSET R /\ w \in Below(R, w)
    BY <1>1 DEF Below, Rows
  <2>2. IsFiniteSet(Below(R, w)) /\ Rank(R, w) <= Cardinality(R)
    BY <2>1, FS_Subset DEF Ranked, Rank
  <2>3. Rank(R, w) \in Nat /\ Rank(R, w) # 0
    BY <2>1, <2>2, FS_CardinalityType, FS_EmptySet DEF Rank
  <2> QED
    BY <1>1, <2>1, <2>2, <2>3
<1>3. ASSUME NEW v \in R, NEW w \in R, v.id <= w.id, Rank(R, v) = Rank(R, w)
      PROVE  v = w
  <2>1. Below(R, v) \in SUBSET Below(R, w)
    BY <1>1, <1>3 DEF Below, Rows
  <2>2. Below(R, w) = Below(R, v)
    BY <1>2, <1>3, <2>1, FS_Subset DEF Rank
  <2>3. w.id <= v.id
    BY <1>2, <2>2 DEF Below
  <2> QED
    BY <1>1, <1>3, <2>3 DEF Ranked, Rows
<1>4. \A v, w \in R : Rank(R, v) = Rank(R, w) => v = w
  <2>1. \A v, w \in R : v.id <= w.id \/ w.id <= v.id
    BY <1>1 DEF Rows
  <2> QED
    BY <1>3, <2>1
<1>5. ASSUME NEW i \in 1..Cardinality(R)
      PROVE  At(R, i) \in R /\ Rank(R, At(R, i)) = i
  <2>1. \E w \in R : Rank(R, w) = i
    BY DEF Ranked
  <2> QED
    BY <2>1, Zenon DEF At
<1>6. \A w \in R : At(R, Rank(R, w)) = w
  BY <1>2, <1>4, <1>5
<1> QED
  BY <1>1, <1>2, <1>5, <1>6

(* A row above all others is one more rank, and changes no other rank.     *)
LEMMA TopLemma ==
    ASSUME NEW R, Ranked(R), NEW x \in Rows, \A w \in R : w.id < x.id
    PROVE  /\ Ranked(R \cup {x}) /\ Cardinality(R \cup {x}) = Cardinality(R) + 1
           /\ At(R \cup {x}, Cardinality(R) + 1) = x
           /\ \A i \in 1..Cardinality(R) : At(R \cup {x}, i) = At(R, i)
<1> DEFINE S == R \cup {x}
<1>1. /\ R \subseteq Rows /\ IsFiniteSet(R) /\ x \notin R /\ x.id \in Nat
      /\ \A w \in R : w.id \in Nat
  BY DEF Ranked, Rows
<1>2. IsFiniteSet(S) /\ Cardinality(S) = Cardinality(R) + 1 /\ Cardinality(R) \in Nat
  BY <1>1, FS_AddElement, FS_CardinalityType
<1>3. \A w \in R : Rank(S, w) = Rank(R, w)
  <2>1. \A w \in R : Below(S, w) = Below(R, w)
    BY <1>1 DEF Below
  <2> QED
    BY <2>1 DEF Rank
<1>4. Rank(S, x) = Cardinality(R) + 1
  <2>1. Below(S, x) = S
    BY <1>1 DEF Below
  <2> QED
    BY <1>2, <2>1 DEF Rank
<1>5. Ranked(S)
  <2>1. \A v, w \in S : v.id = w.id => v = w
    BY <1>1 DEF Ranked
  <2>2. ASSUME NEW i \in 1..Cardinality(S) PROVE \E w \in S : Rank(S, w) = i
    <3>1. CASE i = Cardinality(R) + 1
      BY <1>4, <3>1
    <3>2. CASE i # Cardinality(R) + 1
      <4>1. i \in 1..Cardinality(R)
        BY <1>2, <3>2
      <4> QED
        BY <1>3, <4>1 DEF Ranked
    <3> QED
      BY <3>1, <3>2
  <2> QED
    BY <1>1, <1>2, <2>1, <2>2 DEF Ranked
<1>6. At(S, Cardinality(R) + 1) = x
  BY <1>4, <1>5, RankLemma
<1>7. ASSUME NEW i \in 1..Cardinality(R) PROVE At(S, i) = At(R, i)
  <2>1. At(R, i) \in R /\ Rank(R, At(R, i)) = i
    BY RankLemma
  <2>2. Rank(S, At(R, i)) = i /\ At(R, i) \in S
    BY <1>3, <2>1
  <2> QED
    BY <1>5, <2>2, RankLemma
<1> QED
  BY <1>2, <1>5, <1>6, <1>7

(* Without its latest row, a ledger is ranked as it was.                   *)
LEMMA DropLemma ==
    ASSUME NEW R, Ranked(R), NEW x \in R, \A v \in R : v.id <= x.id
    PROVE  /\ Ranked(R \ {x}) /\ Cardinality(R \ {x}) = Cardinality(R) - 1
           /\ Cardinality(R) \in Nat \ {0} /\ At(R, Cardinality(R)) = x
           /\ \A i \in 1..(Cardinality(R) - 1) : At(R \ {x}, i) = At(R, i)
<1> DEFINE S == R \ {x}
<1>1. /\ R \subseteq Rows /\ IsFiniteSet(R) /\ x.id \in Nat
      /\ \A w \in R : w.id \in Nat
  BY DEF Ranked, Rows
<1>2. /\ IsFiniteSet(S) /\ Cardinality(S) = Cardinality(R) - 1 /\ Cardinality(R) \in Nat
      /\ Cardinality(S) \in Nat
  BY <1>1, FS_RemoveElement, FS_CardinalityType
<1>3. Rank(R, x) = Cardinality(R)
  <2>1. Below(R, x) = R
    BY <1>1 DEF Below
  <2> QED
    BY <2>1 DEF Rank
<1>4. \A w \in S : Rank(S, w) = Rank(R, w)
  <2>1. \A w \in S : w.id < x.id
    BY <1>1 DEF Ranked
  <2>2. \A w \in S : Below(S, w) = Below(R, w)
    BY <1>1, <2>1 DEF Below
  <2> QED
    BY <2>2 DEF Rank
<1>5. Ranked(S)
  <2>1. ASSUME NEW i \in 1..Cardinality(S) PROVE \E w \in S : Rank(S, w) = i
    <3>1. i \in 1..Cardinality(R) /\ i # Cardinality(R)
      BY <1>2
    <3>2. PICK w \in R : Rank(R, w) = i
      BY <3>1 DEF Ranked
    <3> QED
      BY <1>3, <1>4, <3>1, <3>2
  <2> QED
    BY <1>1, <1>2, <2>1 DEF Ranked
<1>6. At(R, Cardinality(R)) = x
  BY <1>3, RankLemma
<1>7. Cardinality(R) \in Nat \ {0}
  <2>1. Rank(R, x) \in 1..Cardinality(R)
    BY RankLemma
  <2> QED
    BY <1>2, <1>3, <2>1
<1>8. ASSUME NEW i \in 1..(Cardinality(R) - 1) PROVE At(S, i) = At(R, i)
  <2>1. At(S, i) \in S /\ Rank(S, At(S, i)) = i
    BY <1>2, <1>5, RankLemma
  <2>2. Rank(R, At(S, i)) = i /\ At(S, i) \in R
    BY <1>4, <2>1
  <2> QED
    BY <2>2, RankLemma
<1> QED
  BY <1>2, <1>5, <1>6, <1>7, <1>8

-----------------------------------------------------------------------------
(* What the schema and the work of a transaction have to do with the       *)
(* ledger.                                                                 *)

(* The schema has the steps of the rows in order: the block of a rank.     *)
SchemaFits(R, s) ==
    /\ Len(s) = Cardinality(R) * Steps
    /\ \A i \in 1..Cardinality(R), j \in 1..Steps :
         s[(i - 1) * Steps + j] = [plan |-> At(R, i).plan, step |-> j]

(* From its first look at the ledger to its COMMIT a transaction holds the *)
(* advisory lock.                                                          *)
LockedPCs == {"read", "conclude", "steps", "record", "commit", "orphan_commit"}
LockHeld(t) == pc[t] \in LockedPCs => lock = t

(* It has executed all steps when it writes its row, which is of its plan; *)
(* a rollback has found its plan as the latest.                            *)
PlanKnown(t) ==
    /\ pc[t] \in {"record"} \cup Committing => step[t] = Steps
    /\ pc[t] \in {"steps", "record"} /\ kind[t] = "rollback" =>
         \E w \in saw[t].rows : w.plan = plan[t] /\ IsLatest(t, w)
    /\ pc[t] \in Committing => row[t].plan = plan[t]

(* Its work is the schema with its first steps, or, if the snapshot is the *)
(* ledger, the schema without its last ones.                               *)
Extends(s, base, p, n) ==
    /\ Len(s) = Len(base) + n
    /\ \A i \in 1..Len(base) : s[i] = base[i]
    /\ \A j \in 1..n : s[Len(base) + j] = [plan |-> p, step |-> j]
Shortens(s, base, n) ==
    /\ Len(s) = Len(base) - n
    /\ \A i \in 1..Len(s) : s[i] = base[i]
WorkingPCs == {"steps", "record"} \cup Committing
WorkFits(t) ==
    pc[t] \in WorkingPCs =>
        /\ kind[t] = "apply" => Extends(work[t], schema, plan[t], step[t])
        /\ kind[t] = "rollback" /\ rows = saw[t].rows => Shortens(work[t], schema, step[t])

Fits(t) == LockHeld(t) /\ PlanKnown(t) /\ WorkFits(t)
LedgerFits == Ranked(rows) /\ SchemaFits(rows, schema)
LedgerInv == LedgerFits /\ \A t \in Calls : Fits(t)

LEMMA LedgerInit == Init => LedgerInv
<1> SUFFICES ASSUME Init PROVE LedgerInv
  OBVIOUS
<1>1. Cardinality({}) = 0 /\ IsFiniteSet({})
  BY FS_EmptySet
<1>2. LedgerFits
  BY <1>1, ConstantsAssumption DEF Init, LedgerFits, Ranked, SchemaFits
<1> QED
  BY <1>2
  DEF Init, LedgerInv, Fits, LockHeld, LockedPCs, PlanKnown, WorkFits, WorkingPCs, Committing

(* The block of a rank lies within the schema, above the lower ones.       *)
LEMMA BlockLemma ==
    ASSUME NEW n \in Nat
    PROVE  /\ n * Steps \in Nat /\ (n + 1) * Steps = n * Steps + Steps
           /\ \A i \in 1..n, j \in 1..Steps : (i - 1) * Steps + j \in 1..(n * Steps)
<1>1. Steps \in Nat /\ Steps > 0
  BY ConstantsAssumption
<1>2. n * Steps \in Nat /\ (n + 1) * Steps = n * Steps + Steps
  BY <1>1
<1>3. ASSUME NEW i \in 1..n, NEW j \in 1..Steps
      PROVE  (i - 1) * Steps + j \in 1..(n * Steps)
  <2>1. PICK d \in Nat : n = i + d
    <3>1. n - i \in Nat /\ n = i + (n - i)
      OBVIOUS
    <3> QED
      BY <3>1
  <2>2. n * Steps = (i - 1) * Steps + Steps + d * Steps
    BY <1>1, <2>1
  <2>3. (i - 1) * Steps \in Nat /\ d * Steps \in Nat
    BY <1>1, <2>1
  <2> QED
    BY <1>1, <2>2, <2>3
<1> QED
  BY <1>2, <1>3

(* What the latest row of the ledger did is at the end of the schema.      *)
LEMMA TailLemma ==
    ASSUME NEW R, Ranked(R), NEW s, SchemaFits(R, s),
           NEW x \in R, \A v \in R : v.id <= x.id, NEW k \in 0..(Steps - 1)
    PROVE  /\ Len(s) \in Nat /\ Len(s) - k \in 1..Len(s)
           /\ s[Len(s) - k] = [plan |-> x.plan, step |-> Steps - k]
<1> DEFINE n == Cardinality(R)
<1>1. n \in Nat \ {0} /\ At(R, n) = x /\ Steps \in Nat \ {0}
  BY DropLemma, ConstantsAssumption
<1> HIDE DEF n
<1>2. n - 1 \in Nat /\ (n - 1) + 1 = n
  BY <1>1
<1>3. n * Steps = (n - 1) * Steps + Steps /\ (n - 1) * Steps \in Nat
  BY <1>2, BlockLemma
<1>4. Len(s) = n * Steps /\ Steps - k \in 1..Steps /\ n \in 1..n
  BY <1>1 DEF SchemaFits, n
<1>5. s[(n - 1) * Steps + (Steps - k)] = [plan |-> At(R, n).plan, step |-> Steps - k]
  BY <1>4 DEF SchemaFits, n
<1>6. (n - 1) * Steps + (Steps - k) = Len(s) - k
  BY <1>1, <1>3, <1>4
<1> QED
  BY <1>1, <1>3, <1>4, <1>5, <1>6

(* The ledger and the schema stay together when a migration is put on top, *)
LEMMA GrowLemma ==
    ASSUME NEW R, Ranked(R), NEW s \in Seq(Effects), SchemaFits(R, s),
           NEW x \in Rows, \A w \in R : w.id < x.id,
           NEW s2 \in Seq(Effects), Extends(s2, s, x.plan, Steps)
    PROVE  Ranked(R \cup {x}) /\ SchemaFits(R \cup {x}, s2)
<1> DEFINE S == R \cup {x}
           n == Cardinality(R)
<1>1. /\ Ranked(S) /\ Cardinality(S) = n + 1 /\ n \in Nat
      /\ At(S, n + 1) = x /\ \A i \in 1..n : At(S, i) = At(R, i)
  BY TopLemma, RankLemma
<1>2. /\ n * Steps \in Nat /\ (n + 1) * Steps = n * Steps + Steps
      /\ \A i \in 1..n, j \in 1..Steps : (i - 1) * Steps + j \in 1..(n * Steps)
  BY <1>1, BlockLemma
<1>3. /\ Len(s) = n * Steps
      /\ \A i \in 1..n, j \in 1..Steps :
           s[(i - 1) * Steps + j] = [plan |-> At(R, i).plan, step |-> j]
  BY DEF SchemaFits
<1> HIDE DEF n, S
<1>4. Len(s2) = (n + 1) * Steps
  BY <1>2, <1>3 DEF Extends
<1>5. ASSUME NEW i \in 1..(n + 1), NEW j \in 1..Steps
      PROVE  s2[(i - 1) * Steps + j] = [plan |-> At(S, i).plan, step |-> j]
  <2>1. CASE i \in 1..n
    <3>1. (i - 1) * Steps + j \in 1..Len(s)
      BY <1>2, <1>3, <2>1
    <3>2. s2[(i - 1) * Steps + j] = s[(i - 1) * Steps + j]
      BY <3>1 DEF Extends
    <3> QED
      BY <1>1, <1>3, <2>1, <3>2
  <2>2. CASE i = n + 1
    <3>1. (i - 1) * Steps = Len(s)
      BY <1>1, <1>3, <2>2
    <3>2. s2[Len(s) + j] = [plan |-> x.plan, step |-> j]
      BY DEF Extends
    <3> QED
      BY <1>1, <2>2, <3>1, <3>2
  <2> QED
    BY <1>1, <2>1, <2>2
<1>6. SchemaFits(S, s2)
  BY <1>1, <1>4, <1>5 DEF SchemaFits
<1> QED
  BY <1>1, <1>6 DEF S

(* and when the latest one is taken off.                                   *)
LEMMA ShrinkLemma ==
    ASSUME NEW R, Ranked(R), NEW s \in Seq(Effects), SchemaFits(R, s),
           NEW x \in R, \A v \in R : v.id <= x.id,
           NEW s2 \in Seq(Effects), Shortens(s2, s, Steps)
    PROVE  Ranked(R \ {x}) /\ SchemaFits(R \ {x}, s2)
<1> DEFINE S == R \ {x}
           n == Cardinality(R)
<1>1. /\ Ranked(S) /\ Cardinality(S) = n - 1 /\ n \in Nat \ {0}
      /\ \A i \in 1..(n - 1) : At(S, i) = At(R, i)
  BY DropLemma
<1>2. /\ Len(s) = n * Steps
      /\ \A i \in 1..n, j \in 1..Steps :
           s[(i - 1) * Steps + j] = [plan |-> At(R, i).plan, step |-> j]
  BY DEF SchemaFits
<1> HIDE DEF n, S
<1>3. n - 1 \in Nat /\ (n - 1) + 1 = n
  BY <1>1
<1>4. /\ (n - 1) * Steps \in Nat /\ n * Steps = (n - 1) * Steps + Steps
      /\ \A i \in 1..(n - 1), j \in 1..Steps :
           (i - 1) * Steps + j \in 1..((n - 1) * Steps)
  BY <1>3, BlockLemma
<1>5. Len(s2) = (n - 1) * Steps
  BY <1>2, <1>4, ConstantsAssumption DEF Shortens
<1>6. ASSUME NEW i \in 1..(n - 1), NEW j \in 1..Steps
      PROVE  s2[(i - 1) * Steps + j] = [plan |-> At(S, i).plan, step |-> j]
  <2>1. (i - 1) * Steps + j \in 1..Len(s2)
    BY <1>4, <1>5
  <2>2. s2[(i - 1) * Steps + j] = s[(i - 1) * Steps + j]
    BY <2>1 DEF Shortens
  <2> QED
    BY <1>1, <1>2, <2>2
<1>7. SchemaFits(S, s2)
  BY <1>1, <1>5, <1>6 DEF SchemaFits
<1> QED
  BY <1>1, <1>7 DEF S

-----------------------------------------------------------------------------
(* A transaction outside the lock has nothing to fit.                      *)
LEMMA QuietFits ==
    ASSUME NEW u \in Calls, pc'[u] \notin LockedPCs
    PROVE  Fits(u)'
  BY DEF Fits, LockHeld, LockedPCs, PlanKnown, WorkFits, WorkingPCs, Committing

(* A transaction whose lock nobody takes fits as it did, in the lost COMMIT*)
(* as in the COMMIT.                                                       *)
LEMMA FrameFits ==
    ASSUME NEW u \in Calls, Fits(u), UNCHANGED <<rows, schema>>,
           pc'[u] = pc[u] \/ (pc[u] = "commit" /\ pc'[u] = "orphan_commit"),
           kind'[u] = kind[u], plan'[u] = plan[u], saw'[u] = saw[u],
           work'[u] = work[u], step'[u] = step[u], row'[u] = row[u],
           lock = u => lock' = u
    PROVE  Fits(u)'
<1>1. LockHeld(u)'
  BY DEF Fits, LockHeld, LockedPCs
<1>2. PlanKnown(u)'
  BY DEF Fits, PlanKnown, Committing, IsLatest
<1>3. WorkFits(u)'
  BY DEF Fits, WorkFits, WorkingPCs, Committing
<1> QED
  BY <1>1, <1>2, <1>3 DEF Fits

(* One call moves and the ledger stays: only that call is left to show.    *)
LEMMA OthersFit ==
    ASSUME LedgerInv, NEW t \in Calls, UNCHANGED <<rows, schema>>,
           \A u \in Calls \ {t} :
               /\ pc'[u] = pc[u] /\ kind'[u] = kind[u] /\ plan'[u] = plan[u]
               /\ saw'[u] = saw[u] /\ work'[u] = work[u] /\ step'[u] = step[u]
               /\ row'[u] = row[u] /\ (lock = u => lock' = u),
           Fits(t)'
    PROVE  LedgerInv'
<1>1. ASSUME NEW u \in Calls \ {t} PROVE Fits(u)'
  <2>1. Fits(u) /\ u \in Calls
    BY DEF LedgerInv
  <2>2. /\ pc'[u] = pc[u] /\ kind'[u] = kind[u] /\ plan'[u] = plan[u]
        /\ saw'[u] = saw[u] /\ work'[u] = work[u] /\ step'[u] = step[u]
        /\ row'[u] = row[u] /\ (lock = u => lock' = u)
    OBVIOUS
  <2> QED
    BY <2>1, <2>2, FrameFits
<1>2. LedgerFits'
  BY DEF LedgerInv, LedgerFits
<1> QED
  BY <1>1, <1>2 DEF LedgerInv

(* The end of a transaction that changed nothing.                          *)
LEMMA EndFits ==
    ASSUME TypeOK, LedgerInv, NEW t \in Calls, NEW o, Forget(t), Leave(t, "idle", o),
           UNCHANGED <<rows, schema>>
    PROVE  LedgerInv'
<1>1. Fits(t)'
  BY QuietFits DEF Leave, LockedPCs, TypeOK
<1>2. \A u \in Calls \ {t} :
        /\ pc'[u] = pc[u] /\ kind'[u] = kind[u] /\ plan'[u] = plan[u]
        /\ saw'[u] = saw[u] /\ work'[u] = work[u] /\ step'[u] = step[u]
        /\ row'[u] = row[u] /\ (lock = u => lock' = u)
  BY DEF Forget, Leave, TypeOK
<1> QED
  BY <1>1, <1>2, OthersFit

(* A call that gives up, or has nothing to do, before its transaction ends.*)
LEMMA GiveUpFits ==
    ASSUME TypeOK, LedgerInv, NEW t \in Calls, NEW o, NEW l \in {"abort", "orphan", "conclude"},
           Leave(t, l, o), l = "conclude" => lock = t,
           UNCHANGED <<rows, schema, lock, kind, plan, saw, row>>,
           \A u \in Calls \ {t} : work'[u] = work[u] /\ step'[u] = step[u]
    PROVE  LedgerInv'
<1>1. pc'[t] = l /\ \A u \in Calls \ {t} : pc'[u] = pc[u]
  BY DEF Leave, TypeOK
<1>2. CASE l # "conclude"
  <2>1. Fits(t)'
    BY <1>1, <1>2, QuietFits DEF LockedPCs
  <2> QED
    BY <1>1, <2>1, OthersFit
<1>3. CASE l = "conclude"
  <2>1. Fits(t)'
    BY <1>1, <1>3 DEF Fits, LockHeld, PlanKnown, WorkFits, WorkingPCs, Committing
  <2> QED
    BY <1>1, <2>1, OthersFit
<1> QED
  BY <1>2, <1>3

LEMMA FailFits ==
    ASSUME TypeOK, LedgerInv, NEW t \in Calls, NEW r \in Replies, Fail(t, r),
           UNCHANGED <<rows, schema, lock, kind, plan, saw, row>>,
           \A u \in Calls \ {t} : work'[u] = work[u] /\ step'[u] = step[u]
    PROVE  LedgerInv'
<1>1. PICK l \in {"abort", "orphan"}, o \in Reports \ {"applied", "rolled_back"} :
          Leave(t, l, o)
  BY FailLemma
<1> QED
  BY <1>1, GiveUpFits

(* A new transaction has no lock, and the lock is taken when nobody has it.*)
LEMMA BeginFits ==
    ASSUME TypeOK, LedgerInv, NEW t \in Calls, NEW r \in Replies, Begin(t, r)
    PROVE  LedgerInv'
<1>1. Fits(t)'
  <2>1. pc'[t] \in {"lock", "orphan"}
    BY DEF Begin, Leave, TypeOK
  <2> QED
    BY <2>1, QuietFits DEF LockedPCs
<1>2. \A u \in Calls \ {t} :
        /\ pc'[u] = pc[u] /\ kind'[u] = kind[u] /\ plan'[u] = plan[u]
        /\ saw'[u] = saw[u] /\ work'[u] = work[u] /\ step'[u] = step[u]
        /\ row'[u] = row[u] /\ lock' = lock
  BY DEF Begin, Leave, TypeOK
<1>3. UNCHANGED <<rows, schema>>
  BY DEF Begin, durable
<1> QED
  BY <1>1, <1>2, <1>3, OthersFit

LEMMA AcquireLockFits ==
    ASSUME TypeOK, LedgerInv, NEW t \in Calls, NEW r \in Replies, AcquireLock(t, r)
    PROVE  LedgerInv'
<1>1. /\ UNCHANGED <<rows, schema>>
      /\ \A u \in Calls \ {t} :
           /\ pc'[u] = pc[u] /\ kind'[u] = kind[u] /\ plan'[u] = plan[u]
           /\ saw'[u] = saw[u] /\ work'[u] = work[u] /\ step'[u] = step[u]
           /\ row'[u] = row[u]
  BY DEF AcquireLock, Goto, Leave, TypeOK, durable, local
<1>2. \A u \in Calls \ {t} : lock = u => lock' = u
  BY ConstantsAssumption DEF AcquireLock
<1>3. Fits(t)'
  <2>1. CASE r = "ok"
    <3>1. pc'[t] = "read" /\ lock' = t
      BY <2>1 DEF AcquireLock, Goto, Leave, TypeOK, Done, Cancelled
    <3> QED
      BY <3>1 DEF Fits, LockHeld, PlanKnown, WorkFits, WorkingPCs, Committing
  <2>2. CASE r # "ok"
    <3>1. pc'[t] = "orphan"
      BY <2>2 DEF AcquireLock, Leave, TypeOK
    <3> QED
      BY <3>1, QuietFits DEF LockedPCs
  <2> QED
    BY <2>1, <2>2
<1> QED
  BY <1>1, <1>2, <1>3, OthersFit

(* The work starts from the schema; a rollback starts from its latest row. *)
LEMMA ReadLedgerFits ==
    ASSUME Inv, LedgerInv, NEW t \in Calls, NEW r \in Replies, ReadLedger(t, r)
    PROVE  LedgerInv'
<1>0. TypeOK /\ step[t] = 0 /\ lock = t
  BY DEF Inv, CallsTyped, ReadLedger, LedgerInv, Fits, LockHeld, LockedPCs
<1>1. /\ UNCHANGED <<rows, schema, lock, kind, plan, saw, row, step>>
      /\ work'[t] = schema /\ \A u \in Calls \ {t} : work'[u] = work[u]
  BY <1>0 DEF ReadLedger, durable, TypeOK
<1>2. CASE \E l \in {"abort", "orphan", "conclude"}, o \in Reports : Leave(t, l, o)
  BY <1>0, <1>1, <1>2, GiveUpFits
<1>3. CASE /\ IF kind[t] = "apply" THEN ReadForApply(t) ELSE ReadForRollback(t)
           /\ Leave(t, "steps", report[t])
  <2>1. pc'[t] = "steps" /\ \A u \in Calls \ {t} : pc'[u] = pc[u]
    BY <1>0, <1>3 DEF Leave, TypeOK
  <2>2. kind[t] = "rollback" =>
            \E w \in saw[t].rows : w.plan = plan[t] /\ IsLatest(t, w)
    BY <1>0, <1>3, <2>1 DEF ReadForRollback, Leave, SameName, TypeOK
  <2>3. PlanKnown(t)'
    BY <1>1, <2>1, <2>2 DEF PlanKnown, Committing, IsLatest
  <2>4. WorkFits(t)'
    <3>1. Len(schema) \in Nat
      BY <1>0, LenProperties DEF TypeOK
    <3> QED
      BY <1>0, <1>1, <3>1 DEF WorkFits, Extends, Shortens
  <2>5. Fits(t)'
    BY <1>0, <1>1, <2>3, <2>4 DEF Fits, LockHeld
  <2> QED
    BY <1>1, <2>1, <2>5, OthersFit
<1>4. CASE r = "ok"
  BY <1>2, <1>3, <1>4
  DEF ReadLedger, ReadForApply, ReadForRollback, Goto, Reports, Uncommitted
<1>5. CASE r # "ok"
  BY <1>0, <1>1, <1>5, FailFits DEF ReadLedger
<1> QED
  BY <1>4, <1>5

LEMMA ConcludeFits ==
    ASSUME Inv, LedgerInv, NEW t \in Calls, NEW r \in Replies, Conclude(t, r)
    PROVE  LedgerInv'
<1>1. CASE r = "ok"
  BY <1>1, EndFits DEF Conclude, Goto, Inv, durable
<1>2. CASE r # "ok"
  <2>1. Fail(t, r) /\ UNCHANGED <<rows, schema, lock, local>>
    BY <1>2 DEF Conclude, durable
  <2> QED
    BY <2>1, FailFits DEF Inv, local
<1> QED
  BY <1>1, <1>2

(* One more step, and one compensation: the effect that it takes back is   *)
(* the last one of the work.                                               *)
LEMMA ExtendsLemma ==
    ASSUME NEW base \in Seq(Effects), NEW s \in Seq(Effects), NEW p \in Plans,
           NEW n \in 0..(Steps - 1), Extends(s, base, p, n)
    PROVE  LET e == [plan |-> p, step |-> n + 1]
           IN  Append(s, e) \in Seq(Effects) /\ Extends(Append(s, e), base, p, n + 1)
<1> DEFINE e == [plan |-> p, step |-> n + 1]
<1>1. e \in Effects
  BY ConstantsAssumption DEF Effects
<1>2. /\ Append(s, e) \in Seq(Effects) /\ Len(Append(s, e)) = Len(s) + 1
      /\ \A i \in 1..Len(s) : Append(s, e)[i] = s[i]
      /\ Append(s, e)[Len(s) + 1] = e
  BY <1>1, AppendProperties
<1>3. Len(base) \in Nat /\ Len(s) = Len(base) + n
  BY LenProperties DEF Extends
<1> HIDE DEF e
<1>4. \A i \in 1..Len(base) : Append(s, e)[i] = base[i]
  BY <1>2, <1>3 DEF Extends
<1>5. ASSUME NEW j \in 1..(n + 1)
      PROVE  Append(s, e)[Len(base) + j] = [plan |-> p, step |-> j]
  <2>1. CASE j = n + 1
    BY <1>2, <1>3, <2>1 DEF e
  <2>2. CASE j # n + 1
    <3>1. j \in 1..n /\ Len(base) + j \in 1..Len(s)
      BY <1>3, <2>2
    <3> QED
      BY <1>2, <3>1 DEF Extends
  <2> QED
    BY <2>1, <2>2
<1>6. Extends(Append(s, e), base, p, n + 1)
  BY <1>2, <1>3, <1>4, <1>5 DEF Extends
<1> QED
  BY <1>2, <1>6 DEF e

LEMMA PrefixLemma ==
    ASSUME NEW S, NEW s \in Seq(S), NEW n \in 0..Len(s)
    PROVE  /\ SubSeq(s, 1, n) \in Seq(S) /\ Len(SubSeq(s, 1, n)) = n
           /\ \A i \in 1..n : SubSeq(s, 1, n)[i] = s[i]
<1>1. Len(s) \in Nat /\ n \in Nat /\ n <= Len(s)
  BY LenProperties
<1>2. \A i \in 1..n : s[i] \in S
  <2>1. \A i \in 1..n : i \in 1..Len(s)
    BY <1>1
  <2> QED
    BY <2>1, ElementOfSeq
<1> QED
  BY <1>1, <1>2, SubSeqProperties

LEMMA ShortensLemma ==
    ASSUME NEW base \in Seq(Effects), NEW s \in Seq(Effects),
           NEW n \in 0..(Steps - 1), Shortens(s, base, n), NEW e,
           Len(base) - n \in 1..Len(base), base[Len(base) - n] = e
    PROVE  Shortens(Compensated(s, e), base, n + 1)
<1>1. Len(base) \in Nat /\ Len(s) \in 1..Len(base) /\ s[Len(s)] = e
  BY LenProperties, ConstantsAssumption DEF Shortens
<1>2. Compensated(s, e) = SubSeq(s, 1, Len(s) - 1)
  <2>1. s # <<>>
    BY <1>1, EmptySeq
  <2> QED
    BY <1>1, <2>1 DEF Compensated
<1>3. PICK m \in 0..Len(s) : m = Len(s) - 1
  <2>1. Len(s) - 1 \in 0..Len(s)
    BY <1>1
  <2> QED
    BY <2>1
<1>4. /\ Len(SubSeq(s, 1, m)) = m
      /\ \A i \in 1..m : SubSeq(s, 1, m)[i] = s[i]
  BY PrefixLemma
<1>5. Len(s) = Len(base) - n /\ n \in Int /\ \A i \in 1..Len(s) : s[i] = base[i]
  BY ConstantsAssumption DEF Shortens
<1>6. m \in Nat /\ m = Len(base) - (n + 1) /\ \A i \in 1..m : i \in 1..Len(s)
  BY <1>1, <1>3, <1>5
<1>7. \A i \in 1..m : SubSeq(s, 1, m)[i] = base[i]
  BY <1>4, <1>5, <1>6
<1> QED
  BY <1>2, <1>3, <1>4, <1>6, <1>7 DEF Shortens

LEMMA RunStepFits ==
    ASSUME Inv, LedgerInv, NEW t \in Calls, NEW r \in Replies, RunStep(t, r)
    PROVE  LedgerInv'
<1>1. /\ UNCHANGED <<rows, schema, lock, kind, plan, saw, row>>
      /\ \A u \in Calls \ {t} : work'[u] = work[u] /\ step'[u] = step[u]
  BY DEF RunStep, durable, Inv, TypeOK
<1>2. CASE r # "ok"
  BY <1>1, <1>2, FailFits DEF RunStep, Inv
<1>3. CASE r = "ok"
  <2>1. /\ pc[t] = "steps" /\ step[t] \in 0..(Steps - 1) /\ plan[t] \in Plans
        /\ kind[t] \in {"apply", "rollback"}
        /\ work[t] \in Seq(Effects) /\ schema \in Seq(Effects)
    BY ConstantsAssumption DEF RunStep, Inv, TypeOK, CallsTyped
  <2>2. /\ work'[t] = Executed(t) /\ step'[t] = step[t] + 1
        /\ pc'[t] = IF step[t] + 1 = Steps THEN "record" ELSE "steps"
        /\ \A u \in Calls \ {t} : pc'[u] = pc[u]
    BY <1>3 DEF RunStep, Inv, TypeOK, Goto, Leave
  <2>3. lock = t /\ PlanKnown(t) /\ WorkFits(t)
    BY <2>1 DEF LedgerInv, Fits, LockHeld, LockedPCs
  <2>4. PlanKnown(t)'
    BY <1>1, <2>1, <2>2, <2>3 DEF PlanKnown, IsLatest, Committing
  <2>5. CASE kind[t] = "apply"
    <3>1. Extends(work[t], schema, plan[t], step[t])
      BY <2>1, <2>3, <2>5 DEF WorkFits, WorkingPCs
    <3>2. Extends(Executed(t), schema, plan[t], step[t] + 1)
      BY <2>1, <2>5, <3>1, ExtendsLemma DEF Executed, Effect
    <3> QED
      BY <1>1, <2>2, <2>3, <2>4, <2>5, <3>2, OthersFit DEF Fits, LockHeld, WorkFits
  <2>6. CASE kind[t] = "rollback" /\ rows # saw[t].rows
    BY <1>1, <2>2, <2>3, <2>4, <2>6, OthersFit DEF Fits, LockHeld, WorkFits
  <2>7. CASE kind[t] = "rollback" /\ rows = saw[t].rows
    <3>1. Shortens(work[t], schema, step[t])
      BY <2>1, <2>3, <2>7 DEF WorkFits, WorkingPCs
    <3>2. PICK w \in rows : w.plan = plan[t] /\ \A v \in rows : v.id <= w.id
      BY <2>1, <2>3, <2>7 DEF PlanKnown, IsLatest
    <3>3. Ranked(rows) /\ SchemaFits(rows, schema)
      BY DEF LedgerInv, LedgerFits
    <3>4. /\ Len(schema) - step[t] \in 1..Len(schema)
          /\ schema[Len(schema) - step[t]] = [plan |-> plan[t], step |-> Steps - step[t]]
      BY <2>1, <3>2, <3>3, TailLemma
    <3>5. Shortens(Executed(t), schema, step[t] + 1)
      BY <2>1, <2>7, <3>1, <3>4, ShortensLemma DEF Executed, Effect
    <3> QED
      BY <1>1, <2>2, <2>3, <2>4, <2>7, <3>5, OthersFit DEF Fits, LockHeld, WorkFits
  <2> QED
    BY <2>1, <2>5, <2>6, <2>7
<1> QED
  BY <1>2, <1>3

(* The row that is written is of the plan whose steps were executed.       *)
LEMMA WriteRowFits ==
    ASSUME Inv, LedgerInv, NEW t \in Calls, NEW r \in Replies, WriteRow(t, r)
    PROVE  LedgerInv'
<1>1. /\ UNCHANGED <<rows, schema, lock, kind, plan, saw, work, step>>
      /\ TypeOK /\ pc[t] = "record" /\ kind[t] \in {"apply", "rollback"}
  BY DEF WriteRow, durable, Inv, CallsTyped
<1>2. CASE r # "ok"
  <2>1. Fail(t, r) /\ row' = row
    BY <1>1, <1>2 DEF WriteRow
  <2> QED
    BY <1>1, <2>1, FailFits
<1>3. CASE r = "ok"
  <2>1. lock = t /\ PlanKnown(t) /\ WorkFits(t)
    BY <1>1 DEF LedgerInv, Fits, LockHeld, LockedPCs
  <2>2. pc'[t] = "commit" /\ \A u \in Calls \ {t} : pc'[u] = pc[u] /\ row'[u] = row[u]
    BY <1>1, <1>3 DEF WriteRow, Goto, Leave, TypeOK
  <2>3. row'[t].plan = plan[t]
    <3>1. CASE kind[t] = "apply"
      BY <1>1, <1>3, <3>1 DEF WriteRow, TypeOK
    <3>2. CASE kind[t] = "rollback"
      <4>1. row'[t] \in SameName(t)
        BY <1>1, <1>3, <3>2 DEF WriteRow, TypeOK
      <4>2. \E w \in saw[t].rows : w.plan = plan[t]
        BY <1>1, <2>1, <3>2 DEF PlanKnown
      <4> QED
        BY <4>1, <4>2 DEF SameName, Inv, LedgersOk, LedgerOk
    <3> QED
      BY <1>1, <3>1, <3>2
  <2>4. PlanKnown(t)'
    BY <1>1, <2>1, <2>2, <2>3 DEF PlanKnown
  <2>5. WorkFits(t)'
    BY <1>1, <2>1, <2>2 DEF WorkFits, WorkingPCs, Committing
  <2>6. Fits(t)'
    BY <1>1, <2>1, <2>4, <2>5 DEF Fits, LockHeld
  <2> QED
    BY <1>1, <2>2, <2>6, OthersFit
<1> QED
  BY <1>2, <1>3

(* What the COMMIT of a transaction does to ledger and schema: they grow by*)
(* a plan and its steps, or lose the latest ones.                          *)
LEMMA InstallChange ==
    ASSUME Inv, LedgerInv, NEW t \in Calls, pc[t] \in Committing, Install(t)
    PROVE  /\ lock = t /\ kind[t] \in {"apply", "rollback"}
           /\ rows \subseteq Rows /\ schema \in Seq(Effects) /\ work[t] \in Seq(Effects)
           /\ schema' = work[t]
           /\ kind[t] = "apply" =>
                /\ rows' = rows \cup {row[t]} /\ row[t] \in Rows
                /\ Extends(work[t], schema, row[t].plan, Steps)
                /\ \A w \in rows : w.id < row[t].id /\ NameOf[w.plan] # NameOf[row[t].plan]
           /\ kind[t] = "rollback" =>
                /\ rows' = rows \ {row[t]} /\ row[t] \in rows
                /\ Shortens(work[t], schema, Steps)
                /\ \A v \in rows : v.id <= row[t].id
<1>1. TypeOK /\ pc[t] \in PCs \ {"idle"} /\ Fits(t)
  BY DEF Inv, LedgerInv, Committing, PCs
<1>2. /\ rows = saw[t].rows /\ schema' = work[t] /\ kind[t] \in {"apply", "rollback"}
      /\ rows' = IF kind[t] = "apply" THEN rows \cup {row[t]} ELSE rows \ {row[t]}
  BY <1>1 DEF Install, Serializable, Inv, CallsTyped
<1>3. lock = t /\ step[t] = Steps /\ row[t].plan = plan[t]
  BY <1>1 DEF Fits, LockHeld, LockedPCs, PlanKnown, Committing
<1>4. /\ kind[t] = "apply" => Extends(work[t], schema, row[t].plan, Steps)
      /\ kind[t] = "rollback" => Shortens(work[t], schema, Steps)
  BY <1>1, <1>2, <1>3 DEF Fits, WorkFits, WorkingPCs
<1> QED
  BY <1>1, <1>2, <1>3, <1>4 DEF Inv, RowPrepared, TypeOK

LEMMA InstallFits ==
    ASSUME Inv, LedgerInv, NEW t \in Calls, NEW o, pc[t] \in Committing,
           Install(t), Forget(t), Leave(t, "idle", o)
    PROVE  LedgerInv'
<1>1. LedgerFits'
  <2>1. Ranked(rows) /\ SchemaFits(rows, schema)
    BY DEF LedgerInv, LedgerFits
  <2>2. CASE kind[t] = "apply"
    <3>1. Ranked(rows \cup {row[t]}) /\ SchemaFits(rows \cup {row[t]}, work[t])
      BY <2>1, <2>2, InstallChange, GrowLemma
    <3> QED
      BY <2>2, <3>1, InstallChange DEF LedgerFits
  <2>3. CASE kind[t] = "rollback"
    <3>1. Ranked(rows \ {row[t]}) /\ SchemaFits(rows \ {row[t]}, work[t])
      BY <2>1, <2>3, InstallChange, ShrinkLemma
    <3> QED
      BY <2>3, <3>1, InstallChange DEF LedgerFits
  <2> QED
    BY <2>2, <2>3, InstallChange
<1>2. ASSUME NEW u \in Calls PROVE Fits(u)'
  <2>1. CASE u = t
    BY <2>1, QuietFits DEF Leave, Inv, TypeOK, LockedPCs
  <2>2. CASE u # t
    <3>1. pc[u] \notin LockedPCs
      BY <2>2, InstallChange DEF LedgerInv, Fits, LockHeld
    <3>2. pc'[u] = pc[u]
      BY <2>2 DEF Leave, Inv, TypeOK
    <3> QED
      BY <3>1, <3>2, QuietFits
  <2> QED
    BY <2>1, <2>2
<1> QED
  BY <1>1, <1>2 DEF LedgerInv

LEMMA CommitFits ==
    ASSUME Inv, LedgerInv, NEW t \in Calls, NEW r \in Replies, Commit(t, r)
    PROVE  LedgerInv'
<1>1. TypeOK /\ pc[t] = "commit"
  BY DEF Inv, Commit
<1>2. CASE Install(t) /\ Forget(t) /\ \E o \in Reports : Leave(t, "idle", o)
  BY <1>1, <1>2, InstallFits DEF Committing
<1>3. CASE CommitFails(t, r) /\ UNCHANGED <<durable, lock, local, committed>>
  <2>1. UNCHANGED <<rows, schema, lock, kind, plan, saw, work, step, row>>
    BY <1>3 DEF durable, local
  <2>2. CASE Leave(t, "abort", "unknown")
    BY <1>1, <2>1, <2>2, GiveUpFits
  <2>3. CASE Leave(t, "orphan_commit", "unknown")
    <3>1. pc'[t] = "orphan_commit" /\ \A u \in Calls \ {t} : pc'[u] = pc[u]
      BY <1>1, <2>3 DEF Leave, TypeOK
    <3>2. Fits(t)'
      BY <1>1, <2>1, <3>1, FrameFits DEF LedgerInv
    <3> QED
      BY <2>1, <3>1, <3>2, OthersFit
  <2> QED
    BY <1>3, <2>2, <2>3 DEF CommitFails
<1> QED
  BY <1>2, <1>3 DEF Commit, Reports

LEMMA AbortFits ==
    ASSUME Inv, LedgerInv, NEW t \in Calls, NEW r \in Replies, Abort(t, r)
    PROVE  LedgerInv'
<1>1. TypeOK /\ UNCHANGED <<rows, schema>>
  BY DEF Inv, Abort, durable
<1>2. CASE Forget(t) /\ \E o : Leave(t, "idle", o)
  BY <1>1, <1>2, EndFits
<1>3. CASE UNCHANGED <<lock, local>> /\ \E o : Leave(t, "orphan", o)
  BY <1>1, <1>3, GiveUpFits DEF local
<1> QED
  BY <1>2, <1>3 DEF Abort

LEMMA BackendExitFits ==
    ASSUME Inv, LedgerInv, NEW t \in Calls, BackendExit(t)
    PROVE  LedgerInv'
<1>1. Forget(t) /\ Leave(t, "idle", report[t])
  BY DEF BackendExit, Goto
<1>2. CASE pc[t] = "orphan_commit" /\ Install(t)
  BY <1>1, <1>2, InstallFits DEF Committing
<1>3. CASE UNCHANGED <<durable, committed>>
  BY <1>1, <1>3, EndFits DEF durable, Inv
<1> QED
  BY <1>2, <1>3 DEF BackendExit

LEMMA CrashFits ==
    ASSUME Inv, LedgerInv, Crash
    PROVE  LedgerInv'
<1>1. UNCHANGED <<rows, schema, lock, kind, plan, saw, work, step, row>>
  BY DEF Crash, durable, local
<1>2. ASSUME NEW u \in Calls PROVE Fits(u)'
  <2>1. CASE pc[u] \in Committing
    <3>1. pc'[u] = "orphan_commit"
      BY <2>1 DEF Crash, Committing
    <3> QED
      BY <1>1, <2>1, <3>1, FrameFits DEF LedgerInv, Committing
  <2>2. CASE pc[u] \notin Committing
    <3>1. pc'[u] \in {"idle", "orphan"}
      BY <2>2 DEF Crash, Committing
    <3> QED
      BY <3>1, QuietFits DEF LockedPCs
  <2> QED
    BY <2>1, <2>2
<1>3. LedgerFits'
  BY <1>1 DEF LedgerInv, LedgerFits
<1> QED
  BY <1>2, <1>3 DEF LedgerInv

LEMMA LedgerStep == Inv /\ LedgerInv /\ [Next]_vars => LedgerInv'
<1> SUFFICES ASSUME Inv, LedgerInv, [Next]_vars PROVE LedgerInv'
  OBVIOUS
<1>1. CASE \E t \in Calls, r \in Replies : Begin(t, r)
  BY <1>1, BeginFits DEF Inv
<1>2. CASE \E t \in Calls : Step(t)
  BY <1>2, AcquireLockFits, ReadLedgerFits, ConcludeFits, RunStepFits, WriteRowFits,
     CommitFits, AbortFits DEF Step, Inv
<1>3. CASE \E t \in Calls : BackendExit(t)
  BY <1>3, BackendExitFits
<1>4. CASE Crash
  BY <1>4, CrashFits
<1>5. CASE UNCHANGED vars
  <2>1. UNCHANGED <<rows, schema, lock, pc, kind, plan, saw, work, step, row>>
    BY <1>5 DEF vars, durable, local
  <2>2. \A u \in Calls : Fits(u)'
    BY <2>1, FrameFits DEF LedgerInv
  <2>3. LedgerFits'
    BY <2>1 DEF LedgerInv, LedgerFits
  <2> QED
    BY <2>2, <2>3 DEF LedgerInv
<1> QED
  BY <1>1, <1>2, <1>3, <1>4, <1>5 DEF Next

-----------------------------------------------------------------------------
(* The effects of a plan, the plans of a ledger, oldest first, and what an *)
(* abstract push and pop are here.                                         *)
PlanEffects(p) == [i \in 1..Steps |-> [plan |-> p, step |-> i]]
Stack(R) == [i \in 1..Cardinality(R) |-> At(R, i).plan]

LEMMA StackLemma ==
    ASSUME NEW R, Ranked(R)
    PROVE  /\ Stack(R) \in Seq(Plans) /\ Len(Stack(R)) = Cardinality(R)
           /\ \A i \in 1..Cardinality(R) : Stack(R)[i] = At(R, i).plan
<1>1. Cardinality(R) \in Nat /\ R \subseteq Rows
      /\ \A i \in 1..Cardinality(R) : At(R, i) \in R
  BY RankLemma DEF Ranked
<1>2. Stack(R) \in [1..Cardinality(R) -> Plans]
  BY <1>1 DEF Stack, Rows
<1> QED
  BY <1>1, <1>2 DEF Stack

LEMMA PushLemma ==
    ASSUME NEW R, Ranked(R), NEW s \in Seq(Effects), NEW s2 \in Seq(Effects),
           NEW x \in Rows, \A w \in R : w.id < x.id,
           Extends(s2, s, x.plan, Steps)
    PROVE  /\ Stack(R \cup {x}) = Append(Stack(R), x.plan)
           /\ s2 = s \o PlanEffects(x.plan)
<1> DEFINE e == PlanEffects(x.plan)
<1>1. x.plan \in Plans /\ Steps \in Nat
  BY ConstantsAssumption DEF Rows
<1>2. Stack(R \cup {x}) = Append(Stack(R), x.plan)
  <2>1. /\ Ranked(R \cup {x}) /\ Cardinality(R \cup {x}) = Cardinality(R) + 1
        /\ At(R \cup {x}, Cardinality(R) + 1) = x
        /\ \A i \in 1..Cardinality(R) : At(R \cup {x}, i) = At(R, i)
    BY TopLemma
  <2>2. /\ Stack(R) \in Seq(Plans) /\ Len(Stack(R)) = Cardinality(R)
        /\ \A i \in 1..Cardinality(R) : Stack(R)[i] = At(R, i).plan
    BY StackLemma
  <2>3. /\ Stack(R \cup {x}) \in Seq(Plans) /\ Len(Stack(R \cup {x})) = Cardinality(R) + 1
        /\ \A i \in 1..(Cardinality(R) + 1) : Stack(R \cup {x})[i] = At(R \cup {x}, i).plan
    BY <2>1, StackLemma
  <2>4. /\ Append(Stack(R), x.plan) \in Seq(Plans)
        /\ Len(Append(Stack(R), x.plan)) = Cardinality(R) + 1
        /\ \A i \in 1..Cardinality(R) : Append(Stack(R), x.plan)[i] = Stack(R)[i]
        /\ Append(Stack(R), x.plan)[Cardinality(R) + 1] = x.plan
    BY <1>1, <2>2, AppendProperties
  <2>5. Cardinality(R) \in Nat
    BY RankLemma
  <2>6. ASSUME NEW i \in 1..(Cardinality(R) + 1)
        PROVE  Stack(R \cup {x})[i] = Append(Stack(R), x.plan)[i]
    <3>1. CASE i \in 1..Cardinality(R)
      BY <2>1, <2>2, <2>3, <2>4, <3>1
    <3>2. CASE i = Cardinality(R) + 1
      <4>1. Cardinality(R) + 1 \in 1..(Cardinality(R) + 1)
        BY <2>5
      <4>2. Stack(R \cup {x})[Cardinality(R) + 1] = x.plan
        BY <2>1, <2>3, <4>1
      <4>3. Append(Stack(R), x.plan)[Cardinality(R) + 1] = x.plan
        BY <2>4
      <4> QED
        BY <3>2, <4>2, <4>3
    <3>3. i \in 1..Cardinality(R) \/ i = Cardinality(R) + 1
      BY <2>5
    <3> QED
      BY <3>1, <3>2, <3>3
  <2> QED
    BY <2>3, <2>4, <2>6, SeqEqual
<1>3. s2 = s \o e
  <2>1. e \in Seq(Effects) /\ Len(e) = Steps
    <3>1. e \in [1..Steps -> Effects]
      BY <1>1 DEF Effects, PlanEffects
    <3> QED
      BY <1>1, <3>1
  <2> HIDE DEF e
  <2>2. /\ s \o e \in Seq(Effects) /\ Len(s \o e) = Len(s) + Steps
        /\ \A i \in 1..(Len(s) + Steps) :
             (s \o e)[i] = IF i <= Len(s) THEN s[i] ELSE e[i - Len(s)]
    BY <2>1, ConcatProperties
  <2>3. Len(s) \in Nat /\ Len(s2) = Len(s) + Steps
    BY LenProperties DEF Extends
  <2>4. ASSUME NEW i \in 1..(Len(s) + Steps) PROVE s2[i] = (s \o e)[i]
    <3>1. CASE i <= Len(s)
      BY <2>2, <2>3, <3>1 DEF Extends
    <3>2. CASE ~(i <= Len(s))
      <4>1. PICK j \in 1..Steps : i = Len(s) + j
        <5>1. i - Len(s) \in 1..Steps /\ i = Len(s) + (i - Len(s))
          BY <1>1, <2>3, <3>2
        <5> QED
          BY <5>1
      <4>2. s2[i] = [plan |-> x.plan, step |-> j]
        BY <4>1 DEF Extends
      <4>3. i - Len(s) = j
        BY <2>3, <4>1
      <4>4. (s \o e)[i] = e[j]
        BY <2>2, <3>2, <4>3
      <4>5. e[j] = [plan |-> x.plan, step |-> j]
        BY DEF e, PlanEffects
      <4> QED
        BY <4>2, <4>4, <4>5
    <3> QED
      BY <3>1, <3>2
  <2> QED
    BY <2>2, <2>3, <2>4, SeqEqual
<1> QED
  BY <1>2, <1>3

LEMMA PopLemma ==
    ASSUME NEW R, Ranked(R), NEW s \in Seq(Effects), NEW s2 \in Seq(Effects),
           NEW x \in R, \A v \in R : v.id <= x.id,
           SchemaFits(R, s), Shortens(s2, s, Steps)
    PROVE  /\ Stack(R) # <<>>
           /\ Stack(R \ {x}) = SubSeq(Stack(R), 1, Len(Stack(R)) - 1)
           /\ s2 = SubSeq(s, 1, Len(s) - Steps)
<1>1. /\ Ranked(R \ {x}) /\ Cardinality(R \ {x}) = Cardinality(R) - 1
      /\ Cardinality(R) \in Nat \ {0}
      /\ \A i \in 1..(Cardinality(R) - 1) : At(R \ {x}, i) = At(R, i)
  BY DropLemma
<1>2. /\ Stack(R) \in Seq(Plans) /\ Len(Stack(R)) = Cardinality(R)
      /\ \A i \in 1..Cardinality(R) : Stack(R)[i] = At(R, i).plan
  BY StackLemma
<1>3. /\ Stack(R \ {x}) \in Seq(Plans) /\ Len(Stack(R \ {x})) = Cardinality(R) - 1
      /\ \A i \in 1..(Cardinality(R) - 1) : Stack(R \ {x})[i] = At(R \ {x}, i).plan
  BY <1>1, StackLemma
<1>4. Stack(R) # <<>>
  BY <1>1, <1>2, EmptySeq
<1>5. Stack(R \ {x}) = SubSeq(Stack(R), 1, Len(Stack(R)) - 1)
  <2>1. PICK n \in 0..Len(Stack(R)) : n = Cardinality(R) - 1
    <3>1. Cardinality(R) - 1 \in 0..Len(Stack(R))
      BY <1>1, <1>2
    <3> QED
      BY <3>1
  <2>2. /\ SubSeq(Stack(R), 1, n) \in Seq(Plans) /\ Len(SubSeq(Stack(R), 1, n)) = n
        /\ \A i \in 1..n : SubSeq(Stack(R), 1, n)[i] = Stack(R)[i]
    BY <1>2, PrefixLemma
  <2>3. ASSUME NEW i \in 1..n PROVE Stack(R \ {x})[i] = SubSeq(Stack(R), 1, n)[i]
    <3>1. i \in 1..(Cardinality(R) - 1) /\ i \in 1..Cardinality(R)
      BY <1>1, <2>1
    <3>2. Stack(R \ {x})[i] = At(R, i).plan
      BY <1>1, <1>3, <3>1
    <3> QED
      BY <1>2, <2>2, <3>1, <3>2
  <2>4. Stack(R \ {x}) = SubSeq(Stack(R), 1, n)
    BY <1>3, <2>1, <2>2, <2>3, SeqEqual
  <2> QED
    BY <1>2, <2>1, <2>4
<1>6. s2 = SubSeq(s, 1, Len(s) - Steps)
  <2>1. Len(s) \in Nat /\ Len(s2) \in Nat /\ Len(s2) = Len(s) - Steps
    BY LenProperties DEF Shortens
  <2>2. PICK n \in 0..Len(s) : n = Len(s2)
    BY <2>1, ConstantsAssumption
  <2>3. /\ SubSeq(s, 1, n) \in Seq(Effects) /\ Len(SubSeq(s, 1, n)) = n
        /\ \A i \in 1..n : SubSeq(s, 1, n)[i] = s[i]
    BY PrefixLemma
  <2>4. \A i \in 1..n : s2[i] = SubSeq(s, 1, n)[i]
    BY <2>2, <2>3 DEF Shortens
  <2>5. s2 = SubSeq(s, 1, n)
    BY <2>2, <2>3, <2>4, SeqEqual
  <2> QED
    BY <2>1, <2>2, <2>5
<1> QED
  BY <1>4, <1>5, <1>6

(* The mapping: the plans of the ledger in the order of their ids.         *)
LEMMA LedgerMapping == [i \in 1..Cardinality(rows) |-> PlanAt(i)] = Stack(rows)
  BY DEF PlanAt, Stack, At, Rank, Below

LEMMA LedgerRefinesInit == Init => Ledger!Init
<1> SUFFICES ASSUME Init PROVE Ledger!Init
  OBVIOUS
<1>1. Cardinality({}) = 0 /\ IsFiniteSet({})
  BY FS_EmptySet
<1>2. Ranked(rows) /\ rows = {} /\ schema = <<>>
  BY <1>1 DEF Init, Ranked
<1>3. Stack(rows) \in Seq(Plans) /\ Len(Stack(rows)) = 0
  BY <1>1, <1>2, StackLemma
<1>4. Stack(rows) = <<>>
  BY <1>3, EmptySeq
<1> QED
  BY <1>2, <1>4, LedgerMapping DEF Ledger!Init

(* A COMMIT is a push or a pop.                                            *)
LEMMA InstallRefines ==
    ASSUME Inv, LedgerInv, NEW t \in Calls, pc[t] \in Committing, Install(t)
    PROVE  \/ \E p \in Plans :
                /\ \A i \in DOMAIN Stack(rows) : NameOf[Stack(rows)[i]] # NameOf[p]
                /\ Stack(rows)' = Append(Stack(rows), p)
                /\ schema' = schema \o PlanEffects(p)
           \/ /\ Stack(rows) # <<>>
              /\ Stack(rows)' = SubSeq(Stack(rows), 1, Len(Stack(rows)) - 1)
              /\ schema' = SubSeq(schema, 1, Len(schema) - Steps)
<1>1. Ranked(rows) /\ SchemaFits(rows, schema)
  BY DEF LedgerInv, LedgerFits
<1>2. Stack(rows)' = Stack(rows')
  BY DEF Stack, At, Rank, Below
<1>3. CASE kind[t] = "apply"
  <2>1. /\ Stack(rows') = Append(Stack(rows), row[t].plan)
        /\ schema' = schema \o PlanEffects(row[t].plan)
    <3>1. /\ rows' = rows \cup {row[t]} /\ schema' = work[t] /\ row[t] \in Rows
          /\ schema \in Seq(Effects) /\ work[t] \in Seq(Effects)
          /\ Extends(work[t], schema, row[t].plan, Steps)
          /\ \A w \in rows : w.id < row[t].id
      BY <1>3, InstallChange
    <3>2. /\ Stack(rows \cup {row[t]}) = Append(Stack(rows), row[t].plan)
          /\ work[t] = schema \o PlanEffects(row[t].plan)
      BY <1>1, <3>1, PushLemma
    <3> QED
      BY <3>1, <3>2, Zenon
  <2>2. row[t].plan \in Plans
    BY <1>3, InstallChange DEF Rows
  <2>3. ASSUME NEW i \in DOMAIN Stack(rows)
        PROVE  NameOf[Stack(rows)[i]] # NameOf[row[t].plan]
    <3>1. i \in 1..Cardinality(rows) /\ Stack(rows)[i] = At(rows, i).plan
      BY <1>1, StackLemma DEF Stack
    <3>2. At(rows, i) \in rows
      BY <1>1, <3>1, RankLemma
    <3> QED
      BY <1>3, <3>1, <3>2, InstallChange
  <2> QED
    BY <1>2, <2>1, <2>2, <2>3
<1>4. CASE kind[t] = "rollback"
  <2>1. /\ rows' = rows \ {row[t]} /\ schema' = work[t] /\ row[t] \in rows
        /\ schema \in Seq(Effects) /\ work[t] \in Seq(Effects)
        /\ Shortens(work[t], schema, Steps)
        /\ \A v \in rows : v.id <= row[t].id
    BY <1>4, InstallChange
  <2>2. /\ Stack(rows) # <<>>
        /\ Stack(rows \ {row[t]}) = SubSeq(Stack(rows), 1, Len(Stack(rows)) - 1)
        /\ work[t] = SubSeq(schema, 1, Len(schema) - Steps)
    BY <1>1, <2>1, PopLemma
  <2> QED
    BY <1>2, <2>1, <2>2, Zenon
<1> QED
  BY <1>3, <1>4, InstallChange

LEMMA LedgerRefinesNext ==
    ASSUME Inv, LedgerInv, [Next]_vars
    PROVE  [Ledger!Next]_(Ledger!vars)
<1>1. CASE UNCHANGED <<rows, schema>>
  <2>1. [i \in 1..Cardinality(rows) |-> PlanAt(i)]' = [i \in 1..Cardinality(rows) |-> PlanAt(i)]
    BY <1>1 DEF PlanAt
  <2> QED
    BY <1>1, <2>1 DEF Ledger!vars
<1>2. CASE \E t \in Calls : pc[t] \in Committing /\ Install(t)
  <2>1. [i \in 1..Cardinality(rows) |-> PlanAt(i)]' = Stack(rows)'
    BY LedgerMapping DEF PlanAt, Stack, At, Rank, Below
  <2>2. \/ \E p \in Plans :
                /\ \A i \in DOMAIN Stack(rows) : NameOf[Stack(rows)[i]] # NameOf[p]
                /\ Stack(rows)' = Append(Stack(rows), p)
                /\ schema' = schema \o PlanEffects(p)
        \/ /\ Stack(rows) # <<>>
           /\ Stack(rows)' = SubSeq(Stack(rows), 1, Len(Stack(rows)) - 1)
           /\ schema' = SubSeq(schema, 1, Len(schema) - Steps)
    BY <1>2, InstallRefines
  <2> QED
    BY <2>1, <2>2, LedgerMapping DEF Ledger!Next, Ledger!Push, Ledger!Pop, Ledger!Effects, PlanEffects
<1>3. UNCHANGED <<rows, schema>> \/ \E t \in Calls : pc[t] \in Committing /\ Install(t)
  BY DEF Next, Step, Begin, AcquireLock, ReadLedger, Conclude, RunStep, WriteRow, Commit,
      Abort, BackendExit, Crash, Committing, vars, durable
<1> QED
  BY <1>1, <1>2, <1>3

(* Reviewed migrations are a stack: whatever calls interleave, fail, lose  *)
(* their connection or read a snapshot older than the lock, each COMMIT    *)
(* puts one plan of a new name with all its steps on top, or takes the     *)
(* latest plan off with all its steps compensated, and nothing else        *)
(* changes the ledger or the schema.                                       *)
THEOREM MigrationsAreAStack == Spec => IsMigrationLedger
<1> DEFINE All == Inv /\ LedgerInv
<1>1. Init => All
  BY InvInit, LedgerInit
<1>2. All /\ [Next]_vars => All'
  BY InvStep, LedgerStep
<1>3. All /\ [Next]_vars => [Ledger!Next]_(Ledger!vars)
  BY LedgerRefinesNext
<1> QED
  BY LedgerRefinesInit, <1>1, <1>2, <1>3, PTL DEF Spec, IsMigrationLedger, Ledger!Spec

-----------------------------------------------------------------------------
(* The safety half of CallsEnd: how far a call is among its statements,    *)
(* the steps of its plan included, and who holds the advisory lock.        *)
Stage(l, steps) ==
    CASE l = "idle" -> 0
      [] l = "lock" -> 1
      [] l = "read" -> 2
      [] l = "steps" -> 3 + steps
      [] l = "record" -> 3 + Steps
      [] l \in {"commit", "conclude"} -> 4 + Steps
      [] l = "abort" -> 5 + Steps
      [] l \in {"orphan", "orphan_commit"} -> 6 + Steps

Moves(t) == Step(t) \/ BackendExit(t)

CallsAdvance ==
    [][\A t \in Calls :
          /\ pc'[t] = "idle" \/ Stage(pc[t], step[t]) <= Stage(pc'[t], step'[t])
          /\ Moves(t) =>
               pc'[t] = "idle" \/ Stage(pc[t], step[t]) < Stage(pc'[t], step'[t])]_vars

HolderIsAtWork == lock # NoCall => pc[lock] \notin {"idle", "lock"}

(* A call never comes back to a statement, nor to a step of its plan: each *)
(* takes it on, whatever the reply is, and neither another call nor the    *)
(* end of the server takes it back.                                        *)
THEOREM NoStatementTwice == Spec => CallsAdvance
<1> USE ConstantsAssumption
<1> DEFINE Before(t) == Stage(pc[t], step[t])
           After(t) == Stage(pc'[t], step'[t])
           Advance(t) ==
             /\ pc'[t] = "idle" \/ Before(t) <= After(t)
             /\ Moves(t) => pc'[t] = "idle" \/ Before(t) < After(t)
<1>1. ASSUME Inv, NEW t \in Calls, Moves(t)
      PROVE  pc'[t] = "idle" \/ Before(t) < After(t)
  <2>1. pc[t] \in PCs /\ step[t] \in 0..Steps
    BY <1>1 DEF Inv, TypeOK
  <2>2. CASE BackendExit(t)
    BY <1>1, <2>2 DEF BackendExit, Goto, Leave, Inv, TypeOK
  <2>3. CASE \E r \in Replies : RunStep(t, r)
    <3>1. /\ pc[t] = "steps" /\ step[t] < Steps
          /\ \/ pc'[t] = "steps" /\ step'[t] = step[t] + 1
             \/ pc'[t] \in {"record", "abort", "orphan"}
      BY <1>1, <2>3 DEF RunStep, Fail, Goto, Leave, Inv, TypeOK, CallsTyped
    <3> QED
      BY <2>1, <3>1 DEF Stage
  <2>4. CASE \E r \in Replies : AcquireLock(t, r) \/ ReadLedger(t, r)
    <3>1. \/ pc[t] = "lock" /\ pc'[t] \in {"read", "orphan"}
          \/ /\ pc[t] = "read" /\ pc'[t] \in {"conclude", "steps", "abort", "orphan"}
             /\ step' = step
      BY <1>1, <2>4 DEF AcquireLock, ReadLedger, ReadForApply, ReadForRollback, Fail, Goto,
                        Leave, Inv, TypeOK
    <3> QED
      BY <2>1, <3>1 DEF Stage
  <2>5. CASE \E r \in Replies : Conclude(t, r) \/ WriteRow(t, r) \/ Commit(t, r) \/ Abort(t, r)
    <3>1. \/ pc'[t] = "idle"
          \/ pc[t] = "record" /\ pc'[t] \in {"commit", "abort", "orphan"}
          \/ pc[t] \in {"commit", "conclude"} /\ pc'[t] \in {"abort", "orphan", "orphan_commit"}
          \/ pc[t] = "abort" /\ pc'[t] = "orphan"
      BY <1>1, <2>5 DEF Conclude, WriteRow, Commit, CommitFails, Abort, Fail, Goto, Leave, Inv,
                        TypeOK
    <3> QED
      BY <2>1, <3>1 DEF Stage
  <2> QED
    BY <1>1, <2>2, <2>3, <2>4, <2>5 DEF Moves, Step
<1>2. ASSUME Inv, [Next]_vars, NEW t \in Calls, ~ Moves(t)
      PROVE  \/ pc[t] = "idle" \/ (pc'[t] = pc[t] /\ step'[t] = step[t])
             \/ pc'[t] \in {"orphan", "orphan_commit"}
  <2>1. CASE UNCHANGED vars
    BY <2>1 DEF vars, local
  <2>2. CASE Crash
    BY <2>2 DEF Crash
  <2>3. CASE \E u \in Calls : (\E r \in Replies : Begin(u, r)) \/ Moves(u)
    <3>1. PICK u \in Calls : (\E r \in Replies : Begin(u, r)) \/ Moves(u)
      BY <2>3
    <3>2. \A v \in Calls : v # u => pc'[v] = pc[v] /\ step'[v] = step[v]
      <4>1. CASE \E r \in Replies : Begin(u, r) \/ AcquireLock(u, r) \/ ReadLedger(u, r)
        BY <1>2, <4>1 DEF Begin, AcquireLock, ReadLedger, ReadForApply, ReadForRollback, Fail, Goto,
                          Leave, local, Inv, TypeOK
      <4>2. CASE \E r \in Replies : Conclude(u, r) \/ WriteRow(u, r)
        BY <1>2, <4>2 DEF Conclude, WriteRow, Forget, Fail, Goto, Leave, local, Inv, TypeOK
      <4>3. CASE \E r \in Replies : RunStep(u, r)
        BY <1>2, <4>3 DEF RunStep, Fail, Goto, Leave, local, Inv, TypeOK
      <4>4. CASE (\E r \in Replies : Commit(u, r) \/ Abort(u, r)) \/ BackendExit(u)
        BY <1>2, <4>4 DEF Commit, CommitFails, Abort, BackendExit, Forget, Fail, Goto, Leave, local,
                          Inv, TypeOK
      <4> QED
        BY <3>1, <4>1, <4>2, <4>3, <4>4 DEF Moves, Step
    <3> QED
      BY <1>2, <3>1, <3>2 DEF Begin
  <2> QED
    BY <1>2, <2>1, <2>2, <2>3 DEF Next, Moves
<1>3. /\ \A n \in 0..Steps : Stage("idle", n) = 0
      /\ \A l \in PCs, n \in 0..Steps : Stage(l, n) \in 0..(6 + Steps)
      /\ \A n \in 0..Steps : Stage("orphan", n) = 6 + Steps /\ Stage("orphan_commit", n) = 6 + Steps
  BY DEF Stage, PCs
<1>4. Inv /\ Inv' /\ [Next]_vars => [\A t \in Calls : Advance(t)]_vars
  <2> SUFFICES ASSUME Inv, Inv', [Next]_vars, NEW t \in Calls
               PROVE  Advance(t)
    OBVIOUS
  <2>1. /\ pc[t] \in PCs /\ step[t] \in 0..Steps
        /\ pc'[t] \in PCs /\ step'[t] \in 0..Steps
    BY DEF Inv, TypeOK
  <2>2. /\ Before(t) \in 0..(6 + Steps) /\ After(t) \in 0..(6 + Steps)
        /\ pc[t] = "idle" => Before(t) = 0
        /\ pc'[t] \in {"orphan", "orphan_commit"} => After(t) = 6 + Steps
    BY <1>3, <2>1
  <2> QED
    BY <1>1, <1>2, <2>2
<1> QED
  BY Inductive, <1>4, PTL DEF Spec, CallsAdvance

(* Nobody waits for an advisory lock that nobody gives back: its holder is *)
(* a call that is past the lock, or a transaction that its client has left *)
(* to the pool or to the backend, and the end of either releases it.       *)
THEOREM LockIsGivenBack == Spec => []HolderIsAtWork
<1> USE ConstantsAssumption
<1>1. Init => HolderIsAtWork
  BY DEF Init, HolderIsAtWork
<1>2. Inv /\ HolderIsAtWork /\ [Next]_vars => HolderIsAtWork'
  <2> SUFFICES ASSUME Inv, HolderIsAtWork, [Next]_vars, lock' # NoCall
               PROVE  pc'[lock'] \notin {"idle", "lock"}
    BY DEF HolderIsAtWork
  <2> USE DEF Inv, TypeOK, Goto, Leave, HolderIsAtWork
  <2>1. CASE UNCHANGED vars
    BY <2>1 DEF vars
  <2>2. CASE Crash
    BY <2>2 DEF Crash
  <2>3. ASSUME NEW t \in Calls, NEW r \in Replies, Begin(t, r) \/ AcquireLock(t, r)
        PROVE  pc'[lock'] \notin {"idle", "lock"}
    BY <2>3 DEF Begin, AcquireLock, Replies, Done, Cancelled
  <2>4. ASSUME NEW t \in Calls, NEW r \in Replies, ReadLedger(t, r) \/ RunStep(t, r) \/ WriteRow(t, r)
        PROVE  pc'[lock'] \notin {"idle", "lock"}
    BY <2>4 DEF ReadLedger, ReadForApply, ReadForRollback, RunStep, WriteRow, Fail
  <2>5. ASSUME NEW t \in Calls, NEW r \in Replies, Conclude(t, r) \/ Commit(t, r) \/ Abort(t, r)
        PROVE  pc'[lock'] \notin {"idle", "lock"}
    BY <2>5 DEF Conclude, Commit, CommitFails, Abort, Forget, Fail
  <2>6. ASSUME NEW t \in Calls, BackendExit(t)
        PROVE  pc'[lock'] \notin {"idle", "lock"}
    BY <2>6 DEF BackendExit, Forget
  <2> QED
    BY <2>1, <2>2, <2>3, <2>4, <2>5, <2>6 DEF Next, Step
<1> QED
  BY Inductive, <1>1, <1>2, PTL DEF Spec
=============================================================================
