------------------------------- MODULE Advisor -------------------------------
(***************************************************************************)
(* The index advisor of index/: candidates from a workload, the greedy     *)
(* search of dta_calc.py or the attempts of llm_opt.py, and the report of  *)
(* what they chose.  A configuration is costed by EXPLAIN with HypoPG's    *)
(* hypothetical indexes.  These belong to a database session, and each     *)
(* statement runs on whatever session the pool hands out, with whatever    *)
(* indexes this or another call left there.                                *)
(***************************************************************************)
EXTENDS Integers, Sequences, FiniteSets, Functions, SequencesExt, FiniteSetsExt

CONSTANTS
    Columns, TableOf,   \* columns and their tables
    MaxIndexWidth,
    Sessions,           \* database sessions of the pool
    CostTables,         \* functions from sets of indexes to the workload's cost
    SizeOf(_),          \* estimated size of an index
    TableSize,          \* size of the tables involved
    Budgets,            \* budgets of the analyses; a negative one is no limit
    Workloads,          \* sets of queries [uses, conditions]
    ExistingIndexes,    \* sets of indexes of the database [columns, type, unique]
    LongTexts,          \* sets of columns that hold long texts
    Elsewhere,          \* sets of indexes that other calls explain with
    Alternatives,       \* sets of indexes that a plan uses or an LLM proposes
    MaxNoProgress, MaxAlternatives,
    NoIndex

VARIABLES
    hypo,      \* session -> its hypothetical indexes
    phase,     \* where the analysis is
    task,      \* what it was asked: method, workload, budget and the world
    costCache, \* configuration -> cost, of those explained so far
    chosen,    \* current_indexes of the search, or those of the best attempt
    left,      \* candidate_indexes
    tried,     \* candidates evaluated in this iteration, or attempts in this round
    best,      \* the best candidate of this iteration and its cost
    attempts,  \* rounds of the LLM search without progress
    recs       \* the recommendations, in the order of the report

advisorVars == <<hypo, phase, task, costCache, chosen, left, tried, best, attempts, recs>>

ASSUME AdvisorAssumption ==
    /\ MaxIndexWidth \in Nat \ {0} /\ TableSize \in Nat \ {0}
    /\ IsFiniteSet(Columns) /\ \A W \in Workloads : \A q \in W : q.uses \subseteq Columns
    /\ Budgets \subseteq Int \ {0}
    /\ \A S \in CostTables : \A T \in DOMAIN S : S[T] \in Nat \ {0}

(* The sequences of distinct columns of one table, the columns of indexes. *)
Indexes == {s \in SeqOf(Columns, MaxIndexWidth) :
              s # <<>> /\ IsInjective(s) /\ \A i, j \in DOMAIN s : TableOf[s[i]] = TableOf[s[j]]}

TotalSize(S) == MapThenSumSet(SizeOf, S)

-----------------------------------------------------------------------------
(* generate_candidates(): which indexes are considered.                    *)

(* Combinations keep the order in which a set of columns was listed.       *)
Combinations(listed, cols) ==
    {SelectSeq(listed, LAMBDA c : c \in S) : S \in {S \in SUBSET cols :
        Cardinality(S) \in 1..MaxIndexWidth
        /\ \A c, d \in S : TableOf[c] = TableOf[d]}}

SameIndex(candidate, index) ==
    /\ TableOf[candidate[1]] = TableOf[index.columns[1]]
    /\ index.type = "btree"
    /\ index.columns = candidate

IndexExists(candidate, existing) == \E e \in existing : SameIndex(candidate, e)

Candidates(t) ==
    LET cols == UNION {q.uses : q \in t.workload}
        conditions == UNION {q.conditions : q \in t.workload}
    IN {i \in Combinations(t.listed, cols) :
          /\ ~ IndexExists(i, t.existing)
          /\ Range(i) \subseteq conditions
          /\ Range(i) \cap t.longText = {}}

-----------------------------------------------------------------------------
(* Wrong on purpose: hypothetical indexes of the session stay.             *)
PresentUnreset(onSession, S) == onSession \cup S

(* The hypothetical indexes that EXPLAIN sees in one batch of statements:  *)
(* hypopg_reset(), one hypopg_create_index() for each index, EXPLAIN.      *)
Present(onSession, S) == S

(* The plan of a configuration is explained on session s, unless cached.   *)
Costed(cache, h, S, s) ==
    IF S \in DOMAIN cache THEN cache
    ELSE [T \in DOMAIN cache \cup {S} |->
            IF T = S THEN task.costOf[Present(h[s], S)] ELSE cache[T]]

Dirtied(cache, h, S, s) ==
    IF S \in DOMAIN cache THEN h ELSE [h EXCEPT ![s] = Present(h[s], S)]

Tasks == [method : {"dta", "llm"}, workload : Workloads, existing : ExistingIndexes,
          longText : LongTexts, listed : {s \in Indexes \cup SetToSeqs(Columns) : Range(s) = Columns},
          budget : Budgets, costOf : CostTables]

(* Every configuration of candidates has a cost, every candidate a size.   *)
ASSUME CandidatesAssumption ==
    \A t \in Tasks : /\ SUBSET Candidates(t) \subseteq DOMAIN t.costOf
                     /\ \A i \in Candidates(t) : SizeOf(i) \in Nat

Fresh == /\ costCache = [S \in {} |-> 0] /\ chosen = {} /\ left = {} /\ tried = {}
         /\ best = [index |-> NoIndex, cost |-> 0] /\ attempts = 0 /\ recs = <<>>

AdvisorInit ==
    /\ hypo = [s \in Sessions |-> {}]
    /\ phase = "idle"
    /\ task \in Tasks
    /\ Fresh

(* Another call explains a query with hypothetical indexes: they stay on   *)
(* the session when the call is over.                                      *)
ExplainElsewhere(s, S) ==
    /\ phase \notin {"done", "failed"}
    /\ hypo' = [hypo EXCEPT ![s] = Present(hypo[s], S)]
    /\ UNCHANGED <<phase, task, costCache, chosen, left, tried, best, attempts, recs>>

(* An error of any statement ends the analysis; the reset at the end is    *)
(* not reached, and a batch may have got anywhere.                         *)
AdvisorFails(s, S) ==
    /\ phase \notin {"idle", "done", "failed"}
    /\ phase' = "failed"
    /\ hypo' = [hypo EXCEPT ![s] = S]
    /\ recs' = <<>>
    /\ UNCHANGED <<task, costCache, chosen, left, tried, best, attempts>>

(* Pre-checks and the workload: with nothing to analyze the report is empty. *)
StartAnalysis ==
    /\ phase = "idle"
    /\ phase' = IF task.workload = {} THEN "done"
                ELSE IF task.method = "dta" THEN "candidates" ELSE "plan"
    /\ UNCHANGED <<hypo, task, costCache, chosen, left, tried, best, attempts, recs>>

(* All candidates are created on a session, to learn their sizes.          *)
CreateCandidates(s) ==
    /\ phase = "candidates"
    /\ left' = Candidates(task)
    /\ hypo' = [hypo EXCEPT ![s] = @ \cup Candidates(task)]
    /\ phase' = IF Candidates(task) = {} THEN "base" ELSE "reset"
    /\ UNCHANGED <<task, costCache, chosen, tried, best, attempts, recs>>

(* The reset after the candidates, and the one that ends the analysis.     *)
ResetHypothetical(s) ==
    /\ phase \in {"reset", "finish"}
    /\ hypo' = [hypo EXCEPT ![s] = {}]
    /\ phase' = IF phase = "reset" THEN "base" ELSE "impact"
    /\ UNCHANGED <<task, costCache, chosen, left, tried, best, attempts, recs>>

(* The cost without indexes, unless the time is already up.                *)
BaseCost(s, timeUp) ==
    /\ phase = "base"
    /\ costCache' = Costed(costCache, hypo, {}, s)
    /\ hypo' = Dirtied(costCache, hypo, {}, s)
    /\ phase' = IF timeUp THEN "format" ELSE "search"
    /\ UNCHANGED <<task, chosen, left, tried, best, attempts, recs>>

-----------------------------------------------------------------------------
(* _enumerate_greedy(): log(time) + 2 log(space) is compared as the product. *)
Space(S) == TableSize + TotalSize(S)
Objective(cost, space) == cost * space * space

(* Wrong on purpose: the candidate's own size is held against the budget.  *)
AffordableAlone(S, i) == task.budget > 0 => SizeOf(i) <= task.budget

Affordable(S, i) == task.budget > 0 => TotalSize(S \cup {i}) <= task.budget

(* (time - test_time) / time >= 0.1, the default of min_time_improvement.  *)
ImprovesEnough(before, after) == 10 * (before - after) >= before

Better(i, cost) ==
    LET now == IF best.index = NoIndex THEN costCache[chosen] ELSE best.cost
        space == IF best.index = NoIndex THEN Space(chosen)
                 ELSE Space(chosen \cup {best.index})
    IN /\ ImprovesEnough(costCache[chosen], cost)
       /\ Objective(cost, Space(chosen \cup {i})) < Objective(now, space)
       /\ cost < now

Evaluate(i, s) ==
    /\ phase = "search" /\ i \in left \ tried
    /\ tried' = tried \cup {i}
    /\ IF ~ Affordable(chosen, i) THEN UNCHANGED <<hypo, costCache, best>>
       ELSE /\ costCache' = Costed(costCache, hypo, chosen \cup {i}, s)
            /\ hypo' = Dirtied(costCache, hypo, chosen \cup {i}, s)
            /\ LET cost == costCache'[chosen \cup {i}] IN
               best' = IF Better(i, cost) THEN [index |-> i, cost |-> cost] ELSE best
    /\ UNCHANGED <<phase, task, chosen, left, attempts, recs>>

(* An iteration is over: its best index is taken, and the time is looked at. *)
NextIteration(timeUp) ==
    /\ phase = "search" /\ tried = left
    /\ tried' = {}
    /\ best' = [index |-> NoIndex, cost |-> 0]
    /\ IF best.index = NoIndex
       THEN phase' = "format" /\ UNCHANGED <<chosen, left>>
       ELSE /\ chosen' = chosen \cup {best.index}
            /\ left' = left \ {best.index}
            /\ phase' = IF timeUp THEN "format" ELSE "search"
    /\ UNCHANGED <<hypo, task, costCache, attempts, recs>>

-----------------------------------------------------------------------------
(* llm_opt.py: the indexes that the plan uses are the first attempt.       *)
PlanIndexes(s, used) ==
    /\ phase = "plan"
    /\ costCache' = Costed(costCache, hypo, {}, s)
    /\ hypo' = Dirtied(costCache, hypo, {}, s)
    /\ chosen' = used
    /\ best' = [index |-> NoIndex, cost |-> Objective(costCache'[{}], TableSize)]
    /\ phase' = "attempt"
    /\ UNCHANGED <<task, left, tried, attempts, recs>>

(* One alternative of a response; one that cannot be costed is discarded.  *)
TryAlternative(S, s, discarded) ==
    /\ phase = "attempt" /\ attempts < MaxNoProgress
    /\ Cardinality(tried) < MaxAlternatives /\ S \notin tried
    /\ tried' = tried \cup {S}
    /\ IF discarded THEN UNCHANGED <<hypo, costCache, chosen, best, left>>
       ELSE LET score == Objective(costCache'[S], Space(S)) IN
            /\ costCache' = Costed(costCache, hypo, S, s)
            /\ hypo' = Dirtied(costCache, hypo, S, s)
            /\ IF score < best.cost
               THEN /\ chosen' = S /\ best' = [best EXCEPT !.cost = score]
                    /\ left' = {S}
               ELSE UNCHANGED <<chosen, best, left>>
    /\ UNCHANGED <<phase, task, attempts, recs>>

(* The end of a round; left is not empty when it found an improvement.     *)
NextRound ==
    /\ phase = "attempt"
    /\ tried' = {} /\ left' = {}
    /\ IF tried = {} \/ attempts = MaxNoProgress
       THEN phase' = "format" /\ UNCHANGED attempts
       ELSE /\ attempts' = IF left # {} THEN 0 ELSE attempts + 1
            /\ UNCHANGED phase
    /\ UNCHANGED <<hypo, task, costCache, chosen, best, recs>>

-----------------------------------------------------------------------------
(* _format_recommendations(): the indexes are taken in any order, with the *)
(* cost of all so far and the cost of each alone; tried holds those seen.  *)
Fits(S, i) == task.budget < 0 \/ TotalSize(S \cup {i}) <= task.budget

Recommended == {recs[k].index : k \in DOMAIN recs}

Recommendation(i, cache, soFar, before) ==
    [index |-> i, before |-> before, after |-> cache[soFar], alone |-> cache[{i}]]

Format(i, s1, s2) ==
    LET soFar == tried \cup {i}
        withAll == Costed(costCache, hypo, soFar, s1)
        dirty == Dirtied(costCache, hypo, soFar, s1)
    IN /\ phase = "format" /\ i \in chosen \ tried
       /\ task.method = "llm" => task.budget > 0   \* without one, no budget_mb
       /\ tried' = soFar
       /\ costCache' = Costed(withAll, dirty, {i}, s2)
       /\ hypo' = Dirtied(withAll, dirty, {i}, s2)
       /\ recs' = IF ~ Fits(Recommended, i) THEN recs
                  ELSE Append(recs, Recommendation(i, costCache', soFar,
                                IF recs = <<>> THEN costCache'[{}] ELSE Last(recs).after))
       /\ UNCHANGED <<phase, task, chosen, left, best, attempts>>

Formatted ==
    /\ phase = "format" /\ tried = chosen
    /\ phase' = "finish"
    /\ UNCHANGED <<hypo, task, costCache, chosen, left, tried, best, attempts, recs>>

(* The report explains each query again with all recommended indexes.      *)
Report(s) ==
    /\ phase = "impact"
    /\ phase' = "done"
    /\ costCache' = IF recs = <<>> THEN costCache ELSE Costed(costCache, hypo, Recommended, s)
    /\ hypo' = IF recs = <<>> THEN hypo ELSE Dirtied(costCache, hypo, Recommended, s)
    /\ UNCHANGED <<task, chosen, left, tried, best, attempts, recs>>

AdvisorNext ==
    \/ \E s \in Sessions :
         \/ CreateCandidates(s) \/ ResetHypothetical(s) \/ Report(s)
         \/ \E S \in Elsewhere : ExplainElsewhere(s, S) \/ AdvisorFails(s, S)
         \/ \E S \in Alternatives :
              \/ PlanIndexes(s, S)
              \/ \E d \in BOOLEAN : TryAlternative(S, s, d)
         \/ \E timeUp \in BOOLEAN : BaseCost(s, timeUp)
         \/ \E i \in left : Evaluate(i, s)
         \/ \E i \in chosen, s2 \in Sessions : Format(i, s, s2)
    \/ \E timeUp \in BOOLEAN : NextIteration(timeUp)
    \/ StartAnalysis \/ NextRound \/ Formatted

-----------------------------------------------------------------------------
(* A cost that the advisor compares is the cost of exactly the indexes of  *)
(* its configuration, whatever hypothetical indexes this analysis, one     *)
(* that failed or another call left on the session that explained it.      *)
CostsAreOfTheirConfiguration ==
    \A S \in DOMAIN costCache : costCache[S] = task.costOf[S]

(* What the greedy search reports, also when it stops for time: indexes    *)
(* that are not there yet, within the budget together, none over a column  *)
(* of long texts; each index is compared with the ones before it, and the  *)
(* last cost is the cost of just the recommended indexes, each of which    *)
(* was worth at least a tenth of the cost before it when it was chosen.    *)
RecommendationsPayWithinBudget ==
    phase = "done" /\ task.method = "dta" /\ recs # <<>> =>
        /\ task.budget > 0 => TotalSize(Recommended) <= task.budget
        /\ \A i \in Recommended :
             ~ IndexExists(i, task.existing) /\ Range(i) \cap task.longText = {}
        /\ recs[1].before = task.costOf[{}]
        /\ \A k \in 1..(Len(recs) - 1) : recs[k + 1].before = recs[k].after
        /\ Last(recs).after = task.costOf[Recommended]
        /\ 10 * Last(recs).after <= 9 * task.costOf[{}]
=============================================================================
