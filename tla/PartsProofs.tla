----------------------------- MODULE PartsProofs -----------------------------
(***************************************************************************)
(* Theorems about the parts of the server that share no state: the         *)
(* failover assessment of Replication, the counts and pages of DataOps,    *)
(* the plans of Plans, the duplicate index check of IndexHealth and the    *)
(* costs and the greedy search of Advisor, for any nodes, rows, plans,     *)
(* indexes, sessions and costs; and what they say of ServerMC.             *)
(***************************************************************************)
EXTENDS ServerMC, ScanProofs, FiniteSetTheorems, SequenceTheorems, SumTheorems, TLAPS

-----------------------------------------------------------------------------
(* The failover assessment of Replication.                                 *)
CatalogRows ==
    Seq(ReplicationStandby) \cup Seq(ReplicationSlot) \cup Seq(WalReceiver)
      \cup Seq(LogicalSubscription) \cup Seq(Publication)

(* What decides in a row is in the snapshot as it was in the catalog.      *)
AsItWas(catalog, shown, row) ==
    /\ catalog = "slots" => shown.conflicting = row.conflicting /\ shown.lost = row.lost
    /\ catalog # "slots" => shown = row

(* A catalog that was read is in the snapshot up to the limit, and is      *)
(* listed as unavailable when the role may not see it.                     *)
Captured(k) ==
    LET c == Catalogs[k] IN
    /\ c \notin granted => c \in unavailable
    /\ c \in granted /\ c # "receiver" =>
         \A i \in DOMAIN was[k] : i <= limit =>
             /\ c \in DOMAIN topology /\ i \in DOMAIN topology[c]
             /\ AsItWas(c, topology[c][i], was[k][i])

ReplInv ==
    /\ node \in Nodes /\ limit \in RowLimits
    /\ step \in 0..Done /\ was \in Seq(CatalogRows)
    /\ step \in 1..AtRollback => Len(was) = step - 1 /\ \A k \in DOMAIN was : Captured(k)
    /\ step # Done => faults = {} /\ assessment = None
    /\ AssessmentIsHonest

-----------------------------------------------------------------------------
LEMMA CatalogsAreFive ==
    /\ Len(Catalogs) = 5 /\ DOMAIN Catalogs = 1..5 /\ AtRollback = 6 /\ Done = 7
    /\ Catalogs[1] = "standbys" /\ Catalogs[2] = "slots" /\ Catalogs[3] = "receiver"
    /\ Catalogs[4] = "subscriptions" /\ Catalogs[5] = "publications"
    /\ \A j, k \in 1..5 : j # k => Catalogs[j] # Catalogs[k]
BY DEF Catalogs, AtRollback, Done

LEMMA ReplInvInit == ReplInit => ReplInv
BY CatalogsAreFive, NoneAssumption DEF ReplInit, ReplInv, AssessmentIsHonest, CatalogRows

-----------------------------------------------------------------------------
(* The rows of a catalog are sequences, and those shown are its first ones. *)
LEMMA NodeRows ==
    ASSUME node \in Nodes, NEW k \in 1..5
    PROVE  node[Catalogs[k]] \in CatalogRows
BY NodesAssumption, CatalogsAreFive DEF ReplicationTopology, CatalogRows

LEMMA ShownIsAsItWas ==
    ASSUME node \in Nodes, limit \in RowLimits, NEW k \in 1..5, k # 3,
           NEW i \in DOMAIN node[Catalogs[k]], i <= limit
    PROVE  /\ i \in DOMAIN Shown(Catalogs[k])
           /\ AsItWas(Catalogs[k], Shown(Catalogs[k])[i], node[Catalogs[k]][i])
<1> DEFINE c == Catalogs[k]
           s == node[c]
           n == IF Len(s) > limit THEN limit ELSE Len(s)
<1>1. c # "receiver" /\ limit \in Nat
  BY CatalogsAreFive, LimitAssumption
<1>2. PICK S : s \in Seq(S)
  BY NodeRows DEF CatalogRows
<1>3. Rows(c) = SubSeq(s, 1, n)
  BY <1>1 DEF Rows
<1>4. Len(s) \in Nat /\ DOMAIN s = 1..Len(s) /\ n \in 0..Len(s)
  BY <1>1, <1>2
<1> HIDE DEF n
<1>5. DOMAIN Rows(c) = 1..n /\ \A j \in 1..n : Rows(c)[j] = s[j]
  <2>1. /\ SubSeq(s, 1, n) \in Seq(S) /\ Len(SubSeq(s, 1, n)) = n
        /\ \A j \in 1..n : SubSeq(s, 1, n)[j] = s[j]
    BY <1>2, <1>4
  <2> QED
    BY <1>3, <2>1
<1>6. i \in 1..n
  BY <1>1, <1>4 DEF n
<1>7. i \in DOMAIN Rows(c) /\ Rows(c)[i] = s[i]
  BY <1>5, <1>6
<1>8. CASE c = "slots" /\ node.inRecovery
  <2>1. Shown(c) = [j \in DOMAIN Rows(c) |-> [Rows(c)[j] EXCEPT !.retained = None]]
    BY <1>8 DEF Shown
  <2>2. s[i] \in ReplicationSlot
    BY <1>4, <1>8, NodesAssumption DEF ReplicationTopology
  <2> QED
    BY <1>7, <1>8, <2>1, <2>2 DEF AsItWas, ReplicationSlot
<1>9. CASE ~ (c = "slots" /\ node.inRecovery)
  BY <1>7, <1>9 DEF Shown, AsItWas
<1> QED
  BY <1>8, <1>9

(* Reading one more catalog.                                               *)
LEMMA ReadInv ==
    ASSUME ReplInv, OptionalRows
    PROVE  ReplInv'
<1> DEFINE k == step
<1>1. /\ step \in 1..5 /\ step' = step + 1 /\ was' = Append(was, node[Catalogs[step]])
      /\ UNCHANGED <<node, granted, limit, transaction, changes, faults, assessment>>
  BY CatalogsAreFive DEF OptionalRows
<1>2. /\ was \in Seq(CatalogRows) /\ Len(was) = step - 1
      /\ \A j \in DOMAIN was : Captured(j)
      /\ node \in Nodes /\ limit \in RowLimits /\ faults = {} /\ assessment = None
  BY <1>1, CatalogsAreFive DEF ReplInv
<1>3. /\ was' \in Seq(CatalogRows) /\ Len(was') = step
      /\ \A j \in 1..(step - 1) : was'[j] = was[j]
      /\ was'[step] = node[Catalogs[step]]
  BY <1>1, <1>2, NodeRows
<1>4. /\ DOMAIN topology \cup {Catalogs[step]} = DOMAIN topology'
      /\ \A c \in DOMAIN topology : c # Catalogs[step] => topology'[c] = topology[c]
      /\ unavailable \subseteq unavailable'
      /\ Catalogs[step] \notin granted => Catalogs[step] \in unavailable'
      /\ Catalogs[step] \in granted => topology'[Catalogs[step]] = Shown(Catalogs[step])
  BY DEF OptionalRows, Hide, Show, With
<1>5. ASSUME NEW j \in DOMAIN was'
      PROVE  Captured(j)'
  <2>1. CASE j = step
    <3>1. ASSUME j # 3, NEW i \in DOMAIN node[Catalogs[j]], i <= limit
          PROVE  /\ i \in DOMAIN Shown(Catalogs[j])
                 /\ AsItWas(Catalogs[j], Shown(Catalogs[j])[i], node[Catalogs[j]][i])
      BY <1>1, <1>2, <2>1, <3>1, ShownIsAsItWas
    <3>2. Catalogs[j] # "receiver" => j # 3
      BY CatalogsAreFive
    <3>3. was'[j] = node[Catalogs[j]] /\ limit' = limit /\ granted' = granted
      BY <1>1, <1>3, <2>1
    <3> QED
      BY <1>4, <2>1, <3>1, <3>2, <3>3 DEF Captured, AsItWas
  <2>2. CASE j # step
    <3>1. j \in 1..(step - 1) /\ was'[j] = was[j]
      BY <1>1, <1>3, <2>2
    <3>2. Captured(j)
      BY <1>1, <1>2, <3>1
    <3>3. Catalogs[j] # Catalogs[step] /\ limit' = limit /\ granted' = granted
      BY <1>1, <2>2, <3>1, CatalogsAreFive
    <3> QED
      BY <1>4, <3>1, <3>2, <3>3 DEF Captured, AsItWas
  <2> QED
    BY <2>1, <2>2
<1>6. AssessmentIsHonest'
  BY <1>1, <1>2, NoneAssumption DEF AssessmentIsHonest
<1> QED
  BY <1>1, <1>2, <1>3, <1>5, <1>6, CatalogsAreFive DEF ReplInv

-----------------------------------------------------------------------------
(* Whatever is trouble in a row makes a finding; "ready" means no finding. *)
LEMMA NoFindingNoTrouble ==
    ASSUME NEW t, NEW hidden, Assessed(t, hidden) = "ready"
    PROVE  /\ hidden = {}
           /\ \A i \in DOMAIN t.standbys : ~ Trouble("standbys", t.standbys[i])
           /\ \A i \in DOMAIN t.slots : ~ (t.slots[i].conflicting \/ t.slots[i].lost)
           /\ \A i \in DOMAIN t.subscriptions : ~ Trouble("subscriptions", t.subscriptions[i])
<1>1. "critical" \notin Severities(t, hidden) /\ "warning" \notin Severities(t, hidden)
  BY DEF Assessed
<1>2. hidden = {}
  BY <1>1 DEF Severities
<1>3. \A v : "critical" \notin SeverityFor(v) /\ "warning" \notin SeverityFor(v) => ~ High(v)
  BY DEF SeverityFor, High
<1>4. ASSUME NEW i \in DOMAIN t.standbys
      PROVE  ~ Trouble("standbys", t.standbys[i])
  <2>1. SenderFindings(t.standbys[i]) \subseteq Severities(t, hidden)
    BY DEF Severities
  <2>2. /\ t.standbys[i].state = "streaming"
        /\ ~ High(t.standbys[i].bytes) /\ ~ High(t.standbys[i].seconds)
    BY <1>1, <1>3, <2>1 DEF SenderFindings
  <2> QED
    BY <2>2 DEF Trouble
<1>5. ASSUME NEW i \in DOMAIN t.slots
      PROVE  ~ (t.slots[i].conflicting \/ t.slots[i].lost)
  <2>1. SlotFindings(t.slots[i]) \subseteq Severities(t, hidden)
    BY DEF Severities
  <2> QED
    BY <1>1, <2>1 DEF SlotFindings
<1>6. ASSUME NEW i \in DOMAIN t.subscriptions
      PROVE  ~ Trouble("subscriptions", t.subscriptions[i])
  BY <1>1 DEF Severities, Trouble
<1> QED
  BY <1>2, <1>4, <1>5, <1>6

(* The end of a capture.                                                   *)
LEMMA AssessInv ==
    ASSUME ReplInv, NEW b \in BOOLEAN, Assess(b)
    PROVE  ReplInv'
<1>1. /\ step = 6 /\ step' = 7 /\ faults = {} /\ DOMAIN was = 1..5
      /\ \A k \in 1..5 : Captured(k)
      /\ UNCHANGED <<node, granted, limit, topology, unavailable, was>>
  BY CatalogsAreFive DEF ReplInv, Assess
<1>2. ASSUME assessment' = "ready", NEW k \in 1..5
      PROVE  /\ Catalogs[k] \in granted
             /\ \A i \in DOMAIN was[k] : i <= limit => ~ Trouble(Catalogs[k], was[k][i])
  <2>1. Assessed(topology, unavailable) = "ready"
    BY <1>2 DEF Assess
  <2>2. Catalogs[k] \in granted
    BY <1>1, <2>1, NoFindingNoTrouble DEF Captured
  <2>3. ASSUME NEW i \in DOMAIN was[k], i <= limit
        PROVE  ~ Trouble(Catalogs[k], was[k][i])
    <3>1. CASE k \in {3, 5}
      BY <3>1, CatalogsAreFive DEF Trouble
    <3>2. CASE k \in {1, 2, 4}
      <4>1. /\ i \in DOMAIN topology[Catalogs[k]]
            /\ AsItWas(Catalogs[k], topology[Catalogs[k]][i], was[k][i])
        <5>1. Captured(k) /\ Catalogs[k] # "receiver"
          BY <1>1, <3>2, CatalogsAreFive
        <5> QED
          BY <2>2, <2>3, <5>1 DEF Captured
      <4>2. CASE k = 1
        BY <2>1, <4>1, <4>2, CatalogsAreFive, NoFindingNoTrouble DEF AsItWas
      <4>3. CASE k = 2
        BY <2>1, <4>1, <4>3, CatalogsAreFive, NoFindingNoTrouble DEF AsItWas, Trouble
      <4>4. CASE k = 4
        BY <2>1, <4>1, <4>4, CatalogsAreFive, NoFindingNoTrouble DEF AsItWas
      <4> QED
        BY <3>2, <4>2, <4>3, <4>4
    <3> QED
      BY <3>1, <3>2
  <2> QED
    BY <2>2, <2>3
<1>3. assessment' = "error" => faults' # {}
  BY NoneAssumption DEF Assess, Assessed
<1>4. assessment' \notin {None, "error"} => transaction' = "none" /\ "rollback" \notin faults'
  BY <1>1 DEF Assess
<1>5. AssessmentIsHonest'
  BY <1>1, <1>2, <1>3, <1>4, CatalogsAreFive DEF AssessmentIsHonest
<1> QED
  BY <1>1, <1>5, CatalogsAreFive DEF ReplInv

(* The steps that read and assess nothing.                                 *)
LEMMA OtherInv ==
    ASSUME ReplInv,
           \/ BeginSnapshot
           \/ \E b \in BOOLEAN, f \in {"recovery", "unnamed", "lost", "timeout", "cancelled"} :
                 Interrupted(f, b)
           \/ \E n \in Nodes : NodeChanges(n)
           \/ UNCHANGED replVars
    PROVE  ReplInv'
<1>1. CASE BeginSnapshot
  BY <1>1, CatalogsAreFive, NoneAssumption DEF BeginSnapshot, ReplInv, AssessmentIsHonest
<1>2. ASSUME NEW b \in BOOLEAN, NEW f, Interrupted(f, b)
      PROVE  ReplInv'
  <2>1. assessment' = "error" /\ faults' # {} /\ step' = 7
    BY <1>2, CatalogsAreFive DEF Interrupted
  <2>2. AssessmentIsHonest'
    BY <2>1 DEF AssessmentIsHonest
  <2> QED
    BY <1>2, <2>1, <2>2, CatalogsAreFive DEF ReplInv, Interrupted
<1>3. ASSUME NEW n \in Nodes, NodeChanges(n)
      PROVE  ReplInv'
  BY <1>3 DEF NodeChanges, ReplInv, AssessmentIsHonest, Captured, AsItWas
<1>4. CASE UNCHANGED replVars
  BY <1>4 DEF replVars, ReplInv, AssessmentIsHonest, Captured, AsItWas
<1> QED
  BY <1>1, <1>2, <1>3, <1>4

(* The assessment of capture() and assess_failover_readiness(): whatever   *)
(* the node, the role's rights and the thresholds are, and however often   *)
(* the node changes during the capture, "ready" is said only of catalogs   *)
(* that could all be read and showed no trouble within the limit, and only *)
(* after the transaction is known to be over.                              *)
THEOREM ReadyIsHonest == ReplInit /\ [][ReplNext]_replVars => []AssessmentIsHonest
<1>1. ReplInv /\ [ReplNext]_replVars => ReplInv'
  BY ReadInv, AssessInv, OtherInv DEF ReplNext
<1>2. ReplInv => AssessmentIsHonest
  BY DEF ReplInv
<1> QED
  BY ReplInvInit, <1>1, <1>2, PTL

-----------------------------------------------------------------------------
(* A finite set has an element that no other one is above.                 *)
LEMMA HighestExists ==
    ASSUME NEW B, IsFiniteSet(B), B # {}, NEW R,
           \A x \in B : <<x, x>> \notin R,
           \A x, y, z \in B : <<x, y>> \in R /\ <<y, z>> \in R => <<x, z>> \in R
    PROVE  \E x \in B : \A y \in B : <<x, y>> \notin R
<1> DEFINE Above(x) == {y \in B : y = x \/ <<x, y>> \in R}
           F == {Above(x) : x \in B}
<1>1. F \subseteq SUBSET B /\ F # {}
  <2>1. PICK x : x \in B
    OBVIOUS
  <2>2. Above(x) \in F
    BY <2>1
  <2>3. \A y \in B : Above(y) \subseteq B
    OBVIOUS
  <2> HIDE DEF Above
  <2> QED
    BY <2>2, <2>3
<1>2. PICK S \in F : \A T \in F : T \subseteq S => T = S
  <2> HIDE DEF F
  <2> QED
    BY <1>1, MinimalSubset
<1>3. PICK x \in B : S = Above(x)
  OBVIOUS
<1> SUFFICES ASSUME NEW y \in B, <<x, y>> \in R
             PROVE  FALSE
  OBVIOUS
<1>4. Above(y) \subseteq Above(x)
  OBVIOUS
<1>5. x \in Above(y)
  <2>1. Above(y) \in F /\ x \in Above(x)
    OBVIOUS
  <2> QED
    BY <1>2, <1>3, <1>4, <2>1
<1>6. x = y \/ <<y, x>> \in R
  BY <1>5
<1> QED
  BY <1>6

LEMMA PrefixIs ==
    ASSUME NEW S, NEW T, NEW s \in Seq(S), NEW t \in Seq(T)
    PROVE  IsPrefix(s, t) <=> Len(s) <= Len(t) /\ \A i \in 1..Len(s) : s[i] = t[i]
BY DEF IsPrefix

-----------------------------------------------------------------------------
(* The counts of DataOps.                                                  *)
Keys == {r[Key] : r \in rows}

CountInv ==
    /\ relation \in Relations
    /\ Unique(rows) /\ NotNull(rows)
    /\ counted \in [Keys -> Nat] /\ doubted \in [Keys -> Nat]
    /\ \A r \in rows : r[Counter] \in Nat
    /\ NoUpdateIsLost

IsWritten == relation.kind \in {"r", "p"}

(* Rows are known by the key.                                              *)
LEMMA KeyIdentifies ==
    ASSUME relation \in Relations, IsWritten, NEW S, Unique(S), NotNull(S),
           NEW r \in S, NEW s \in S, r[Key] = s[Key]
    PROVE  r = s
<1>1. /\ {Key} \in relation.uniqueKeys /\ relation.columns[Key].notNull
      /\ Key \in TableColumns
  BY CountersAssumption, RelationsAssumption
  DEF CountersAssumption, RelationsAssumption, RelationMetadata, IsWritten, TableColumns
<1>2. r[Key] # Null
  BY <1>1 DEF NotNull
<1> QED
  BY <1>1, <1>2 DEF Unique

(* What a mutation makes of the rows, when it is accepted: every row was   *)
(* there under its key with the same count, or is a new one at zero.       *)
Keeps(after) ==
    /\ Unique(after) /\ NotNull(after)
    /\ \A x \in after :
         \/ \E r \in rows : r[Key] = x[Key] /\ r[Counter] = x[Counter]
         \/ x[Counter] = 0 /\ x[Key] \notin Keys

LEMMA EffectIs ==
    ASSUME NEW after, NEW n, Effect(after, n) # Nothing
    PROVE  Effect(after, n).rows = after /\ Effect(after, n).affected = n /\ Unique(after) /\ NotNull(after)
BY DEF Effect

LEMMA CompletedCounts ==
    ASSUME relation \in Relations, IsWritten, NEW b \in Batches, NEW k \in DOMAIN b
    PROVE  Completed(b[k])[Counter] = 0
<1>1. DOMAIN b[k] = DOMAIN b[1]
  BY RequestsAssumption DEF RequestsAssumption, RowsToWrite
<1> QED
  BY <1>1, CountersAssumption DEF CountersAssumption, IsWritten, Completed, TableColumns

LEMMA InsertedKeeps ==
    ASSUME CountInv, NEW b \in Batches, Inserted(b) # Nothing
    PROVE  Keeps(Inserted(b).rows)
<1> DEFINE new == {Completed(b[k]) : k \in DOMAIN b}
<1>1. /\ IsWritten /\ new \cap rows = {}
      /\ Inserted(b) = Effect(rows \cup new, Len(b))
  BY DEF Inserted, Usable, IsWritten
<1>2. Inserted(b).rows = rows \cup new /\ Unique(rows \cup new) /\ NotNull(rows \cup new)
  BY <1>1, EffectIs
<1>3. \A x \in new : x[Counter] = 0
  BY <1>1, CompletedCounts DEF CountInv
<1> HIDE DEF new
<1>4. \A x \in new : x[Key] \notin Keys
  BY <1>1, <1>2, KeyIdentifies DEF CountInv, Keys
<1> QED
  BY <1>2, <1>3, <1>4 DEF Keeps

LEMMA UpsertedKeeps ==
    ASSUME CountInv, NEW b \in Batches, NEW u \in SUBSET DOMAIN b[1],
           NEW key \in relation.uniqueKeys, Upserted(b, key, u) # Nothing
    PROVE  Keeps(Upserted(b, key, u).rows)
<1> DEFINE same(r, n) == \A c \in key : r[c] # Null /\ r[c] = n[c]
           new(k) == Completed(b[k])
           first == {k \in DOMAIN b : \A j \in 1..(k - 1) : ~ same(new(j), new(k))}
           hits == {k \in first : \E r \in rows : same(r, new(k))}
           added == {new(k) : k \in first \ hits}
           set(r) == [c \in TableColumns |-> IF c \notin u THEN r[c]
                         ELSE new(CHOOSE k \in hits : same(r, new(k)))[c]]
           hit == {r \in rows : \E k \in hits : same(r, new(k))}
           changed == {set(r) : r \in hit}
           after == IF u = {} THEN rows \cup added ELSE (rows \ hit) \cup added \cup changed
<1>1. IsWritten /\ key \cap u = {}
  BY DEF Upserted, Usable, IsWritten
<1>2. \E n : Upserted(b, key, u) = Effect(after, n)
  BY DEF Upserted
<1>3. \A x \in added : x[Counter] = 0
  BY <1>1, CompletedCounts DEF CountInv
<1>4. \A r \in hit : set(r)[Key] = r[Key] /\ set(r)[Counter] = r[Counter]
  <2>1. Key \notin u /\ Counter \notin u /\ {Key, Counter} \subseteq TableColumns
    BY <1>1, CountersAssumption, RelationsAssumption
    DEF CountInv, CountersAssumption, RelationsAssumption, RelationMetadata, IsWritten, TableColumns
  <2> QED
    BY <2>1
<1>5. hit \subseteq rows
  OBVIOUS
<1> HIDE DEF added, hit, set
<1>6. Upserted(b, key, u).rows = after /\ Unique(after) /\ NotNull(after)
  BY <1>2, EffectIs
<1>7. \A x \in after : \/ \E r \in rows : r[Key] = x[Key] /\ r[Counter] = x[Counter]
                       \/ x \in added
  BY <1>4, <1>5
<1>8. ASSUME NEW x \in added, x \in after, NEW r \in rows, r[Key] = x[Key]
      PROVE  r[Counter] = x[Counter]
  <2>1. CASE r \in after
    BY <1>1, <1>6, <1>8, <2>1, KeyIdentifies DEF CountInv
  <2>2. CASE r \notin after
    <3>1. r \in hit /\ set(r) \in after
      BY <1>8, <2>2
    <3>2. set(r) = x
      BY <1>1, <1>4, <1>6, <1>8, <3>1, KeyIdentifies DEF CountInv
    <3> QED
      BY <1>4, <3>1, <3>2
  <2> QED
    BY <2>1, <2>2
<1> HIDE DEF after
<1> QED
  BY <1>3, <1>6, <1>7, <1>8 DEF Keeps, Keys

LEMMA UpdatedKeeps ==
    ASSUME CountInv, NEW v \in Assignments, NEW f, NEW h, Updated(v, f, h) # Nothing
    PROVE  Keeps(Updated(v, f, h).rows)
<1> DEFINE hit == Hits(f, h)
           set(r) == [c \in TableColumns |-> IF c \in DOMAIN v THEN v[c] ELSE r[c]]
           after == (rows \ hit) \cup {set(r) : r \in hit}
<1>1. IsWritten /\ Updated(v, f, h) = Effect(after, Cardinality(hit))
  BY DEF Updated, Usable, IsWritten
<1>2. \A r \in hit : set(r)[Key] = r[Key] /\ set(r)[Counter] = r[Counter] /\ r \in rows
  <2>1. Key \notin DOMAIN v /\ Counter \notin DOMAIN v /\ {Key, Counter} \subseteq TableColumns
    BY <1>1, CountersAssumption, RelationsAssumption
    DEF CountInv, CountersAssumption, RelationsAssumption, RelationMetadata, IsWritten, TableColumns
  <2> QED
    BY <2>1 DEF Hits
<1> HIDE DEF hit, set
<1>3. Updated(v, f, h).rows = after /\ Unique(after) /\ NotNull(after)
  BY <1>1, EffectIs
<1> QED
  BY <1>2, <1>3 DEF Keeps

LEMMA DeletedKeeps ==
    ASSUME CountInv, NEW f, NEW h, Deleted(f, h) # Nothing
    PROVE  IsWritten /\ Keeps(Deleted(f, h).rows)
<1>1. IsWritten /\ Deleted(f, h) = Effect(rows \ Hits(f, h), Cardinality(Hits(f, h)))
  BY DEF Deleted, Usable, IsWritten
<1> QED
  BY <1>1, EffectIs DEF Keeps

LEMMA MutateCounts ==
    ASSUME CountInv, NEW e, NEW g, Mutate(e, g), e # Nothing => Keeps(e.rows), Recount
    PROVE  CountInv'
<1>1. rows' = e.rows /\ relation' = relation /\ Keeps(rows')
  BY DEF Mutate, Commits
<1>2. Unique(rows)' /\ NotNull(rows)'
  BY <1>1 DEF Keeps, Unique, NotNull, TableColumns
<1>3. /\ counted' = [k \in Keys' |-> IF k \in Keys THEN counted[k] ELSE 0]
      /\ doubted' = [k \in Keys' |-> IF k \in Keys THEN doubted[k] ELSE 0]
  BY DEF Recount, ForRows, Keys, CountInv
<1>4. counted' \in [Keys' -> Nat] /\ doubted' \in [Keys' -> Nat]
  BY <1>3 DEF CountInv
<1>5. ASSUME NEW x \in rows'
      PROVE  /\ x[Counter] \in Nat
             /\ counted'[x[Key]] <= x[Counter]
             /\ x[Counter] <= counted'[x[Key]] + doubted'[x[Key]]
  <2>1. x[Key] \in Keys'
    BY DEF Keys
  <2>2. CASE \E r \in rows : r[Key] = x[Key] /\ r[Counter] = x[Counter]
    <3>1. PICK r \in rows : r[Key] = x[Key] /\ r[Counter] = x[Counter]
      BY <2>2
    <3>2. r[Key] \in Keys
      BY DEF Keys
    <3> QED
      BY <1>3, <2>1, <3>1, <3>2 DEF CountInv, NoUpdateIsLost
  <2>3. CASE x[Counter] = 0 /\ x[Key] \notin Keys
    BY <1>3, <2>1, <2>3
  <2> QED
    BY <1>1, <2>2, <2>3 DEF Keeps
<1> QED
  BY <1>1, <1>2, <1>4, <1>5 DEF CountInv, NoUpdateIsLost

(* An increment is committed only on the one row of its key, which still   *)
(* has the count that the client read.                                     *)
LEMMA IncrementedIs ==
    ASSUME CountInv, NEW s, Commits(Incremented(s), One), NEW after,
           after = Incremented(s).rows
    PROVE  /\ Unique(after) /\ NotNull(after)
           /\ \E r \in rows : r[Key] = s[Key] /\ r[Counter] = s[Counter]
           /\ {x[Key] : x \in after} = Keys
           /\ \A x \in after : \/ x[Key] = s[Key] /\ x[Counter] = s[Counter] + 1
                               \/ x[Key] # s[Key] /\ x \in rows
<1> DEFINE v == [x \in {Counter} |-> s[Counter] + 1]
           f == [allOf |-> {Is(Key, s[Key])}, anyOf |-> {}]
           h == [allOf |-> {Is(Counter, s[Counter])}, anyOf |-> {}]
           e == Updated(v, f, h)
           hit == Hits(f, h)
           set(r) == [x \in TableColumns |-> IF x \in DOMAIN v THEN v[x] ELSE r[x]]
           new == (rows \ hit) \cup {set(r) : r \in hit}
<1>1. e = Incremented(s) /\ e # Nothing /\ Within(One, e.affected)
  BY DEF Incremented, Commits
<1>2. IsWritten /\ e = Effect(new, Cardinality(hit))
  BY <1>1 DEF Updated, Usable, IsWritten
<1>3. after = new /\ Unique(after) /\ NotNull(after) /\ e.affected = Cardinality(hit)
  <2> HIDE DEF e, new, hit
  <2> QED
    BY <1>1, <1>2, EffectIs
<1>4. \A r \in hit : r \in rows /\ r[Key] = s[Key] /\ r[Counter] = s[Counter]
  BY DEF Hits, Matches, Condition, Is, Truth
<1>5. {Key, Counter} \subseteq TableColumns /\ Key # Counter
  BY <1>2, CountersAssumption, RelationsAssumption
  DEF CountInv, CountersAssumption, RelationsAssumption, RelationMetadata, IsWritten, TableColumns
<1>6. \A r \in hit : set(r)[Key] = s[Key] /\ set(r)[Counter] = s[Counter] + 1
  BY <1>4, <1>5
<1>7. hit # {}
  <2>1. Cardinality({}) = 0
    BY FS_EmptySet
  <2>2. Nothing # 1
    BY CountersAssumption DEF CountersAssumption
  <2> HIDE DEF e, hit
  <2> QED
    BY <1>1, <1>3, <2>1, <2>2 DEF Within, One
<1> HIDE DEF hit, set
<1>8. PICK r0 \in hit : TRUE
  BY <1>7
<1>9. \A x \in rows \ hit : x[Key] # s[Key]
  BY <1>2, <1>4, <1>8, KeyIdentifies DEF CountInv
<1>10. {x[Key] : x \in after} = Keys
  BY <1>3, <1>4, <1>6, <1>7 DEF Keys
<1> QED
  BY <1>3, <1>4, <1>6, <1>8, <1>9, <1>10

LEMMA IncrementCounts ==
    ASSUME CountInv, NEW c \in Counters, Increment(c) \/ IncrementInDoubt(c) \/ RefuseIncrement(c)
    PROVE  CountInv'
<1> DEFINE s == seen[c]
           e == Incremented(s)
<1>1. CASE UNCHANGED <<relation, rows>> /\ UNCHANGED counted
           /\ (doubted' = doubted \/ (doubted' = OneMore(doubted, s) /\ Commits(e, One)))
  <2>1. Keys' = Keys /\ Unique(rows)' /\ NotNull(rows)'
    BY <1>1 DEF CountInv, Unique, NotNull, TableColumns, Keys
  <2>2. /\ doubted' \in [Keys -> Nat]
        /\ \A k \in Keys : doubted[k] <= doubted'[k]
    BY <1>1 DEF OneMore, CountInv
  <2>3. \A r \in rows : r[Key] \in Keys
    BY DEF Keys
  <2>4. \A r \in rows : r[Counter] <= counted[r[Key]] + doubted'[r[Key]]
    BY <2>2, <2>3 DEF CountInv, NoUpdateIsLost
  <2> QED
    BY <1>1, <2>1, <2>2, <2>4 DEF CountInv, NoUpdateIsLost
<1>2. CASE /\ Mutate(e, One)
           /\ \/ counted' = OneMore(counted, s) /\ UNCHANGED doubted
              \/ doubted' = OneMore(doubted, s) /\ UNCHANGED counted
  <2>1. rows' = e.rows /\ relation' = relation /\ Commits(e, One)
    BY <1>2 DEF Mutate
  <2>2. /\ Unique(rows') /\ NotNull(rows') /\ Keys' = Keys
        /\ \E r \in rows : r[Key] = s[Key] /\ r[Counter] = s[Counter]
        /\ \A x \in rows' : \/ x[Key] = s[Key] /\ x[Counter] = s[Counter] + 1
                            \/ x[Key] # s[Key] /\ x \in rows
    BY <2>1, IncrementedIs DEF Keys
  <2>3. PICK r \in rows : r[Key] = s[Key] /\ r[Counter] = s[Counter]
    BY <2>2
  <2>4. /\ s[Key] \in Keys /\ s[Counter] \in Nat
        /\ counted[s[Key]] <= s[Counter] /\ s[Counter] <= counted[s[Key]] + doubted[s[Key]]
    BY <2>3 DEF Keys, CountInv, NoUpdateIsLost
  <2>5. /\ counted' \in [Keys -> Nat] /\ doubted' \in [Keys -> Nat]
        /\ counted'[s[Key]] + doubted'[s[Key]] = counted[s[Key]] + doubted[s[Key]] + 1
        /\ counted'[s[Key]] <= counted[s[Key]] + 1
        /\ \A k \in Keys \ {s[Key]} : counted'[k] = counted[k] /\ doubted'[k] = doubted[k]
    BY <1>2, <2>4 DEF OneMore, CountInv
  <2>6. ASSUME NEW x \in rows'
        PROVE  /\ x[Counter] \in Nat
               /\ counted'[x[Key]] <= x[Counter]
               /\ x[Counter] <= counted'[x[Key]] + doubted'[x[Key]]
    <3>1. CASE x[Key] = s[Key] /\ x[Counter] = s[Counter] + 1
      BY <2>4, <2>5, <3>1 DEF CountInv
    <3>2. CASE x[Key] # s[Key] /\ x \in rows
      <4>1. x[Key] \in Keys \ {s[Key]}
        BY <3>2 DEF Keys
      <4> QED
        BY <2>5, <3>2, <4>1 DEF CountInv, NoUpdateIsLost
    <3> QED
      BY <2>2, <3>1, <3>2
  <2>7. Unique(rows)' /\ NotNull(rows)'
    BY <2>1, <2>2 DEF Unique, NotNull, TableColumns
  <2> QED
    BY <2>1, <2>2, <2>5, <2>6, <2>7 DEF CountInv, NoUpdateIsLost
<1> QED
  BY <1>1, <1>2 DEF Increment, IncrementInDoubt, RefuseIncrement

LEMMA CountInit == DataInit => CountInv
BY CountersAssumption DEF DataInit, CountInv, Keys, NoUpdateIsLost, CountersAssumption

LEMMA CountNext ==
    ASSUME CountInv, [DataNext]_dataVars
    PROVE  CountInv'
<1> DEFINE Quiet == UNCHANGED <<relation, rows, counted, doubted>>
<1>1. ASSUME Quiet PROVE CountInv'
  BY <1>1 DEF CountInv, Unique, NotNull, TableColumns, NoUpdateIsLost, Keys
<1>2. CASE UNCHANGED dataVars
  BY <1>1, <1>2 DEF dataVars
<1>3. ASSUME NEW o, NEW n, SelectPage(o, n)
      PROVE  Quiet
  <2>1. UNCHANGED <<relation, rows, request, seen>> /\ UNCHANGED <<counted, doubted, writes>>
    BY <1>3 DEF SelectPage
  <2> QED
    BY <2>1
<1>4. ASSUME NEW g, NEW b \in Batches, Insert(b, g)
      PROVE  CountInv'
  BY <1>4, InsertedKeeps, MutateCounts DEF Insert
<1>5. ASSUME NEW g, NEW b \in Batches, NEW u \in SUBSET DOMAIN b[1], NEW k \in relation.uniqueKeys,
             Upsert(b, k, u, g)
      PROVE  CountInv'
  BY <1>5, UpsertedKeeps, MutateCounts DEF Upsert
<1>6. ASSUME NEW g, NEW f, NEW h, Delete(f, h, g)
      PROVE  CountInv'
  BY <1>6, DeletedKeeps, MutateCounts DEF Delete
<1>7. ASSUME NEW g, NEW f, NEW h, NEW v \in Assignments, Update(v, f, h, g)
      PROVE  CountInv'
  BY <1>7, UpdatedKeeps, MutateCounts DEF Update
<1>8. ASSUME NEW c \in Counters, Increment(c) \/ IncrementInDoubt(c) \/ RefuseIncrement(c)
      PROVE  CountInv'
  BY <1>8, IncrementCounts
<1>9. ASSUME NEW c, NEW r, Read(c, r)
      PROVE  Quiet
  BY <1>9 DEF Read
<1> HIDE DEF Quiet
<1> QED
  BY <1>1, <1>2, <1>3, <1>4, <1>5, <1>6, <1>7, <1>8, <1>9 DEF DataNext

(* Optimistic concurrency as the mutations of data_ops/ offer it: an       *)
(* update on the condition that the counter is what was read, expecting    *)
(* one row, loses no acknowledged update, with any number of clients that  *)
(* count and of other inserts, upserts, updates and deletes meanwhile; and *)
(* a COMMIT in doubt adds one to the counter or nothing.                   *)
THEOREM UpdatesAreKept == DataInit /\ [][DataNext]_dataVars => []NoUpdateIsLost
<1>1. CountInv => NoUpdateIsLost
  BY DEF CountInv
<1> QED
  BY CountInit, CountNext, <1>1, PTL

-----------------------------------------------------------------------------
(* Values of the columns of an order are compared one column after the     *)
(* other.                                                                  *)
IsOrder(order) == \E S : order \in Seq(S)
Before(order, v, w) ==
    \E i \in DOMAIN order : /\ \A j \in 1..(i - 1) : w[j] = v[j]
                            /\ Beyond(order[i], w[i], v[i])

(* Values to order by: numbers, see StableOrder.                           *)
Tuples(order) == [DOMAIN order -> Int]

LEMMA OrderIndexes ==
    ASSUME NEW order, IsOrder(order)
    PROVE  /\ Len(order) \in Nat /\ DOMAIN order = 1..Len(order)
           /\ \A i \in DOMAIN order : 1..(i - 1) \subseteq DOMAIN order
<1>1. PICK S : order \in Seq(S)
  BY DEF IsOrder
<1>2. Len(order) \in Nat /\ DOMAIN order = 1..Len(order)
  BY <1>1
<1> QED
  BY <1>2

LEMMA BeforeIsStrict ==
    ASSUME NEW order, NEW v \in Tuples(order)
    PROVE  ~ Before(order, v, v)
BY DEF Before, Beyond, Tuples

LEMMA BeforeIsTransitive ==
    ASSUME NEW order, IsOrder(order), NEW u \in Tuples(order), NEW v \in Tuples(order),
           NEW w \in Tuples(order), Before(order, u, v), Before(order, v, w)
    PROVE  Before(order, u, w)
<1>1. PICK i \in DOMAIN order : /\ \A k \in 1..(i - 1) : v[k] = u[k]
                                /\ Beyond(order[i], v[i], u[i])
  BY DEF Before
<1>2. PICK j \in DOMAIN order : /\ \A k \in 1..(j - 1) : w[k] = v[k]
                                /\ Beyond(order[j], w[j], v[j])
  BY DEF Before
<1>3. i \in Nat /\ j \in Nat /\ i >= 1 /\ j >= 1
  BY OrderIndexes
<1>4. \A k \in DOMAIN order : u[k] \in Int /\ v[k] \in Int /\ w[k] \in Int
  BY DEF Tuples
<1>5. CASE i < j
  <2>1. w[i] = v[i] /\ \A k \in 1..(i - 1) : w[k] = u[k]
    <3>1. i \in 1..(j - 1) /\ \A k \in 1..(i - 1) : k \in 1..(j - 1)
      BY <1>3, <1>5
    <3> QED
      BY <1>1, <1>2, <3>1
  <2> QED
    BY <1>1, <2>1 DEF Before
<1>6. CASE j < i
  <2>1. v[j] = u[j] /\ \A k \in 1..(j - 1) : w[k] = u[k]
    <3>1. j \in 1..(i - 1) /\ \A k \in 1..(j - 1) : k \in 1..(i - 1)
      BY <1>3, <1>6
    <3> QED
      BY <1>1, <1>2, <3>1
  <2> QED
    BY <1>2, <2>1 DEF Before
<1>7. CASE i = j
  <2>1. Beyond(order[i], w[i], u[i])
    BY <1>1, <1>2, <1>4, <1>7 DEF Beyond
  <2>2. \A k \in 1..(i - 1) : w[k] = u[k]
    BY <1>1, <1>2, <1>7
  <2> QED
    BY <2>1, <2>2 DEF Before
<1> QED
  BY <1>3, <1>5, <1>6, <1>7

LEMMA BeforeIsTotal ==
    ASSUME NEW order, IsOrder(order), NEW v \in Tuples(order), NEW w \in Tuples(order), v # w
    PROVE  Before(order, v, w) \/ Before(order, w, v)
<1> DEFINE D == {i \in DOMAIN order : v[i] # w[i]}
           R == {p \in D \X D : p[2] < p[1]}
<1>1. DOMAIN order = 1..Len(order) /\ Len(order) \in Nat
  BY OrderIndexes
<1>2. D # {} /\ D \subseteq Nat /\ IsFiniteSet(D)
  <2>1. D # {}
    BY DEF Tuples
  <2>2. D \subseteq 1..Len(order) /\ IsFiniteSet(1..Len(order))
    BY <1>1, FS_Interval
  <2> QED
    BY <1>1, <2>1, <2>2, FS_Subset
<1>3. \E i \in D : \A j \in D : <<i, j>> \notin R
  <2>1. /\ \A x \in D : <<x, x>> \notin R
        /\ \A x, y, z \in D : <<x, y>> \in R /\ <<y, z>> \in R => <<x, z>> \in R
    <3> HIDE DEF D
    <3> QED
      BY <1>2
  <2> HIDE DEF D, R
  <2> QED
    BY <1>2, <2>1, HighestExists
<1>4. PICK i \in D : \A j \in D : ~ (j < i)
  BY <1>3
<1>5. \A j \in 1..(i - 1) : v[j] = w[j]
  <2> TAKE j \in 1..(i - 1)
  <2>1. j \in DOMAIN order /\ j < i
    BY <1>1
  <2> QED
    BY <1>4, <2>1
<1>6. v[i] \in Int /\ w[i] \in Int /\ v[i] # w[i]
  BY DEF Tuples
<1>7. Beyond(order[i], w[i], v[i]) \/ Beyond(order[i], v[i], w[i])
  BY <1>6 DEF Beyond
<1> QED
  BY <1>5, <1>7 DEF Before

(* A row is after a cursor as its values are.                              *)
LEMMA AfterIsBefore ==
    ASSUME NEW order, IsOrder(order), NEW v, NEW r
    PROVE  After(order, v, r) <=> Before(order, v, OrderValues(order, r))
<1>1. \A i \in DOMAIN order : OrderValues(order, r)[i] = r[order[i].column]
  BY DEF OrderValues
<1>2. \A i \in DOMAIN order : 1..(i - 1) \subseteq DOMAIN order
  BY OrderIndexes
<1>3. \A i \in DOMAIN order : \A j \in 1..(i - 1) : OrderValues(order, r)[j] = r[order[j].column]
  BY <1>1, <1>2
<1> QED
  BY <1>1, <1>3 DEF After, Before

-----------------------------------------------------------------------------
(* A finite set with a total order can be listed in it.                    *)
IsListing(s, S, R) ==
    /\ s \in [1..Cardinality(S) -> S]
    /\ \A i, j \in DOMAIN s : i < j => <<s[i], s[j]>> \in R

LEMMA ListingExists ==
    ASSUME NEW D, IsFiniteSet(D), NEW R,
           \A x \in D : <<x, x>> \notin R,
           \A x, y, z \in D : <<x, y>> \in R /\ <<y, z>> \in R => <<x, z>> \in R,
           \A x, y \in D : x # y => <<x, y>> \in R \/ <<y, x>> \in R
    PROVE  \E s : IsListing(s, D, R)
<1> DEFINE G == {S \in SUBSET D : \E s : IsListing(s, S, R)}
<1>1. ASSUME NEW S \in SUBSET D, \A T \in SUBSET S : T # S => T \in G
      PROVE  S \in G
  <2>1. IsFiniteSet(S)
    BY FS_Subset
  <2>2. CASE S = {}
    <3>1. Cardinality(S) = 0
      BY <2>2, FS_EmptySet
    <3>2. [k \in 1..0 |-> 0] \in [1..0 -> S] /\ DOMAIN [k \in 1..0 |-> 0] = {}
      OBVIOUS
    <3>3. IsListing([k \in 1..0 |-> 0], S, R)
      BY <3>1, <3>2 DEF IsListing
    <3> QED
      BY <3>3
  <2>3. CASE S # {}
    <3>1. PICK x \in S : \A y \in S : <<x, y>> \notin R
      <4>1. \E x \in S : \A y \in S : <<x, y>> \notin R
        BY <2>1, <2>3, HighestExists
      <4> QED
        BY <4>1
    <3>2. PICK T : T = S \ {x}
      OBVIOUS
    <3>3. /\ IsFiniteSet(T) /\ Cardinality(T) \in Nat /\ Cardinality(S) = Cardinality(T) + 1
      <4>1. IsFiniteSet(T) /\ Cardinality(T) = Cardinality(S) - 1
        BY <2>1, <3>1, <3>2, FS_RemoveElement
      <4>2. Cardinality(S) \in Nat /\ Cardinality(T) \in Nat
        BY <2>1, <4>1, FS_CardinalityType
      <4> QED
        BY <4>1, <4>2
    <3>4. PICK t : IsListing(t, T, R)
      BY <1>1, <3>1, <3>2
    <3> DEFINE n == Cardinality(T)
               s == [k \in 1..(n + 1) |-> IF k = n + 1 THEN x ELSE t[k]]
    <3>5. t \in [1..n -> T] /\ \A i, j \in 1..n : i < j => <<t[i], t[j]>> \in R
      BY <3>4 DEF IsListing
    <3>6. n \in Nat /\ Cardinality(S) = n + 1
      BY <3>3
    <3> HIDE DEF n
    <3>7. s \in [1..(n + 1) -> S]
      BY <3>2, <3>5, <3>6
    <3>8. ASSUME NEW i \in 1..(n + 1), NEW j \in 1..(n + 1), i < j
          PROVE  <<s[i], s[j]>> \in R
      <4>1. i \in 1..n /\ s[i] = t[i] /\ t[i] \in T
        BY <3>5, <3>6, <3>8
      <4>2. CASE j = n + 1
        <5>1. s[j] = x /\ t[i] \in S /\ t[i] # x
          BY <3>2, <4>1, <4>2
        <5> QED
          BY <3>1, <4>1, <5>1
      <4>3. CASE j # n + 1
        BY <3>5, <3>6, <3>8, <4>1, <4>3
      <4> QED
        BY <4>2, <4>3
    <3>9. IsListing(s, S, R)
      <4>1. DOMAIN s = 1..(n + 1)
        OBVIOUS
      <4> HIDE DEF s
      <4> QED
        BY <3>6, <3>7, <3>8, <4>1 DEF IsListing
    <3> QED
      BY <3>9
  <2> QED
    BY <2>2, <2>3
<1> HIDE DEF G
<1>2. D \in G
  BY <1>1, SubsetInduction
<1> QED
  BY <1>2 DEF G

(* Such a listing has every element.                                       *)
LEMMA ListingIsComplete ==
    ASSUME NEW S, IsFiniteSet(S), NEW R, \A x \in S : <<x, x>> \notin R, NEW s, IsListing(s, S, R)
    PROVE  \A x \in S : \E i \in DOMAIN s : s[i] = x
<1> DEFINE n == Cardinality(S)
<1>1. n \in Nat
  BY FS_CardinalityType
<1>2. s \in [1..n -> S] /\ \A i, j \in 1..n : i < j => <<s[i], s[j]>> \in R
  BY DEF IsListing
<1>3. IsFiniteSet(1..n) /\ Cardinality(1..n) = n
  <2> HIDE DEF n
  <2> QED
    BY <1>1, FS_Interval
<1>4. \A i, j \in 1..n : s[i] = s[j] => i = j
  <2> HIDE DEF n
  <2>1. ASSUME NEW i \in 1..n, NEW j \in 1..n, s[i] = s[j], i # j
        PROVE  FALSE
    <3>1. i < j \/ j < i
      BY <1>1, <2>1
    <3> QED
      BY <1>2, <2>1, <3>1
  <2> QED
    BY <2>1
<1>5. s \in Injection(1..n, S)
  BY <1>2, <1>4 DEF Injection, IsInjective
<1>6. s \in Surjection(1..n, S)
  BY <1>3, <1>5, FS_Injection
<1> QED
  BY <1>2, <1>6 DEF Surjection

-----------------------------------------------------------------------------
(* The rows of a relation, and how a stable order lists them.              *)
RowsInv ==
    /\ relation \in Relations
    /\ rows \subseteq [TableColumns -> Value] /\ IsFiniteSet(rows)
    /\ Unique(rows) /\ NotNull(rows)

(* Rows that have numbers to order by.                                     *)
Listable(order) == {r \in [TableColumns -> Value] : OrderValues(order, r) \in Tuples(order)}

LEMMA StableRows ==
    ASSUME RowsInv, NEW order, IsOrder(order), StableOrder(order)
    PROVE  /\ rows \subseteq Listable(order)
           /\ \A r, s \in rows : OrderValues(order, r) = OrderValues(order, s) => r = s
<1>1. \A r \in rows : \A c \in OrderColumns(order) : r[c] \in Int
  BY DEF StableOrder, RowsInv, NotNull, Value
<1>2. \A r \in rows : OrderValues(order, r) \in Tuples(order)
  BY <1>1 DEF OrderValues, Tuples, OrderColumns
<1>3. ASSUME NEW r \in rows, NEW s \in rows, OrderValues(order, r) = OrderValues(order, s)
      PROVE  r = s
  <2>1. \A c \in OrderColumns(order) : r[c] = s[c]
    <3>1. \A k \in DOMAIN order : OrderValues(order, r)[k] = OrderValues(order, s)[k]
      BY <1>3
    <3>2. \A k \in DOMAIN order : r[order[k].column] = s[order[k].column]
      BY <3>1 DEF OrderValues
    <3> QED
      BY <3>2 DEF OrderColumns
  <2>2. PICK k \in relation.uniqueKeys : k \subseteq OrderColumns(order)
    BY DEF StableOrder
  <2>3. \A c \in k : r[c] # Null /\ r[c] = s[c]
    BY <1>1, <2>1, <2>2, ValuesAssumption DEF ValuesAssumption
  <2> QED
    BY <2>3 DEF RowsInv, Unique
<1> QED
  BY <1>2, <1>3 DEF RowsInv, Listable

(* ORDER BY.                                                               *)
LEMMA RowsInOrder ==
    ASSUME RowsInv, NEW order, IsOrder(order), StableOrder(order), NEW S \in SUBSET rows,
           NEW s, s = InOrder(S, order)
    PROVE  /\ s \in Seq(S)
           /\ \A i, j \in DOMAIN s : i < j => After(order, OrderValues(order, s[i]), s[j])
           /\ \A r \in S : \E i \in DOMAIN s : s[i] = r
<1> DEFINE R == {p \in S \X S : After(order, OrderValues(order, p[1]), p[2])}
<1>1. IsFiniteSet(S)
  BY FS_Subset DEF RowsInv
<1>2. \A r, t \in S : <<r, t>> \in R <=> Before(order, OrderValues(order, r), OrderValues(order, t))
  BY AfterIsBefore
<1>3. \A r \in S : OrderValues(order, r) \in Tuples(order)
  BY StableRows DEF Listable
<1> HIDE DEF R
<1>4. /\ \A x \in S : <<x, x>> \notin R
      /\ \A x, y, z \in S : <<x, y>> \in R /\ <<y, z>> \in R => <<x, z>> \in R
      /\ \A x, y \in S : x # y => <<x, y>> \in R \/ <<y, x>> \in R
  <2>1. \A x \in S : <<x, x>> \notin R
    BY <1>2, <1>3, BeforeIsStrict
  <2>2. \A x, y, z \in S : <<x, y>> \in R /\ <<y, z>> \in R => <<x, z>> \in R
    BY <1>2, <1>3, BeforeIsTransitive
  <2>3. \A x, y \in S : x # y => <<x, y>> \in R \/ <<y, x>> \in R
    <3> SUFFICES ASSUME NEW x \in S, NEW y \in S, x # y
                 PROVE  <<x, y>> \in R \/ <<y, x>> \in R
      OBVIOUS
    <3>1. OrderValues(order, x) # OrderValues(order, y)
      BY StableRows
    <3> QED
      BY <1>2, <1>3, <3>1, BeforeIsTotal
  <2> QED
    BY <2>1, <2>2, <2>3
<1>5. \A l : IsListing(l, S, R) <=>
               /\ l \in [1..Cardinality(S) -> S]
               /\ \A i, j \in DOMAIN l : i < j => After(order, OrderValues(order, l[i]), l[j])
  <2> SUFFICES ASSUME NEW l \in [1..Cardinality(S) -> S], NEW i \in DOMAIN l, NEW j \in DOMAIN l
               PROVE  <<l[i], l[j]>> \in R <=> After(order, OrderValues(order, l[i]), l[j])
    BY DEF IsListing
  <2> QED
    BY DEF R
<1>6. \E l : IsListing(l, S, R)
  BY <1>1, <1>4, ListingExists
<1>7. IsListing(s, S, R)
  BY <1>5, <1>6 DEF InOrder
<1>8. \A r \in S : \E i \in DOMAIN s : s[i] = r
  BY <1>1, <1>4, <1>7, ListingIsComplete
<1>9. Cardinality(S) \in Nat
  BY <1>1, FS_CardinalityType
<1> QED
  BY <1>5, <1>7, <1>8, <1>9

-----------------------------------------------------------------------------
(* The bytes of a page are those of its rows, and none has two.            *)
LEMMA PrefixBytesAre ==
    ASSUME NEW columns, NEW page, NEW n, NEW f,
           f = [k \in 1..n |-> BytesOf([c \in columns |-> page[k][c]]) + (IF k = 1 THEN 0 ELSE 1)]
    PROVE  PrefixBytes(columns, page, n) = 2 + Sum(1..n, f)
<1>1. PrefixBytes(columns, page, n) = 2 + MapThenSumSet(LAMBDA k : f[k], 1..n)
  BY DEF PrefixBytes
<1>2. MapThenSumSet(LAMBDA k : f[k], 1..n) = Sum(1..n, f)
  BY DEF MapThenSumSet, MapThenFoldSet, Sum, IsSum, Pick
<1> QED
  BY <1>1, <1>2

LEMMA PrefixBytesAgree ==
    ASSUME NEW columns, NEW page, NEW other, NEW n \in Nat, \A k \in 1..n : page[k] = other[k]
    PROVE  PrefixBytes(columns, page, n) = PrefixBytes(columns, other, n)
<1> DEFINE f == [k \in 1..n |-> BytesOf([c \in columns |-> page[k][c]]) + (IF k = 1 THEN 0 ELSE 1)]
           g == [k \in 1..n |-> BytesOf([c \in columns |-> other[k][c]]) + (IF k = 1 THEN 0 ELSE 1)]
<1>1. PrefixBytes(columns, page, n) = 2 + Sum(1..n, f) /\ PrefixBytes(columns, other, n) = 2 + Sum(1..n, g)
  BY PrefixBytesAre
<1>2. f = g
  OBVIOUS
<1> HIDE DEF f, g
<1> QED
  BY <1>1, <1>2

LEMMA EmptyPageFits ==
    ASSUME NEW columns, NEW page
    PROVE  PrefixBytes(columns, page, 0) <= MaxResult
<1>1. PICK n : n = 0
  OBVIOUS
<1>2. PICK f : f = [k \in 1..n |-> BytesOf([c \in columns |-> page[k][c]]) + (IF k = 1 THEN 0 ELSE 1)]
  OBVIOUS
<1>3. PrefixBytes(columns, page, n) = 2 + Sum(1..n, f)
  BY <1>2, PrefixBytesAre
<1>4. Sum({}, f) = 0
  BY SumEq, FS_EmptySet
<1>5. 1..n = {}
  BY <1>1
<1> QED
  BY <1>1, <1>3, <1>4, <1>5, ValuesAssumption DEF ValuesAssumption

LEMMA MaxIs ==
    ASSUME NEW n \in Nat, NEW S \in SUBSET (0..n), S # {}
    PROVE  Max(S) \in S /\ \A x \in S : x <= Max(S)
<1> DEFINE R == {p \in S \X S : p[1] < p[2]}
<1>1. IsFiniteSet(S) /\ S \subseteq Int
  <2>1. IsFiniteSet(0..n)
    BY FS_Interval
  <2>2. IsFiniteSet(S)
    BY <2>1, FS_Subset
  <2> QED
    BY <2>2
<1>2. \E x \in S : \A y \in S : <<x, y>> \notin R
  <2>1. /\ \A x \in S : <<x, x>> \notin R
        /\ \A x, y, z \in S : <<x, y>> \in R /\ <<y, z>> \in R => <<x, z>> \in R
    OBVIOUS
  <2> HIDE DEF R
  <2> QED
    BY <1>1, <2>1, HighestExists
<1>3. PICK x \in S : \A y \in S : x >= y
  <2>1. PICK x \in S : \A y \in S : <<x, y>> \notin R
    BY <1>2
  <2>2. \A y \in S : ~ (x < y)
    BY <2>1
  <2> QED
    BY <1>1, <2>2
<1>4. Max(S) \in S /\ \A y \in S : Max(S) >= y
  BY <1>3 DEF Max
<1> QED
  BY <1>4

(* What a page is: the first of the rows that were taken, in order, within *)
(* the limit and the bytes; and unless they are all, its cursor is its     *)
(* last row.                                                               *)
Taken(q, order, from) ==
    {r \in rows : Matches(q.filters, r) /\ (from # Nothing => After(order, Bound(order, from.values), r))}

LEMMA SelectedIs ==
    ASSUME RowsInv, NEW q, NEW order, order = Order(q), IsOrder(order), StableOrder(order),
           NEW from, NEW size \in Limits, NEW page, page = Selected(q, from, size),
           NEW taken, taken = Taken(q, order, from)
    PROVE  /\ page.rows \in Seq(taken) /\ Len(page.rows) <= size
           /\ \A i, j \in DOMAIN page.rows :
                 i < j => After(order, OrderValues(order, page.rows[i]), page.rows[j])
           /\ PrefixBytes(Projection(q), page.rows, Len(page.rows)) <= MaxResult
           /\ ~ page.truncated => \A r \in taken : r \in Range(page.rows)
           /\ page.truncated /\ page.rows # <<>> =>
                 LET last == page.rows[Len(page.rows)] IN
                 /\ page.next = Cursor(order, last)
                 /\ \A r \in taken : \/ r \in Range(page.rows)
                                     \/ After(order, OrderValues(order, last), r)
<1> DEFINE s == InOrder(taken, order)
           f == Fetched(q, order, from, size)
           most == IF Len(f) > size THEN size ELSE Len(f)
           fits == {n \in 0..most : n = 0 \/ PrefixBytes(Projection(q), f, n) <= MaxResult}
           n == Max(fits)
           more == n < Len(f)
<1>1. taken \in SUBSET rows
  BY DEF Taken
<1>2. /\ s \in Seq(taken)
      /\ \A i, j \in DOMAIN s : i < j => After(order, OrderValues(order, s[i]), s[j])
      /\ \A r \in taken : \E i \in DOMAIN s : s[i] = r
  <2> HIDE DEF s
  <2>1. s = InOrder(taken, order)
    BY DEF s
  <2> QED
    BY <1>1, <2>1, RowsInOrder
<1>3. f = SubSeq(s, 1, IF Len(s) > size THEN size + 1 ELSE Len(s))
  BY DEF Fetched, Taken
<1>4. /\ page.rows = SubSeq(f, 1, n) /\ page.truncated = more
      /\ page.next = IF more /\ n > 0 THEN Cursor(order, f[n]) ELSE Nothing
  BY DEF Selected
<1>5. size \in Nat /\ size >= 1
  BY RequestsAssumption DEF RequestsAssumption
<1> HIDE DEF s
<1>6. /\ f \in Seq(taken) /\ Len(f) = (IF Len(s) > size THEN size + 1 ELSE Len(s))
      /\ \A i \in 1..Len(f) : f[i] = s[i]
  <2>1. PICK m : m = IF Len(s) > size THEN size + 1 ELSE Len(s)
    OBVIOUS
  <2>2. Len(s) \in Nat /\ m \in 0..Len(s)
    BY <1>2, <1>5, <2>1
  <2>3. f = SubSeq(s, 1, m)
    BY <1>3, <2>1
  <2> HIDE DEF f
  <2>4. f \in Seq(taken) /\ Len(f) = m /\ \A i \in 1..m : f[i] = s[i]
    BY <1>2, <2>2, <2>3
  <2> QED
    BY <2>1, <2>4
<1> HIDE DEF f
<1>7. most \in Nat /\ most <= Len(f) /\ most <= size
  BY <1>5, <1>6
<1> HIDE DEF most
<1>8. n \in fits /\ n \in Nat /\ n <= most
  <2>1. fits \in SUBSET (0..most) /\ 0 \in fits
    BY <1>7
  <2> HIDE DEF fits
  <2>2. n \in fits
    BY <1>7, <2>1, MaxIs
  <2> HIDE DEF n
  <2> QED
    BY <1>7, <2>1, <2>2
<1>9. n = 0 \/ PrefixBytes(Projection(q), f, n) <= MaxResult
  BY <1>8
<1> HIDE DEF n, fits
<1>10. /\ page.rows \in Seq(taken) /\ Len(page.rows) = n
       /\ \A i \in 1..n : page.rows[i] = s[i] /\ page.rows[i] = f[i]
  <2>1. n \in 0..Len(f)
    BY <1>6, <1>7, <1>8
  <2>2. page.rows \in Seq(taken) /\ Len(page.rows) = n /\ \A i \in 1..n : page.rows[i] = f[i]
    BY <1>4, <1>6, <2>1
  <2> QED
    BY <1>6, <2>1, <2>2
<1>11. DOMAIN s = 1..Len(s) /\ Len(s) \in Nat /\ Len(f) <= Len(s) /\ n <= Len(s)
  BY <1>2, <1>5, <1>6, <1>7, <1>8
<1>12. \A i, j \in DOMAIN page.rows :
         i < j => After(order, OrderValues(order, page.rows[i]), page.rows[j])
  <2>1. DOMAIN page.rows = 1..n /\ 1..n \subseteq DOMAIN s
    BY <1>8, <1>10, <1>11
  <2> QED
    BY <1>2, <1>10, <2>1
<1>13. PrefixBytes(Projection(q), page.rows, Len(page.rows)) <= MaxResult
  <2>1. PrefixBytes(Projection(q), page.rows, n) = PrefixBytes(Projection(q), f, n)
    BY <1>8, <1>10, PrefixBytesAgree
  <2> QED
    BY <1>9, <1>10, <2>1, EmptyPageFits
<1>14. ASSUME NEW i \in DOMAIN s, i <= n
       PROVE  s[i] \in Range(page.rows)
  <2>1. i \in 1..n /\ DOMAIN page.rows = 1..n
    BY <1>8, <1>10, <1>11, <1>14
  <2> QED
    BY <1>10, <2>1 DEF Range
<1>15. ASSUME ~ more, NEW r \in taken
       PROVE  r \in Range(page.rows)
  <2>1. n = Len(f) /\ Len(f) = Len(s)
    <3>1. Len(f) \in Nat
      BY <1>6
    <3>2. n = Len(f)
      BY <1>7, <1>8, <1>15, <3>1
    <3>3. Len(f) <= size
      BY <1>5, <1>7, <1>8, <3>2
    <3>4. ~ (Len(s) > size)
      BY <1>5, <1>6, <3>3
    <3> QED
      BY <1>6, <3>2, <3>4
  <2>2. PICK i \in DOMAIN s : s[i] = r
    BY <1>2
  <2>3. i <= n
    BY <1>11, <2>1
  <2> QED
    BY <1>14, <2>2, <2>3
<1>16. ASSUME more, page.rows # <<>>
       PROVE  LET last == page.rows[Len(page.rows)] IN
              /\ page.next = Cursor(order, last)
              /\ \A r \in taken : \/ r \in Range(page.rows)
                                  \/ After(order, OrderValues(order, last), r)
  <2>1. n > 0
    BY <1>8, <1>10, <1>16
  <2>2. page.rows[Len(page.rows)] = s[n] /\ s[n] = f[n] /\ n \in DOMAIN s
    BY <1>8, <1>10, <1>11, <2>1
  <2>3. page.next = Cursor(order, s[n])
    BY <1>4, <1>16, <2>1, <2>2
  <2>4. ASSUME NEW r \in taken, r \notin Range(page.rows)
        PROVE  After(order, OrderValues(order, s[n]), r)
    <3>1. PICK i \in DOMAIN s : s[i] = r
      BY <1>2
    <3>2. n < i
      BY <1>8, <1>11, <1>14, <2>4, <3>1
    <3> QED
      BY <1>2, <2>2, <3>1, <3>2
  <2> QED
    BY <2>2, <2>3, <2>4
<1>17. Len(page.rows) <= size
  BY <1>5, <1>7, <1>8, <1>10
<1>18. page.truncated = more
  BY <1>4
<1> HIDE DEF more
<1> QED
  BY <1>10, <1>12, <1>13, <1>15, <1>16, <1>17, <1>18

-----------------------------------------------------------------------------
(* Mutations keep the rows typed and their number finite.                  *)
LEMMA ImageIsFinite ==
    ASSUME NEW S, IsFiniteSet(S), NEW f
    PROVE  IsFiniteSet({f[x] : x \in S})
<1> DEFINE g == [x \in S |-> f[x]]
           T == {f[x] : x \in S}
<1>1. g \in Surjection(S, T)
  BY DEF Surjection
<1> HIDE DEF g, T
<1>2. IsFiniteSet(T)
  BY <1>1, FS_Surjection
<1> QED
  BY <1>2 DEF T

LEMMA UnionIsFinite ==
    ASSUME NEW S, IsFiniteSet(S), NEW T, IsFiniteSet(T)
    PROVE  IsFiniteSet(S \cup T)
BY FS_Union

LEMMA CompletedIsRow ==
    ASSUME relation \in Relations, NEW b \in Batches, NEW k \in DOMAIN b
    PROVE  Completed(b[k]) \in [TableColumns -> Value]
<1>1. \A c \in DOMAIN b[k] : b[k][c] \in Value
  BY ValuesAssumption DEF ValuesAssumption
<1>2. \A c \in TableColumns : relation.columns[c].default \in Value
  BY ValuesAssumption DEF ValuesAssumption, TableColumns
<1> QED
  BY <1>1, <1>2 DEF Completed

LEMMA BatchesAreFinite ==
    ASSUME NEW b \in Batches
    PROVE  IsFiniteSet(DOMAIN b)
<1>1. b \in Seq(Range(b))
  BY RequestsAssumption DEF RequestsAssumption, RowsToWrite
<1>2. DOMAIN b = 1..Len(b) /\ Len(b) \in Nat
  BY <1>1
<1> QED
  BY <1>2, FS_Interval

(* Rows that a mutation may leave.                                         *)
AreRows(after) == after \subseteq [TableColumns -> Value] /\ IsFiniteSet(after)

LEMMA InsertedAreRows ==
    ASSUME RowsInv, NEW b \in Batches, Inserted(b) # Nothing
    PROVE  \E after, n : Inserted(b) = Effect(after, n) /\ AreRows(after)
<1> DEFINE f == [k \in DOMAIN b |-> Completed(b[k])]
           new == {Completed(b[k]) : k \in DOMAIN b}
<1>1. Inserted(b) = Effect(rows \cup new, Len(b))
  BY DEF Inserted
<1>2. new \subseteq [TableColumns -> Value]
  BY CompletedIsRow DEF RowsInv
<1>3. IsFiniteSet(new)
  <2>1. new = {f[k] : k \in DOMAIN b}
    OBVIOUS
  <2> HIDE DEF f, new
  <2> QED
    BY <2>1, BatchesAreFinite, ImageIsFinite
<1> HIDE DEF new
<1>4. AreRows(rows \cup new)
  BY <1>2, <1>3, UnionIsFinite DEF RowsInv, AreRows
<1> QED
  BY <1>1, <1>4

LEMMA UpsertedAreRows ==
    ASSUME RowsInv, NEW b \in Batches, NEW u, NEW key, Upserted(b, key, u) # Nothing
    PROVE  \E after, n : Upserted(b, key, u) = Effect(after, n) /\ AreRows(after)
<1> DEFINE same(r, n) == \A c \in key : r[c] # Null /\ r[c] = n[c]
           new(k) == Completed(b[k])
           first == {k \in DOMAIN b : \A j \in 1..(k - 1) : ~ same(new(j), new(k))}
           hits == {k \in first : \E r \in rows : same(r, new(k))}
           added == {new(k) : k \in first \ hits}
           set(r) == [c \in TableColumns |-> IF c \notin u THEN r[c]
                         ELSE new(CHOOSE k \in hits : same(r, new(k)))[c]]
           hit == {r \in rows : \E k \in hits : same(r, new(k))}
           changed == {set(r) : r \in hit}
           after == IF u = {} THEN rows \cup added ELSE (rows \ hit) \cup added \cup changed
           f == [k \in first \ hits |-> new(k)]
           g == [r \in hit |-> set(r)]
<1>1. \E n : Upserted(b, key, u) = Effect(after, n)
  BY DEF Upserted
<1>2. hits \subseteq DOMAIN b /\ first \ hits \subseteq DOMAIN b /\ hit \subseteq rows
  OBVIOUS
<1>3. \A k \in DOMAIN b : new(k) \in [TableColumns -> Value]
  BY CompletedIsRow DEF RowsInv
<1>4. added \subseteq [TableColumns -> Value]
  BY <1>2, <1>3
<1>5. \A r \in hit : set(r) \in [TableColumns -> Value]
  <2> SUFFICES ASSUME NEW r \in hit, NEW c \in TableColumns
               PROVE  set(r)[c] \in Value
    OBVIOUS
  <2>1. r[c] \in Value
    BY <1>2 DEF RowsInv
  <2>2. (CHOOSE k \in hits : same(r, new(k))) \in DOMAIN b
    BY <1>2
  <2> QED
    BY <1>3, <2>1, <2>2
<1>6. IsFiniteSet(added)
  <2>1. added = {f[k] : k \in first \ hits}
    OBVIOUS
  <2>2. IsFiniteSet(first \ hits)
    <3> HIDE DEF first, hits
    <3> QED
      BY <1>2, BatchesAreFinite, FS_Subset
  <2> HIDE DEF added, f, first, hits
  <2> QED
    BY <2>1, <2>2, ImageIsFinite
<1>7. changed \subseteq [TableColumns -> Value] /\ IsFiniteSet(changed)
  <2>1. changed = {g[r] : r \in hit}
    <3> HIDE DEF hit, set
    <3>1. \A r \in hit : g[r] = set(r)
      BY DEF g
    <3> HIDE DEF g
    <3> QED
      BY <3>1
  <2>2. IsFiniteSet(hit)
    <3> HIDE DEF hit
    <3> QED
      BY <1>2, FS_Subset DEF RowsInv
  <2>3. IsFiniteSet({g[r] : r \in hit})
    <3> HIDE DEF hit, g
    <3> QED
      BY <2>2, ImageIsFinite
  <2>4. changed \subseteq [TableColumns -> Value]
    <3> HIDE DEF hit, set
    <3> QED
      BY <1>5
  <2> QED
    BY <2>1, <2>3, <2>4
<1> HIDE DEF added, changed, hit
<1>8. IsFiniteSet(rows \ hit)
  BY FS_Subset DEF RowsInv
<1>9. AreRows(after)
  BY <1>4, <1>6, <1>7, <1>8, UnionIsFinite DEF AreRows, RowsInv
<1> HIDE DEF after
<1> QED
  BY <1>1, <1>9

LEMMA UpdatedAreRows ==
    ASSUME RowsInv, NEW v, NEW f, NEW h, Updated(v, f, h) # Nothing,
           Hits(f, h) # {} => \A c \in DOMAIN v : v[c] \in Value
    PROVE  \E after, n : Updated(v, f, h) = Effect(after, n) /\ AreRows(after)
<1> DEFINE hit == Hits(f, h)
           set(r) == [c \in TableColumns |-> IF c \in DOMAIN v THEN v[c] ELSE r[c]]
           changed == {set(r) : r \in hit}
           g == [r \in hit |-> set(r)]
<1>1. Updated(v, f, h) = Effect((rows \ hit) \cup changed, Cardinality(hit))
  BY DEF Updated
<1>2. hit \subseteq rows
  BY DEF Hits
<1> HIDE DEF hit
<1>3. changed \subseteq [TableColumns -> Value]
  <2> SUFFICES ASSUME NEW r \in hit, NEW c \in TableColumns
               PROVE  set(r)[c] \in Value
    OBVIOUS
  <2>1. r[c] \in Value
    BY <1>2 DEF RowsInv
  <2> QED
    BY <2>1 DEF hit
<1>4. IsFiniteSet(hit) /\ IsFiniteSet(rows \ hit)
  <2>1. IsFiniteSet(rows)
    BY DEF RowsInv
  <2> QED
    BY <1>2, <2>1, FS_Subset
<1>5. IsFiniteSet(changed)
  <2>1. changed = {g[r] : r \in hit}
    OBVIOUS
  <2> HIDE DEF g, changed
  <2> QED
    BY <1>4, <2>1, ImageIsFinite
<1> HIDE DEF changed
<1>6. AreRows((rows \ hit) \cup changed)
  BY <1>3, <1>4, <1>5, UnionIsFinite DEF AreRows, RowsInv
<1> QED
  BY <1>1, <1>6

LEMMA DeletedAreRows ==
    ASSUME RowsInv, NEW f, NEW h, Deleted(f, h) # Nothing
    PROVE  \E after, n : Deleted(f, h) = Effect(after, n) /\ AreRows(after)
<1>1. Deleted(f, h) = Effect(rows \ Hits(f, h), Cardinality(Hits(f, h)))
  BY DEF Deleted
<1>2. IsFiniteSet(rows \ Hits(f, h))
  BY FS_Subset DEF RowsInv
<1> QED
  BY <1>1, <1>2 DEF RowsInv, AreRows

(* What a mutation leaves alone, committed or not.                         *)
Written ==
    /\ RowsInv' /\ UNCHANGED <<relation, request, cursor, pages, reading>>
    /\ lasting' \subseteq lasting /\ (lasting \subseteq rows => lasting' \subseteq rows')

LEMMA MutateWrites ==
    ASSUME RowsInv, NEW e, NEW g, Mutate(e, g),
           e # Nothing => \E after, n : e = Effect(after, n) /\ AreRows(after)
    PROVE  Written
<1>1. /\ e # Nothing /\ rows' = e.rows /\ lasting' = lasting \cap e.rows
      /\ UNCHANGED <<relation, request, cursor, pages, reading>>
  BY DEF Mutate, Commits
<1>2. PICK after, n : e = Effect(after, n) /\ AreRows(after)
  BY <1>1
<1>3. e.rows = after /\ Unique(after) /\ NotNull(after)
  BY <1>1, <1>2, EffectIs
<1>4. Unique(rows)' /\ NotNull(rows)'
  BY <1>1, <1>3 DEF Unique, NotNull, TableColumns
<1>5. (rows \subseteq [TableColumns -> Value])' /\ IsFiniteSet(rows')
  BY <1>1, <1>2, <1>3 DEF AreRows, TableColumns
<1>6. RowsInv'
  BY <1>1, <1>4, <1>5 DEF RowsInv
<1> QED
  BY <1>1, <1>6 DEF Written

LEMMA IncrementWrites ==
    ASSUME RowsInv, NEW c, Increment(c) \/ IncrementInDoubt(c) \/ RefuseIncrement(c)
    PROVE  Written
<1> DEFINE s == seen[c]
           v == [x \in {Counter} |-> s[Counter] + 1]
           f == [allOf |-> {Is(Key, s[Key])}, anyOf |-> {}]
           h == [allOf |-> {Is(Counter, s[Counter])}, anyOf |-> {}]
           e == Updated(v, f, h)
<1>1. CASE UNCHANGED <<relation, rows, request, pageVars>>
  BY <1>1 DEF Written, RowsInv, Unique, NotNull, TableColumns, pageVars
<1>2. CASE Mutate(e, One)
  <2>1. ASSUME NEW r \in Hits(f, h)
        PROVE  s[Counter] \in Int
    <3>1. r \in rows /\ Condition(Is(Counter, s[Counter]), r) = "true"
      BY DEF Hits, Matches
    <3>2. r[Counter] # Null /\ r[Counter] = s[Counter]
      BY <3>1 DEF Condition, Is, Truth
    <3>3. Counter \in TableColumns
      BY <1>2, CountersAssumption
      DEF Mutate, Commits, Updated, Usable, RowsInv, CountersAssumption, TableColumns
    <3> QED
      BY <3>1, <3>2, <3>3 DEF RowsInv, Value
  <2>2. Hits(f, h) # {} => \A x \in DOMAIN v : v[x] \in Value
    <3> HIDE DEF f, h
    <3>1. s[Counter] \in Int => \A x \in DOMAIN v : v[x] \in Value
      BY DEF Value
    <3> QED
      BY <2>1, <3>1
  <2>3. e # Nothing => \E after, n : e = Effect(after, n) /\ AreRows(after)
    <3> HIDE DEF v, f, h
    <3> QED
      BY <2>2, UpdatedAreRows
  <2> HIDE DEF e
  <2> QED
    BY <1>2, <2>3, MutateWrites
<1>3. Incremented(s) = e
  BY DEF Incremented
<1> HIDE DEF e
<1> QED
  BY <1>1, <1>2, <1>3 DEF Increment, IncrementInDoubt, RefuseIncrement

-----------------------------------------------------------------------------
(* The next page starts behind every row that was received, and the rows   *)
(* that were there from the first page on are received or still to come.   *)
NothingIsSkipped(order) ==
    /\ \A r \in Received : \/ OrderValues(order, r) = cursor.values
                           \/ Before(order, OrderValues(order, r), cursor.values)
    /\ \A r \in lasting : Matches(request.filters, r) =>
         r \in Received \/ After(order, cursor.values, r)

CursorIsReached(order) ==
    /\ cursor # Nothing /\ cursor.order = order /\ cursor.values \in Tuples(order)
    /\ ReturnsExactly(order) => NothingIsSkipped(order)

(* The values of an exact order return as they were.                       *)
LEMMA BoundIs ==
    ASSUME NEW order, ReturnsExactly(order), NEW values \in Tuples(order)
    PROVE  Bound(order, values) = values
BY DEF ReturnsExactly, Bound, Tuples

PagesInv ==
    LET order == Order(request) IN
    /\ RowsInv /\ request \in Requests /\ lasting \subseteq rows
    /\ pages \in Seq(Seq(Listable(order))) /\ (pages # <<>> => StableOrder(order))
    /\ PagesAreExact
    /\ reading = "open" /\ pages = <<>> => cursor = Nothing
    /\ reading = "open" /\ pages # <<>> => CursorIsReached(order)

LEMMA OrderIsOrder ==
    ASSUME relation \in Relations, request \in Requests
    PROVE  IsOrder(Order(request))
<1>1. request.order \in Seq(Range(request.order))
  BY RequestsAssumption DEF RequestsAssumption, OrderTerms
<1>2. relation.primaryKey \in Seq(DOMAIN relation.columns)
  BY RelationsAssumption DEF RelationsAssumption, RelationMetadata
<1>3. DOMAIN relation.primaryKey = 1..Len(relation.primaryKey) /\ Len(relation.primaryKey) \in Nat
  BY <1>2
<1> DEFINE T == {[column |-> relation.primaryKey[k], direction |-> "asc"] : k \in DOMAIN relation.primaryKey}
<1>4. KeyOrder(relation) \in [1..Len(relation.primaryKey) -> T]
  BY <1>3 DEF KeyOrder
<1>5. KeyOrder(relation) \in Seq(T)
  <2> HIDE DEF T
  <2> QED
    BY <1>3, <1>4
<1> QED
  BY <1>1, <1>5 DEF IsOrder, Order

(* What only depends on the relation, the request and the pages.           *)
LEMMA PagesStay ==
    ASSUME PagesInv, RowsInv', UNCHANGED <<relation, request, cursor, pages>>,
           lasting' \subseteq lasting, lasting' \subseteq rows', reading' \in {reading, "rejected"}
    PROVE  PagesInv'
<1> DEFINE order == Order(request)
<1>1. order' = order
  BY DEF Order
<1>2. Received' = Received
  BY DEF Received
<1>3. /\ Listable(order)' = Listable(order) /\ StableOrder(order)' = StableOrder(order)
      /\ ReturnsExactly(order)' = ReturnsExactly(order)
  BY <1>1 DEF Listable, StableOrder, TableColumns, Order, ReturnsExactly, TypeOf
<1>4. reading' = "open" => reading = "open"
  OBVIOUS
<1>5. reading' = "complete" => reading = "complete"
  OBVIOUS
<1>6. CursorIsReached(order) => CursorIsReached(order)'
  BY <1>1, <1>2, <1>3 DEF CursorIsReached, NothingIsSkipped
<1>7. PagesAreExact'
  <2>1. Projection(request)' = Projection(request)
    BY DEF Projection, TableColumns
  <2>2. \A k, l : InOneOrder(order, k, l) => InOneOrder(order, k, l)'
    BY <1>1 DEF InOneOrder, After, OrderValues, Beyond
  <2>3. PagesFollow(order) => PagesFollow(order)'
    BY <1>1, <1>2, <1>5, <2>2 DEF PagesFollow
  <2> QED
    BY <1>1, <1>2, <1>3, <1>5, <2>1, <2>2, <2>3 DEF PagesInv, PagesAreExact
<1> QED
  BY <1>1, <1>3, <1>4, <1>6, <1>7 DEF PagesInv

(* The request of the next page asks for the same rows in the same order.  *)
LEMMA NextRequest ==
    ASSUME PagesInv, NEW o, NEW size, pages = <<>> => o = request.order, reading = "open",
           NEW q, q = [request EXCEPT !.order = o], Selectable(q, cursor, size)
    PROVE  /\ Order(q) = Order(request) /\ StableOrder(Order(request))
           /\ q.filters = request.filters /\ Projection(q) = Projection(request)
           /\ (pages = <<>>) <=> (cursor = Nothing)
<1>1. DOMAIN request = {"columns", "filters", "order"}
  BY RequestsAssumption DEF RequestsAssumption, PagesInv
<1>2. q.order = o /\ q.filters = request.filters /\ q.columns = request.columns
  BY <1>1
<1>3. StableOrder(Order(q))
  BY DEF Selectable
<1>4. CASE pages = <<>>
  BY <1>2, <1>3, <1>4 DEF Order, Projection, PagesInv
<1>5. CASE pages # <<>>
  <2>1. cursor # Nothing /\ cursor.order = Order(request)
    BY <1>5 DEF PagesInv, CursorIsReached
  <2>2. q.order # <<>> /\ cursor.order = q.order
    BY <2>1 DEF Selectable, Continues
  <2> QED
    BY <1>2, <1>3, <1>5, <2>1, <2>2 DEF Order, Projection
<1> QED
  BY <1>4, <1>5

(* A cursor is not Nothing.                                                *)
LEMMA CursorIsSomething ==
    ASSUME relation \in Relations, request \in Requests, NEW order, order = Order(request),
           NEW r \in Listable(order)
    PROVE  /\ Cursor(order, r) # Nothing /\ Cursor(order, r).order = order
           /\ Cursor(order, r).values = OrderValues(order, r)
<1>1. IsOrder(order)
  BY OrderIsOrder
<1>2. DOMAIN order = 1..Len(order) /\ Len(order) \in Nat
  BY <1>1, OrderIndexes
<1>3. OrderValues(order, r) \in Seq(Int)
  <2>1. OrderValues(order, r) \in [1..Len(order) -> Int]
    BY <1>2 DEF Listable, Tuples
  <2> HIDE DEF OrderValues
  <2> QED
    BY <1>2, <2>1
<1>4. order \in {q.order : q \in Requests} \cup {KeyOrder(m) : m \in Relations}
  BY DEF Order
<1>5. Nothing \notin [order : {q.order : q \in Requests} \cup {KeyOrder(m) : m \in Relations},
                    values : Seq(Int)]
  BY ValuesAssumption DEF ValuesAssumption
<1>6. Cursor(order, r) = [order |-> order, values |-> OrderValues(order, r)]
  BY DEF Cursor
<1> QED
  BY <1>3, <1>4, <1>5, <1>6

(* A page extends what was received in order.                              *)
LEMMA PageFollows ==
    ASSUME PagesInv, NEW o, NEW size \in Limits, SelectPage(o, size), reading' # "rejected"
    PROVE  PagesInv'
<1> PICK q : q = [request EXCEPT !.order = o]
  OBVIOUS
<1>1. PICK page : page = Selected(q, cursor, size)
  OBVIOUS
<1>2. /\ Selectable(q, cursor, size) /\ reading = "open" /\ (pages = <<>> => o = request.order)
      /\ pages' = Append(pages, page.rows) /\ cursor' = page.next
      /\ lasting' = (IF pages = <<>> THEN rows ELSE lasting)
      /\ reading' = (IF page.truncated THEN "open" ELSE "complete")
      /\ UNCHANGED <<relation, rows, request>>
  BY <1>1 DEF SelectPage
<1>3. PICK order : order = Order(request)
  OBVIOUS
<1>4. /\ Order(q) = order /\ StableOrder(order) /\ q.filters = request.filters
      /\ Projection(q) = Projection(request) /\ ((pages = <<>>) <=> (cursor = Nothing))
  BY <1>2, <1>3, NextRequest
<1>5. page.truncated => page.rows # <<>>
  BY <1>1, <1>2 DEF Selectable
<1>6. /\ RowsInv /\ request \in Requests /\ relation \in Relations /\ lasting \subseteq rows
      /\ pages \in Seq(Seq(Listable(order))) /\ PagesAreExact
      /\ pages # <<>> => CursorIsReached(order)
  <2>1. pages # <<>> => CursorIsReached(order)
    BY <1>2, <1>3 DEF PagesInv
  <2>2. pages \in Seq(Seq(Listable(order))) /\ PagesAreExact
    BY <1>3 DEF PagesInv
  <2> QED
    BY <2>1, <2>2 DEF PagesInv, RowsInv
<1>7. IsOrder(order)
  BY <1>3, <1>6, OrderIsOrder
<1>8. PICK taken : taken = Taken(q, order, cursor)
  OBVIOUS
<1>9. /\ page.rows \in Seq(taken) /\ Len(page.rows) <= size
      /\ \A i, j \in DOMAIN page.rows :
            i < j => After(order, OrderValues(order, page.rows[i]), page.rows[j])
      /\ PrefixBytes(Projection(q), page.rows, Len(page.rows)) <= MaxResult
      /\ ~ page.truncated => \A r \in taken : r \in Range(page.rows)
      /\ page.truncated /\ page.rows # <<>> =>
            LET last == page.rows[Len(page.rows)] IN
            /\ page.next = Cursor(order, last)
            /\ \A r \in taken : \/ r \in Range(page.rows)
                                \/ After(order, OrderValues(order, last), r)
  BY <1>1, <1>4, <1>6, <1>7, <1>8, SelectedIs
<1>10. taken \subseteq rows /\ rows \subseteq Listable(order)
  BY <1>4, <1>6, <1>7, <1>8, StableRows DEF Taken
<1>11. /\ \A r \in taken : Matches(request.filters, r)
       /\ pages # <<>> => \A r \in taken : After(order, Bound(order, cursor.values), r)
  BY <1>4, <1>8 DEF Taken
<1>12. PICK n \in Nat : n = Len(pages) /\ DOMAIN pages = 1..n
  BY <1>6
<1>13. PICK m \in Nat : m = Len(page.rows) /\ DOMAIN page.rows = 1..m
  BY <1>9
<1>14. /\ pages' \in Seq(Seq(Listable(order))) /\ DOMAIN pages' = 1..(n + 1)
       /\ \A k \in 1..n : pages'[k] = pages[k]
       /\ pages'[n + 1] = page.rows
  <2>1. page.rows \in Seq(Listable(order))
    BY <1>9, <1>10, <1>13
  <2> QED
    BY <1>2, <1>6, <1>12, <2>1
<1>15. Range(page.rows) \subseteq taken
  BY <1>9, <1>13 DEF Range
<1>16. Received' = Received \cup Range(page.rows)
  <2>1. Received' = UNION {Range(pages'[k]) : k \in 1..(n + 1)}
    BY <1>14 DEF Received
  <2>2. Received = UNION {Range(pages[k]) : k \in 1..n}
    BY <1>12 DEF Received
  <2>3. n + 1 \in 1..(n + 1) /\ \A k \in 1..(n + 1) : k = n + 1 \/ k \in 1..n
    OBVIOUS
  <2>4. ASSUME NEW r
        PROVE  r \in Received' <=> r \in Received \/ r \in Range(page.rows)
    BY <1>14, <2>1, <2>2, <2>3
  <2> QED
    BY <2>4
<1>17. order' = order /\ Order(request)' = order /\ Listable(order)' = Listable(order)
       /\ StableOrder(order)' /\ Projection(request)' = Projection(request)
  <2>1. Order(request)' = order
    BY <1>2, <1>3 DEF Order
  <2>2. Listable(order)' = Listable(order) /\ Projection(request)' = Projection(request)
    BY <1>2 DEF Listable, Projection, TableColumns
  <2>3. StableOrder(order)'
    BY <1>2, <1>4 DEF StableOrder, TableColumns
  <2> QED
    BY <2>1, <2>2, <2>3
<1> DEFINE exact == ReturnsExactly(order)
<1>e1. exact' = exact
  BY <1>2, <1>17 DEF ReturnsExactly, TypeOf
<1>e2. ASSUME exact, pages # <<>>
       PROVE  Bound(order, cursor.values) = cursor.values /\ NothingIsSkipped(order)
  BY <1>6, <1>e2, BoundIs DEF CursorIsReached
<1> HIDE DEF exact
<1>18. ASSUME exact
       PROVE  \A r \in lasting' : Matches(request.filters, r) => r \in Received \/ r \in taken
  <2>1. CASE pages = <<>>
    <3>1. lasting' = rows /\ cursor = Nothing
      BY <1>2, <1>4, <2>1
    <3>2. \A r \in rows : Matches(q.filters, r) => r \in taken
      BY <1>8, <3>1 DEF Taken
    <3> QED
      BY <1>4, <3>1, <3>2
  <2>2. CASE pages # <<>>
    <3>1. \A r \in lasting : Matches(request.filters, r) => r \in Received \/ After(order, cursor.values, r)
      BY <1>18, <1>e2, <2>2 DEF NothingIsSkipped
    <3> QED
      BY <1>2, <1>4, <1>6, <1>8, <1>18, <1>e2, <2>2, <3>1 DEF Taken
  <2> QED
    BY <2>1, <2>2
<1>19. \A r \in Received : r \in Listable(order)
  BY <1>6, <1>12 DEF Received, Range
<1>20. ASSUME exact
       PROVE  \A r \in Received : \A t \in taken : Before(order, OrderValues(order, r), OrderValues(order, t))
  <2> SUFFICES ASSUME NEW r \in Received, NEW t \in taken
               PROVE  Before(order, OrderValues(order, r), OrderValues(order, t))
    OBVIOUS
  <2>1. pages # <<>>
    BY <1>12 DEF Received
  <2>2. Before(order, cursor.values, OrderValues(order, t))
    BY <1>7, <1>11, <1>20, <1>e2, <2>1, AfterIsBefore
  <2>3. /\ cursor.values \in Tuples(order)
        /\ \/ OrderValues(order, r) = cursor.values
           \/ Before(order, OrderValues(order, r), cursor.values)
    BY <1>6, <1>20, <1>e2, <2>1 DEF CursorIsReached, NothingIsSkipped
  <2>4. OrderValues(order, r) \in Tuples(order) /\ OrderValues(order, t) \in Tuples(order)
    BY <1>10, <1>19 DEF Listable
  <2> QED
    BY <1>7, <2>2, <2>3, <2>4, BeforeIsTransitive
<1>21. PagesAreExact'
  <2>1. ASSUME NEW k \in 1..(n + 1), NEW l \in 1..(n + 1), exact \/ k = l
        PROVE  InOneOrder(order, k, l)'
    <3> SUFFICES ASSUME NEW i \in DOMAIN pages'[k], NEW j \in DOMAIN pages'[l],
                        k < l \/ (k = l /\ i < j)
                 PROVE  After(order, OrderValues(order, pages'[k][i]), pages'[l][j])
      BY <1>17 DEF InOneOrder, After, OrderValues, Beyond
    <3>1. CASE l \in 1..n
      <4>1. k \in 1..n
        BY <3>1
      <4>2. InOneOrder(order, k, l)
        BY <1>3, <1>6, <1>12, <2>1, <3>1, <4>1 DEF PagesAreExact, PagesFollow, exact
      <4> QED
        BY <1>14, <3>1, <4>1, <4>2 DEF InOneOrder
    <3>2. CASE l = n + 1 /\ k = n + 1
      <4>1. i \in DOMAIN page.rows /\ j \in DOMAIN page.rows /\ i < j
        BY <1>14, <3>2
      <4> QED
        BY <1>9, <1>14, <3>2, <4>1
    <3>3. CASE l = n + 1 /\ k \in 1..n
      <4>1. pages'[k][i] \in Received
        BY <1>12, <1>14, <3>3 DEF Received, Range
      <4>2. pages'[l][j] \in taken
        BY <1>14, <1>15, <3>3 DEF Range
      <4> QED
        BY <1>7, <1>20, <2>1, <3>3, <4>1, <4>2, AfterIsBefore
    <3> QED
      BY <3>1, <3>2, <3>3
  <2>2. ASSUME exact, reading' = "complete", NEW r \in lasting', Matches(request.filters, r)
        PROVE  r \in Received'
    BY <1>2, <1>9, <1>16, <1>18, <2>2
  <2>3. ASSUME NEW k \in 1..(n + 1)
        PROVE  /\ Len(pages'[k]) <= Max(Limits)
               /\ PrefixBytes(Projection(request), pages'[k], Len(pages'[k])) <= MaxResult
               /\ \A r \in Range(pages'[k]) : Matches(request.filters, r)
    <3>1. CASE k \in 1..n
      BY <1>6, <1>12, <1>14, <3>1 DEF PagesAreExact
    <3>2. CASE k = n + 1
      <4>1. size <= Max(Limits) /\ size \in Nat /\ Max(Limits) \in Nat
        <5>1. Limits \in SUBSET (0..500) /\ Limits # {}
          BY RequestsAssumption DEF RequestsAssumption
        <5>2. PICK b \in Nat : b = 500
          OBVIOUS
        <5>3. Max(Limits) \in Limits /\ size <= Max(Limits)
          BY <5>1, <5>2, MaxIs, ZenonT(30)
        <5>4. size \in 0..500 /\ Max(Limits) \in 0..500
          BY <5>1, <5>3
        <5> QED
          BY <5>3, <5>4
      <4>2. Len(page.rows) <= Max(Limits)
        BY <1>9, <1>13, <4>1
      <4>3. pages'[k] = page.rows
        BY <1>14, <3>2
      <4>4. PrefixBytes(Projection(request), page.rows, Len(page.rows)) <= MaxResult
        BY <1>4, <1>9
      <4>5. \A r \in Range(page.rows) : Matches(request.filters, r)
        BY <1>11, <1>15
      <4> QED
        BY <4>2, <4>3, <4>4, <4>5
    <3> QED
      BY <3>1, <3>2
  <2>4. exact => PagesFollow(order)'
    <3>1. ASSUME exact
          PROVE  \A k, l \in DOMAIN pages' : InOneOrder(order, k, l)'
      BY <1>14, <2>1, <3>1
    <3>2. ASSUME exact
          PROVE  reading' = "complete" =>
                   \A r \in lasting' : Matches(request'.filters, r) => r \in Received'
      BY <1>2, <2>2, <3>2
    <3> QED
      BY <1>17, <3>1, <3>2 DEF PagesFollow
  <2>5. \A k \in DOMAIN pages' :
          /\ InOneOrder(order, k, k)'
          /\ Len(pages'[k]) <= Max(Limits)
          /\ PrefixBytes(Projection(request)', pages'[k], Len(pages'[k])) <= MaxResult
          /\ \A r \in Range(pages'[k]) : Matches(request'.filters, r)
    BY <1>2, <1>14, <1>17, <2>1, <2>3
  <2> QED
    BY <1>17, <1>e1, <2>4, <2>5 DEF PagesAreExact, exact
<1>22. ASSUME reading' = "open"
       PROVE  CursorIsReached(order)'
  <2>1. page.truncated /\ page.rows # <<>>
    BY <1>2, <1>5, <1>22
  <2>2. PICK last : last = page.rows[m]
    OBVIOUS
  <2>3. m \in DOMAIN page.rows /\ last \in taken
    BY <1>9, <1>13, <2>1, <2>2
  <2>4. /\ cursor' = Cursor(order, last)
        /\ \A r \in taken : r \in Range(page.rows) \/ After(order, OrderValues(order, last), r)
    BY <1>2, <1>9, <1>13, <2>1, <2>2
  <2>5. last \in Listable(order)
    BY <1>10, <2>3
  <2>6. cursor' # Nothing /\ cursor'.order = order /\ cursor'.values = OrderValues(order, last)
    BY <1>3, <1>6, <2>4, <2>5, CursorIsSomething
  <2>7. OrderValues(order, last) \in Tuples(order)
    BY <2>5 DEF Listable
  <2>8. ASSUME exact, NEW r \in Received'
        PROVE  \/ OrderValues(order, r) = OrderValues(order, last)
               \/ Before(order, OrderValues(order, r), OrderValues(order, last))
    <3>1. CASE r \in Received
      BY <1>20, <2>3, <2>8, <3>1
    <3>2. CASE r \in Range(page.rows)
      <4>1. PICK i \in DOMAIN page.rows : r = page.rows[i]
        BY <3>2 DEF Range
      <4>2. CASE i = m
        BY <2>2, <4>1, <4>2
      <4>3. CASE i # m
        <5>1. i < m
          BY <1>13, <4>3
        <5>2. After(order, OrderValues(order, r), last)
          BY <1>9, <2>2, <2>3, <4>1, <5>1
        <5> QED
          BY <1>7, <5>2, AfterIsBefore
      <4> QED
        BY <4>2, <4>3
    <3> QED
      BY <1>16, <3>1, <3>2
  <2>9. ASSUME exact, NEW r \in lasting', Matches(request.filters, r)
        PROVE  r \in Received' \/ After(order, OrderValues(order, last), r)
    BY <1>16, <1>18, <2>4, <2>9
  <2> QED
    BY <1>2, <1>17, <1>e1, <2>6, <2>7, <2>8, <2>9 DEF CursorIsReached, NothingIsSkipped, exact
<1>23. RowsInv' /\ request' \in Requests /\ lasting' \subseteq rows' /\ pages' # <<>>
  <2>1. RowsInv'
    BY <1>2, <1>6 DEF RowsInv, Unique, NotNull, TableColumns
  <2> QED
    BY <1>2, <1>6, <1>14, <2>1
<1> QED
  BY <1>14, <1>17, <1>21, <1>22, <1>23 DEF PagesInv

LEMMA PagesInvInit ==
    ASSUME DataInit
    PROVE  PagesInv
<1>1. RowsInv
  BY ValuesAssumption DEF DataInit, RowsInv, ValuesAssumption
<1>2. PagesAreExact
  BY DEF DataInit, PagesAreExact, PagesFollow, InOneOrder
<1> QED
  BY <1>1, <1>2 DEF DataInit, PagesInv

LEMMA PagesInvNext ==
    ASSUME PagesInv, [DataNext]_dataVars
    PROVE  PagesInv'
<1>1. ASSUME Written
      PROVE  PagesInv'
  BY <1>1, PagesStay DEF Written, PagesInv
<1>2. ASSUME NEW o \in Orders, NEW n \in Limits, SelectPage(o, n)
      PROVE  PagesInv'
  <2>1. CASE reading' = "rejected"
    <3>1. UNCHANGED <<relation, rows, request, cursor, pages, lasting>>
      BY <1>2, <2>1 DEF SelectPage
    <3>2. RowsInv' /\ lasting' \subseteq rows'
      BY <3>1 DEF PagesInv, RowsInv, Unique, NotNull, TableColumns
    <3> QED
      BY <2>1, <3>1, <3>2, PagesStay
  <2> QED
    BY <1>2, <2>1, PageFollows
<1>3. ASSUME NEW g \in Guards, NEW b \in Batches, Insert(b, g)
      PROVE  PagesInv'
  <2>1. Written
    BY <1>3, InsertedAreRows, MutateWrites DEF Insert, PagesInv
  <2> QED
    BY <1>1, <2>1
<1>4. ASSUME NEW g \in Guards, NEW b \in Batches, NEW u, NEW k, Upsert(b, k, u, g)
      PROVE  PagesInv'
  <2>1. Written
    BY <1>4, UpsertedAreRows, MutateWrites DEF Upsert, PagesInv
  <2> QED
    BY <1>1, <2>1
<1>5. ASSUME NEW g \in Guards, NEW f \in Filters, NEW h \in Filters, Delete(f, h, g)
      PROVE  PagesInv'
  <2>1. Written
    BY <1>5, DeletedAreRows, MutateWrites DEF Delete, PagesInv
  <2> QED
    BY <1>1, <2>1
<1>6. ASSUME NEW g \in Guards, NEW f \in Filters, NEW h \in Filters, NEW v \in Assignments,
             Update(v, f, h, g)
      PROVE  PagesInv'
  <2>1. \A c \in DOMAIN v : v[c] \in Value
    BY ValuesAssumption DEF ValuesAssumption
  <2>2. Written
    BY <1>6, <2>1, UpdatedAreRows, MutateWrites DEF Update, PagesInv
  <2> QED
    BY <1>1, <2>2
<1>7. ASSUME NEW c, Increment(c) \/ IncrementInDoubt(c) \/ RefuseIncrement(c)
      PROVE  PagesInv'
  BY <1>1, <1>7, IncrementWrites DEF PagesInv
<1>8. ASSUME UNCHANGED <<relation, rows, request, cursor, pages, reading, lasting>>
      PROVE  PagesInv'
  <2>1. RowsInv' /\ lasting' \subseteq rows'
    BY <1>8 DEF PagesInv, RowsInv, Unique, NotNull, TableColumns
  <2> QED
    BY <1>8, <2>1, PagesStay
<1>9. ASSUME NEW c, NEW r, Read(c, r)
      PROVE  PagesInv'
  BY <1>8, <1>9 DEF Read, pageVars
<1>10. CASE UNCHANGED dataVars
  BY <1>8, <1>10 DEF dataVars, pageVars
<1> QED
  BY <1>2, <1>3, <1>4, <1>5, <1>6, <1>7, <1>9, <1>10 DEF DataNext

(* The pages that select() gives one reader, each in a transaction of its  *)
(* own, are together in order, without a row twice, within limit and       *)
(* bytes, and at the end complete for the rows that were there from the    *)
(* first page on, whatever is inserted, upserted, updated or deleted       *)
(* between them.                                                           *)
THEOREM PagesAreRight == DataInit /\ [][DataNext]_dataVars => []PagesAreExact
<1>1. DataInit => PagesInv
  BY PagesInvInit
<1>2. PagesInv /\ [DataNext]_dataVars => PagesInv'
  BY PagesInvNext
<1>3. PagesInv => PagesAreExact
  BY DEF PagesInv
<1> QED
  BY <1>1, <1>2, <1>3, PTL

-----------------------------------------------------------------------------
(* A table, as the check finds its indexes.                                *)
IsTable(table) ==
    /\ DOMAIN table \subseteq IndexNames
    /\ \A n \in DOMAIN table : table[n] \in Descriptions

LEMMA ColumnsAreLists ==
    ASSUME NEW d \in Descriptions
    PROVE  \E S : d.columns \in Seq(S)
BY KeysAreLists DEF KeysAreLists, Descriptions

LEMMA ListedIs ==
    ASSUME NEW d \in Descriptions, NEW S, d.columns \in Seq(S)
    PROVE  /\ Listed(d) \in Seq(S \X BOOLEAN) /\ Len(Listed(d)) = Len(d.columns)
           /\ \A k \in 1..Len(d.columns) : Listed(d)[k][1] = d.columns[k]
<1> DEFINE n == Len(d.columns)
           item(k) == <<d.columns[k], d.predicate /\ k = n>>
<1>1. n \in Nat /\ DOMAIN d.columns = 1..n /\ \A k \in 1..n : d.columns[k] \in S
  OBVIOUS
<1>2. \A k \in 1..n : item(k) \in S \X BOOLEAN /\ item(k)[1] = d.columns[k]
  BY <1>1
<1>3. Listed(d) = [k \in 1..n |-> item(k)]
  BY <1>1 DEF Listed
<1> HIDE DEF n, item
<1>4. Listed(d) \in Seq(S \X BOOLEAN) /\ Len(Listed(d)) = n
  BY <1>1, <1>2, <1>3
<1> QED
  BY <1>2, <1>3, <1>4 DEF n

(* An index that makes another one unneeded serves its queries, though the *)
(* predicate was listed with the last column.                              *)
LEMMA CoveringServes ==
    ASSUME NEW n, NEW m, NEW a \in Descriptions, NEW b \in Descriptions, Unneeded(n, a, m, b)
    PROVE  Serves(b, a)
<1>1. PICK S, T : a.columns \in Seq(S) /\ b.columns \in Seq(T)
  BY ColumnsAreLists
<1>2. /\ Listed(a) \in Seq(S \X BOOLEAN) /\ Len(Listed(a)) = Len(a.columns)
      /\ Listed(b) \in Seq(T \X BOOLEAN) /\ Len(Listed(b)) = Len(b.columns)
  BY <1>1, ListedIs
<1>3. /\ Len(a.columns) <= Len(b.columns)
      /\ \A i \in 1..Len(a.columns) : Listed(a)[i] = Listed(b)[i]
  BY <1>2, PrefixIs DEF Unneeded, IndexCovers
<1>4. \A i \in 1..Len(a.columns) : a.columns[i] = b.columns[i]
  <2> TAKE i \in 1..Len(a.columns)
  <2>1. i \in 1..Len(b.columns)
    BY <1>1, <1>3
  <2>2. Listed(a)[i][1] = a.columns[i]
    BY <1>1, ListedIs
  <2>3. Listed(b)[i][1] = b.columns[i]
    BY <1>1, <2>1, ListedIs
  <2> QED
    BY <1>3, <2>2, <2>3
<1>5. IsPrefix(a.columns, b.columns)
  BY <1>1, <1>3, <1>4, PrefixIs
<1> QED
  BY <1>5 DEF Unneeded, Serves

LEMMA ServesIsTransitive ==
    ASSUME NEW a \in Descriptions, NEW b \in Descriptions, NEW c \in Descriptions,
           Serves(a, b), Serves(b, c)
    PROVE  Serves(a, c)
<1>1. PICK S, T, U : a.columns \in Seq(S) /\ b.columns \in Seq(T) /\ c.columns \in Seq(U)
  BY ColumnsAreLists
<1>2. IsPrefix(c.columns, b.columns) /\ IsPrefix(b.columns, a.columns)
  BY DEF Serves
<1>3. IsPrefix(c.columns, a.columns)
  <2>1. /\ Len(c.columns) <= Len(b.columns) /\ Len(b.columns) <= Len(a.columns)
        /\ \A i \in 1..Len(c.columns) : c.columns[i] = b.columns[i]
        /\ \A i \in 1..Len(b.columns) : b.columns[i] = a.columns[i]
    BY <1>1, <1>2, PrefixIs
  <2>2. Len(c.columns) \in Nat /\ Len(b.columns) \in Nat /\ Len(a.columns) \in Nat
    BY <1>1
  <2>3. Len(c.columns) <= Len(a.columns)
    BY <2>1, <2>2
  <2>4. \A i \in 1..Len(c.columns) : c.columns[i] = a.columns[i]
    BY <2>1, <2>2
  <2> QED
    BY <1>1, <2>3, <2>4, PrefixIs
<1> QED
  BY <1>3 DEF Serves

(* Among indexes that are not unique, one that makes another unneeded has  *)
(* more columns, or the same ones and a lower name.                        *)
Higher(table) ==
    {p \in (DOMAIN table) \X (DOMAIN table) :
        \/ Len(table[p[1]].columns) < Len(table[p[2]].columns)
        \/ Len(table[p[1]].columns) = Len(table[p[2]].columns) /\ p[2] < p[1]}

LEMMA UnneededIsLower ==
    ASSUME NEW table, IsTable(table), NEW n \in DOMAIN table, NEW m \in DOMAIN table,
           Unneeded(n, table[n], m, table[m]), ~ table[m].primary, ~ table[m].unique
    PROVE  <<n, m>> \in Higher(table)
<1>1. table[n] \in Descriptions /\ table[m] \in Descriptions
  BY DEF IsTable
<1>2. PICK S, T : table[n].columns \in Seq(S) /\ table[m].columns \in Seq(T)
  BY <1>1, ColumnsAreLists
<1>3. IsPrefix(table[n].columns, table[m].columns)
  BY <1>1, CoveringServes DEF Serves
<1>4. Len(table[n].columns) <= Len(table[m].columns)
  BY <1>2, <1>3, PrefixIs
<1>5. CASE Len(table[n].columns) = Len(table[m].columns)
  <2>1. table[n].columns = table[m].columns
    <3>1. \A i \in 1..Len(table[n].columns) : table[n].columns[i] = table[m].columns[i]
      BY <1>2, <1>3, PrefixIs
    <3> QED
      BY <1>2, <1>5, <3>1, SeqEqual
  <2>2. n > m
    BY <2>1 DEF Unneeded
  <2>3. n \in Nat /\ m \in Nat
    BY NamesAreOrdered DEF NamesAreOrdered, IsTable
  <2> QED
    BY <1>5, <2>2, <2>3 DEF Higher
<1>6. CASE Len(table[n].columns) # Len(table[m].columns)
  <2>1. Len(table[n].columns) \in Nat /\ Len(table[m].columns) \in Nat
    BY <1>2
  <2> QED
    BY <1>4, <1>6, <2>1 DEF Higher
<1> QED
  BY <1>5, <1>6

(* The duplicate index check of the health report: whoever drops all the   *)
(* indexes that it reports, of any table, other than those of exclusion    *)
(* constraints, keeps for each of them a valid index that serves its       *)
(* queries, and loses no unique one.                                       *)
THEOREM DuplicatesAreSpare ==
    ASSUME NEW table, IsTable(table)
    PROVE  DuplicatesCanBeDropped(table)
<1> DEFINE D == Duplicates(table)
           R == Higher(table)
           B == {n \in D : ~ \E m \in DOMAIN table \ D : Serves(table[m], table[n])}
<1>1. D \subseteq DOMAIN table /\ \A n \in D : ~ table[n].unique /\ ~ table[n].primary
  BY DEF Duplicates, Unneeded
<1>2. SUFFICES ASSUME B # {}
               PROVE  FALSE
  BY <1>1 DEF DuplicatesCanBeDropped
<1>3. IsFiniteSet(B)
  <2>1. B \subseteq IndexNames
    BY <1>1 DEF IsTable
  <2> QED
    BY <2>1, NamesAreOrdered, FS_Subset DEF NamesAreOrdered
<1>4. /\ \A x \in B : <<x, x>> \notin R
      /\ \A x, y, z \in B : <<x, y>> \in R /\ <<y, z>> \in R => <<x, z>> \in R
  <2>1. \A x \in B : x \in DOMAIN table /\ x \in Nat /\ Len(table[x].columns) \in Nat
    <3> TAKE x \in B
    <3>1. x \in DOMAIN table /\ x \in Nat /\ table[x] \in Descriptions
      BY <1>1, NamesAreOrdered DEF NamesAreOrdered, IsTable
    <3>2. PICK S : table[x].columns \in Seq(S)
      BY <3>1, ColumnsAreLists
    <3> QED
      BY <3>1, <3>2
  <2> HIDE DEF B, D
  <2> QED
    BY <2>1 DEF Higher
<1>5. PICK n \in B : \A m \in B : <<n, m>> \notin R
  <2> HIDE DEF B, R, D
  <2> QED
    BY <1>2, <1>3, <1>4, HighestExists
<1>6. PICK m \in DOMAIN table : Unneeded(n, table[n], m, table[m])
  BY DEF Duplicates
<1>7. n \in DOMAIN table /\ table[n] \in Descriptions /\ table[m] \in Descriptions
  BY <1>1 DEF IsTable
<1>8. Serves(table[m], table[n])
  BY <1>6, <1>7, CoveringServes
<1>9. m \in D
  BY <1>5, <1>8
<1>10. m \in B
  <2>1. \A k \in DOMAIN table : Serves(table[k], table[m]) => Serves(table[k], table[n])
    BY <1>7, <1>8, ServesIsTransitive DEF IsTable
  <2> QED
    BY <1>5, <1>9, <2>1
<1>11. <<n, m>> \in R
  BY <1>1, <1>6, <1>7, <1>9, UnneededIsLower
<1> QED
  BY <1>5, <1>10, <1>11

-----------------------------------------------------------------------------
(* Plans that come back from the ledger.  A payload is a function.         *)
IsPayload(x) == x = [f \in DOMAIN x |-> x[f]]

MigrationFields == PayloadFields \cup {"checksum", "reviewHash"}

LEMMA HashedMigration ==
    ASSUME NEW x, IsPayload(x), DOMAIN x = PayloadFields, NEW c, NEW h,
           NEW p, p = Hashed(x, [checksum |-> c, reviewHash |-> h])
    PROVE  /\ p = [f \in MigrationFields |->
                     IF f \in PayloadFields THEN x[f] ELSE IF f = "checksum" THEN c ELSE h]
           /\ p.version = x.version /\ p.name = x.name /\ p.steps = x.steps
           /\ p.warnings = x.warnings /\ p.checksum = c /\ p.reviewHash = h
<1> DEFINE g == [checksum |-> c, reviewHash |-> h]
<1>1. DOMAIN g = {"checksum", "reviewHash"} /\ g["checksum"] = c /\ g["reviewHash"] = h
  OBVIOUS
<1>2. p = Hashed(x, g)
  OBVIOUS
<1> HIDE DEF g
<1>3. p = [f \in MigrationFields |-> IF f \in PayloadFields THEN x[f] ELSE g[f]]
  BY <1>1, <1>2 DEF Hashed, MigrationFields
<1>4. p = [f \in MigrationFields |->
                     IF f \in PayloadFields THEN x[f] ELSE IF f = "checksum" THEN c ELSE h]
  BY <1>1, <1>3 DEF MigrationFields, PayloadFields
<1>5. /\ p.version = x.version /\ p.name = x.name /\ p.steps = x.steps
      /\ p.warnings = x.warnings /\ p.checksum = c /\ p.reviewHash = h
  BY <1>4 DEF MigrationFields, PayloadFields
<1> QED
  BY <1>4, <1>5

(* A reviewed plan is its payload and the hashes of that.                  *)
LEMMA CreatedIsHashed ==
    ASSUME NEW name, NEW drafts, NEW p, p = CreatePlan(name, drafts), p # Rejected
    PROVE  \E x : /\ IsPayload(x) /\ DOMAIN x = PayloadFields /\ x.version = 1
                  /\ p = Hashed(x, [checksum |-> ExpectedChecksum(x), reviewHash |-> ExpectedReview(x)])
<1> DEFINE steps == [k \in DOMAIN drafts |-> Step(k - 1, drafts[k])]
           w == PlanWarnings(steps)
<1>1. PICK x : x = [version |-> 1, name |-> name, steps |-> steps, warnings |-> w]
  OBVIOUS
<1>2. p = Hashed(x, [checksum |-> ExpectedChecksum(x), reviewHash |-> ExpectedReview(x)])
  BY <1>1 DEF CreatePlan
<1> HIDE DEF steps, w
<1>3. IsPayload(x) /\ DOMAIN x = PayloadFields /\ x.version = 1
  BY <1>1 DEF IsPayload, PayloadFields
<1> QED
  BY <1>2, <1>3

(* What the hashes of a plan cover are all the fields of its payload.      *)
LEMMA ReviewBinds ==
    ASSUME NEW x, NEW y, ExpectedReview(x) = ExpectedReview(y)
    PROVE  x.version = y.version /\ x.name = y.name /\ x.steps = y.steps /\ x.warnings = y.warnings
<1>1. CanonicalPayload(x) = CanonicalPayload(y)
  BY DEF ExpectedReview, Digest
<1> QED
  BY <1>1 DEF CanonicalPayload

LEMMA SameReview ==
    ASSUME NEW x, NEW y, x.version = y.version, x.name = y.name, x.steps = y.steps,
           x.warnings = y.warnings
    PROVE  ExpectedReview(x) = ExpectedReview(y) /\ ExpectedChecksum(x) = ExpectedChecksum(y)
BY DEF ExpectedReview, ExpectedChecksum, CanonicalPayload, ChecksumPayload

(* Whatever is stored with the hashes of a reviewed plan comes back as     *)
(* this plan, or not at all; and its own payload does come back.           *)
LEMMA RestoredIsReviewed ==
    ASSUME NEW name, NEW drafts, NEW p, p = CreatePlan(name, drafts), p # Rejected
    PROVE  /\ Restored([f \in PayloadFields |-> p[f]], p.checksum, p.reviewHash) = p
           /\ IsPayload([f \in PayloadFields |-> p[f]])
           /\ \A y : IsPayload(y) => Restored(y, p.checksum, p.reviewHash) \in {p, Rejected}
<1>1. PICK x : /\ IsPayload(x) /\ DOMAIN x = PayloadFields /\ x.version = 1
               /\ p = Hashed(x, [checksum |-> ExpectedChecksum(x), reviewHash |-> ExpectedReview(x)])
  BY CreatedIsHashed
<1>2. /\ p.version = x.version /\ p.name = x.name /\ p.steps = x.steps
      /\ p.warnings = x.warnings /\ p.checksum = ExpectedChecksum(x) /\ p.reviewHash = ExpectedReview(x)
      /\ p = [f \in MigrationFields |->
                IF f \in PayloadFields THEN x[f]
                ELSE IF f = "checksum" THEN ExpectedChecksum(x) ELSE ExpectedReview(x)]
  BY <1>1, HashedMigration
<1>3. ExpectedReview(p) = ExpectedReview(x) /\ ExpectedChecksum(p) = ExpectedChecksum(x)
  BY <1>2, SameReview
<1>4. [f \in PayloadFields |-> p[f]] = x
  BY <1>1, <1>2 DEF IsPayload, MigrationFields
<1>5. Restored(x, p.checksum, p.reviewHash) = p
  BY <1>1, <1>2, <1>3 DEF Restored, Integrity
<1>6. ASSUME NEW y, IsPayload(y)
      PROVE  Restored(y, p.checksum, p.reviewHash) \in {p, Rejected}
  <2>1. PICK q : q = Hashed(y, [checksum |-> p.checksum, reviewHash |-> p.reviewHash])
    OBVIOUS
  <2>2. CASE DOMAIN y # PayloadFields \/ y.version # 1 \/ ~ Integrity(q)
    BY <2>1, <2>2 DEF Restored
  <2>3. CASE DOMAIN y = PayloadFields /\ Integrity(q)
    <3>1. /\ q.version = y.version /\ q.name = y.name /\ q.steps = y.steps
          /\ q.warnings = y.warnings /\ q.checksum = p.checksum /\ q.reviewHash = p.reviewHash
      BY <1>6, <2>1, <2>3, HashedMigration
    <3>2. ExpectedReview(q) = ExpectedReview(x)
      BY <1>2, <2>3, <3>1 DEF Integrity
    <3>3. y.version = x.version /\ y.name = x.name /\ y.steps = x.steps /\ y.warnings = x.warnings
      BY <3>1, <3>2, ReviewBinds
    <3>4. y = x
      <4>1. \A f \in PayloadFields : y[f] = x[f]
        BY <3>3 DEF PayloadFields
      <4> QED
        BY <1>1, <1>6, <2>3, <4>1 DEF IsPayload
    <3> QED
      BY <1>5, <3>4
  <2> QED
    BY <2>2, <2>3
<1> QED
  BY <1>1, <1>4, <1>5, <1>6

(* Two plans that were created have one review hash only when they are one. *)
LEMMA CreatedIsReviewed ==
    ASSUME NEW name, NEW drafts, NEW p, p = CreatePlan(name, drafts), p # Rejected,
           NEW n, NEW sent, NEW q, q = CreatePlan(n, sent), q # Rejected,
           p.reviewHash = q.reviewHash
    PROVE  q = p
<1>1. PICK x : /\ IsPayload(x) /\ DOMAIN x = PayloadFields /\ x.version = 1
               /\ p = Hashed(x, [checksum |-> ExpectedChecksum(x), reviewHash |-> ExpectedReview(x)])
  BY CreatedIsHashed
<1>2. PICK y : /\ IsPayload(y) /\ DOMAIN y = PayloadFields /\ y.version = 1
               /\ q = Hashed(y, [checksum |-> ExpectedChecksum(y), reviewHash |-> ExpectedReview(y)])
  BY CreatedIsHashed
<1>3. p.reviewHash = ExpectedReview(x) /\ q.reviewHash = ExpectedReview(y)
  BY <1>1, <1>2, HashedMigration
<1>4. y.version = x.version /\ y.name = x.name /\ y.steps = x.steps /\ y.warnings = x.warnings
  BY <1>3, ReviewBinds
<1>5. \A f \in PayloadFields : y[f] = x[f]
  BY <1>4 DEF PayloadFields
<1>6. y = x
  BY <1>1, <1>2, <1>5 DEF IsPayload
<1> QED
  BY <1>1, <1>2, <1>6

(* "Restore and verify a plan read from the migration ledger": whatever a  *)
(* stored plan was altered to, what comes back under its hashes is the     *)
(* plan that was reviewed, or an error; and whatever a client sends, apply *)
(* runs it under the hash of a review only when it is what was reviewed.   *)
THEOREM LedgerKeepsMigrations ==
    ASSUME NEW name, NEW drafts
    PROVE  StoredMigrationIsAsReviewed(name, drafts)
<1> SUFFICES ASSUME NEW p, p = CreatePlan(name, drafts), p # Rejected,
                    NEW x, x = [f \in PayloadFields |-> p[f]]
             PROVE  /\ Restored(x, p.checksum, p.reviewHash) = p
                    /\ \A y \in Altered(x) : Restored(y, p.checksum, p.reviewHash) \in {p, Rejected}
                    /\ \A n \in Names, sent \in AlteredDrafts(drafts) : \A q :
                         q = CreatePlan(n, sent) /\ q # Rejected /\ Approved(q, p.reviewHash) => q = p
  BY DEF StoredMigrationIsAsReviewed
<1>1. IsPayload(x)
  BY RestoredIsReviewed
<1>2. \A v : /\ IsPayload([x EXCEPT !.name = v]) /\ IsPayload([x EXCEPT !.warnings = v])
            /\ IsPayload([x EXCEPT !.steps = v])
  BY <1>1 DEF IsPayload
<1>3. \A y \in Altered(x) : IsPayload(y)
  <2> SUFFICES ASSUME NEW y \in Altered(x)
               PROVE  IsPayload(y)
    OBVIOUS
  <2>1. CASE \E n \in Names : y = [x EXCEPT !.name = n]
    BY <1>2, <2>1
  <2>2. CASE y = [x EXCEPT !.warnings = <<>>]
    BY <1>2, <2>2
  <2>3. CASE y = [x EXCEPT !.steps = Reverse(@)]
    BY <1>1, <2>3 DEF IsPayload
  <2>4. \/ y \in {[x EXCEPT !.name = n] : n \in Names}
        \/ y \in {[x EXCEPT !.warnings = <<>>], [x EXCEPT !.steps = Reverse(@)]}
        \/ y \in UNION {{[x EXCEPT !.steps[k] = s] : s \in AlteredStep(x.steps[k])} : k \in DOMAIN x.steps}
    BY Zenon DEF Altered
  <2>5. CASE y \in {[x EXCEPT !.name = n] : n \in Names}
    BY <2>1, <2>5
  <2>6. CASE y \in {[x EXCEPT !.warnings = <<>>], [x EXCEPT !.steps = Reverse(@)]}
    BY <2>2, <2>3, <2>6
  <2>7. CASE y \in UNION {{[x EXCEPT !.steps[k] = s] : s \in AlteredStep(x.steps[k])} : k \in DOMAIN x.steps}
    <3>1. PICK k \in DOMAIN x.steps : y \in {[x EXCEPT !.steps[k] = s] : s \in AlteredStep(x.steps[k])}
      BY <2>7
    <3>2. PICK s : y = [x EXCEPT !.steps[k] = s]
      BY <3>1
    <3> QED
      BY <1>1, <3>2 DEF IsPayload
  <2> QED
    BY <2>4, <2>5, <2>6, <2>7
<1>4. ASSUME NEW n \in Names, NEW sent \in AlteredDrafts(drafts), NEW q,
             q = CreatePlan(n, sent), q # Rejected, Approved(q, p.reviewHash)
      PROVE  q = p
  <2>1. p.reviewHash = q.reviewHash
    BY <1>4 DEF Approved
  <2> QED
    BY <1>4, <2>1, CreatedIsReviewed
<1> QED
  BY <1>3, <1>4, RestoredIsReviewed

-----------------------------------------------------------------------------
LEMMA HashedMaintenance ==
    ASSUME NEW x, DOMAIN x = MaintenanceFields, NEW h, NEW p, p = Hashed(x, [reviewHash |-> h])
    PROVE  /\ p = [f \in MaintenanceFields \cup {"reviewHash"} |->
                     IF f \in MaintenanceFields THEN x[f] ELSE h]
           /\ MaintenancePayload(p) = [f \in MaintenanceFields |-> x[f]]
           /\ p.version = x.version /\ p.behavior = x.behavior /\ p.reviewHash = h
<1> DEFINE g == [reviewHash |-> h]
<1>1. DOMAIN g = {"reviewHash"} /\ g["reviewHash"] = h
  OBVIOUS
<1>2. p = Hashed(x, g)
  OBVIOUS
<1> HIDE DEF g
<1>3. p = [f \in MaintenanceFields \cup {"reviewHash"} |->
             IF f \in MaintenanceFields THEN x[f] ELSE g[f]]
  BY <1>1, <1>2 DEF Hashed
<1>4. p = [f \in MaintenanceFields \cup {"reviewHash"} |->
             IF f \in MaintenanceFields THEN x[f] ELSE h]
  BY <1>1, <1>3
<1>5. p.version = x.version /\ p.behavior = x.behavior /\ p.reviewHash = h
  BY <1>4 DEF MaintenanceFields
<1>6. DOMAIN p \ {"reviewHash"} = MaintenanceFields
  BY <1>4 DEF MaintenanceFields
<1>7. MaintenancePayload(p) = [f \in MaintenanceFields |-> x[f]]
  BY <1>4, <1>6 DEF MaintenancePayload
<1> QED
  BY <1>4, <1>5, <1>7

(* The same of a maintenance plan, whatever was stored with its hash: the  *)
(* digest covers the target as it was found, and the options.              *)
THEOREM LedgerKeepsMaintenance ==
    ASSUME NEW name, NEW operation, NEW t, NEW o
    PROVE  StoredMaintenanceIsAsReviewed(name, operation, t, o)
<1> SUFFICES ASSUME NEW p, p = MaintenancePlan(name, operation, t, o), p # Rejected
             PROVE  /\ MaintenanceRestored(MaintenancePayload(p), p.reviewHash) = p
                    /\ \A y : MaintenanceRestored(y, p.reviewHash) \in {p, Rejected}
  BY DEF StoredMaintenanceIsAsReviewed
<1>1. PICK x : x = [version |-> 1, name |-> name, operation |-> operation, target |-> t,
                    options |-> o, behavior |-> "non_transactional"]
  OBVIOUS
<1>2. p = Hashed(x, [reviewHash |-> ExpectedMaintenance(x)])
  BY <1>1 DEF MaintenancePlan
<1>3. /\ DOMAIN x = MaintenanceFields /\ x = [f \in MaintenanceFields |-> x[f]]
      /\ x.version = 1 /\ x.behavior = "non_transactional"
  BY <1>1 DEF MaintenanceFields
<1>4. MaintenancePayload(x) = x
  <2>1. DOMAIN x \ {"reviewHash"} = MaintenanceFields
    BY <1>3 DEF MaintenanceFields
  <2> QED
    BY <1>3, <2>1 DEF MaintenancePayload
<1>5. /\ MaintenancePayload(p) = x /\ p.reviewHash = ExpectedMaintenance(x)
  BY <1>2, <1>3, HashedMaintenance
<1>6. MaintenanceRestored(x, p.reviewHash) = p
  <2>1. p.version = 1 /\ p.behavior = "non_transactional"
    BY <1>2, <1>3, HashedMaintenance
  <2>2. ExpectedMaintenance(p) = ExpectedMaintenance(x)
    BY <1>4, <1>5 DEF ExpectedMaintenance
  <2> QED
    BY <1>2, <1>3, <1>5, <2>1, <2>2 DEF MaintenanceRestored
<1>7. ASSUME NEW y
      PROVE  MaintenanceRestored(y, p.reviewHash) \in {p, Rejected}
  <2>1. PICK z : z = [f \in MaintenanceFields |-> y[f]]
    OBVIOUS
  <2>2. PICK q : q = Hashed(z, [reviewHash |-> p.reviewHash])
    OBVIOUS
  <2>3. CASE p.reviewHash # ExpectedMaintenance(q) \/ ~ (MaintenanceFields \subseteq DOMAIN y)
    BY <2>1, <2>2, <2>3 DEF MaintenanceRestored
  <2>4. CASE p.reviewHash = ExpectedMaintenance(q)
    <3>1. MaintenancePayload(q) = z
      BY <2>1, <2>2, HashedMaintenance
    <3>2. MaintenancePayload(q) = MaintenancePayload(x)
      BY <1>5, <2>4 DEF ExpectedMaintenance, Digest
    <3>3. z = x
      BY <1>4, <3>1, <3>2
    <3>4. q = p
      BY <1>2, <1>5, <2>2, <3>3
    <3> QED
      BY <2>1, <2>2, <3>4 DEF MaintenanceRestored
  <2> QED
    BY <2>3, <2>4
<1> QED
  BY <1>5, <1>6, <1>7

-----------------------------------------------------------------------------
(* The costs and the greedy search of Advisor.                             *)

(* A cache of true costs stays one when a configuration is explained on    *)
(* any session, whatever hypothetical indexes the session has.             *)
LEMMA CostedIsTrue ==
    ASSUME NEW cache, NEW h, NEW S, NEW s,
           \A T \in DOMAIN cache : cache[T] = task.costOf[T]
    PROVE  LET c == Costed(cache, h, S, s) IN
           \A T \in DOMAIN c : c[T] = task.costOf[T]
BY DEF Costed, Present

(* Nothing was explained initially.                                        *)
LEMMA CostsInit == AdvisorInit => CostsAreOfTheirConfiguration
BY DEF AdvisorInit, Fresh, CostsAreOfTheirConfiguration

(* Steps that leave the cache alone, as all do that explain nothing.       *)
LEMMA CostsUnchanged ==
    ASSUME CostsAreOfTheirConfiguration, UNCHANGED <<costCache, task>>
    PROVE  CostsAreOfTheirConfiguration'
BY DEF CostsAreOfTheirConfiguration

(* Steps that explain one configuration, on one session.                   *)
LEMMA CostsExplained ==
    ASSUME CostsAreOfTheirConfiguration, UNCHANGED task, NEW S, NEW s,
           costCache' = Costed(costCache, hypo, S, s)
    PROVE  CostsAreOfTheirConfiguration'
BY CostedIsTrue DEF CostsAreOfTheirConfiguration

(* Whatever the advisor or another call does, the costs stay true.         *)
LEMMA CostsNext ==
    ASSUME CostsAreOfTheirConfiguration, [AdvisorNext]_advisorVars
    PROVE  CostsAreOfTheirConfiguration'
<1>1. CASE UNCHANGED advisorVars
  BY <1>1, CostsUnchanged DEF advisorVars
<1>2. ASSUME NEW s \in Sessions, CreateCandidates(s) \/ ResetHypothetical(s)
      PROVE  CostsAreOfTheirConfiguration'
  BY <1>2, CostsUnchanged DEF CreateCandidates, ResetHypothetical
<1>3. ASSUME NEW s \in Sessions, Report(s)
      PROVE  CostsAreOfTheirConfiguration'
  <2>1. CASE recs = <<>>
    BY <1>3, <2>1, CostsUnchanged DEF Report
  <2>2. CASE recs # <<>>
    BY <1>3, <2>2, CostsExplained DEF Report
  <2> QED
    BY <2>1, <2>2
<1>4. ASSUME NEW s \in Sessions, NEW S, ExplainElsewhere(s, S) \/ AdvisorFails(s, S)
      PROVE  CostsAreOfTheirConfiguration'
  BY <1>4, CostsUnchanged DEF ExplainElsewhere, AdvisorFails
<1>5. ASSUME NEW s \in Sessions, NEW S, PlanIndexes(s, S)
      PROVE  CostsAreOfTheirConfiguration'
  BY <1>5, CostsExplained DEF PlanIndexes
<1>6. ASSUME NEW s \in Sessions, NEW S, NEW d \in BOOLEAN, TryAlternative(S, s, d)
      PROVE  CostsAreOfTheirConfiguration'
  <2>1. CASE d
    BY <1>6, <2>1, CostsUnchanged DEF TryAlternative
  <2>2. CASE ~ d
    BY <1>6, <2>2, CostsExplained DEF TryAlternative
  <2> QED
    BY <2>1, <2>2
<1>7. ASSUME NEW s \in Sessions, NEW timeUp \in BOOLEAN, BaseCost(s, timeUp)
      PROVE  CostsAreOfTheirConfiguration'
  BY <1>7, CostsExplained DEF BaseCost
<1>8. ASSUME NEW i, NEW s \in Sessions, Evaluate(i, s)
      PROVE  CostsAreOfTheirConfiguration'
  <2>1. CASE Affordable(chosen, i)
    BY <1>8, <2>1, CostsExplained DEF Evaluate
  <2>2. CASE ~ Affordable(chosen, i)
    BY <1>8, <2>2, CostsUnchanged DEF Evaluate
  <2> QED
    BY <2>1, <2>2
<1>9. ASSUME NEW i, NEW s1 \in Sessions, NEW s2 \in Sessions, Format(i, s1, s2)
      PROVE  CostsAreOfTheirConfiguration'
  <2>1. PICK first : first = Costed(costCache, hypo, tried \cup {i}, s1)
    OBVIOUS
  <2>2. PICK dirty : dirty = Dirtied(costCache, hypo, tried \cup {i}, s1)
    OBVIOUS
  <2>3. costCache' = Costed(first, dirty, {i}, s2) /\ task' = task
    BY <1>9, <2>1, <2>2 DEF Format
  <2>4. \A T \in DOMAIN first : first[T] = task.costOf[T]
    BY <2>1, CostedIsTrue DEF CostsAreOfTheirConfiguration
  <2> QED
    BY <2>3, <2>4, CostedIsTrue DEF CostsAreOfTheirConfiguration
<1>10. ASSUME NEW timeUp \in BOOLEAN, NextIteration(timeUp)
       PROVE  CostsAreOfTheirConfiguration'
  BY <1>10, CostsUnchanged DEF NextIteration
<1>11. ASSUME StartAnalysis \/ NextRound \/ Formatted
       PROVE  CostsAreOfTheirConfiguration'
  BY <1>11, CostsUnchanged DEF StartAnalysis, NextRound, Formatted
<1> QED
  BY <1>1, <1>2, <1>3, <1>4, <1>5, <1>6, <1>7, <1>8, <1>9, <1>10, <1>11 DEF AdvisorNext

(* Every cost that the search or the report compares is the cost of        *)
(* exactly its configuration: each batch that is explained begins by       *)
(* resetting HypoPG, so that nothing another statement left on the session *)
(* of the pool can tell.                                                   *)
THEOREM CostsAreTrue ==
    AdvisorInit /\ [][AdvisorNext]_advisorVars => []CostsAreOfTheirConfiguration
BY CostsInit, CostsNext, PTL

-----------------------------------------------------------------------------
(* The size of a set of indexes is the sum of their sizes.                 *)
Sizes(D) == [i \in D |-> SizeOf(i)]
IsSize(g, S) ==
    g = [s \in SUBSET S |-> IF s = {} THEN 0 ELSE SizeOf(Pick(s)) + g[s \ {Pick(s)}]]

LEMMA SizeDef ==
    ASSUME NEW S
    PROVE  TotalSize(S) = (CHOOSE r : IsSize(r, S))[S]
BY DEF TotalSize, MapThenSumSet, MapThenFoldSet, IsSize, Pick

LEMMA SizeIsSum ==
    ASSUME NEW D, IsFiniteSet(D), NEW S \in SUBSET D
    PROVE  TotalSize(S) = Sum(S, Sizes(D))
<1> DEFINE g == CHOOSE r : IsSize(r, S)
           h == CHOOSE r : IsSum(r, S, Sizes(D))
<1>1. TotalSize(S) = g[S]
  BY SizeDef
<1>2. \A f : IsSize(f, S) <=> IsSum(f, S, Sizes(D))
  <2>1. \A s \in SUBSET S : s # {} => Sizes(D)[Pick(s)] = SizeOf(Pick(s))
    BY PickIn DEF Sizes
  <2> SUFFICES ASSUME NEW f
               PROVE  [s \in SUBSET S |-> IF s = {} THEN 0 ELSE SizeOf(Pick(s)) + f[s \ {Pick(s)}]]
                      = [s \in SUBSET S |-> IF s = {} THEN 0
                                            ELSE Sizes(D)[Pick(s)] + f[s \ {Pick(s)}]]
    BY DEF IsSize, IsSum
  <2> QED
    BY <2>1
<1>3. IsFiniteSet(S)
  BY FS_Subset
<1>4. IsSum(h, S, Sizes(D))
  BY <1>3, SumIsSum
<1>5. IsSum(g, S, Sizes(D))
  <2>1. IsSize(h, S)
    BY <1>2, <1>4
  <2> HIDE DEF h
  <2>2. IsSize(g, S)
    BY <2>1
  <2> HIDE DEF g
  <2> QED
    BY <1>2, <2>2
<1>6. h[S] = Sum(S, Sizes(D))
  BY DEF Sum
<1> HIDE DEF g, h
<1>7. g[S] = h[S]
  BY <1>3, <1>4, <1>5, SumsAgree
<1> QED
  BY <1>1, <1>6, <1>7

(* The candidates of a task are finitely many combinations of columns.     *)
Ordered(listed, S) == SelectSeq(listed, LAMBDA c : c \in S)

LEMMA CandidatesAreFinite ==
    ASSUME NEW t \in Tasks
    PROVE  IsFiniteSet(Candidates(t))
<1> DEFINE cols == UNION {q.uses : q \in t.workload}
           X == {S \in SUBSET cols : Cardinality(S) \in 1..MaxIndexWidth
                   /\ \A c, d \in S : TableOf[c] = TableOf[d]}
           T == {Ordered(t.listed, S) : S \in X}
           f == [S \in X |-> Ordered(t.listed, S)]
<1>1. cols \subseteq Columns
  BY AdvisorAssumption DEF AdvisorAssumption, Tasks
<1>2. IsFiniteSet(X)
  <2>1. IsFiniteSet(SUBSET Columns)
    BY AdvisorAssumption, FS_SUBSET DEF AdvisorAssumption
  <2>2. X \subseteq SUBSET Columns
    BY <1>1
  <2> QED
    BY <2>1, <2>2, FS_Subset
<1>3. Candidates(t) \subseteq T
  BY DEF Candidates, Combinations, Ordered
<1>4. IsFiniteSet(T)
  <2> HIDE DEF X
  <2>1. f \in Surjection(X, T)
    BY DEF Surjection
  <2> HIDE DEF f, T
  <2> QED
    BY <1>2, <2>1, FS_Surjection
<1> QED
  BY <1>3, <1>4, FS_Subset

(* Sizes are natural numbers, and more indexes are at least as large.      *)
LEMMA SizesGrow ==
    ASSUME NEW t \in Tasks, NEW S \in SUBSET Candidates(t), NEW T \in SUBSET S
    PROVE  /\ TotalSize(S) \in Nat /\ TotalSize(T) \in Nat /\ TotalSize({}) = 0
           /\ TotalSize(T) <= TotalSize(S)
<1>1. PICK D : D = Candidates(t)
  OBVIOUS
<1>2. IsFiniteSet(D) /\ IsFiniteSet(S) /\ IsFiniteSet(T) /\ S \subseteq D /\ T \subseteq D
  BY <1>1, CandidatesAreFinite, FS_Subset
<1>3. \A i \in D : Sizes(D)[i] \in Nat
  BY <1>1, CandidatesAssumption DEF CandidatesAssumption, Sizes
<1>4. /\ TotalSize(S) = Sum(S, Sizes(D)) /\ TotalSize(T) = Sum(T, Sizes(D))
      /\ TotalSize({}) = Sum({}, Sizes(D))
  BY <1>2, SizeIsSum
<1>5. Sum({}, Sizes(D)) = 0
  BY SumEq, FS_EmptySet
<1>6. Sum(S, Sizes(D)) \in Nat /\ Sum(T, Sizes(D)) \in Nat
  BY <1>2, <1>3, SumNat
<1>7. Sum(T, Sizes(D)) <= Sum(S, Sizes(D))
  BY <1>2, <1>3, SumMonotone
<1> QED
  BY <1>4, <1>5, <1>6, <1>7

(* Costs of candidates are positive.                                       *)
LEMMA CostsArePositive ==
    ASSUME NEW t \in Tasks, NEW S \in SUBSET Candidates(t)
    PROVE  t.costOf[S] \in Nat \ {0}
BY AdvisorAssumption, CandidatesAssumption DEF AdvisorAssumption, CandidatesAssumption, Tasks

-----------------------------------------------------------------------------
(* The greedy search.  Its configuration is of candidates, is within the   *)
(* budget and costs a tenth less than no index at all; its best candidate  *)
(* would keep it so.                                                       *)
Dta == task.method = "dta"
Cost(S) == task.costOf[S]
Explained(S) == S \in DOMAIN costCache

Worthwhile(S) ==
    /\ S \subseteq Candidates(task)
    /\ task.budget > 0 => TotalSize(S) <= task.budget
    /\ S # {} => 10 * Cost(S) <= 9 * Cost({})

BestIsWorthwhile ==
    best.index # NoIndex =>
        /\ Worthwhile(chosen \cup {best.index})
        /\ Explained(chosen \cup {best.index})

Searching ==
    /\ Worthwhile(chosen) /\ left \subseteq Candidates(task)
    /\ phase \notin {"plan", "attempt"}
    /\ phase \in {"idle", "candidates", "reset", "base"} =>
         chosen = {} /\ tried = {} /\ recs = <<>> /\ best.index = NoIndex
    /\ phase = "search" => recs = <<>> /\ BestIsWorthwhile /\ Explained(chosen)
    /\ phase \in {"search", "format"} => Explained({})

(* The report so far: it leaves out none of the indexes that were taken,   *)
(* as these are within the budget together.                                *)
Recs == [index : Candidates(task), before : Nat, after : Nat, alone : Nat]

Chained ==
    /\ recs[1].before = Cost({})
    /\ \A k \in 1..(Len(recs) - 1) : recs[k + 1].before = recs[k].after
    /\ recs[Len(recs)].after = Cost(tried)

Reporting ==
    /\ phase \in {"format", "finish", "impact", "done"} =>
         /\ recs \in Seq(Recs) /\ Recommended = tried /\ tried \subseteq chosen
         /\ recs # <<>> => Chained
    /\ phase \in {"finish", "impact", "done"} => tried = chosen

AdvisorInv ==
    /\ task \in Tasks /\ CostsAreOfTheirConfiguration
    /\ Dta => Searching /\ Reporting

LEMMA NoIndexIsWorthwhile == ASSUME task \in Tasks PROVE Worthwhile({})
<1>1. TotalSize({}) = 0 /\ task.budget \in Int
  BY SizesGrow, AdvisorAssumption DEF AdvisorAssumption, Tasks
<1> QED
  BY <1>1 DEF Worthwhile

LEMMA AdvisorInvInit == AdvisorInit => AdvisorInv
<1> SUFFICES ASSUME AdvisorInit
             PROVE  AdvisorInv
  OBVIOUS
<1>1. /\ phase = "idle" /\ task \in Tasks /\ chosen = {} /\ left = {} /\ tried = {}
      /\ best = [index |-> NoIndex, cost |-> 0] /\ recs = <<>>
  BY DEF AdvisorInit, Fresh
<1>2. Worthwhile(chosen)
  BY <1>1, NoIndexIsWorthwhile
<1> QED
  BY <1>1, <1>2, CostsInit DEF AdvisorInv, Searching, Reporting

(* What a search does not change.                                          *)
LEMMA WorthwhileKept ==
    ASSUME UNCHANGED task, NEW S, Worthwhile(S)
    PROVE  Worthwhile(S)'
BY DEF Worthwhile, Cost

LEMMA CostedGrows ==
    ASSUME NEW S, NEW s, costCache' = Costed(costCache, hypo, S, s)
    PROVE  Explained(S)' /\ \A T : Explained(T) => Explained(T)'
BY DEF Costed, Explained

(* A candidate that the search prefers is affordable, and worth a tenth of *)
(* the cost before it.                                                     *)
LEMMA EvaluateInv ==
    ASSUME AdvisorInv, Dta, NEW i \in left, NEW s \in Sessions, Evaluate(i, s)
    PROVE  Searching' /\ Reporting'
<1>1. /\ phase = "search" /\ phase' = phase /\ UNCHANGED <<task, chosen, left, recs>>
      /\ Searching /\ task \in Tasks
  BY DEF Evaluate, AdvisorInv
<1>2. Worthwhile(chosen)' /\ left' \subseteq Candidates(task)'
  BY <1>1, WorthwhileKept DEF Searching
<1>3. Explained({})' /\ Explained(chosen)'
  <2>1. CASE Affordable(chosen, i)
    BY <1>1, <2>1, CostedGrows DEF Evaluate, Searching
  <2>2. CASE ~ Affordable(chosen, i)
    BY <1>1, <2>2 DEF Evaluate, Searching, Explained
  <2> QED
    BY <2>1, <2>2
<1>4. BestIsWorthwhile'
  <2>1. CASE best' = best
    <3>1. PICK B : B = chosen \cup {best.index}
      OBVIOUS
    <3>2. best.index # NoIndex => Explained(B) /\ Worthwhile(B)
      BY <1>1, <3>1 DEF Searching, BestIsWorthwhile
    <3>3. best.index # NoIndex => Explained(B)'
      <4>1. CASE Affordable(chosen, i)
        BY <1>1, <3>2, <4>1, CostedGrows DEF Evaluate
      <4>2. CASE ~ Affordable(chosen, i)
        BY <1>1, <3>2, <4>2 DEF Evaluate, Explained
      <4> QED
        BY <4>1, <4>2
    <3>4. best.index # NoIndex => Worthwhile(B)'
      BY <1>1, <3>2, WorthwhileKept
    <3>5. B = chosen' \cup {best'.index}
      BY <1>1, <2>1, <3>1
    <3> QED
      BY <2>1, <3>3, <3>4, <3>5 DEF BestIsWorthwhile, Worthwhile, Explained, Cost
  <2>2. CASE best' # best
    <3>1. PICK S : S = chosen \cup {i}
      OBVIOUS
    <3>2. Affordable(chosen, i) /\ costCache' = Costed(costCache, hypo, S, s)
      BY <2>2, <3>1 DEF Evaluate
    <3>3. PICK c : c = costCache'[S]
      OBVIOUS
    <3>4. best' = [index |-> i, cost |-> c] /\ ImprovesEnough(costCache[chosen], c)
      BY <2>2, <3>1, <3>2, <3>3 DEF Evaluate, Better
    <3>5. Explained(S)' /\ S \subseteq Candidates(task) /\ chosen \subseteq Candidates(task)
      BY <1>1, <3>1, <3>2, CostedGrows DEF Searching, Worthwhile
    <3>6. c = Cost(S) /\ costCache[chosen] = Cost(chosen)
      <4>1. CostsAreOfTheirConfiguration'
        BY <1>1, <3>2, CostsExplained DEF AdvisorInv
      <4> QED
        BY <1>1, <3>3, <3>5, <4>1
        DEF CostsAreOfTheirConfiguration, Explained, Searching, AdvisorInv, Cost
    <3>7. Cost(S) \in Nat /\ Cost(chosen) \in Nat /\ Cost({}) \in Nat
      BY <1>1, <3>5, CostsArePositive DEF Cost
    <3>8. 10 * Cost(S) <= 9 * Cost({})
      <4>1. 10 * (Cost(chosen) - Cost(S)) >= Cost(chosen)
        BY <3>4, <3>6 DEF ImprovesEnough
      <4>2. 10 * Cost(S) <= 9 * Cost(chosen) /\ Cost(chosen) <= Cost({})
        <5>1. chosen # {} => 10 * Cost(chosen) <= 9 * Cost({})
          BY <1>1 DEF Searching, Worthwhile
        <5>2. chosen = {} => Cost(chosen) = Cost({})
          OBVIOUS
        <5> QED
          BY <3>7, <4>1, <5>1, <5>2
      <4> QED
        BY <3>7, <4>2
    <3>9. Worthwhile(S)
      BY <3>1, <3>2, <3>5, <3>8 DEF Worthwhile, Affordable
    <3>10. Worthwhile(S)'
      BY <1>1, <3>9, WorthwhileKept
    <3>11. best'.index = i /\ chosen' = chosen
      BY <1>1, <3>4
    <3>12. S = chosen' \cup {best'.index}
      BY <3>1, <3>11
    <3> QED
      BY <3>5, <3>10, <3>12 DEF BestIsWorthwhile, Worthwhile, Explained, Cost
  <2> QED
    BY <2>1, <2>2
<1>5. Searching'
  BY <1>1, <1>2, <1>3, <1>4 DEF Searching
<1> QED
  BY <1>1, <1>5 DEF Reporting

(* The best index of an iteration is taken, or the search is over.         *)
LEMMA IterationInv ==
    ASSUME AdvisorInv, Dta, NEW timeUp, NextIteration(timeUp)
    PROVE  Searching' /\ Reporting'
<1>1. /\ phase = "search" /\ UNCHANGED <<task, costCache, recs>> /\ tried' = {}
      /\ best'.index = NoIndex /\ phase' \in {"search", "format"} /\ recs = <<>>
      /\ Searching /\ task \in Tasks
  BY DEF NextIteration, AdvisorInv, Searching
<1>2. /\ left' \subseteq Candidates(task)' /\ Worthwhile(chosen')
      /\ phase' = "search" => Explained(chosen')
  <2>1. CASE best.index = NoIndex
    BY <1>1, <2>1 DEF NextIteration, Searching
  <2>2. CASE best.index # NoIndex
    BY <1>1, <2>2 DEF NextIteration, Searching, BestIsWorthwhile
  <2> QED
    BY <2>1, <2>2
<1>3. Worthwhile(chosen)'
  BY <1>1, <1>2 DEF Worthwhile, Cost
<1>4. Searching'
  BY <1>1, <1>2, <1>3 DEF Searching, BestIsWorthwhile, Explained
<1>5. Recommended' = {} /\ recs' = <<>>
  BY <1>1 DEF Recommended
<1> QED
  BY <1>1, <1>4, <1>5 DEF Reporting

(* A step of the report: every index taken before is in it, as all of them *)
(* are within the budget, and its cost is one of exactly these.            *)
LEMMA FormatInv ==
    ASSUME AdvisorInv, Dta, NEW i \in chosen, NEW s1 \in Sessions, NEW s2 \in Sessions,
           Format(i, s1, s2), CostsAreOfTheirConfiguration'
    PROVE  Searching' /\ Reporting'
<1>1. PICK soFar : soFar = tried \cup {i}
  OBVIOUS
<1>2. PICK first : first = Costed(costCache, hypo, soFar, s1)
  OBVIOUS
<1>3. PICK dirty : dirty = Dirtied(costCache, hypo, soFar, s1)
  OBVIOUS
<1>4. /\ phase = "format" /\ phase' = phase /\ tried' = soFar
      /\ costCache' = Costed(first, dirty, {i}, s2) /\ UNCHANGED <<task, chosen, left, best>>
      /\ task \in Tasks /\ Searching /\ Reporting
  BY <1>1, <1>2, <1>3 DEF Format, AdvisorInv
<1>5. /\ recs \in Seq(Recs) /\ Recommended = tried /\ tried \subseteq chosen
      /\ recs # <<>> => Chained
      /\ Worthwhile(chosen) /\ left \subseteq Candidates(task) /\ Explained({})
      /\ soFar \subseteq chosen /\ chosen \subseteq Candidates(task)
  BY <1>1, <1>4 DEF Searching, Reporting, Worthwhile
<1>6. Explained({})' /\ Explained(soFar)' /\ Explained({i})'
  BY <1>2, <1>4, <1>5 DEF Explained, Costed
<1>7. /\ costCache'[soFar] = Cost(soFar) /\ costCache'[{i}] = Cost({i})
      /\ costCache'[{}] = Cost({})
  BY <1>4, <1>6 DEF CostsAreOfTheirConfiguration, Explained, Cost
<1>8. Cost(soFar) \in Nat /\ Cost({i}) \in Nat /\ Cost({}) \in Nat
  BY <1>4, <1>5, CostsArePositive DEF Cost
<1>9. Fits(Recommended, i)
  <2>1. Recommended \cup {i} = soFar
    BY <1>1, <1>5
  <2>2. TotalSize(soFar) <= TotalSize(chosen) /\ TotalSize(soFar) \in Nat /\ TotalSize(chosen) \in Nat
    BY <1>4, <1>5, SizesGrow
  <2>3. task.budget \in Int \ {0}
    BY <1>4, AdvisorAssumption DEF AdvisorAssumption, Tasks
  <2>4. task.budget > 0 => TotalSize(chosen) <= task.budget
    BY <1>5 DEF Worthwhile
  <2>5. task.budget < 0 \/ TotalSize(soFar) <= task.budget
    BY <2>2, <2>3, <2>4
  <2> QED
    BY <2>1, <2>5 DEF Fits
<1>10. PICK before : before = IF recs = <<>> THEN Cost({}) ELSE recs[Len(recs)].after
  OBVIOUS
<1>11. PICK r : r = [index |-> i, before |-> before, after |-> Cost(soFar), alone |-> Cost({i})]
  OBVIOUS
<1>12. recs' = Append(recs, r)
  <2>1. recs' = Append(recs, Recommendation(i, costCache', soFar,
                                IF recs = <<>> THEN costCache'[{}] ELSE Last(recs).after))
    BY <1>1, <1>9 DEF Format
  <2> QED
    BY <1>7, <1>10, <1>11, <2>1 DEF Recommendation, Last
<1>13. Len(recs) \in Nat /\ (recs # <<>> => Len(recs) \in DOMAIN recs /\ Len(recs) >= 1)
  BY <1>5, EmptySeq, LenProperties
<1>14. r \in Recs
  <2>1. before \in Nat
    <3>1. CASE recs = <<>>
      BY <1>8, <1>10, <3>1
    <3>2. CASE recs # <<>>
      <4>1. recs[Len(recs)] \in Recs
        BY <1>5, <1>13, <3>2, ElementOfSeq
      <4> QED
        BY <1>10, <3>2, <4>1 DEF Recs
    <3> QED
      BY <3>1, <3>2
  <2> QED
    BY <1>5, <1>8, <1>11, <2>1 DEF Recs
<1>15. /\ recs' \in Seq(Recs) /\ Len(recs') = Len(recs) + 1 /\ recs' # <<>>
       /\ recs'[Len(recs) + 1] = r /\ \A k \in 1..Len(recs) : recs'[k] = recs[k]
       /\ DOMAIN recs = 1..Len(recs) /\ DOMAIN recs' = 1..(Len(recs) + 1)
  BY <1>5, <1>12, <1>14, AppendProperties, LenProperties
<1>16. Recommended' = soFar
  <2>1. {recs[k].index : k \in 1..Len(recs)} = tried
    BY <1>5, <1>15 DEF Recommended
  <2>2. Recommended' = {recs'[k].index : k \in 1..(Len(recs) + 1)}
    BY <1>15 DEF Recommended
  <2>3. r.index = i
    BY <1>11
  <2>4. 1..(Len(recs) + 1) = (1..Len(recs)) \cup {Len(recs) + 1}
    BY <1>13
  <2>5. Recommended' = {recs[k].index : k \in 1..Len(recs)} \cup {i}
    BY <1>15, <2>2, <2>3, <2>4
  <2> QED
    BY <1>1, <2>1, <2>5
<1>17. Chained'
  <2>1. recs'[Len(recs')].after = Cost(soFar)
    BY <1>11, <1>15
  <2>2. recs'[1].before = Cost({})
    <3>1. CASE recs = <<>>
      BY <1>10, <1>11, <1>15, <3>1
    <3>2. CASE recs # <<>>
      BY <1>5, <1>13, <1>15, <3>2 DEF Chained
    <3> QED
      BY <3>1, <3>2
  <2>3. ASSUME NEW k \in 1..(Len(recs') - 1)
        PROVE  recs'[k + 1].before = recs'[k].after
    <3>1. k \in 1..Len(recs) /\ recs # <<>>
      BY <1>13, <1>15, <2>3
    <3>2. CASE k = Len(recs)
      BY <1>10, <1>11, <1>15, <3>1, <3>2
    <3>3. CASE k # Len(recs)
      <4>1. k \in 1..(Len(recs) - 1) /\ k + 1 \in 1..Len(recs)
        BY <1>13, <3>1, <3>3
      <4> QED
        BY <1>5, <1>15, <3>1, <4>1 DEF Chained
    <3> QED
      BY <3>2, <3>3
  <2> QED
    BY <1>4, <2>1, <2>2, <2>3 DEF Chained, Cost
<1>18. Worthwhile(chosen)'
  BY <1>4, <1>5 DEF Worthwhile, Cost
<1>19. Searching'
  BY <1>4, <1>5, <1>6, <1>18 DEF Searching
<1>20. Recs' = Recs
  BY <1>4 DEF Recs
<1> QED
  BY <1>4, <1>5, <1>15, <1>16, <1>17, <1>19, <1>20 DEF Reporting

(* Steps that leave the search and the report alone.                       *)
LEMMA SearchKept ==
    ASSUME AdvisorInv, Dta, UNCHANGED <<task, costCache, chosen, tried, best, recs>>,
           left' = left \/ left' = Candidates(task),
           \/ phase' = phase
           \/ phase = "idle" /\ phase' \in {"candidates", "done"}
           \/ phase = "candidates" /\ phase' \in {"base", "reset"}
           \/ phase = "reset" /\ phase' = "base"
           \/ phase = "finish" /\ phase' = "impact"
    PROVE  Searching' /\ Reporting'
<1>1. task \in Tasks /\ Searching /\ Reporting
  BY DEF AdvisorInv
<1>2. Worthwhile(chosen)' /\ Recs' = Recs /\ Recommended' = Recommended
  BY <1>1 DEF Searching, Worthwhile, Cost, Recs, Recommended
<1>3. BestIsWorthwhile => BestIsWorthwhile'
  BY DEF BestIsWorthwhile, Worthwhile, Cost, Explained
<1>4. Searching'
  BY <1>1, <1>2, <1>3 DEF Searching, Explained
<1>5. Chained => Chained'
  BY DEF Chained, Cost
<1>6. CASE phase = "idle" /\ phase' = "done"
  <2>1. recs = <<>> /\ chosen = {} /\ tried = {} /\ Recommended = {}
    BY <1>1, <1>6 DEF Searching, Recommended
  <2> QED
    BY <1>2, <1>4, <2>1 DEF Reporting
<1>7. CASE ~ (phase = "idle" /\ phase' = "done")
  <2>1. phase' \in {"format", "finish", "impact", "done"} =>
          phase \in {"format", "finish", "impact", "done"}
    BY <1>7
  <2>2. phase' \in {"finish", "impact", "done"} => phase \in {"finish", "impact", "done"}
    BY <1>7
  <2> QED
    BY <1>1, <1>2, <1>4, <1>5, <2>1, <2>2 DEF Reporting
<1> QED
  BY <1>6, <1>7

LEMMA AdvisorInvNext ==
    ASSUME AdvisorInv, [AdvisorNext]_advisorVars
    PROVE  AdvisorInv'
<1>0. CostsAreOfTheirConfiguration' /\ task' = task
  <2>1. task' = task
    BY DEF AdvisorNext, advisorVars, CreateCandidates, ResetHypothetical, Report, ExplainElsewhere,
           AdvisorFails, PlanIndexes, TryAlternative, BaseCost, Evaluate, Format, NextIteration,
           StartAnalysis, NextRound, Formatted
  <2> QED
    BY <2>1, CostsNext DEF AdvisorInv
<1> SUFFICES ASSUME Dta
             PROVE  Searching' /\ Reporting'
  BY <1>0 DEF AdvisorInv, Dta
<1>s. Searching /\ Reporting
  BY DEF AdvisorInv
<1>1. CASE UNCHANGED advisorVars
  BY <1>1, SearchKept DEF advisorVars
<1>2. ASSUME NEW s \in Sessions, CreateCandidates(s)
      PROVE  Searching' /\ Reporting'
  BY <1>2, SearchKept DEF CreateCandidates
<1>3. ASSUME NEW s \in Sessions, ResetHypothetical(s)
      PROVE  Searching' /\ Reporting'
  BY <1>3, SearchKept DEF ResetHypothetical
<1>4. ASSUME NEW s \in Sessions, Report(s)
      PROVE  Searching' /\ Reporting'
  <2>1. /\ phase = "impact" /\ phase' = "done" /\ UNCHANGED <<task, chosen, left, tried, best, recs>>
        /\ Searching /\ Reporting
    BY <1>s, <1>4 DEF Report
  <2>2. Worthwhile(chosen)' /\ Recs' = Recs /\ Recommended' = Recommended
    BY <2>1 DEF Searching, Worthwhile, Cost, Recs, Recommended
  <2>3. Chained => Chained'
    BY <2>1 DEF Chained, Cost
  <2>4. Searching'
    BY <2>1, <2>2 DEF Searching
  <2> QED
    BY <2>1, <2>2, <2>3, <2>4 DEF Reporting
<1>5. ASSUME NEW s \in Sessions, NEW S, ExplainElsewhere(s, S)
      PROVE  Searching' /\ Reporting'
  BY <1>5, SearchKept DEF ExplainElsewhere
<1>6. ASSUME NEW s \in Sessions, NEW S, AdvisorFails(s, S)
      PROVE  Searching' /\ Reporting'
  <2>1. phase' = "failed" /\ UNCHANGED <<task, chosen, left>> /\ Searching
    BY <1>s, <1>6 DEF AdvisorFails
  <2>2. Worthwhile(chosen)'
    BY <2>1 DEF Searching, Worthwhile, Cost
  <2> QED
    BY <2>1, <2>2 DEF Searching, Reporting
<1>7. ASSUME NEW s \in Sessions, NEW S,
             PlanIndexes(s, S) \/ (\E d \in BOOLEAN : TryAlternative(S, s, d))
      PROVE  FALSE
  BY <1>s, <1>7 DEF PlanIndexes, TryAlternative, Searching
<1>8. ASSUME NEW s \in Sessions, NEW timeUp \in BOOLEAN, BaseCost(s, timeUp)
      PROVE  Searching' /\ Reporting'
  <2>1. /\ phase = "base" /\ phase' \in {"format", "search"} /\ costCache' = Costed(costCache, hypo, {}, s)
        /\ UNCHANGED <<task, chosen, left, tried, best, recs>>
        /\ chosen = {} /\ tried = {} /\ recs = <<>> /\ best.index = NoIndex /\ Searching
    BY <1>s, <1>8 DEF BaseCost, Searching
  <2>2. Explained({})' /\ Worthwhile(chosen)'
    BY <2>1, CostedGrows DEF Searching, Worthwhile, Cost
  <2>3. Explained(chosen)'
    BY <2>1, <2>2 DEF Explained
  <2>4. Searching'
    BY <2>1, <2>2, <2>3 DEF Searching, BestIsWorthwhile
  <2>5. Recommended' = {} /\ recs' \in Seq(Recs')
    BY <2>1 DEF Recommended
  <2> QED
    BY <2>1, <2>4, <2>5 DEF Reporting
<1>9. ASSUME NEW s \in Sessions, NEW i \in left, Evaluate(i, s)
      PROVE  Searching' /\ Reporting'
  BY <1>9, EvaluateInv
<1>10. ASSUME NEW i \in chosen, NEW s1 \in Sessions, NEW s2 \in Sessions, Format(i, s1, s2)
       PROVE  Searching' /\ Reporting'
  BY <1>0, <1>10, FormatInv
<1>11. ASSUME NEW timeUp \in BOOLEAN, NextIteration(timeUp)
       PROVE  Searching' /\ Reporting'
  BY <1>11, IterationInv
<1>12. ASSUME StartAnalysis
       PROVE  Searching' /\ Reporting'
  <2>1. phase = "idle" /\ phase' \in {"candidates", "done"}
        /\ UNCHANGED <<task, costCache, chosen, left, tried, best, recs>>
    BY <1>12 DEF StartAnalysis, Dta
  <2> QED
    BY <2>1, SearchKept
<1>13. ASSUME Formatted
       PROVE  Searching' /\ Reporting'
  <2>1. /\ phase = "format" /\ phase' = "finish" /\ tried = chosen
        /\ UNCHANGED <<task, costCache, chosen, left, tried, best, recs>> /\ Searching /\ Reporting
    BY <1>s, <1>13 DEF Formatted
  <2>2. Worthwhile(chosen)' /\ Recs' = Recs /\ Recommended' = Recommended
    BY <2>1 DEF Searching, Worthwhile, Cost, Recs, Recommended
  <2>3. Chained => Chained'
    BY <2>1 DEF Chained, Cost
  <2>4. Searching'
    BY <2>1, <2>2 DEF Searching
  <2> QED
    BY <2>1, <2>2, <2>3, <2>4 DEF Reporting
<1>14. ASSUME NextRound
       PROVE  FALSE
  BY <1>s, <1>14 DEF NextRound, Searching
<1> QED
  BY <1>1, <1>2, <1>3, <1>4, <1>5, <1>6, <1>7, <1>8, <1>9, <1>10, <1>11, <1>12, <1>13, <1>14
  DEF AdvisorNext

(* What the greedy search of dta_calc.py reports, whatever other calls     *)
(* explain meanwhile and also when it stops for time: new indexes, none    *)
(* over a column of long texts, together within the budget; each is        *)
(* compared with the ones before it, none is left out, and the last cost,  *)
(* that of just the recommended indexes, is a tenth below that of none.    *)
THEOREM RecommendationsPay ==
    AdvisorInit /\ [][AdvisorNext]_advisorVars => []RecommendationsPayWithinBudget
<1>1. AdvisorInv => RecommendationsPayWithinBudget
  <2> SUFFICES ASSUME AdvisorInv, phase = "done", Dta, recs # <<>>
               PROVE  /\ task.budget > 0 => TotalSize(Recommended) <= task.budget
                      /\ \A i \in Recommended :
                           ~ IndexExists(i, task.existing) /\ Range(i) \cap task.longText = {}
                      /\ recs[1].before = task.costOf[{}]
                      /\ \A k \in 1..(Len(recs) - 1) : recs[k + 1].before = recs[k].after
                      /\ Last(recs).after = task.costOf[Recommended]
                      /\ 10 * Last(recs).after <= 9 * task.costOf[{}]
    BY DEF RecommendationsPayWithinBudget, Dta
  <2>1. /\ recs \in Seq(Recs) /\ Recommended = tried /\ tried = chosen
        /\ Chained /\ Worthwhile(chosen)
    BY DEF AdvisorInv, Searching, Reporting
  <2>2. \A i \in Recommended :
          ~ IndexExists(i, task.existing) /\ Range(i) \cap task.longText = {}
    BY <2>1 DEF Worthwhile, Candidates
  <2>3. Len(recs) \in 1..Len(recs) /\ DOMAIN recs = 1..Len(recs)
    BY <2>1, EmptySeq, LenProperties
  <2>4. Recommended # {}
    BY <2>3 DEF Recommended
  <2> QED
    BY <2>1, <2>2, <2>4 DEF Worthwhile, Chained, Cost, Last
<1> QED
  BY AdvisorInvInit, AdvisorInvNext, <1>1, PTL

-----------------------------------------------------------------------------
(* What of this ServerMC shows on small instances.                         *)
QuestionIsValid ==
    /\ About("indexes") => IsTable(asked.table)
    /\ About("text") => asked.text \in McTexts

LEMMA AskedKept ==
    ASSUME QuestionIsValid, [Next]_vars
    PROVE  QuestionIsValid'
<1>1. CASE UNCHANGED asked
  BY <1>1 DEF QuestionIsValid, About
<1>2. ASSUME NEW question, Ask(question), question.about \notin {"indexes", "text"}
      PROVE  QuestionIsValid'
  BY <1>2 DEF Ask, QuestionIsValid, About
<1>3. CASE ValidateText
  BY <1>3 DEF ValidateText, Ask, QuestionIsValid, About
<1>4. CASE PlanMigration
  BY <1>2, <1>4 DEF PlanMigration
<1>5. CASE PlanMaintenance
  BY <1>2, <1>5 DEF PlanMaintenance
<1>6. CASE CheckIndexes
  BY <1>6 DEF CheckIndexes, Ask, QuestionIsValid, About, IsTable
<1> QED
  BY <1>1, <1>3, <1>4, <1>5, <1>6 DEF Next, vars

(* The duplicate index check of the health report, as the server is asked  *)
(* for it: what it reports of any table can all be dropped, other than the *)
(* indexes of exclusion constraints.                                       *)
THEOREM ReportedIndexesAreSpare == Spec => []DuplicatesAreDroppable
<1>1. Init => QuestionIsValid
  BY DEF Init, QuestionIsValid, About
<1>2. QuestionIsValid => DuplicatesAreDroppable
  BY DuplicatesAreSpare DEF QuestionIsValid, DuplicatesAreDroppable
<1> QED
  BY AskedKept, <1>1, <1>2, PTL DEF Spec

(* from_canonical_payload() of migrations/domain.py: whatever a stored     *)
(* plan became, under its hashes it is the reviewed plan or an error.      *)
THEOREM StoredMigrationsAreVerified == Spec => []StoredMigrationsAreAsReviewed
<1>1. StoredMigrationsAreAsReviewed
  BY LedgerKeepsMigrations DEF StoredMigrationsAreAsReviewed
<1> QED
  BY <1>1, PTL

(* from_canonical_payload() of maintenance/domain.py, likewise.            *)
THEOREM StoredMaintenanceIsVerified == Spec => []StoredMaintenanceIsReviewed
<1>1. StoredMaintenanceIsReviewed
  BY LedgerKeepsMaintenance DEF StoredMaintenanceIsReviewed
<1> QED
  BY <1>1, PTL

LEMMA TextsAreSequences ==
    ASSUME NEW symbols, NEW n \in Nat, NEW text \in Texts(symbols, n)
    PROVE  ScannerAgrees(text)
<1>1. PICK k \in 0..n : text \in [1..k -> symbols]
  BY DEF Texts
<1>2. text \in Seq(symbols)
  BY <1>1
<1> QED
  BY <1>2, ScannerIsRight

(* sql_for_validation() of sql/transaction.py, as the server is given SQL: *)
(* see ScannerIsRight.                                                     *)
THEOREM GivenTextsAreScannedRight == Spec => []ScannedTextsAgree
<1>1. Init => QuestionIsValid
  BY DEF Init, QuestionIsValid, About
<1>2. QuestionIsValid => ScannedTextsAgree
  BY TextsAreSequences DEF QuestionIsValid, ScannedTextsAgree, McTexts
<1> QED
  BY AskedKept, <1>1, <1>2, PTL DEF Spec
=============================================================================
