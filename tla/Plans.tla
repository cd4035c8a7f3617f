--------------------------------- MODULE Plans ---------------------------------
(***************************************************************************)
(* The plans that a person reviews before anything is run: a migration     *)
(* with the behaviour of each of its statements, and a maintenance         *)
(* operation on a relation as it was found.  A plan is known by a digest   *)
(* of all that was reviewed, and checked against it when it comes back     *)
(* from a client or from the ledger.  A statement is its kind, as the      *)
(* parser names it, and its words in upper case, those of comments too.    *)
(***************************************************************************)
EXTENDS Integers, Sequences, FiniteSets, SequencesExt, FiniteSetsExt

CONSTANTS
    Statements,         \* [kind, words]; the kind of what does not parse is "error"
    Drafts,             \* lists of steps: sequences of [sql, rollback]
    Names, BadNames,    \* names of plans, and those that are not valid
    MaxSteps, MaxLength, MaxTotal, \* bounds on a migration, in words
    Targets,            \* relations as inspected, see MaintenancePlan
    Options             \* [skipLocked, indexCleanup, parallel]

Rejected == [error |-> TRUE]

(* SHA-256 of a domain and a canonical payload: no two have the same.      *)
Digest(domain, payload) == [domain |-> domain, payload |-> payload]

(* A plan: what was reviewed, with its hashes.                             *)
Hashed(payload, hashes) ==
    [f \in DOMAIN payload \cup DOMAIN hashes |->
        IF f \in DOMAIN payload THEN payload[f] ELSE hashes[f]]

-----------------------------------------------------------------------------
(* classify_migration_sql()                                                *)
StartsWith(words, some) == \E p \in some : IsPrefix(p, words)
HasWords(words, part) ==
    \E k \in 1..(Len(words) - Len(part) + 1) : SubSeq(words, k, k + Len(part) - 1) = part
HasWord(words, word) == HasWords(words, <<word>>)

ForbiddenKinds ==
    {"alterdatabase", "alterdatabaseowner", "alterdefaultprivileges", "alterobjectdepends",
     "alteroperator", "altersystem", "call", "cluster", "copy", "createdatabase", "createpolicy",
     "createtablespace", "do", "dropdb", "droptablespace", "lock", "transaction", "truncate",
     "vacuum", "variable_set", "insert", "update", "delete", "merge", "select"}

ForbiddenStarts ==
    {<<"VACUUM">>, <<"ALTER", "SYSTEM">>, <<"CREATE", "MATERIALIZED", "VIEW">>,
     <<"REFRESH", "MATERIALIZED", "VIEW">>, <<"CREATE", "ACCESS", "METHOD">>}
      \cup {<<v, o>> : v \in {"CREATE", "DROP"}, o \in {"DATABASE", "TABLESPACE"}}

ExternalStarts ==
    {<<"NOTIFY">>, <<"LISTEN">>, <<"UNLISTEN">>}
      \cup {<<v>> \o o : v \in {"CREATE", "ALTER", "DROP"},
                         o \in {<<"EXTENSION">>, <<"SERVER">>, <<"FOREIGN", "DATA", "WRAPPER">>,
                                <<"USER", "MAPPING">>, <<"FUNCTION">>, <<"PROCEDURE">>}}

TransactionalStarts ==
    {<<"ALTER", "DEFAULT", "PRIVILEGES">>, <<"ALTER", "INDEX">>, <<"ALTER", "MATERIALIZED", "VIEW">>,
     <<"ALTER", "TABLE">>, <<"ALTER", "TABLESPACE">>, <<"ALTER", "VIEW">>, <<"COMMENT", "ON">>, <<"DROP", "OWNED">>,
     <<"GRANT">>, <<"REASSIGN", "OWNED">>, <<"REVOKE">>, <<"SECURITY", "LABEL">>}
      \cup {<<"ALTER", o>> : o \in {"DOMAIN", "POLICY", "SCHEMA", "SEQUENCE", "TYPE"}}
      \cup {<<v, o>> : v \in {"CREATE", "DROP"},
                       o \in {"COLLATION", "DOMAIN", "INDEX", "POLICY", "SCHEMA", "SEQUENCE",
                              "TABLE", "TYPE", "VIEW"}}

NonTransactional(w) ==
    \/ /\ StartsWith(w, {<<"CREATE", "INDEX", "CONCURRENTLY">>, <<"DROP", "INDEX", "CONCURRENTLY">>,
                         <<"REINDEX">>})
       /\ HasWord(w, "CONCURRENTLY")
    \/ IsPrefix(<<"ALTER", "TABLE">>, w) /\ HasWords(w, <<"DETACH", "PARTITION">>) /\ HasWord(w, "CONCURRENTLY")

External(w) ==
    \/ StartsWith(w, ExternalStarts)
    \/ IsPrefix(<<"ALTER", "SEQUENCE">>, w) /\ HasWord(w, "RESTART")

Forbidden(kind, w) ==
    \/ kind \in ForbiddenKinds
    \/ StartsWith(w, ForbiddenStarts)
    \/ HasWord(w, "TEMP") \/ HasWord(w, "TEMPORARY")

Behavior(kind, w) ==
    IF Forbidden(kind, w) THEN "forbidden"
    ELSE IF NonTransactional(w) THEN "non_transactional"
    ELSE IF External(w) THEN "external_side_effect"
    ELSE IF StartsWith(w, TransactionalStarts) THEN "transactional" ELSE "forbidden"

Warnings(w, behavior) ==
    LET table == StartsWith(w, {<<"ALTER", "TABLE">>, <<"ALTER", "TABLESPACE">>})
        all == <<
          [when |-> table, warning |-> "access_exclusive_lock_possible"],
          [when |-> table /\ HasWords(w, <<"ALTER", "COLUMN">>) /\ HasWord(w, "TYPE"),
           warning |-> "table_rewrite_possible"],
          [when |-> table /\ (HasWords(w, <<"SET", "NOT", "NULL">>) \/ HasWords(w, <<"VALIDATE", "CONSTRAINT">>)),
           warning |-> "table_scan_possible"],
          [when |-> IsPrefix(<<"DROP">>, w), warning |-> "destructive_drop"],
          [when |-> StartsWith(w, {<<"GRANT">>, <<"REVOKE">>, <<"ALTER", "DEFAULT", "PRIVILEGES">>}),
           warning |-> "privilege_change"],
          [when |-> behavior # "transactional", warning |-> behavior],
          [when |-> HasWord(w, "CASCADE"), warning |-> "cascade_dependency_changes"]>>
        given == SelectSeq(all, LAMBDA r : r.when)
    IN [k \in DOMAIN given |-> given[k].warning]

-----------------------------------------------------------------------------
(* create_plan() of migrations/planner.py                                  *)
Step(position, d) ==
    LET forward == Behavior(d.sql.kind, d.sql.words)
        back == Behavior(d.rollback.kind, d.rollback.words)
    IN [position |-> position, sql |-> d.sql.words, rollbackSql |-> d.rollback.words,
        kind |-> d.sql.kind, rollbackKind |-> d.rollback.kind,
        behavior |-> forward, rollbackBehavior |-> back,
        warnings |-> Warnings(d.sql.words, forward),
        rollbackWarnings |-> Warnings(d.rollback.words, back)]

Checked(s) == s.kind # "error" /\ Len(s.words) \in 1..MaxLength

Length(drafts) ==
    MapThenSumSet(LAMBDA k : Len(drafts[k].sql.words) + Len(drafts[k].rollback.words), DOMAIN drafts)

(* The warnings of the steps in their order, each once.                    *)
OrderedUnique(s) ==
    LET first == {k \in DOMAIN s : \A j \in 1..(k - 1) : s[j] # s[k]} IN
    [n \in 1..Cardinality(first) |->
        s[CHOOSE k \in first : Cardinality({j \in first : j <= k}) = n]]

PlanWarnings(steps) ==
    OrderedUnique(FlattenSeq([k \in DOMAIN steps |->
        [i \in DOMAIN steps[k].warnings |-> <<"", steps[k].warnings[i]>>]
          \o [i \in DOMAIN steps[k].rollbackWarnings |-> <<"rollback:", steps[k].rollbackWarnings[i]>>]]))

(* Wrong on purpose: what undoes the steps is not part of what is reviewed. *)
CanonicalForward(p) ==
    [version |-> p.version, name |-> p.name, warnings |-> p.warnings,
     steps |-> [k \in DOMAIN p.steps |-> [p.steps[k] EXCEPT !.rollbackSql = <<>>]]]

CanonicalPayload(p) ==
    [version |-> p.version, name |-> p.name, steps |-> p.steps, warnings |-> p.warnings]

ChecksumPayload(p) ==
    [version |-> p.version, name |-> p.name,
     steps |-> [k \in DOMAIN p.steps |-> [f \in {"position", "sql", "kind", "behavior"} |-> p.steps[k][f]]]]

ExpectedChecksum(p) == Digest("migration-checksum", ChecksumPayload(p))
ExpectedReview(p) == Digest("migration-review", CanonicalPayload(p))

CreatePlan(name, drafts) ==
    LET steps == [k \in DOMAIN drafts |-> Step(k - 1, drafts[k])]
        plan == [version |-> 1, name |-> name, steps |-> steps, warnings |-> PlanWarnings(steps)]
    IN IF \/ name \in BadNames \/ drafts = <<>> \/ Len(drafts) > MaxSteps \/ Length(drafts) > MaxTotal
          \/ \E k \in DOMAIN drafts : ~ Checked(drafts[k].sql) \/ ~ Checked(drafts[k].rollback)
       THEN Rejected
       ELSE Hashed(plan, [checksum |-> ExpectedChecksum(plan), reviewHash |-> ExpectedReview(plan)])

Applyable(p) ==
    \A k \in DOMAIN p.steps :
        p.steps[k].behavior = "transactional" /\ p.steps[k].rollbackBehavior = "transactional"

Integrity(p) == p.checksum = ExpectedChecksum(p) /\ p.reviewHash = ExpectedReview(p)

(* apply() of migrations/service.py: what is handed to the backend.        *)
Approved(p, reviewHash) == Integrity(p) /\ reviewHash = p.reviewHash /\ Applyable(p)

(* from_canonical_payload(): a plan of the ledger.                         *)
PayloadFields == {"version", "name", "steps", "warnings"}

Restored(payload, checksum, reviewHash) ==
    LET plan == Hashed(payload, [checksum |-> checksum, reviewHash |-> reviewHash]) IN
    IF DOMAIN payload # PayloadFields \/ payload.version # 1 \/ ~ Integrity(plan)
    THEN Rejected ELSE plan

-----------------------------------------------------------------------------
(* create_plan() of maintenance/domain.py, from the target as it was found *)
TargetSnapshot(t) ==
    /\ t.oid \in Nat \ {0} /\ t.kind \in {"r", "p", "m", "f", "i", "I", "v"}
    /\ t.persistence \in {"p", "u", "t"}
    /\ {t.partition, t.populated, t.uniqueIndex, t.exclusion} \subseteq BOOLEAN

MaintenanceOptions(o) ==
    /\ o.skipLocked \in BOOLEAN /\ o.indexCleanup \in {"auto", "on", "off"}
    /\ o.parallel \in 0..1024

ASSUME MaintenanceAssumption ==
    (\A t \in Targets : TargetSnapshot(t)) /\ \A o \in Options : MaintenanceOptions(o)

Operations == {"vacuum_analyze", "analyze", "reindex_index_concurrently",
               "refresh_materialized_view_concurrently"}

DefaultOptions == [skipLocked |-> FALSE, indexCleanup |-> "auto", parallel |-> 0]

Plannable(operation, t, o) ==
    /\ t.persistence # "t"
    /\ CASE operation = "vacuum_analyze" -> t.kind \in {"r", "p", "m"}
         [] operation = "analyze" ->
              t.kind \in {"r", "p", "m", "f"} /\ o.indexCleanup = "auto" /\ o.parallel = 0
         [] operation = "reindex_index_concurrently" ->
              t.kind \in {"i", "I"} /\ ~ t.exclusion /\ o = DefaultOptions
         [] operation = "refresh_materialized_view_concurrently" ->
              t.kind = "m" /\ t.populated /\ t.uniqueIndex /\ o = DefaultOptions

MaintenancePayload(p) == [f \in DOMAIN p \ {"reviewHash"} |-> p[f]]

(* Wrong on purpose: the options are not part of what is reviewed.         *)
ExpectedWithoutOptions(p) ==
    Digest("reviewed-maintenance", [f \in DOMAIN p \ {"reviewHash", "options"} |-> p[f]])

ExpectedMaintenance(p) == Digest("reviewed-maintenance", MaintenancePayload(p))

MaintenancePlan(name, operation, t, o) ==
    LET plan == [version |-> 1, name |-> name, operation |-> operation, target |-> t,
                 options |-> o, behavior |-> "non_transactional"]
    IN IF name \in BadNames \/ ~ Plannable(operation, t, o) THEN Rejected
       ELSE Hashed(plan, [reviewHash |-> ExpectedMaintenance(plan)])

(* from_canonical_payload(): what else is stored is not looked at.         *)
MaintenanceFields == {"version", "name", "operation", "target", "options", "behavior"}

MaintenanceRestored(payload, reviewHash) ==
    LET plan == Hashed([f \in MaintenanceFields |-> payload[f]], [reviewHash |-> reviewHash]) IN
    IF \/ ~ (MaintenanceFields \subseteq DOMAIN payload)
       \/ plan.version # 1 \/ plan.behavior # "non_transactional" \/ reviewHash # ExpectedMaintenance(plan)
    THEN Rejected ELSE plan

-----------------------------------------------------------------------------
(* What may become of a stored plan: a field is different.                 *)
AlteredStep(step) ==
    {[step EXCEPT !.sql = s.words] : s \in Statements}
      \cup {[step EXCEPT !.rollbackSql = s.words] : s \in Statements}
      \cup {[step EXCEPT !.behavior = "transactional", !.rollbackBehavior = "transactional"]}

Altered(payload) ==
    {[payload EXCEPT !.name = n] : n \in Names}
      \cup {[payload EXCEPT !.warnings = <<>>], [payload EXCEPT !.steps = Reverse(@)]}
      \cup UNION {{[payload EXCEPT !.steps[k] = step] : step \in AlteredStep(payload.steps[k])} :
                    k \in DOMAIN payload.steps}

AlteredMaintenance(payload) ==
    {[payload EXCEPT !.name = n] : n \in Names} \cup {[payload EXCEPT !.target = t] : t \in Targets}
      \cup {[payload EXCEPT !.options = o] : o \in Options}
      \cup {[payload EXCEPT !.operation = p] : p \in Operations}

(* What may be sent to apply in place of what was reviewed.                *)
AlteredDrafts(drafts) ==
    {Reverse(drafts)}
      \cup UNION {{[drafts EXCEPT ![k].sql = s], [drafts EXCEPT ![k].rollback = s]} :
                    k \in DOMAIN drafts, s \in Statements}

(* "Restore and verify a plan read from the migration ledger": what comes  *)
(* back is the plan that was reviewed, to the last field of what undoes    *)
(* it, or an error; and it does come back.  What apply rebuilds from the   *)
(* statements of a client, it approves under the hash of a review only     *)
(* when it is the plan that was reviewed.                                  *)
StoredMigrationIsAsReviewed(name, drafts) ==
    LET p == CreatePlan(name, drafts) IN
    p # Rejected =>
        /\ Restored([f \in PayloadFields |-> p[f]], p.checksum, p.reviewHash) = p
        /\ \A payload \in Altered([f \in PayloadFields |-> p[f]]) :
              Restored(payload, p.checksum, p.reviewHash) \in {p, Rejected}
        /\ \A n \in Names, sent \in AlteredDrafts(drafts) :
              LET q == CreatePlan(n, sent) IN q # Rejected /\ Approved(q, p.reviewHash) => q = p

StoredMaintenanceIsAsReviewed(name, operation, t, o) ==
    LET p == MaintenancePlan(name, operation, t, o) IN
    p # Rejected =>
        /\ MaintenanceRestored(MaintenancePayload(p), p.reviewHash) = p
        /\ \A payload \in AlteredMaintenance(MaintenancePayload(p)) :
              MaintenanceRestored(payload, p.reviewHash) \in {p, Rejected}
=============================================================================
