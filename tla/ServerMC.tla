------------------------------- MODULE ServerMC -------------------------------
(***************************************************************************)
(* The parts of the server that share no state: a behaviour of all of them *)
(* together is, for each, one of its own with stuttering.  One part is     *)
(* chosen and runs, the others stay in a first state of theirs; of those   *)
(* that compute an answer and keep nothing, one is asked once.             *)
(***************************************************************************)
EXTENDS Server, Advisor, SqlScan, DataOps, Replication, Plans, IndexHealth, TLC

CONSTANT Nobody

VARIABLES
    part,  \* which part runs
    asked  \* what was asked of a part without state

vars == <<part, asked, serverVars, advisorVars, dataVars, replVars>>

Parts == {"calls", "advisor", "data", "replication", "answers"}

-----------------------------------------------------------------------------
(* Costs that fall with indexes on a, on b and on both.                    *)
advSize(i) == IF Len(i) = 1 THEN 2 ELSE 3
Halves(f, g) == [S \in SUBSET Indexes |->
    (IF \E i \in S : i[1] = "a" THEN f ELSE 60) + (IF \E i \in S : i[1] = "b" THEN g ELSE 60)
       - (IF \E i \in S : Len(i) = 2 THEN 9 ELSE 0)]
(* Without an index on a, one on b is of no use.                           *)
Together == [S \in SUBSET Indexes |->
    IF \A i \in S : i[1] # "a" THEN 120 ELSE IF \A i \in S : i[1] # "b" THEN 70 ELSE 30]
McCostTables == {Halves(20, 30), Halves(50, 58), Halves(60, 20), Together}
McBudgets == {3, -1}
McTableOf == [c \in {"a", "b"} |-> "t"]
McWorkloads == {{}, {[uses |-> {"a", "b"}, conditions |-> {"a", "b"}]},
                {[uses |-> {"a", "b"}, conditions |-> {"a"}]}}
McExisting == {{}, {[columns |-> <<"a">>, type |-> "btree", unique |-> FALSE]}}
McElsewhere == {{}, {<<"b">>}}
McAlternatives == {{}, {<<"a">>}, {<<"a">>, <<"b">>}}

-----------------------------------------------------------------------------
dataColumn(notNull, default) ==
    [notNull |-> notNull, default |-> default, generated |-> FALSE, identity |-> "none",
     type |-> "int"]
dataRelation(kind, permitted, columns, keys, primary) ==
    [kind |-> kind, permitted |-> permitted, columns |-> columns, uniqueKeys |-> keys,
     primaryKey |-> primary]
DataColumns == [id |-> dataColumn(TRUE, Null), a |-> dataColumn(TRUE, Null), v |-> dataColumn(TRUE, 0)]
DataAll == {"SELECT", "INSERT", "UPDATE", "DELETE"}
McRelations ==
    {dataRelation("r", DataAll, DataColumns, {{"id"}}, <<"id">>),
     dataRelation("p", {"SELECT", "UPDATE"},
        [DataColumns EXCEPT !.a.generated = TRUE, !.id.identity = "always", !.a.type = "interval"],
        {{"id"}, {"id", "a"}}, <<"id">>),
     dataRelation("r", {"SELECT", "DELETE"}, [DataColumns EXCEPT !.a.type = "float4"], {{"id"}}, <<"id">>),
     dataRelation("v", DataAll, DataColumns, {}, <<>>)}
dataRow(i, x) == [id |-> i, a |-> x, v |-> 0]
McTables == {{dataRow(1, 2), dataRow(2, 1), dataRow(3, 1)}}
Cond(c, op, v) == [column |-> c, operator |-> op, value |-> v]
McFilters ==
    {[allOf |-> {}, anyOf |-> {}],
     [allOf |-> {Cond("id", "in", {1, 3})}, anyOf |-> {Cond("a", "gte", 1), Cond("a", "is_null", Nothing)}]}
Term(c, d) == [column |-> c, direction |-> d]
McOrders ==
    {<<>>, <<Term("a", "desc"), Term("id", "asc")>>, <<Term("id", "asc")>>, <<Term("a", "asc")>>}
McRequests ==
    [columns : {{}}, filters : {[allOf |-> {}, anyOf |-> {}]}, order : McOrders \ {<<Term("id", "asc")>>}]
      \cup [columns : {{"a"}}, filters : {f \in McFilters : f.allOf # {}},
            order : {<<Term("a", "desc"), Term("id", "asc")>>}]
McBatches ==
    {<<[id |-> i, a |-> 1]>> : i \in {1, 3}} \cup {<<[id |-> 1, a |-> 2], [id |-> 4, a |-> 1]>>}
McAssignments == {[a |-> 1], [a |-> 2]}
McGuards == {[max |-> 1, expected |-> Nothing], [max |-> 2, expected |-> 2]}
dataBytes(r) == Cardinality(DOMAIN r)
(* There is room for two values, no interval and not the float4 3, which   *)
(* stands for one that is not finite; its 1 returns as a bit less and its  *)
(* 2 as a bit more.                                                        *)
dataSize(type, v) ==
    IF type = "interval" \/ (type = "float4" /\ v = 3) THEN Nothing ELSE 1
dataCompared(type, v) == IF v = 1 THEN 0 ELSE v + 1

-----------------------------------------------------------------------------
quietNode ==
    [inRecovery |-> FALSE, paused |-> FALSE, lag |-> None, synchronous |-> FALSE, standbys |-> <<>>,
     slots |-> <<>>, receiver |-> <<>>, subscriptions |-> <<>>, publications |-> <<"p">>]
sender == [state |-> "streaming", bytes |-> 0, seconds |-> None, unnamed |-> FALSE]
slot == [active |-> TRUE, conflicting |-> FALSE, lost |-> FALSE, retained |-> 0]
quietStandby == [quietNode EXCEPT !.inRecovery = TRUE, !.receiver = <<"streaming">>, !.lag = 0]
McNodes ==
    {quietNode, [quietNode EXCEPT !.synchronous = TRUE],
     [quietNode EXCEPT !.standbys = <<sender, [sender EXCEPT !.state = "catchup"]>>],
     [quietNode EXCEPT !.standbys = <<[sender EXCEPT !.unnamed = TRUE]>>],
     [quietNode EXCEPT !.standbys = <<[sender EXCEPT !.bytes = 2]>>, !.subscriptions = <<"active">>],
     [quietNode EXCEPT !.slots = <<slot, [slot EXCEPT !.lost = TRUE]>>],
     [quietNode EXCEPT !.slots = <<[slot EXCEPT !.active = FALSE, !.retained = 1]>>,
                       !.subscriptions = <<"idle">>],
     quietStandby, [quietStandby EXCEPT !.paused = TRUE, !.lag = 1],
     [quietStandby EXCEPT !.standbys = <<sender>>, !.slots = <<slot>>],
     [quietStandby EXCEPT !.receiver = <<>>]}
McGrants == {Range(Catalogs), Range(Catalogs) \ {"slots"}}

-----------------------------------------------------------------------------
(* Texts of up to six symbols.                                             *)
Texts(symbols, n) == UNION {[1..k -> symbols] : k \in 0..n}
McTexts == Texts({"'", "\\", "E", "s", "%"}, 6) \cup Texts({"/", "*", "-", "nl", "%", "s"}, 5)
             \cup Texts({"$", "1", "'", "%", "s"}, 6) \cup Texts({"dq", "'", "%", "s", "-", "("}, 5)
             \cup Texts({"$", "E", "\\", "'"}, 6) \cup Texts({"E", "1", "x", "nl", "'"}, 5)

sql(kind, words) == [kind |-> kind, words |-> words]
CreateTable == sql("create", <<"CREATE", "TABLE", "t">>)
DropTable == sql("drop", <<"DROP", "TABLE", "t", "CASCADE">>)
CreateConcurrently == sql("index", <<"CREATE", "INDEX", "CONCURRENTLY", "i">>)
AlterType == sql("altertable", <<"ALTER", "TABLE", "t", "ALTER", "COLUMN", "c", "TYPE", "x">>)
Extension == sql("createextension", <<"CREATE", "EXTENSION", "e">>)
McStatements ==
    {CreateTable, DropTable, CreateConcurrently, AlterType, Extension,
     sql("index", <<"CREATE", "INDEX", "i">>), sql("index", <<"CREATE", "INDEX", "/**/", "CONCURRENTLY", "i">>),
     sql("createschema", <<"CREATE", "SCHEMA", "s", "CREATE", "INDEX", "CONCURRENTLY", "i">>),
     sql("comment", <<"COMMENT", "ON", "TABLE", "t", "IS", "'", "CONCURRENTLY", "'">>),
     sql("index", <<"CREATE", "UNIQUE", "INDEX", "CONCURRENTLY", "i">>),
     sql("drop", <<"DROP", "INDEX", "CONCURRENTLY", "i">>),
     sql("reindex", <<"REINDEX", "INDEX", "CONCURRENTLY", "i">>), sql("reindex", <<"REINDEX", "TABLE", "t">>),
     sql("altertable", <<"ALTER", "TABLE", "t", "DETACH", "PARTITION", "p", "CONCURRENTLY">>),
     sql("altertablespaceoptions", <<"ALTER", "TABLESPACE", "s">>), sql("droptablespace", <<"DROP", "TABLESPACE", "s">>),
     sql("vacuum", <<"VACUUM">>), sql("insert", <<"INSERT", "INTO", "t">>),
     sql("create", <<"CREATE", "TEMP", "TABLE", "t">>), sql("grant", <<"GRANT", "r">>),
     sql("alterseq", <<"ALTER", "SEQUENCE", "s", "RESTART">>), sql("create", <<>>), sql("error", <<"CREATE">>)}
Simple == {CreateTable, DropTable, CreateConcurrently, AlterType, Extension}
draft(f, r) == [sql |-> f, rollback |-> r]
McDrafts ==
    {<<>>} \cup {<<draft(f, r)>> : f, r \in McStatements}
      \cup {<<draft(f, r), draft(g, DropTable)>> : f, r, g \in Simple}
McPlanNames == {"n", "m", "bad name"}

target(kind, unique, exclusion, persistence) ==
    [oid |-> 1, kind |-> kind, persistence |-> persistence, partition |-> FALSE, populated |-> unique,
     uniqueIndex |-> unique, exclusion |-> exclusion]
McKeyLists == {<<"a">>, <<"a", "b">>, <<"a", "f(b)">>}
McTargets ==
    {target(k, u, x, "p") : k \in {"r", "m", "i", "f", "v"}, u, x \in BOOLEAN}
      \cup {target("r", FALSE, FALSE, "t"), [target("m", TRUE, FALSE, "p") EXCEPT !.oid = 2]}
McOptions ==
    [skipLocked : BOOLEAN, indexCleanup : {"auto", "off"}, parallel : {0, 2}]

-----------------------------------------------------------------------------
(* What the parts without state can be asked, once.                        *)
Open == part = "answers" /\ asked = Nobody

Ask(question) ==
    /\ asked' = question
    /\ UNCHANGED <<part, serverVars, advisorVars, dataVars, replVars>>

ValidateText == Open /\ \E s \in McTexts : Ask([about |-> "text", text |-> s])

PlanMigration ==
    Open /\ \E n \in Names, d \in Drafts : Ask([about |-> "migration", name |-> n, drafts |-> d])

PlanMaintenance ==
    Open /\ \E n \in Names, p \in Operations, t \in Targets, o \in Options :
        Ask([about |-> "maintenance", name |-> n, operation |-> p, target |-> t, options |-> o])

CheckIndexes ==
    Open /\ \E names \in SUBSET IndexNames : \E table \in [names -> Descriptions] :
        Ask([about |-> "indexes", table |-> table])

About(what) == asked # Nobody /\ asked.about = what

Init ==
    /\ part \in Parts /\ asked = Nobody
    /\ ServerInit /\ (part # "calls" => accessMode = "restricted")
    /\ AdvisorInit /\ (part # "advisor" => task = CHOOSE t \in Tasks : TRUE)
    /\ DataInit /\ (part # "data" => relation = (CHOOSE r \in Relations : r.kind = "r")
                                      /\ request = CHOOSE q \in Requests : TRUE)
    /\ ReplInit /\ (part # "replication" =>
                       node = quietNode /\ granted = Range(Catalogs) /\ limit = 1)

Next ==
    \/ part = "calls" /\ ServerNext /\ UNCHANGED <<part, asked, advisorVars, dataVars, replVars>>
    \/ part = "advisor" /\ AdvisorNext /\ UNCHANGED <<part, asked, serverVars, dataVars, replVars>>
    \/ part = "data" /\ DataNext /\ UNCHANGED <<part, asked, serverVars, advisorVars, replVars>>
    \/ part = "replication" /\ ReplNext /\ UNCHANGED <<part, asked, serverVars, advisorVars, dataVars>>
    \/ ValidateText \/ PlanMigration \/ PlanMaintenance \/ CheckIndexes

Spec == Init /\ [][Next]_vars

Permuted == Permutations(Clients) \cup Permutations(Counters)

-----------------------------------------------------------------------------
(* Every text that execute_sql and execute_transaction may be given is     *)
(* scanned as PostgreSQL would, see SqlScan.                               *)
ScannedTextsAgree == About("text") => ScannerAgrees(asked.text)

(* A migration that comes back from the ledger is the reviewed one, and so *)
(* is one that a client sends to apply under the hash of a review.         *)
StoredMigrationsAreAsReviewed ==
    About("migration") => StoredMigrationIsAsReviewed(asked.name, asked.drafts)

(* A maintenance plan that comes back is the reviewed one.                 *)
StoredMaintenanceIsReviewed ==
    About("maintenance") =>
        StoredMaintenanceIsAsReviewed(asked.name, asked.operation, asked.target, asked.options)

(* The indexes that the health check reports can all be dropped, other     *)
(* than those of exclusion constraints.                                    *)
DuplicatesAreDroppable == About("indexes") => DuplicatesCanBeDropped(asked.table)
=============================================================================
