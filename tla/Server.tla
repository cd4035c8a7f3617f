------------------------------- MODULE Server -------------------------------
(***************************************************************************)
(* The tools of server.py as the call boundary sees them: what may happen  *)
(* to a call in the access mode of the process, how the handler tells it,  *)
(* and how classify_tool_result() of observability.py counts the answer.   *)
(***************************************************************************)
EXTENDS Observability, Sequences, FiniteSetsExt

VARIABLES
    accessMode, \* of the process
    running,    \* client -> the tool it called, or NoCall
    did         \* what happened -> number of ended calls; a history variable

serverVars == <<metrics, token, countedAs, made, accessMode, running, did>>

AccessMode == {"restricted", "unrestricted"}

(* Done; done before, and so again; failed; failed in doubt about the      *)
(* outcome; either of the two in an error text with the wording of a       *)
(* refusal; refused for the access mode; failed, and told so in a text     *)
(* that is not an error response; or cancelled.                            *)
Happenings == {"done", "again", "failed", "unsure", "echoed", "refused", "told", "cancelled"}

-----------------------------------------------------------------------------
(* Content items: a text that starts with "Error:", with those of the      *)
(* wordings that are in its first 256 characters, another text, or a JSON  *)
(* object.                                                                 *)
Wordings == {"requires", "unrestricted", "disabled in restricted"}

Item == [kind |-> "text", words |-> {}, status |-> "", error |-> FALSE, truncated |-> FALSE,
         rolledBack |-> FALSE, large |-> FALSE]

ErrorText(words) == [Item EXCEPT !.kind = "error", !.words = words]
Object(status) == [Item EXCEPT !.kind = "object", !.status = status]

Unclassified == [outcome |-> "success", truncated |-> FALSE, rolledBack |-> FALSE]

StatusOutcome(item, before) ==
    IF item.status = "unknown" THEN "unknown"
    ELSE IF item.status \in {"denied", "forbidden"} THEN "denied"
    ELSE IF item.status \in {"error", "failed", "failure"} \/ item.error THEN "error"
    ELSE before

(* The wordings of the refusals of server.py.                              *)
SoundsRefused(words) ==
    {"requires", "unrestricted"} \subseteq words \/ "disabled in restricted" \in words

(* Wrong on purpose: a payload without a status is a success.              *)
ClassifiedByStatus(item, c) ==
    CASE item.kind = "error" ->
           [c EXCEPT !.outcome = IF SoundsRefused(item.words) THEN "denied" ELSE "error"]
      [] item.kind = "object" /\ item.status = "" -> c
      [] item.kind = "object" /\ item.status # "" ->
           [c EXCEPT !.outcome = StatusOutcome(item, @)]
      [] item.kind = "text" -> c

(* One item: a payload longer than 65,536 characters is not looked into.   *)
Classified(item, c) ==
    CASE item.kind = "error" ->
           [c EXCEPT !.outcome = IF SoundsRefused(item.words) THEN "denied" ELSE "error"]
      [] item.kind = "text" \/ (item.kind = "object" /\ item.large) -> c
      [] item.kind = "object" /\ ~ item.large ->
           [outcome |-> StatusOutcome(item, c.outcome),
            truncated |-> c.truncated \/ item.truncated,
            rolledBack |-> c.rolledBack \/ item.rolledBack]

(* classify_tool_result(): the items up to the first error.                *)
ClassifyToolResult(result) ==
    LET upTo[n \in 0..Len(result)] ==
          IF n = 0 THEN Unclassified
          ELSE IF \E k \in 1..(n - 1) : result[k].kind = "error" THEN upTo[n - 1]
          ELSE Classified(result[n], upTo[n - 1])
    IN upTo[Len(result)]

-----------------------------------------------------------------------------
(* The handlers: [happened, result] pairs; a result <<>> is an exception   *)
(* that leaves the handler.                                                *)
Answer(happened, item) == [happened |-> happened, result |-> <<item>>]
Raised == [happened |-> "failed", result |-> <<>>]
Refused(words) == {Answer("refused", ErrorText(words))}
Unrestricted == {"requires", "unrestricted"}

(* The text of an error repeats names that a client chose, as in "relation *)
(* ... was not found", and the words of PostgreSQL: any wording may be     *)
(* among its first characters.                                             *)
Errors(happened) ==
    {Answer(IF SoundsRefused(w) THEN "echoed" ELSE happened, ErrorText(w)) : w \in SUBSET Wordings}
Failed == Errors("failed")

(* Catalog and inspection tools: every exception becomes an error text.    *)
Inspection == {Answer("done", Object("")), Answer("done", Item)} \cup Failed

BoundedListing ==
    Inspection \cup {Answer("done", [Object("") EXCEPT !.truncated = TRUE, !.large = b]) : b \in BOOLEAN}

(* select_rows: an exception that is neither a data nor a value error      *)
(* leaves the handler.                                                     *)
SelectRows == BoundedListing \cup {Raised}

(* insert_rows, upsert_rows, update_rows, delete_rows.  A commit whose     *)
(* outcome is unknown is told in an error text.                            *)
MutateRows(mode) ==
    IF mode # "unrestricted" THEN Refused(Unrestricted)
    ELSE {Answer("done", Object("")), Raised} \cup Failed \cup Errors("unsure")

(* A migration that failed, or whose commit is uncertain, is a payload     *)
(* with the status "failed".                                               *)
ApplyMigration(mode) ==
    IF mode # "unrestricted" THEN Refused(Unrestricted)
    ELSE {Answer("done", Object(s)) : s \in {"applied", "already_applied", "rolled_back"}}
         \cup {Answer("unsure", [Object("failed") EXCEPT !.error = TRUE]),
               Answer("failed", [Object("failed") EXCEPT !.error = TRUE, !.rolledBack = TRUE])}
         \cup Failed

(* Maintenance: the outcome of the operation is the status of the payload. *)
ApplyMaintenance(mode) ==
    IF mode # "unrestricted" THEN Refused(Unrestricted)
    ELSE {Answer("done", Object("succeeded")), Answer("done", Object("already_succeeded")),
          Answer("failed", [Object("failed") EXCEPT !.error = TRUE]),
          Answer("unsure", [Object("unknown") EXCEPT !.error = TRUE])}
         \cup Failed

(* To resolve a failure as one again answers its status, "failed".  A lost *)
(* connection leaves the update of the row in doubt.                       *)
ReconcileMaintenance(mode) ==
    IF mode # "unrestricted" THEN Refused(Unrestricted)
    ELSE {Answer("done", Object(s)) :
             s \in {"reconciled_succeeded", "reconciled_failed", "already_succeeded"}}
         \cup {Answer("again", Object("failed")),
               Answer("unsure", [Object("unknown") EXCEPT !.error = TRUE])}
         \cup Failed \cup Errors("unsure")

(* explain_query(analyze = TRUE) is refused in restricted mode; a missing  *)
(* hypopg is explained in a text.                                          *)
ExplainQuery(mode) ==
    {Answer("done", Item), Answer("told", Item)} \cup Failed
      \cup (IF mode = "restricted" THEN Refused({"disabled in restricted"}) ELSE {})

ExecuteSql == BoundedListing

(* Only registered in unrestricted mode.  A failed step, and a commit in   *)
(* doubt, is a payload without a status that says it was rolled back.      *)
ExecuteTransaction ==
    {Answer("done", Object(""))} \cup Failed
      \cup {Answer(h, [Object("") EXCEPT !.error = TRUE, !.rolledBack = TRUE]) :
               h \in {"failed", "unsure"}}

(* A failed analysis is a payload with an error.                           *)
AnalyzeIndexes ==
    {Answer("done", Object("")), Answer("failed", [Object("") EXCEPT !.error = TRUE])} \cup Failed

(* Both catch their exceptions and return a text about them.               *)
AnalyzeHealth == {Answer("done", Item), Answer("told", Item)} \cup Failed
TopQueries == {Answer("done", Item), Answer("told", Item)} \cup Failed

Tools ==
    {"list_schemas", "search_catalog", "select_rows", "insert_rows", "apply_migration_plan",
     "apply_maintenance_plan", "reconcile_maintenance_operation", "explain_query",
     "execute_sql", "execute_transaction", "analyze_query_indexes", "analyze_db_health",
     "get_top_queries"}

(* main(): the tools of the process.                                       *)
Registered(mode) == IF mode = "unrestricted" THEN Tools ELSE Tools \ {"execute_transaction"}

(* What may come of a call; a name that is no tool raises.                 *)
Answers(mode, tool) ==
    IF tool \notin Registered(mode) THEN {Raised}
    ELSE CASE tool = "list_schemas" -> Inspection
           [] tool = "search_catalog" -> BoundedListing
           [] tool = "select_rows" -> SelectRows
           [] tool = "insert_rows" -> MutateRows(mode)
           [] tool = "apply_migration_plan" -> ApplyMigration(mode)
           [] tool = "apply_maintenance_plan" -> ApplyMaintenance(mode)
           [] tool = "reconcile_maintenance_operation" -> ReconcileMaintenance(mode)
           [] tool = "explain_query" -> ExplainQuery(mode)
           [] tool = "execute_sql" -> ExecuteSql
           [] tool = "execute_transaction" -> ExecuteTransaction
           [] tool = "analyze_query_indexes" -> AnalyzeIndexes
           [] tool = "analyze_db_health" -> AnalyzeHealth
           [] tool = "get_top_queries" -> TopQueries

-----------------------------------------------------------------------------
ServerInit ==
    /\ RegistryInit
    /\ accessMode \in AccessMode
    /\ running = [c \in Clients |-> NoCall]
    /\ did = [h \in Happenings |-> 0]

(* observed_call(): the token is taken before the handler runs.            *)
Call(c, name) ==
    /\ StartCall(c, name)
    /\ running' = [running EXCEPT ![c] = name]
    /\ UNCHANGED <<accessMode, did>>

Ended(c, happened) ==
    /\ running' = [running EXCEPT ![c] = NoCall]
    /\ did' = [did EXCEPT ![happened] = @ + 1]
    /\ UNCHANGED accessMode

(* The handler returns or raises, and the token is finished.               *)
Return(c, a, elapsed) ==
    LET r == ClassifyToolResult(a.result) IN
    /\ running[c] # NoCall /\ a \in Answers(accessMode, running[c])
    /\ IF a.result = <<>> THEN FinishCall(c, "error", elapsed, FALSE, FALSE)
       ELSE FinishCall(c, r.outcome, elapsed, r.truncated, r.rolledBack)
    /\ Ended(c, a.happened)

(* The task of the call is cancelled, at whatever await it is.             *)
Cancel(c, elapsed) ==
    /\ running[c] # NoCall
    /\ FinishCall(c, "cancelled", elapsed, FALSE, FALSE)
    /\ Ended(c, "cancelled")

ServerNext == \E c \in Clients :
    \/ \E n \in ToolNames : Call(c, n)
    \/ \E e \in 1..(Buckets + 1) :
         \/ Cancel(c, e)
         \/ running[c] # NoCall /\ \E a \in Answers(accessMode, running[c]) : Return(c, a, e)

ServerSpec == ServerInit /\ [][ServerNext]_serverVars

-----------------------------------------------------------------------------
Total(outcome) == MapThenSumSet(LAMBDA l : metrics[l].outcomes[outcome], DOMAIN metrics)

(* The counters by outcome, over all labels, are what happened to the      *)
(* calls that ended.  Every refused call is denied, and with it only the   *)
(* failed ones whose error repeats the wording of a refusal; every         *)
(* cancelled call is cancelled; a failure and an end in doubt are a        *)
(* success only in the tools that tell a failure in a text of their own;   *)
(* only a call in doubt is unknown; and a call that did what it was asked  *)
(* is an error only where it resolved a failure as one again.              *)
OutcomesAreWhatHappened ==
    /\ Total("denied") = did["refused"] + did["echoed"]
    /\ Total("cancelled") = did["cancelled"]
    /\ Total("success") = did["done"] + did["told"]
    /\ Total("error") + Total("unknown") = did["failed"] + did["unsure"] + did["again"]
    /\ Total("unknown") <= did["unsure"]
=============================================================================
