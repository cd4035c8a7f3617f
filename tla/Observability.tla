---------------------------- MODULE Observability ----------------------------
(***************************************************************************)
(* The metrics registry of observability.py and the call boundary that     *)
(* feeds it: a token is taken before a tool runs, and finished when the    *)
(* tool returns, raises or is cancelled.  The registry's lock makes each   *)
(* of the two one step.  Names of tools come from clients; the labels they *)
(* are counted under are bounded.                                          *)
(***************************************************************************)
EXTENDS Integers, FiniteSets

CONSTANTS
    Clients,      \* concurrent calls of the server
    ToolNames,    \* names that clients ask for
    Malformed,    \* those of them that are no tool names
    MaxTools,     \* max_tools of the registry
    Buckets,      \* number of duration boundaries
    MaxCalls,     \* bound on the calls made
    NoCall

OverflowLabel == "__other__"
InvalidLabel == "__invalid__"
Labels == ToolNames \cup {OverflowLabel, InvalidLabel}

ASSUME RegistryAssumption ==
    /\ IsFiniteSet(Clients) /\ IsFiniteSet(ToolNames)
    /\ Malformed \subseteq ToolNames \ {OverflowLabel}
    /\ MaxTools \in Nat \ {0} /\ Buckets \in Nat /\ MaxCalls \in Nat
    /\ NoCall \notin Labels

VARIABLES
    metrics,   \* label -> aggregates, for the labels seen so far
    token,     \* client -> label of the call in flight, or NoCall
    countedAs, \* name -> the label it was first counted under, or NoCall
    made       \* calls made so far

registryVars == <<metrics, token, countedAs, made>>

ToolOutcome == {"success", "error", "denied", "cancelled", "unknown"}

NewMetrics ==
    [outcomes |-> [o \in ToolOutcome |-> 0], active |-> 0, count |-> 0,
     buckets |-> [b \in 1..Buckets |-> 0], truncated |-> 0, rolledBack |-> 0]

ToolMetrics ==
    [outcomes : [ToolOutcome -> Nat], active : Nat, count : Nat,
     buckets : [1..Buckets -> Nat], truncated : Nat, rolledBack : Nat]

RegistryTypeOK ==
    /\ \E S \in SUBSET Labels : metrics \in [S -> ToolMetrics]
    /\ token \in [Clients -> Labels \cup {NoCall}]
    /\ countedAs \in [ToolNames -> Labels \cup {NoCall}]
    /\ made \in 0..MaxCalls

RegistryInit ==
    /\ metrics = [l \in {} |-> NewMetrics]
    /\ token = [c \in Clients |-> NoCall]
    /\ countedAs = [n \in ToolNames |-> NoCall]
    /\ made = 0

-----------------------------------------------------------------------------
SafeToolName(n) == IF n \in Malformed THEN InvalidLabel ELSE n

Named == DOMAIN metrics \ {OverflowLabel}

(* Wrong on purpose: room is only looked for, not for names already there. *)
SelectByRoom(n) ==
    IF Cardinality(Named) < MaxTools THEN SafeToolName(n) ELSE OverflowLabel

SelectTool(n) ==
    IF SafeToolName(n) \in DOMAIN metrics \/ Cardinality(Named) < MaxTools
    THEN SafeToolName(n) ELSE OverflowLabel

At(l) == IF l \in DOMAIN metrics THEN metrics[l] ELSE NewMetrics

SetMetrics(l, m) ==
    metrics' = [k \in DOMAIN metrics \cup {l} |-> IF k = l THEN m ELSE metrics[k]]

(* start(): the name gets its label, and the label one more active call.   *)
StartCall(c, n) ==
    LET l == SelectTool(n) IN
    /\ token[c] = NoCall /\ made < MaxCalls
    /\ SetMetrics(l, [At(l) EXCEPT !.active = @ + 1])
    /\ token' = [token EXCEPT ![c] = l]
    /\ countedAs' = [countedAs EXCEPT ![n] = IF @ = NoCall THEN l ELSE @]
    /\ made' = made + 1

(* Wrong on purpose: a cancelled call is not taken from the active ones.   *)
RecordedUnlessCancelled(m, outcome, elapsed, truncated, rolledBack) ==
    [m EXCEPT !.active = IF outcome = "cancelled" \/ @ = 0 THEN @ ELSE @ - 1,
              !.outcomes[outcome] = @ + 1, !.count = @ + 1]

(* Wrong on purpose: a call goes into the one bucket it falls into.        *)
RecordedInOneBucket(m, outcome, elapsed, truncated, rolledBack) ==
    [m EXCEPT !.active = IF @ = 0 THEN 0 ELSE @ - 1,
              !.outcomes[outcome] = @ + 1, !.count = @ + 1,
              !.buckets = [b \in 1..Buckets |-> IF elapsed = b THEN @[b] + 1 ELSE @[b]]]

(* The aggregates m after a call that fell into the duration class         *)
(* elapsed: one of 1..Buckets, or Buckets + 1 beyond the last boundary.    *)
Recorded(m, outcome, elapsed, truncated, rolledBack) ==
    [m EXCEPT !.active = IF @ = 0 THEN 0 ELSE @ - 1,
              !.outcomes[outcome] = @ + 1, !.count = @ + 1,
              !.buckets = [b \in 1..Buckets |-> IF elapsed <= b THEN @[b] + 1 ELSE @[b]],
              !.truncated = IF truncated THEN @ + 1 ELSE @,
              !.rolledBack = IF rolledBack THEN @ + 1 ELSE @]

(* finish(): once for each token, on each way out of the call.             *)
FinishCall(c, outcome, elapsed, truncated, rolledBack) ==
    /\ token[c] # NoCall
    /\ SetMetrics(token[c], Recorded(At(token[c]), outcome, elapsed, truncated, rolledBack))
    /\ token' = [token EXCEPT ![c] = NoCall]
    /\ UNCHANGED <<countedAs, made>>

RegistryNext == \E c \in Clients :
    \/ \E n \in ToolNames : StartCall(c, n)
    \/ \E o \in ToolOutcome, e \in 1..(Buckets + 1), t, r \in BOOLEAN :
         FinishCall(c, o, e, t, r)

RegistrySpec == RegistryInit /\ [][RegistryNext]_registryVars

-----------------------------------------------------------------------------
(* "pgsql_mcp_tool_active Active MCP tool calls": the gauge of a label is  *)
(* the number of its calls in flight, so that it returns to zero whatever  *)
(* way the calls end.                                                      *)
ActiveIsInFlight ==
    \A l \in Labels :
        At(l).active = Cardinality({c \in Clients : token[c] = l})

(* The number of labels is bounded whatever names clients ask for, and a   *)
(* name that got a label is counted under it for ever: a series that a     *)
(* reader of the metrics follows does not move to another label.           *)
LabelsAreBoundedAndKept ==
    /\ Cardinality(DOMAIN metrics) <= MaxTools + 1
    /\ \A n \in ToolNames : countedAs[n] # NoCall => SelectTool(n) = countedAs[n]

(* The histogram is cumulative and agrees with the counts by outcome.      *)
HistogramIsCumulative ==
    \A l \in DOMAIN metrics :
        LET m == metrics[l] IN
        /\ \A a, b \in 1..Buckets : a <= b => m.buckets[a] <= m.buckets[b]
        /\ \A b \in 1..Buckets : m.buckets[b] <= m.count
=============================================================================
