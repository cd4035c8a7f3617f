------------------------------ MODULE Replication ------------------------------
(***************************************************************************)
(* The failover assessment of replication/: one read-only transaction      *)
(* reads the node's settings and then, each under a savepoint, the         *)
(* catalogs that the role may not be allowed to see; the assessment is     *)
(* made of what was read.  The statistics views are live: the node goes on *)
(* changing between two of them, and may be promoted.                      *)
(***************************************************************************)
EXTENDS Integers, Sequences, FiniteSets

CONSTANTS
    Nodes,              \* what a node may be like: see the fields below
    Grants,             \* sets of the catalogs that the role may read
    RowLimits,
    Warning, Critical,  \* thresholds; one scale for bytes and seconds
    MaxChanges,         \* bound on the changes of the node during a capture
    None

(* What the rows of the catalogs say, as far as the assessment looks.      *)
Amount == Nat \cup {None}
ReplicationStandby == [state : STRING, bytes : Amount, seconds : Amount, unnamed : BOOLEAN]
ReplicationSlot == [active : BOOLEAN, conflicting : BOOLEAN, lost : BOOLEAN, retained : Amount]
WalReceiver == STRING
LogicalSubscription == {"active", "idle"}
Publication == STRING

ReplicationTopology(t) ==
    /\ {t.inRecovery, t.paused, t.synchronous} \subseteq BOOLEAN /\ t.lag \in Amount
    /\ t.standbys \in Seq(ReplicationStandby) /\ t.slots \in Seq(ReplicationSlot)
    /\ t.receiver \in Seq(WalReceiver) /\ t.subscriptions \in Seq(LogicalSubscription)
    /\ t.publications \in Seq(Publication)

ReplicationThresholds == Warning \in Nat /\ Critical \in Nat /\ Warning <= Critical

ASSUME ThresholdAssumption == ReplicationThresholds
ASSUME NodesAssumption == \A n \in Nodes : ReplicationTopology(n)
ASSUME LimitAssumption == RowLimits \subseteq 1..100
ASSUME NoneAssumption == None \notin {"ready", "warning", "critical", "error"}

VARIABLES
    node,        \* inRecovery, paused, lag, synchronous, and the catalogs
    granted, limit,
    step,        \* 0, the catalog to be read next, AtRollback or Done
    transaction, \* "none" or "open"
    topology,    \* catalog -> the rows read
    unavailable, \* the catalogs that were hidden
    was,         \* the rows of the catalogs when they were read; history
    changes,     \* of the node, so far
    faults,      \* what went wrong outside the program; history
    assessment   \* None, "ready", "warning", "critical" or "error"

replVars == <<node, granted, limit, step, transaction, topology, unavailable, was, changes, faults, assessment>>

(* In the order of capture().  Each is a field of the node, a sequence.    *)
Catalogs == <<"standbys", "slots", "receiver", "subscriptions", "publications">>
AtRollback == Len(Catalogs) + 1
Done == Len(Catalogs) + 2

-----------------------------------------------------------------------------
(* assess_failover_readiness(): the severities of what is found.           *)
SeverityFor(value) ==
    IF value = None THEN {}
    ELSE IF value >= Critical THEN {"critical"}
    ELSE IF value >= Warning THEN {"warning"} ELSE {}

StandbyFindings(t) ==
    (IF t.receiver = <<>> \/ t.receiver[1] # "streaming" THEN {"critical"} ELSE {})
      \cup (IF t.paused THEN {"critical"} ELSE {}) \cup SeverityFor(t.lag)

PrimaryFindings(t) == IF t.synchronous /\ t.standbys = <<>> THEN {"critical"} ELSE {}

SenderFindings(s) ==
    (IF s.state # "streaming" THEN {"warning"} ELSE {})
      \cup SeverityFor(s.bytes) \cup SeverityFor(s.seconds)

SlotFindings(s) ==
    (IF s.conflicting \/ s.lost THEN {"critical"} ELSE {})
      \cup (IF s.active THEN {} ELSE SeverityFor(s.retained))

Severities(t, hidden) ==
    (IF t.inRecovery THEN StandbyFindings(t) ELSE PrimaryFindings(t))
      \cup (UNION {SenderFindings(t.standbys[k]) : k \in DOMAIN t.standbys})
      \cup (UNION {SlotFindings(t.slots[k]) : k \in DOMAIN t.slots})
      \cup {"warning" : k \in {k \in DOMAIN t.subscriptions : t.subscriptions[k] = "idle"}}
      \cup (IF hidden # {} THEN {"warning"} ELSE {})

Assessed(t, hidden) ==
    IF "critical" \in Severities(t, hidden) THEN "critical"
    ELSE IF "warning" \in Severities(t, hidden) THEN "warning" ELSE "ready"

-----------------------------------------------------------------------------
(* capture()                                                               *)
BeginSnapshot ==
    /\ step = 0 /\ step' = 1 /\ transaction' = "open"
    /\ topology' = [f \in {"inRecovery", "paused", "lag", "synchronous"} |->
                      IF f = "synchronous" \/ node.inRecovery THEN node[f]
                      ELSE IF f = "lag" THEN None ELSE FALSE]
    /\ was' = <<>>
    /\ UNCHANGED <<node, granted, limit, unavailable, changes, faults, assessment>>

(* Of a catalog: at most limit rows, and one receiver.                     *)
Rows(catalog) ==
    SubSeq(node[catalog], 1,
           IF catalog = "receiver" /\ Len(node[catalog]) > 1 THEN 1
           ELSE IF Len(node[catalog]) > limit THEN limit ELSE Len(node[catalog]))

(* The lag of a sender and the WAL of a slot are counted from              *)
(* pg_current_wal_lsn(), which is an error in recovery.  For slots the     *)
(* statement looks first.                                                  *)
NotInRecovery(catalog) ==
    /\ catalog = "standbys" /\ node.inRecovery
    /\ \E k \in DOMAIN node.standbys : node.standbys[k].bytes # None

Shown(catalog) ==
    IF catalog = "slots" /\ node.inRecovery
    THEN [k \in DOMAIN Rows(catalog) |-> [Rows(catalog)[k] EXCEPT !.retained = None]]
    ELSE Rows(catalog)

With(t, field, value) == [f \in DOMAIN t \cup {field} |-> IF f = field THEN value ELSE t[f]]

(* Wrong on purpose: a hidden catalog is the same as an empty one.         *)
HideSilently(catalog) ==
    /\ topology' = With(topology, catalog, <<>>)
    /\ UNCHANGED unavailable

(* _optional_rows(): the savepoint is rolled back to and released.         *)
Hide(catalog) ==
    /\ topology' = With(topology, catalog, <<>>)
    /\ unavailable' = unavailable \cup {catalog}

Show(catalog) ==
    /\ topology' = With(topology, catalog, Shown(catalog))
    /\ UNCHANGED unavailable

OptionalRows ==
    /\ step \in DOMAIN Catalogs
    /\ LET catalog == Catalogs[step] IN
       /\ IF catalog \in granted THEN ~ NotInRecovery(catalog) /\ Show(catalog) ELSE Hide(catalog)
       /\ step' = step + 1
       /\ was' = Append(was, node[catalog])
    /\ UNCHANGED <<node, granted, limit, transaction, changes, faults, assessment>>

(* topology_from_rows(): a standby has to have an application_name.        *)
Convertible(t) == \A k \in DOMAIN t.standbys : ~ t.standbys[k].unnamed

(* The error "recovery is in progress", a standby without a name, a lost   *)
(* connection, the timeout or a cancelled call: the transaction is rolled  *)
(* back, as far as it can be.                                              *)
Interrupted(fault, rolledBack) ==
    /\ step # Done
    /\ fault = "recovery" => step = 1 /\ "standbys" \in granted /\ NotInRecovery("standbys")
    /\ fault = "unnamed" => step = AtRollback /\ ~ Convertible(topology)
    /\ assessment' = "error" /\ step' = Done
    /\ transaction' = IF rolledBack THEN "none" ELSE transaction
    /\ faults' = faults \cup {fault} \cup (IF rolledBack THEN {} ELSE {"rollback"})
    /\ UNCHANGED <<node, granted, limit, topology, unavailable, was, changes>>

(* The snapshot is used only when its transaction is known to be over.     *)
Assess(rolledBack) ==
    /\ step = AtRollback /\ step' = Done /\ Convertible(topology)
    /\ transaction' = IF rolledBack THEN "none" ELSE transaction
    /\ faults' = IF rolledBack THEN faults ELSE faults \cup {"rollback"}
    /\ assessment' = IF rolledBack THEN Assessed(topology, unavailable) ELSE "error"
    /\ UNCHANGED <<node, granted, limit, topology, unavailable, was, changes>>

(* The node goes on: its rows change, and a standby may be promoted.       *)
NodeChanges(n) ==
    /\ step \notin {0, Done} /\ n # node
    /\ n.inRecovery => node.inRecovery
    /\ changes < MaxChanges /\ changes' = changes + 1
    /\ node' = n
    /\ UNCHANGED <<granted, limit, step, transaction, topology, unavailable, was, faults, assessment>>

ReplInit ==
    /\ node \in Nodes /\ granted \in Grants /\ limit \in RowLimits
    /\ step = 0 /\ transaction = "none"
    /\ topology = <<>> /\ unavailable = {} /\ was = <<>> /\ changes = 0 /\ faults = {}
    /\ assessment = None

ReplNext ==
    \/ BeginSnapshot \/ OptionalRows
    \/ \E b \in BOOLEAN :
         \/ Assess(b)
         \/ \E f \in {"recovery", "unnamed", "lost", "timeout", "cancelled"} : Interrupted(f, b)
    \/ \E n \in Nodes : NodeChanges(n)

-----------------------------------------------------------------------------
(* What would be trouble for a failover in a row of a catalog.             *)
High(value) == value # None /\ value >= Warning

Trouble(catalog, row) ==
    CASE catalog = "standbys" -> row.state # "streaming" \/ High(row.bytes) \/ High(row.seconds)
      [] catalog = "slots" -> row.conflicting \/ row.lost
      [] catalog = "receiver" -> FALSE
      [] catalog = "subscriptions" -> row = "idle"
      [] catalog = "publications" -> FALSE

(* "Answer-first assessment derived only from a captured topology": a node *)
(* is called ready only when every catalog could be read and showed        *)
(* nothing wrong within the limit at the moment it was read; a catalog     *)
(* that the role may not see does not lose the others or the answer; and   *)
(* no answer is given before the transaction is over.                      *)
AssessmentIsHonest ==
    /\ assessment = "ready" =>
         \A k \in DOMAIN Catalogs :
            /\ Catalogs[k] \in granted
            /\ LET rows == was[k] IN
               \A i \in DOMAIN rows : i <= limit => ~ Trouble(Catalogs[k], rows[i])
    /\ assessment = "error" => faults # {}
    /\ assessment \notin {None, "error"} => transaction = "none" /\ "rollback" \notin faults
=============================================================================
