----------------------------- MODULE ServerProofs -----------------------------
(***************************************************************************)
(* Theorems about the call boundary of Server and the registry behind it,  *)
(* for any number of concurrent calls, names of tools and labels.          *)
(***************************************************************************)
EXTENDS Server, FiniteSetTheorems, SequenceTheorems, SumTheorems, TLAPS

InFlight(l) == {c \in Clients : token[c] = l}

(* The labels in use are bounded, and a name that got one finds it again:  *)
(* because the label is there, or because there is no room for it.         *)
Room == Cardinality(Named) <= MaxTools

Kept ==
    \A n \in ToolNames : countedAs[n] # NoCall =>
        \/ countedAs[n] = SafeToolName(n) /\ SafeToolName(n) \in DOMAIN metrics
        \/ /\ countedAs[n] = OverflowLabel /\ SafeToolName(n) \notin DOMAIN metrics
           /\ OverflowLabel \in DOMAIN metrics
           /\ Cardinality(Named) >= MaxTools

Inv == RegistryTypeOK /\ ActiveIsInFlight /\ Room /\ Kept /\ HistogramIsCumulative

-----------------------------------------------------------------------------
(* What At returns, and what finish() does to the aggregates of a label.   *)
LEMMA NewMetricsType == NewMetrics \in ToolMetrics
BY DEF NewMetrics, ToolMetrics, ToolOutcome

LEMMA AtType ==
    ASSUME RegistryTypeOK, NEW l
    PROVE  At(l) \in ToolMetrics
BY NewMetricsType DEF RegistryTypeOK, At

LEMMA OneMore ==
    ASSUME NEW D, NEW f \in [D -> Nat], NEW x
    PROVE  [f EXCEPT ![x] = f[x] + 1] \in [D -> Nat]
<1>1. CASE x \in D
  BY <1>1
<1>2. CASE x \notin D
  BY <1>2
<1> QED
  BY <1>1, <1>2

LEMMA RecordedType ==
    ASSUME NEW m \in ToolMetrics, NEW o, NEW e \in 1..(Buckets + 1), NEW t, NEW r
    PROVE  LET n == Recorded(m, o, e, t, r) IN
           /\ n \in ToolMetrics
           /\ n.active = IF m.active = 0 THEN 0 ELSE m.active - 1
           /\ n.count = m.count + 1
           /\ \A b \in 1..Buckets : n.buckets[b] = IF e <= b THEN m.buckets[b] + 1 ELSE m.buckets[b]
<1>1. [m.outcomes EXCEPT ![o] = m.outcomes[o] + 1] \in [ToolOutcome -> Nat]
  BY OneMore DEF ToolMetrics
<1>2. [b \in 1..Buckets |-> IF e <= b THEN m.buckets[b] + 1 ELSE m.buckets[b]] \in [1..Buckets -> Nat]
  <2>1. m.buckets \in [1..Buckets -> Nat] /\ e \in Int
    BY RegistryAssumption DEF ToolMetrics, RegistryAssumption
  <2> QED
    BY <2>1, RegistryAssumption DEF RegistryAssumption
<1>3. (IF m.active = 0 THEN 0 ELSE m.active - 1) \in Nat
  BY DEF ToolMetrics
<1>4. (IF t THEN m.truncated + 1 ELSE m.truncated) \in Nat
  BY DEF ToolMetrics
<1>5. (IF r THEN m.rolledBack + 1 ELSE m.rolledBack) \in Nat
  BY DEF ToolMetrics
<1>6. m.count + 1 \in Nat
  BY DEF ToolMetrics
<1> QED
  BY <1>1, <1>2, <1>3, <1>4, <1>5, <1>6 DEF Recorded, ToolMetrics

Cumulative(m) ==
    /\ \A a, b \in 1..Buckets : a <= b => m.buckets[a] <= m.buckets[b]
    /\ \A b \in 1..Buckets : m.buckets[b] <= m.count

LEMMA AtCumulative ==
    ASSUME HistogramIsCumulative, NEW l
    PROVE  Cumulative(At(l))
<1>1. Cumulative(NewMetrics)
  BY DEF Cumulative, NewMetrics
<1> QED
  BY <1>1 DEF HistogramIsCumulative, Cumulative, At

LEMMA RecordedCumulative ==
    ASSUME NEW m \in ToolMetrics, Cumulative(m),
           NEW o, NEW e \in 1..(Buckets + 1), NEW t, NEW r
    PROVE  Cumulative(Recorded(m, o, e, t, r))
<1> DEFINE n == Recorded(m, o, e, t, r)
<1>1. /\ n.count = m.count + 1
      /\ \A b \in 1..Buckets : n.buckets[b] = IF e <= b THEN m.buckets[b] + 1 ELSE m.buckets[b]
  BY RecordedType
<1>2. /\ m.count \in Nat /\ \A b \in 1..Buckets : m.buckets[b] \in Nat
      /\ e \in Int
  BY RegistryAssumption DEF ToolMetrics, RegistryAssumption
<1> HIDE DEF n
<1>3. Cumulative(n)
  BY <1>1, <1>2, RegistryAssumption DEF Cumulative, RegistryAssumption
<1> QED
  BY <1>3 DEF n

(* A label gets new aggregates, and the others keep theirs.                *)
LEMMA SetMetricsType ==
    ASSUME RegistryTypeOK, NEW l \in Labels, NEW m \in ToolMetrics, SetMetrics(l, m)
    PROVE  /\ metrics' \in [DOMAIN metrics \cup {l} -> ToolMetrics]
           /\ DOMAIN metrics \cup {l} \in SUBSET Labels
           /\ At(l)' = m
           /\ \A k : k # l => At(k)' = At(k)
BY DEF RegistryTypeOK, SetMetrics, At

LEMMA LabelsAreLabels ==
    ASSUME NEW n \in ToolNames
    PROVE  SelectTool(n) \in Labels
BY DEF SelectTool, SafeToolName, Labels

LEMMA NamedIsFinite ==
    ASSUME RegistryTypeOK
    PROVE  IsFiniteSet(Named) /\ Cardinality(Named) \in Nat
<1>1. IsFiniteSet(Labels)
  <2>1. IsFiniteSet(ToolNames \cup {OverflowLabel})
    BY RegistryAssumption, FS_AddElement DEF RegistryAssumption
  <2>2. IsFiniteSet((ToolNames \cup {OverflowLabel}) \cup {InvalidLabel})
    BY <2>1, FS_AddElement
  <2>3. Labels = (ToolNames \cup {OverflowLabel}) \cup {InvalidLabel}
    BY DEF Labels
  <2> QED
    BY <2>2, <2>3
<1>2. Named \subseteq Labels
  BY DEF RegistryTypeOK, Named
<1> QED
  BY <1>1, <1>2, FS_Subset, FS_CardinalityType

-----------------------------------------------------------------------------
(* No call was made initially.                                             *)
LEMMA InvInit == ServerInit => Inv
<1> SUFFICES ASSUME ServerInit
             PROVE  Inv
  OBVIOUS
<1>0. /\ metrics = [l \in {} |-> NewMetrics] /\ DOMAIN metrics = {}
      /\ token = [c \in Clients |-> NoCall] /\ countedAs = [n \in ToolNames |-> NoCall] /\ made = 0
  BY DEF ServerInit, RegistryInit
<1>1. RegistryTypeOK
  BY <1>0, RegistryAssumption DEF RegistryTypeOK, RegistryAssumption
<1>2. ActiveIsInFlight
  <2> SUFFICES ASSUME NEW l \in Labels
               PROVE  At(l).active = Cardinality({c \in Clients : token[c] = l})
    BY DEF ActiveIsInFlight
  <2>1. {c \in Clients : token[c] = l} = {}
    BY <1>0, RegistryAssumption DEF RegistryAssumption
  <2>2. At(l).active = 0
    BY <1>0 DEF At, NewMetrics
  <2> QED
    BY <2>1, <2>2, FS_EmptySet
<1>3. Room
  <2>1. Named = {}
    BY <1>0 DEF Named
  <2> QED
    BY <2>1, FS_EmptySet, RegistryAssumption DEF Room, RegistryAssumption
<1>4. Kept
  BY <1>0 DEF Kept
<1>5. HistogramIsCumulative
  BY <1>0 DEF HistogramIsCumulative
<1> QED
  BY <1>1, <1>2, <1>3, <1>4, <1>5 DEF Inv

-----------------------------------------------------------------------------
(* start() and finish() give a label new aggregates that are cumulative.   *)
LEMMA CumulativeKept ==
    ASSUME Inv, NEW l \in Labels, NEW m \in ToolMetrics, SetMetrics(l, m), Cumulative(m)
    PROVE  HistogramIsCumulative'
BY DEF Inv, RegistryTypeOK, SetMetrics, HistogramIsCumulative, Cumulative

(* A started call is one more of its label, and of no other one.           *)
LEMMA StartActive ==
    ASSUME Inv, NEW c \in Clients, NEW l \in Labels, token[c] = NoCall,
           token' = [token EXCEPT ![c] = l],
           At(l)'.active = At(l).active + 1, \A k : k # l => At(k)' = At(k)
    PROVE  ActiveIsInFlight'
<1>1. \A k \in Labels : IsFiniteSet(InFlight(k)) /\ InFlight(k) \subseteq Clients
  BY RegistryAssumption, FS_Subset DEF RegistryAssumption, InFlight
<1>2. token \in [Clients -> Labels \cup {NoCall}]
  BY DEF Inv, RegistryTypeOK
<1>3. c \notin InFlight(l) /\ InFlight(l)' = InFlight(l) \cup {c}
  BY <1>2, RegistryAssumption DEF RegistryAssumption, InFlight
<1>4. \A k \in Labels : k # l => InFlight(k)' = InFlight(k)
  BY <1>2, RegistryAssumption DEF RegistryAssumption, InFlight
<1>5. \A k \in Labels : At(k).active = Cardinality(InFlight(k))
  BY DEF Inv, ActiveIsInFlight, InFlight
<1>6. Cardinality(InFlight(l)') = Cardinality(InFlight(l)) + 1
  BY <1>1, <1>3, FS_AddElement
<1>7. \A k \in Labels : At(k)'.active = Cardinality(InFlight(k)')
  BY <1>4, <1>5, <1>6
<1> QED
  BY <1>7 DEF ActiveIsInFlight, InFlight

(* The label of a call in flight is there, and has it among its active     *)
(* ones; a finished call is one less.                                      *)
LEMMA InFlightIsActive ==
    ASSUME Inv, NEW c \in Clients, token[c] # NoCall
    PROVE  /\ token[c] \in Labels /\ token[c] \in DOMAIN metrics
           /\ At(token[c]).active # 0
<1>1. token[c] \in Labels
  BY DEF Inv, RegistryTypeOK
<1>2. IsFiniteSet(InFlight(token[c])) /\ InFlight(token[c]) # {}
  BY RegistryAssumption, FS_Subset DEF RegistryAssumption, InFlight
<1>3. At(token[c]).active # 0
  BY <1>1, <1>2, FS_EmptySet DEF Inv, ActiveIsInFlight, InFlight
<1> QED
  BY <1>1, <1>3 DEF At, NewMetrics

LEMMA FinishActive ==
    ASSUME Inv, NEW c \in Clients, NEW l \in Labels, token[c] = l,
           token' = [token EXCEPT ![c] = NoCall],
           At(l)'.active = At(l).active - 1, \A k : k # l => At(k)' = At(k)
    PROVE  ActiveIsInFlight'
<1>1. \A k \in Labels : IsFiniteSet(InFlight(k)) /\ InFlight(k) \subseteq Clients
  BY RegistryAssumption, FS_Subset DEF RegistryAssumption, InFlight
<1>2. token \in [Clients -> Labels \cup {NoCall}] /\ l \in Labels
  BY DEF Inv, RegistryTypeOK
<1>3. c \in InFlight(l) /\ InFlight(l)' = InFlight(l) \ {c}
  BY <1>2, RegistryAssumption DEF RegistryAssumption, InFlight
<1>4. \A k \in Labels : k # l => InFlight(k)' = InFlight(k)
  BY <1>2, RegistryAssumption DEF RegistryAssumption, InFlight
<1>5. \A k \in Labels : At(k).active = Cardinality(InFlight(k))
  BY DEF Inv, ActiveIsInFlight, InFlight
<1>6. Cardinality(InFlight(l)') = Cardinality(InFlight(l)) - 1
  BY <1>1, <1>2, <1>3, FS_RemoveElement
<1>7. \A k \in Labels : At(k)'.active = Cardinality(InFlight(k)')
  BY <1>2, <1>4, <1>5, <1>6
<1> QED
  BY <1>7 DEF ActiveIsInFlight, InFlight

-----------------------------------------------------------------------------
(* start() of one more call keeps the invariant.                           *)
LEMMA StartInv ==
    ASSUME Inv, NEW c \in Clients, NEW n \in ToolNames, StartCall(c, n)
    PROVE  Inv'
<1>label. PICK l \in Labels : l = SelectTool(n)
  BY LabelsAreLabels
<1>new. PICK m : m = [At(l) EXCEPT !.active = @ + 1]
  OBVIOUS
<1>0. RegistryTypeOK /\ At(l) \in ToolMetrics
  BY AtType DEF Inv
<1>1. m \in ToolMetrics /\ m.active = At(l).active + 1
  BY <1>0, <1>new DEF ToolMetrics
<1>2. Cumulative(m)
  <2>1. Cumulative(At(l))
    BY AtCumulative DEF Inv
  <2> QED
    BY <1>0, <1>new, <2>1 DEF Cumulative, ToolMetrics
<1>3. /\ token[c] = NoCall /\ made < MaxCalls /\ SetMetrics(l, m)
      /\ token' = [token EXCEPT ![c] = l]
      /\ countedAs' = [countedAs EXCEPT ![n] = IF @ = NoCall THEN l ELSE @]
      /\ made' = made + 1
  BY <1>label, <1>new DEF StartCall
<1>4. \/ l = SafeToolName(n) /\ (l \in DOMAIN metrics \/ Cardinality(Named) < MaxTools)
      \/ /\ l = OverflowLabel /\ SafeToolName(n) \notin DOMAIN metrics
         /\ ~ (Cardinality(Named) < MaxTools)
  BY <1>label DEF SelectTool
<1>5. /\ metrics' \in [DOMAIN metrics \cup {l} -> ToolMetrics]
      /\ DOMAIN metrics \cup {l} \in SUBSET Labels
      /\ At(l)' = m /\ \A k : k # l => At(k)' = At(k)
  BY <1>0, <1>1, <1>3, SetMetricsType
<1>6. RegistryTypeOK'
  <2>1. \E S \in SUBSET Labels : metrics' \in [S -> ToolMetrics]
    BY <1>5
  <2>2. /\ token' \in [Clients -> Labels \cup {NoCall}]
        /\ countedAs' \in [ToolNames -> Labels \cup {NoCall}]
    BY <1>0, <1>3 DEF RegistryTypeOK
  <2>3. made' \in 0..MaxCalls
    BY <1>0, <1>3, RegistryAssumption DEF RegistryTypeOK, RegistryAssumption
  <2> QED
    BY <2>1, <2>2, <2>3 DEF RegistryTypeOK, ToolMetrics, ToolOutcome
<1>7. ActiveIsInFlight'
  BY <1>0, <1>1, <1>3, <1>5, StartActive
<1>8. DOMAIN metrics' = DOMAIN metrics \cup {l} /\ Named' = DOMAIN metrics' \ {OverflowLabel}
  BY <1>5 DEF Named
<1>9. IsFiniteSet(Named) /\ Cardinality(Named) \in Nat
  BY <1>0, NamedIsFinite
<1>10. Room'
  <2>1. CASE l \in DOMAIN metrics \/ l = OverflowLabel
    <3>1. Named' = Named
      BY <1>8, <2>1 DEF Named
    <3> QED
      BY <3>1 DEF Inv, Room
  <2>2. CASE l \notin DOMAIN metrics /\ l # OverflowLabel
    <3>1. Cardinality(Named) < MaxTools
      BY <1>4, <2>2
    <3>2. Named' = Named \cup {l} /\ l \notin Named
      BY <1>8, <2>2 DEF Named
    <3>3. Cardinality(Named') = Cardinality(Named) + 1
      BY <1>9, <3>2, FS_AddElement
    <3> QED
      BY <1>9, <3>1, <3>3, RegistryAssumption DEF Room, RegistryAssumption
  <2> QED
    BY <2>1, <2>2
<1>11. Kept'
  <2> SUFFICES ASSUME NEW k \in ToolNames, countedAs'[k] # NoCall
               PROVE  \/ countedAs'[k] = SafeToolName(k) /\ SafeToolName(k) \in DOMAIN metrics'
                      \/ /\ countedAs'[k] = OverflowLabel /\ SafeToolName(k) \notin DOMAIN metrics'
                         /\ OverflowLabel \in DOMAIN metrics'
                         /\ Cardinality(Named') >= MaxTools
    BY DEF Kept, SafeToolName
  <2>0. countedAs \in [ToolNames -> Labels \cup {NoCall}]
    BY <1>0 DEF RegistryTypeOK
  <2>1. CASE k = n /\ countedAs[n] = NoCall
    <3>1. countedAs'[k] = l
      BY <1>3, <2>0, <2>1
    <3>2. CASE l = SafeToolName(n)
      BY <1>8, <2>1, <3>1, <3>2
    <3>3. CASE l # SafeToolName(n)
      <4>1. /\ l = OverflowLabel /\ SafeToolName(n) \notin DOMAIN metrics
            /\ ~ (Cardinality(Named) < MaxTools)
        BY <1>4, <3>3
      <4>2. Named' = Named /\ SafeToolName(n) \notin DOMAIN metrics'
        BY <1>8, <3>3, <4>1 DEF Named
      <4>3. Cardinality(Named') >= MaxTools
        BY <1>9, <4>1, <4>2, RegistryAssumption DEF RegistryAssumption
      <4> QED
        BY <1>8, <2>1, <3>1, <4>1, <4>2, <4>3
    <3> QED
      BY <3>2, <3>3
  <2>2. CASE ~ (k = n /\ countedAs[n] = NoCall)
    <3>1. countedAs'[k] = countedAs[k]
      BY <1>3, <2>0, <2>2
    <3>2. CASE countedAs[k] = SafeToolName(k) /\ SafeToolName(k) \in DOMAIN metrics
      BY <1>8, <3>1, <3>2
    <3>3. CASE /\ countedAs[k] = OverflowLabel /\ SafeToolName(k) \notin DOMAIN metrics
               /\ OverflowLabel \in DOMAIN metrics /\ Cardinality(Named) >= MaxTools
      <4>1. l \in DOMAIN metrics
        BY <1>4, <1>9, <3>3, RegistryAssumption DEF RegistryAssumption
      <4>2. DOMAIN metrics' = DOMAIN metrics /\ Named' = Named
        BY <1>8, <4>1 DEF Named
      <4> QED
        BY <3>1, <3>3, <4>2
    <3> QED
      BY <2>2, <3>1, <3>2, <3>3 DEF Inv, Kept
  <2> QED
    BY <2>1, <2>2
<1>12. HistogramIsCumulative'
  BY <1>0, <1>1, <1>2, <1>3, CumulativeKept
<1> QED
  BY <1>6, <1>7, <1>10, <1>11, <1>12 DEF Inv

(* finish() keeps it, whatever the outcome is called.                      *)
LEMMA FinishInv ==
    ASSUME Inv, NEW c \in Clients, NEW o, NEW e \in 1..(Buckets + 1), NEW t, NEW r,
           FinishCall(c, o, e, t, r)
    PROVE  Inv'
<1>label. PICK l : l = token[c]
  OBVIOUS
<1>new. PICK m : m = Recorded(At(l), o, e, t, r)
  OBVIOUS
<1>1. /\ l # NoCall /\ SetMetrics(l, m) /\ token' = [token EXCEPT ![c] = NoCall]
      /\ UNCHANGED <<countedAs, made>>
  BY <1>label, <1>new DEF FinishCall
<1>2. RegistryTypeOK /\ l \in Labels /\ l \in DOMAIN metrics /\ At(l).active # 0
      /\ At(l) \in ToolMetrics
  BY <1>label, <1>1, InFlightIsActive, AtType DEF Inv
<1>3. m \in ToolMetrics /\ m.active = At(l).active - 1
  BY <1>new, <1>2, RecordedType
<1>4. Cumulative(m)
  BY <1>new, <1>2, AtCumulative, RecordedCumulative DEF Inv
<1>5. /\ metrics' \in [DOMAIN metrics -> ToolMetrics] /\ DOMAIN metrics \in SUBSET Labels
      /\ At(l)' = m /\ \A k : k # l => At(k)' = At(k)
  <2>1. DOMAIN metrics \cup {l} = DOMAIN metrics
    BY <1>2
  <2> QED
    BY <1>1, <1>2, <1>3, <2>1, SetMetricsType
<1>6. RegistryTypeOK'
  <2>1. \E S \in SUBSET Labels : metrics' \in [S -> ToolMetrics]
    BY <1>5
  <2> QED
    BY <1>1, <1>2, <2>1 DEF RegistryTypeOK, ToolMetrics, ToolOutcome
<1>7. ActiveIsInFlight'
  <2>1. At(l)'.active = At(l).active - 1 /\ \A k : k # l => At(k)' = At(k)
    BY <1>3, <1>5
  <2>2. l \in Labels /\ token[c] = l /\ token' = [token EXCEPT ![c] = NoCall]
    BY <1>label, <1>1, <1>2
  <2> QED
    BY <2>1, <2>2, FinishActive
<1>8. DOMAIN metrics' = DOMAIN metrics /\ Named' = Named
  BY <1>5 DEF Named
<1>9. Room' /\ Kept'
  BY <1>1, <1>8 DEF Inv, Room, Kept, SafeToolName
<1>10. HistogramIsCumulative'
  BY <1>1, <1>2, <1>3, <1>4, CumulativeKept
<1> QED
  BY <1>6, <1>7, <1>9, <1>10 DEF Inv

-----------------------------------------------------------------------------
(* Every call of the boundary is a start, and every way out of it a finish. *)
LEMMA InvNext ==
    ASSUME Inv, [ServerNext]_serverVars
    PROVE  Inv'
<1>1. CASE UNCHANGED serverVars
  <2>1. UNCHANGED <<metrics, token, countedAs, made>>
    BY <1>1 DEF serverVars
  <2>2. RegistryTypeOK'
    BY <2>1 DEF Inv, RegistryTypeOK, ToolMetrics, ToolOutcome
  <2>3. ActiveIsInFlight'
    BY <2>1 DEF Inv, ActiveIsInFlight, At, NewMetrics
  <2>4. Room' /\ Kept'
    BY <2>1 DEF Inv, Room, Named, Kept, SafeToolName
  <2>5. HistogramIsCumulative'
    BY <2>1 DEF Inv, HistogramIsCumulative
  <2> QED
    BY <2>2, <2>3, <2>4, <2>5 DEF Inv
<1>2. ASSUME NEW c \in Clients, NEW n \in ToolNames, Call(c, n)
      PROVE  Inv'
  BY <1>2, StartInv DEF Call
<1>3. ASSUME NEW c \in Clients, NEW e \in 1..(Buckets + 1), Cancel(c, e)
      PROVE  Inv'
  <2>1. FinishCall(c, "cancelled", e, FALSE, FALSE)
    BY <1>3 DEF Cancel
  <2> QED
    BY <2>1, FinishInv
<1>4. ASSUME NEW c \in Clients, NEW e \in 1..(Buckets + 1), NEW a, Return(c, a, e)
      PROVE  Inv'
  <2>1. \E o, t, r : FinishCall(c, o, e, t, r)
    BY <1>4 DEF Return
  <2> QED
    BY <2>1, FinishInv
<1> QED
  BY <1>1, <1>2, <1>3, <1>4 DEF ServerNext

(* The aggregates of every label are well typed.                           *)
THEOREM TypeCorrect == ServerSpec => []RegistryTypeOK
<1>1. Inv => RegistryTypeOK
  BY DEF Inv
<1> QED
  BY InvInit, InvNext, <1>1, PTL DEF ServerSpec

(* The gauge of active calls counts exactly the calls in flight, with any  *)
(* number of concurrent calls that return, raise or are cancelled: no call *)
(* is counted for ever and none is taken off twice.                        *)
THEOREM ActiveCallsAreCounted == ServerSpec => []ActiveIsInFlight
<1>1. Inv => ActiveIsInFlight
  BY DEF Inv
<1> QED
  BY InvInit, InvNext, <1>1, PTL DEF ServerSpec

(* Clients cannot make the metrics grow beyond max_tools and one label,    *)
(* whatever names they ask for, and a name keeps the label it was first    *)
(* counted under.                                                          *)
THEOREM LabelsAreBounded == ServerSpec => []LabelsAreBoundedAndKept
<1>1. Inv => LabelsAreBoundedAndKept
  <2> SUFFICES ASSUME Inv
               PROVE  LabelsAreBoundedAndKept
    OBVIOUS
  <2>1. IsFiniteSet(Named) /\ Cardinality(Named) \in Nat
    BY NamedIsFinite DEF Inv
  <2>2. Cardinality(DOMAIN metrics) <= MaxTools + 1
    <3>1. CASE OverflowLabel \in DOMAIN metrics
      <4>1. DOMAIN metrics = Named \cup {OverflowLabel} /\ OverflowLabel \notin Named
        BY <3>1 DEF Named
      <4>2. Cardinality(DOMAIN metrics) = Cardinality(Named) + 1
        BY <2>1, <4>1, FS_AddElement
      <4> QED
        BY <2>1, <4>2, RegistryAssumption DEF Inv, Room, RegistryAssumption
    <3>2. CASE OverflowLabel \notin DOMAIN metrics
      <4>1. DOMAIN metrics = Named
        BY <3>2 DEF Named
      <4> QED
        BY <2>1, <4>1, RegistryAssumption DEF Inv, Room, RegistryAssumption
    <3> QED
      BY <3>1, <3>2
  <2>3. ASSUME NEW n \in ToolNames, countedAs[n] # NoCall
        PROVE  SelectTool(n) = countedAs[n]
    <3>1. CASE countedAs[n] = SafeToolName(n) /\ SafeToolName(n) \in DOMAIN metrics
      BY <3>1 DEF SelectTool
    <3>2. CASE /\ countedAs[n] = OverflowLabel /\ SafeToolName(n) \notin DOMAIN metrics
               /\ Cardinality(Named) >= MaxTools
      <4>1. ~ (Cardinality(Named) < MaxTools)
        BY <2>1, <3>2, RegistryAssumption DEF RegistryAssumption
      <4> QED
        BY <3>2, <4>1 DEF SelectTool
    <3> QED
      BY <2>3, <3>1, <3>2 DEF Inv, Kept
  <2> QED
    BY <2>2, <2>3 DEF LabelsAreBoundedAndKept
<1> QED
  BY InvInit, InvNext, <1>1, PTL DEF ServerSpec

(* The duration histogram of every label is cumulative and stays within    *)
(* the number of its calls.                                                *)
THEOREM HistogramsAreCumulative == ServerSpec => []HistogramIsCumulative
<1>1. Inv => HistogramIsCumulative
  BY DEF Inv
<1> QED
  BY InvInit, InvNext, <1>1, PTL DEF ServerSpec

-----------------------------------------------------------------------------
(* The counters of an outcome over all labels are a sum, which changes by  *)
(* what is counted under one label.                                        *)
Counter(M, o) == [l \in DOMAIN M |-> M[l].outcomes[o]]
IsTotal(g, M, o) ==
    g = [s \in SUBSET DOMAIN M |-> IF s = {} THEN 0
                                   ELSE M[Pick(s)].outcomes[o] + g[s \ {Pick(s)}]]
TotalOf(M, o) == (CHOOSE r : IsTotal(r, M, o))[DOMAIN M]

LEMMA TotalDef ==
    ASSUME NEW o
    PROVE  Total(o) = TotalOf(metrics, o) /\ Total(o)' = TotalOf(metrics', o)
BY DEF Total, TotalOf, MapThenSumSet, MapThenFoldSet, IsTotal, Pick

LEMMA TotalIsSum ==
    ASSUME NEW M, IsFiniteSet(DOMAIN M), NEW o
    PROVE  TotalOf(M, o) = Sum(DOMAIN M, Counter(M, o))
<1> DEFINE D == DOMAIN M
           g == CHOOSE r : IsTotal(r, M, o)
           h == CHOOSE r : IsSum(r, D, Counter(M, o))
<1>1. TotalOf(M, o) = g[D]
  BY DEF TotalOf
<1>2. \A f : IsTotal(f, M, o) <=> IsSum(f, D, Counter(M, o))
  <2>1. \A s \in SUBSET D : s # {} => Counter(M, o)[Pick(s)] = M[Pick(s)].outcomes[o]
    BY PickIn DEF Counter
  <2> SUFFICES ASSUME NEW f
               PROVE  [s \in SUBSET D |-> IF s = {} THEN 0
                                          ELSE M[Pick(s)].outcomes[o] + f[s \ {Pick(s)}]]
                      = [s \in SUBSET D |-> IF s = {} THEN 0
                                            ELSE Counter(M, o)[Pick(s)] + f[s \ {Pick(s)}]]
    BY DEF IsTotal, IsSum
  <2> QED
    BY <2>1
<1>3. IsSum(h, D, Counter(M, o))
  BY SumIsSum
<1>4. IsSum(g, D, Counter(M, o))
  <2>1. IsTotal(h, M, o)
    BY <1>2, <1>3
  <2> HIDE DEF h
  <2>2. IsTotal(g, M, o)
    BY <2>1
  <2> HIDE DEF g
  <2> QED
    BY <1>2, <2>2
<1>5. h[D] = Sum(D, Counter(M, o))
  BY DEF Sum
<1> HIDE DEF g, h
<1>6. g[D] = h[D]
  BY <1>3, <1>4, SumsAgree
<1> QED
  BY <1>1, <1>5, <1>6

LEMMA LabelsAreFinite ==
    ASSUME RegistryTypeOK
    PROVE  IsFiniteSet(DOMAIN metrics)
<1>1. IsFiniteSet(Named \cup {OverflowLabel}) /\ DOMAIN metrics \subseteq Named \cup {OverflowLabel}
  BY NamedIsFinite, FS_AddElement DEF Named
<1> QED
  BY <1>1, FS_Subset

LEMMA TotalType ==
    ASSUME RegistryTypeOK, NEW o \in ToolOutcome
    PROVE  /\ Total(o) = Sum(DOMAIN metrics, Counter(metrics, o)) /\ Total(o) \in Nat
           /\ \A l \in DOMAIN metrics : Counter(metrics, o)[l] \in Nat
<1>1. \A l \in DOMAIN metrics : Counter(metrics, o)[l] \in Nat
  BY DEF Counter, RegistryTypeOK, ToolMetrics
<1>2. Total(o) = Sum(DOMAIN metrics, Counter(metrics, o))
  BY LabelsAreFinite, TotalIsSum, TotalDef
<1> QED
  BY <1>1, <1>2, LabelsAreFinite, SumNat

LEMMA TotalChange ==
    ASSUME RegistryTypeOK, NEW l \in Labels, NEW m \in ToolMetrics, SetMetrics(l, m),
           NEW o \in ToolOutcome, NEW d \in Nat, m.outcomes[o] = At(l).outcomes[o] + d
    PROVE  Total(o)' = Total(o) + d
<1> DEFINE D == DOMAIN metrics
           f == Counter(metrics, o)
           h == Counter(metrics', o)
<1>1. /\ DOMAIN metrics' = D \cup {l} /\ h[l] = m.outcomes[o]
      /\ \A k \in D \ {l} : h[k] = f[k]
  BY DEF SetMetrics, Counter
<1>2. /\ IsFiniteSet(D) /\ IsFiniteSet(D \cup {l}) /\ IsFiniteSet(D \ {l})
      /\ \A k \in D : f[k] \in Nat
  BY LabelsAreFinite, TotalType, FS_AddElement, FS_Subset
<1>3. Total(o)' = Sum(D \cup {l}, h) /\ \A k \in D \cup {l} : h[k] \in Nat
  <2>1. /\ Total(o)' = Sum(DOMAIN metrics', h)
        /\ \A k \in DOMAIN metrics' : h[k] \in Nat
    <3>1. TotalOf(metrics', o) = Sum(DOMAIN metrics', h)
      BY <1>1, <1>2, TotalIsSum
    <3>2. \A k \in DOMAIN metrics' : h[k] \in Nat
      <4>1. metrics' \in [D \cup {l} -> ToolMetrics]
        BY SetMetricsType
      <4> QED
        BY <4>1 DEF Counter, ToolMetrics
    <3> QED
      BY <3>1, <3>2, TotalDef
  <2> QED
    BY <1>1, <2>1
<1>4. Total(o) = Sum(D, f)
  BY TotalType
<1> HIDE DEF D, f, h
<1>5. Sum(D \cup {l}, h) = h[l] + Sum((D \cup {l}) \ {l}, h)
  BY <1>2, <1>3, SumTakeOut
<1>6. (D \cup {l}) \ {l} = D \ {l} /\ Sum(D \ {l}, h) = Sum(D \ {l}, f)
  BY <1>1, <1>2, SumCong
<1>7. Sum(D, f) = At(l).outcomes[o] + Sum(D \ {l}, f)
  <2>1. CASE l \in D
    <3>1. f[l] = At(l).outcomes[o]
      BY <2>1 DEF At, f, D, Counter
    <3> QED
      BY <1>2, <2>1, <3>1, SumTakeOut
  <2>2. CASE l \notin D
    <3>1. At(l).outcomes[o] = 0
      BY <2>2 DEF At, D, NewMetrics
    <3>2. Sum(D \ {l}, f) = Sum(D, f)
      <4>1. D \ {l} = D
        BY <2>2
      <4> QED
        BY <4>1
    <3>3. Sum(D, f) \in Nat
      BY <1>2, SumNat
    <3> QED
      BY <3>1, <3>2, <3>3
  <2> QED
    BY <2>1, <2>2
<1>8. At(l).outcomes[o] \in Nat /\ Sum(D \ {l}, f) \in Nat
  <2>1. At(l).outcomes[o] \in Nat
    BY AtType DEF ToolMetrics
  <2> QED
    BY <1>2, <2>1, SumNat
<1>9. PICK a \in Nat, r \in Nat : a = At(l).outcomes[o] /\ r = Sum(D \ {l}, f)
  BY <1>8
<1>10. Sum(D, f) = a + r /\ Sum(D \cup {l}, h) = (a + d) + r
  BY <1>1, <1>5, <1>6, <1>7, <1>9
<1> QED
  BY <1>3, <1>4, <1>9, <1>10

-----------------------------------------------------------------------------
(* classify_tool_result() of an answer with one item.                      *)
IsUpTo(f, result) ==
    f = [n \in 0..Len(result) |->
           IF n = 0 THEN Unclassified
           ELSE IF \E k \in 1..(n - 1) : result[k].kind = "error" THEN f[n - 1]
           ELSE Classified(result[n], f[n - 1])]

LEMMA ClassifyOne ==
    ASSUME NEW item
    PROVE  ClassifyToolResult(<<item>>) = Classified(item, Unclassified)
<1> DEFINE result == <<item>>
           f == CHOOSE g : IsUpTo(g, result)
           h == [n \in 0..1 |-> IF n = 0 THEN Unclassified ELSE Classified(item, Unclassified)]
<1>1. ClassifyToolResult(result) = f[Len(result)]
  BY DEF ClassifyToolResult, IsUpTo
<1>2. Len(result) = 1 /\ result[1] = item
  OBVIOUS
<1> HIDE DEF result
<1>3. IsUpTo(h, result)
  BY <1>2 DEF IsUpTo
<1>4. IsUpTo(f, result)
  <2> HIDE DEF h
  <2> QED
    BY <1>3
<1> HIDE DEF f
<1>5. f[0] = Unclassified
  BY <1>2, <1>4 DEF IsUpTo
<1>6. f[1] = Classified(result[1], f[0])
  BY <1>2, <1>4 DEF IsUpTo
<1> QED
  BY <1>1, <1>2, <1>5, <1>6 DEF result

(* The outcome under which it is right to count what happened.             *)
RightOutcome(happened) ==
    CASE happened \in {"refused", "echoed"} -> {"denied"}
      [] happened \in {"done", "told"} -> {"success"}
      [] happened \in {"failed", "again"} -> {"error"}
      [] happened = "unsure" -> {"error", "unknown"}
      [] happened = "cancelled" -> {"cancelled"}

(* The answer a tells what happened: as an exception, which is an error,   *)
(* or as one item that is classified rightly.                              *)
Tells(a) ==
    /\ a.happened \in Happenings \ {"cancelled"}
    /\ \/ a.result = <<>> /\ a.happened = "failed"
       \/ \E item : /\ a.result = <<item>>
                    /\ Classified(item, Unclassified).outcome \in RightOutcome(a.happened)

LEMMA AnswerTells ==
    ASSUME NEW h \in Happenings \ {"cancelled"}, NEW item,
           Classified(item, Unclassified).outcome \in RightOutcome(h)
    PROVE  Tells(Answer(h, item))
BY DEF Tells, Answer

LEMMA RaisedTells == Tells(Raised)
BY DEF Tells, Raised, Happenings

(* An error text is denied for its wording, be it a refusal or not.        *)
LEMMA ErrorsTell ==
    ASSUME NEW h \in {"failed", "unsure"}, NEW a \in Errors(h)
    PROVE  Tells(a)
<1>1. PICK w : a = Answer(IF SoundsRefused(w) THEN "echoed" ELSE h, ErrorText(w))
  BY DEF Errors
<1>2. Classified(ErrorText(w), Unclassified).outcome = IF SoundsRefused(w) THEN "denied" ELSE "error"
  BY DEF Classified, ErrorText, Item, Unclassified
<1>3. CASE SoundsRefused(w)
  BY <1>1, <1>2, <1>3, AnswerTells DEF RightOutcome, Happenings
<1>4. CASE ~ SoundsRefused(w)
  BY <1>1, <1>2, <1>4, AnswerTells DEF RightOutcome, Happenings
<1> QED
  BY <1>3, <1>4

LEMMA TextTells ==
    /\ Tells(Answer("done", Item)) /\ Tells(Answer("told", Item))
    /\ \A a \in Failed \cup Errors("unsure") : Tells(a)
    /\ \A a \in Refused(Unrestricted) \cup Refused({"disabled in restricted"}) : Tells(a)
<1>1. Classified(Item, Unclassified).outcome = "success"
  BY DEF Classified, Item, Unclassified
<1>2. Tells(Answer("done", Item)) /\ Tells(Answer("told", Item))
  BY <1>1, AnswerTells DEF RightOutcome, Happenings
<1>3. ASSUME NEW w, SoundsRefused(w)
      PROVE  Tells(Answer("refused", ErrorText(w)))
  <2>1. Classified(ErrorText(w), Unclassified).outcome = "denied"
    BY <1>3 DEF Classified, ErrorText, Item, Unclassified
  <2> QED
    BY <2>1, AnswerTells DEF RightOutcome, Happenings
<1>4. SoundsRefused(Unrestricted) /\ SoundsRefused({"disabled in restricted"})
  BY DEF SoundsRefused, Unrestricted
<1>5. \A a \in Refused(Unrestricted) \cup Refused({"disabled in restricted"}) : Tells(a)
  BY <1>3, <1>4 DEF Refused
<1> QED
  BY <1>2, <1>5, ErrorsTell DEF Failed

(* A payload is classified by its status, or by its error; a large one is  *)
(* not looked into, and is never a failure.                                *)
LEMMA ObjectTells ==
    ASSUME NEW h \in Happenings \ {"cancelled"}, NEW item, item.kind = "object",
           ~ item.large => StatusOutcome(item, "success") \in RightOutcome(h),
           item.large => h = "done"
    PROVE  Tells(Answer(h, item))
<1>1. Classified(item, Unclassified).outcome
        = IF item.large THEN "success" ELSE StatusOutcome(item, "success")
  BY DEF Classified, Unclassified
<1> QED
  BY <1>1, AnswerTells DEF RightOutcome

(* Every answer of every tool, in both access modes, tells what happened.  *)
LEMMA AnswersTell ==
    ASSUME NEW mode, NEW tool, NEW a \in Answers(mode, tool)
    PROVE  Tells(a)
<1> USE DEF Object, Item, StatusOutcome, RightOutcome, Happenings
<1>1. \A b \in Inspection : Tells(b)
  <2>1. Tells(Answer("done", Object("")))
    BY ObjectTells
  <2> QED
    BY <2>1, TextTells DEF Inspection
<1>2. \A b \in BoundedListing : Tells(b)
  <2>1. \A large \in BOOLEAN :
          Tells(Answer("done", [Object("") EXCEPT !.truncated = TRUE, !.large = large]))
    BY ObjectTells
  <2> QED
    BY <1>1, <2>1 DEF BoundedListing
<1>3. \A b \in SelectRows : Tells(b)
  BY <1>2, RaisedTells DEF SelectRows
<1>4. \A b \in MutateRows(mode) : Tells(b)
  <2>1. Tells(Answer("done", Object("")))
    BY ObjectTells
  <2> QED
    BY <2>1, TextTells, RaisedTells DEF MutateRows
<1>5. \A b \in ApplyMigration(mode) : Tells(b)
  <2>1. \A s \in {"applied", "already_applied", "rolled_back"} : Tells(Answer("done", Object(s)))
    BY ObjectTells
  <2>2. /\ Tells(Answer("unsure", [Object("failed") EXCEPT !.error = TRUE]))
        /\ Tells(Answer("failed", [Object("failed") EXCEPT !.error = TRUE, !.rolledBack = TRUE]))
    BY ObjectTells
  <2> QED
    BY <2>1, <2>2, TextTells DEF ApplyMigration
<1>6. \A b \in ApplyMaintenance(mode) : Tells(b)
  <2>1. /\ Tells(Answer("done", Object("succeeded")))
        /\ Tells(Answer("done", Object("already_succeeded")))
        /\ Tells(Answer("failed", [Object("failed") EXCEPT !.error = TRUE]))
        /\ Tells(Answer("unsure", [Object("unknown") EXCEPT !.error = TRUE]))
    BY ObjectTells
  <2> QED
    BY <2>1, TextTells DEF ApplyMaintenance
<1>7. \A b \in ReconcileMaintenance(mode) : Tells(b)
  <2>1. \A s \in {"reconciled_succeeded", "reconciled_failed", "already_succeeded"} :
          Tells(Answer("done", Object(s)))
    BY ObjectTells
  <2>2. /\ Tells(Answer("again", Object("failed")))
        /\ Tells(Answer("unsure", [Object("unknown") EXCEPT !.error = TRUE]))
    BY ObjectTells
  <2> QED
    BY <2>1, <2>2, TextTells DEF ReconcileMaintenance
<1>8. \A b \in ExplainQuery(mode) : Tells(b)
  BY TextTells DEF ExplainQuery
<1>9. \A b \in ExecuteTransaction : Tells(b)
  <2>1. /\ Tells(Answer("done", Object("")))
        /\ \A h \in {"failed", "unsure"} :
             Tells(Answer(h, [Object("") EXCEPT !.error = TRUE, !.rolledBack = TRUE]))
    BY ObjectTells
  <2> QED
    BY <2>1, TextTells DEF ExecuteTransaction
<1>10. \A b \in AnalyzeIndexes : Tells(b)
  <2>1. /\ Tells(Answer("done", Object("")))
        /\ Tells(Answer("failed", [Object("") EXCEPT !.error = TRUE]))
    BY ObjectTells
  <2> QED
    BY <2>1, TextTells DEF AnalyzeIndexes
<1>11. \A b \in AnalyzeHealth \cup TopQueries : Tells(b)
  BY TextTells DEF AnalyzeHealth, TopQueries
<1>12. tool \in Tools \/ a = Raised
  BY DEF Answers, Registered
<1> QED
  BY <1>1, <1>2, <1>3, <1>4, <1>5, <1>6, <1>7, <1>8, <1>9, <1>10, <1>11, <1>12, RaisedTells
  DEF Answers, Registered, Tools, ExecuteSql

-----------------------------------------------------------------------------
OutcomesInv == did \in [Happenings -> Nat] /\ OutcomesAreWhatHappened

(* No label, no call.                                                      *)
LEMMA OutcomesInit == ServerInit => OutcomesInv
<1> SUFFICES ASSUME ServerInit
             PROVE  OutcomesInv
  OBVIOUS
<1>1. DOMAIN metrics = {} /\ did = [h \in Happenings |-> 0]
  BY DEF ServerInit, RegistryInit
<1>2. \A o \in ToolOutcome : Total(o) = 0
  <2> TAKE o \in ToolOutcome
  <2>1. RegistryTypeOK
    BY InvInit DEF Inv
  <2>2. Total(o) = Sum({}, Counter(metrics, o))
    BY <1>1, <2>1, TotalType
  <2> QED
    BY <2>2, SumEq, FS_EmptySet
<1> QED
  BY <1>1, <1>2 DEF OutcomesInv, OutcomesAreWhatHappened, Happenings, ToolOutcome

(* start() counts no outcome.                                              *)
LEMMA StartCounts ==
    ASSUME Inv, NEW c \in Clients, NEW n \in ToolNames, StartCall(c, n),
           NEW o \in ToolOutcome
    PROVE  Total(o)' = Total(o)
<1>1. PICK l \in Labels : l = SelectTool(n)
  BY LabelsAreLabels
<1>2. PICK m : m = [At(l) EXCEPT !.active = @ + 1]
  OBVIOUS
<1>3. RegistryTypeOK /\ At(l) \in ToolMetrics
  BY AtType DEF Inv
<1>4. m \in ToolMetrics /\ m.outcomes[o] = At(l).outcomes[o]
  BY <1>2, <1>3 DEF ToolMetrics
<1>5. SetMetrics(l, m)
  BY <1>1, <1>2 DEF StartCall
<1>6. m.outcomes[o] = At(l).outcomes[o] + 0
  BY <1>3, <1>4 DEF ToolMetrics
<1>7. Total(o)' = Total(o) + 0
  BY <1>3, <1>4, <1>5, <1>6, TotalChange
<1> QED
  BY <1>3, <1>7, TotalType

(* finish() counts one more of its outcome, and no other one.              *)
LEMMA FinishCounts ==
    ASSUME Inv, NEW c \in Clients, NEW o \in ToolOutcome, NEW e \in 1..(Buckets + 1),
           NEW t, NEW r, FinishCall(c, o, e, t, r), NEW k \in ToolOutcome
    PROVE  Total(k)' = Total(k) + IF k = o THEN 1 ELSE 0
<1>1. PICK l : l = token[c]
  OBVIOUS
<1>2. PICK m : m = Recorded(At(l), o, e, t, r)
  OBVIOUS
<1>3. SetMetrics(l, m) /\ token[c] # NoCall
  BY <1>1, <1>2 DEF FinishCall
<1>4. RegistryTypeOK /\ l \in Labels /\ At(l) \in ToolMetrics
  BY <1>1, <1>3, InFlightIsActive, AtType DEF Inv
<1>5. m \in ToolMetrics
  BY <1>2, <1>4, RecordedType
<1>6. m.outcomes[k] = At(l).outcomes[k] + IF k = o THEN 1 ELSE 0
  <2>1. At(l).outcomes \in [ToolOutcome -> Nat]
    BY <1>4 DEF ToolMetrics
  <2>2. m.outcomes = [At(l).outcomes EXCEPT ![o] = @ + 1]
    BY <1>2, <1>4 DEF Recorded, ToolMetrics
  <2> QED
    BY <2>1, <2>2
<1>7. (IF k = o THEN 1 ELSE 0) \in Nat
  OBVIOUS
<1> QED
  BY <1>3, <1>4, <1>5, <1>6, <1>7, TotalChange

(* A call that ended is counted under an outcome that is right for what    *)
(* happened to it.                                                         *)
LEMMA EndCounts ==
    ASSUME Inv, OutcomesInv, NEW c \in Clients, NEW h \in Happenings,
           NEW o \in RightOutcome(h), NEW e \in 1..(Buckets + 1), NEW t, NEW r,
           FinishCall(c, o, e, t, r), Ended(c, h)
    PROVE  OutcomesInv'
<1>1. o \in ToolOutcome
  BY DEF RightOutcome, ToolOutcome, Happenings
<1>2. \A k \in ToolOutcome : Total(k) \in Nat
  BY TotalType DEF Inv
<1>3. \A k \in ToolOutcome : Total(k)' = Total(k) + IF k = o THEN 1 ELSE 0
  BY <1>1, FinishCounts
<1>4. did \in [Happenings -> Nat] /\ did' = [did EXCEPT ![h] = @ + 1]
  BY DEF OutcomesInv, Ended
<1>5. did' \in [Happenings -> Nat]
  BY <1>4
<1>6. \A k \in Happenings : did'[k] = did[k] + IF k = h THEN 1 ELSE 0
  BY <1>4
<1>7. OutcomesAreWhatHappened'
  <2>1. /\ Total("denied") \in Nat /\ Total("cancelled") \in Nat /\ Total("success") \in Nat
        /\ Total("error") \in Nat /\ Total("unknown") \in Nat
    BY <1>2 DEF ToolOutcome
  <2>2. /\ Total("denied")' = Total("denied") + IF o = "denied" THEN 1 ELSE 0
        /\ Total("cancelled")' = Total("cancelled") + IF o = "cancelled" THEN 1 ELSE 0
        /\ Total("success")' = Total("success") + IF o = "success" THEN 1 ELSE 0
        /\ Total("error")' = Total("error") + IF o = "error" THEN 1 ELSE 0
        /\ Total("unknown")' = Total("unknown") + IF o = "unknown" THEN 1 ELSE 0
    BY <1>3 DEF ToolOutcome
  <2>3. \A k \in Happenings : did[k] \in Nat
    BY <1>4
  <2>4. OutcomesAreWhatHappened
    BY DEF OutcomesInv
  <2>5. /\ did'["done"] = did["done"] + IF h = "done" THEN 1 ELSE 0
        /\ did'["told"] = did["told"] + IF h = "told" THEN 1 ELSE 0
        /\ did'["refused"] = did["refused"] + IF h = "refused" THEN 1 ELSE 0
        /\ did'["echoed"] = did["echoed"] + IF h = "echoed" THEN 1 ELSE 0
        /\ did'["failed"] = did["failed"] + IF h = "failed" THEN 1 ELSE 0
        /\ did'["unsure"] = did["unsure"] + IF h = "unsure" THEN 1 ELSE 0
        /\ did'["again"] = did["again"] + IF h = "again" THEN 1 ELSE 0
        /\ did'["cancelled"] = did["cancelled"] + IF h = "cancelled" THEN 1 ELSE 0
    BY <1>6 DEF Happenings
  <2>6. /\ did["done"] \in Nat /\ did["told"] \in Nat /\ did["refused"] \in Nat
        /\ did["echoed"] \in Nat /\ did["failed"] \in Nat /\ did["unsure"] \in Nat
        /\ did["again"] \in Nat /\ did["cancelled"] \in Nat
    BY <2>3 DEF Happenings
  <2>7. CASE h = "refused" /\ o = "denied"
    BY <2>1, <2>2, <2>4, <2>5, <2>6, <2>7 DEF OutcomesAreWhatHappened
  <2>8. CASE h = "echoed" /\ o = "denied"
    BY <2>1, <2>2, <2>4, <2>5, <2>6, <2>8 DEF OutcomesAreWhatHappened
  <2>9. CASE h = "done" /\ o = "success"
    BY <2>1, <2>2, <2>4, <2>5, <2>6, <2>9 DEF OutcomesAreWhatHappened
  <2>10. CASE h = "told" /\ o = "success"
    BY <2>1, <2>2, <2>4, <2>5, <2>6, <2>10 DEF OutcomesAreWhatHappened
  <2>11. CASE h = "failed" /\ o = "error"
    BY <2>1, <2>2, <2>4, <2>5, <2>6, <2>11 DEF OutcomesAreWhatHappened
  <2>12. CASE h = "again" /\ o = "error"
    <3>1. /\ Total("denied")' = Total("denied") /\ Total("cancelled")' = Total("cancelled")
          /\ Total("success")' = Total("success") /\ Total("unknown")' = Total("unknown")
          /\ Total("error")' = Total("error") + 1
      BY <2>1, <2>2, <2>12
    <3>2. /\ did'["done"] = did["done"] /\ did'["told"] = did["told"]
          /\ did'["refused"] = did["refused"] /\ did'["echoed"] = did["echoed"]
          /\ did'["failed"] = did["failed"] /\ did'["unsure"] = did["unsure"]
          /\ did'["again"] = did["again"] + 1 /\ did'["cancelled"] = did["cancelled"]
      BY <2>5, <2>6, <2>12
    <3>3. /\ Total("denied") = did["refused"] + did["echoed"]
          /\ Total("cancelled") = did["cancelled"]
          /\ Total("success") = did["done"] + did["told"]
          /\ Total("error") + Total("unknown") = did["failed"] + did["unsure"] + did["again"]
          /\ Total("unknown") <= did["unsure"]
      BY <2>4 DEF OutcomesAreWhatHappened
    <3>4. Total("error")' + Total("unknown")' = did'["failed"] + did'["unsure"] + did'["again"]
      <4>1. PICK e0 \in Nat, u0 \in Nat, x0 \in Nat, y0 \in Nat, z0 \in Nat :
              /\ e0 = Total("error") /\ u0 = Total("unknown")
              /\ x0 = did["failed"] /\ y0 = did["unsure"] /\ z0 = did["again"]
        BY <2>1, <2>6
      <4>2. (e0 + 1) + u0 = x0 + y0 + (z0 + 1)
        BY <3>3, <4>1
      <4> QED
        BY <3>1, <3>2, <4>1, <4>2
    <3>5. /\ Total("denied")' = did'["refused"] + did'["echoed"]
          /\ Total("cancelled")' = did'["cancelled"]
          /\ Total("success")' = did'["done"] + did'["told"]
          /\ Total("unknown")' <= did'["unsure"]
      BY <3>1, <3>2, <3>3
    <3> QED
      BY <3>4, <3>5 DEF OutcomesAreWhatHappened
  <2>13. CASE h = "unsure" /\ o \in {"error", "unknown"}
    BY <2>1, <2>2, <2>4, <2>5, <2>6, <2>13 DEF OutcomesAreWhatHappened
  <2>14. CASE h = "cancelled" /\ o = "cancelled"
    BY <2>1, <2>2, <2>4, <2>5, <2>6, <2>14 DEF OutcomesAreWhatHappened
  <2> QED
    BY <2>7, <2>8, <2>9, <2>10, <2>11, <2>12, <2>13, <2>14 DEF RightOutcome, Happenings
<1> QED
  BY <1>5, <1>7 DEF OutcomesInv

LEMMA OutcomesNext ==
    ASSUME Inv, OutcomesInv, [ServerNext]_serverVars
    PROVE  OutcomesInv'
<1>1. CASE UNCHANGED serverVars
  <2>1. metrics' = metrics /\ did' = did
    BY <1>1 DEF serverVars
  <2>2. \A o \in ToolOutcome : Total(o)' = Total(o)
    BY <2>1, TotalDef
  <2> QED
    BY <2>1, <2>2 DEF OutcomesInv, OutcomesAreWhatHappened, ToolOutcome
<1>2. ASSUME NEW c \in Clients, NEW n \in ToolNames, Call(c, n)
      PROVE  OutcomesInv'
  <2>1. StartCall(c, n) /\ did' = did
    BY <1>2 DEF Call
  <2>2. \A o \in ToolOutcome : Total(o)' = Total(o)
    BY <2>1, StartCounts
  <2> QED
    BY <2>1, <2>2 DEF OutcomesInv, OutcomesAreWhatHappened, ToolOutcome
<1>3. ASSUME NEW c \in Clients, NEW e \in 1..(Buckets + 1), Cancel(c, e)
      PROVE  OutcomesInv'
  <2>1. /\ "cancelled" \in Happenings /\ "cancelled" \in RightOutcome("cancelled")
        /\ FinishCall(c, "cancelled", e, FALSE, FALSE) /\ Ended(c, "cancelled")
    BY <1>3 DEF Cancel, Happenings, RightOutcome
  <2> QED
    BY <2>1, EndCounts
<1>4. ASSUME NEW c \in Clients, NEW e \in 1..(Buckets + 1), NEW a, Return(c, a, e)
      PROVE  OutcomesInv'
  <2>1. a \in Answers(accessMode, running[c]) /\ Ended(c, a.happened)
    BY <1>4 DEF Return
  <2>2. Tells(a) /\ a.happened \in Happenings
    BY <2>1, AnswersTell DEF Tells
  <2>3. CASE a.result = <<>>
    <3>1. FinishCall(c, "error", e, FALSE, FALSE)
      BY <1>4, <2>3 DEF Return
    <3>2. "error" \in RightOutcome(a.happened)
      <4>1. a.happened = "failed"
        <5>1. \A item : a.result # <<item>>
          BY <2>3
        <5> QED
          BY <2>2, <5>1 DEF Tells
      <4> QED
        BY <4>1 DEF RightOutcome
    <3> QED
      BY <2>1, <2>2, <3>1, <3>2, EndCounts
  <2>4. CASE a.result # <<>>
    <3>1. PICK item : /\ a.result = <<item>>
                      /\ Classified(item, Unclassified).outcome \in RightOutcome(a.happened)
      BY <2>2, <2>4 DEF Tells
    <3>2. PICK o, t, r : FinishCall(c, o, e, t, r) /\ o = ClassifyToolResult(a.result).outcome
      BY <1>4, <2>4 DEF Return
    <3>3. o \in RightOutcome(a.happened)
      BY <3>1, <3>2, ClassifyOne
    <3> QED
      BY <2>1, <2>2, <3>2, <3>3, EndCounts
  <2> QED
    BY <2>3, <2>4
<1> QED
  BY <1>1, <1>2, <1>3, <1>4 DEF ServerNext

(* What classify_tool_result() counts, summed over all labels, is what     *)
(* happened to the calls, whichever tools are called in whichever access   *)
(* mode by any number of concurrent clients: every refused call is denied, *)
(* every cancelled one cancelled, only one in doubt is unknown, and the    *)
(* calls that are counted as what they are not are those three: a failure  *)
(* whose error repeats the wording of a refusal, a failure told in a text  *)
(* of the tool, and a failure resolved as one again.                       *)
THEOREM OutcomesAreCounted == ServerSpec => []OutcomesAreWhatHappened
<1>1. Inv /\ OutcomesInv /\ [ServerNext]_serverVars => (Inv /\ OutcomesInv)'
  BY InvNext, OutcomesNext
<1>2. OutcomesInv => OutcomesAreWhatHappened
  BY DEF OutcomesInv
<1> QED
  BY InvInit, OutcomesInit, <1>1, <1>2, PTL DEF ServerSpec
=============================================================================
