-------------------------- MODULE PolicyReloadProofs --------------------------
(***************************************************************************)
(* The safety of deciding while the policy is reloaded, for any number of  *)
(* workers, any contents of the three files and any risk policy.           *)
(***************************************************************************)
EXTENDS PolicyReload, Extrema, FiniteSetTheorems

(* The frame of every step: which variables travel together.               *)
USE DEF Step, Goto, disk, policy, reloader, workers

-----------------------------------------------------------------------------
(* What the engines compute.                                               *)

LEMMA NewEngineType == ASSUME NEW cfg \in ThresholdConfig PROVE NewEngine(cfg) \in ThresholdConfig
BY DefaultsAssumption DEF NewEngine, Filled, DefaultThresholds, ThresholdConfig, Ordered

(* The zone of a score is the zone of the decision on it, for the same     *)
(* thresholds (decision/engine.go:73-88, risk/engine.go:24-35).            *)
LEMMA ZoneIsZoneOfDecision ==
    ASSUME NEW t, NEW s PROVE Zone(s, t.green, t.yellow) = ZoneOf[Evaluate(s, t)]
BY DEF Zone, ZoneOf, Evaluate

LEMMA EvaluateType ==
    ASSUME NEW t, NEW s PROVE Evaluate(s, t) \in DOMAIN ZoneOf /\ Evaluate(s, t) # "none"
BY DEF ZoneOf, Evaluate

LEMMA OnlyOne ==
    ASSUME NEW S, IsFiniteSet(S), Cardinality(S) = 1, NEW x \in S, NEW y \in S PROVE x = y
BY FS_Singleton

-----------------------------------------------------------------------------
(* What the SIGHUP goroutine and the operator do is one of these.          *)
NotWork == Edit \/ SendHup \/ Reload

LEMMA StepKinds == Next => NotWork \/ \E w \in Workers : Work(w)
BY DEF Next, NotWork

LEMMA WorkFrame ==
    ASSUME NEW w \in Workers, Work(w)
    PROVE  /\ UNCHANGED <<config, autoFile, manualFile, edits, thresholds, allow, hup, rpc,
                          read, stale>>
           /\ Begin(w) \/ UNCHANGED seen
BY DEF Work, Begin, ClassifyEvent, Decide, ReadGreenMax, LogZone

(* Without an edit a reload brings memory in line with the files, whatever *)
(* the workers do meanwhile.                                               *)
LEMMA ReloadStep ==
    ASSUME ReadInv, ReloadTakesEffect, [Next]_vars PROVE ReadInv' /\ ReloadTakesEffect'
<1> USE DEF ReadInv, ReloadTakesEffect, InMemory
<1>1. CASE Edit
  BY <1>1 DEF Edit
<1>2. CASE SendHup
  BY <1>2 DEF SendHup
<1>3. CASE ReadConfig
  BY <1>3 DEF ReadConfig
<1>4. CASE UpdateThresholds
  BY <1>4 DEF UpdateThresholds
<1>5. CASE ReadAuto
  BY <1>5 DEF ReadAuto
<1>6. CASE Load
  BY <1>6 DEF Load
<1>7. CASE ReadManual
  BY <1>7 DEF ReadManual, Loaded
<1>8. CASE LoadMulti
  BY <1>8 DEF LoadMulti, Loaded
<1>9. ASSUME NEW w \in Workers, Work(w) PROVE ReadInv' /\ ReloadTakesEffect'
  BY <1>9, WorkFrame
<1>10. CASE UNCHANGED vars
  BY <1>10 DEF vars
<1> QED
  BY <1>1, <1>2, <1>3, <1>4, <1>5, <1>6, <1>7, <1>8, <1>9, <1>10 DEF Next, Reload

-----------------------------------------------------------------------------
(* One worker: what it has found out, and that its decision and its zone   *)
(* come from thresholds it has seen.                                       *)
Sound(w) ==
    /\ IsFiniteSet(seen[w])
    /\ pc[w] # "idle" => thresholds \in seen[w] /\ zone[w] = "none"
    /\ pc[w] \in {"classify", "decide"} => action[w] = "none"
    /\ pc[w] \in {"readGreen", "readYellow"} => action[w] # "none"
    /\ pc[w] = "readYellow" /\ Cardinality(seen[w]) = 1 => green[w] = thresholds.green
    /\ action[w] # "none" => \E t \in seen[w] : action[w] = Evaluate(score[w], t)
    /\ zone[w] # "none" /\ Cardinality(seen[w]) = 1 => zone[w] = ZoneOf[action[w]]

LEMMA SoundMeans ==
    WorkInv /\ DecisionFromOneConfig /\ ZoneMatchesDecision <=> \A w \in Workers : Sound(w)
BY DEF WorkInv, DecisionFromOneConfig, ZoneMatchesDecision, Sound

LEMMA SoundStep ==
    ASSUME TypeOK, [Next]_vars, NEW v \in Workers, Sound(v) PROVE Sound(v)'
<1> USE DEF TypeOK
<1>1. CASE UNCHANGED <<pc, seen, thresholds, action, score, green, zone>>
  BY <1>1 DEF Sound
<1>2. CASE Edit \/ SendHup \/ ReadConfig \/ ReadAuto \/ Load \/ ReadManual \/ LoadMulti
           \/ UNCHANGED vars
  BY <1>1, <1>2 DEF Edit, SendHup, ReadConfig, ReadAuto, Load, ReadManual, LoadMulti, vars
<1>3. CASE UpdateThresholds
  <2>1. UNCHANGED <<pc, action, score, green, zone>>
    BY <1>3 DEF UpdateThresholds
  <2>2. CASE pc[v] = "idle"
    <3>1. seen'[v] = seen[v]
      BY <1>3, <2>2 DEF UpdateThresholds
    <3> QED  BY <2>1, <2>2, <3>1 DEF Sound
  <2>3. CASE pc[v] # "idle"
    <3>1. seen'[v] = seen[v] \cup {thresholds'}
      BY <1>3, <2>3 DEF UpdateThresholds
    <3>2. IsFiniteSet(seen'[v])
      <4>1. IsFiniteSet(seen[v])  BY DEF Sound
      <4>2. IsFiniteSet(seen[v] \cup {thresholds'})  BY <4>1, FS_AddElement
      <4> QED  BY <3>1, <4>2
    <3>3. Cardinality(seen'[v]) = 1 => thresholds' = thresholds /\ seen'[v] = seen[v]
      BY <2>3, <3>1, <3>2, OnlyOne, SMTT(20) DEF Sound
    <3> QED  BY <2>1, <2>3, <3>1, <3>2, <3>3 DEF Sound
  <2> QED  BY <2>2, <2>3
<1>4. ASSUME NEW w \in Workers, Work(w), w # v PROVE Sound(v)'
  <2>1. /\ thresholds' = thresholds /\ pc'[v] = pc[v] /\ seen'[v] = seen[v]
        /\ action'[v] = action[v] /\ score'[v] = score[v] /\ green'[v] = green[v]
        /\ zone'[v] = zone[v]
    BY <1>4, WorkFrame DEF Work, Begin, ClassifyEvent, Decide, ReadGreenMax, LogZone
  <2> QED  BY <2>1 DEF Sound
<1>5. CASE Begin(v)
  <2>1. seen'[v] = {thresholds} /\ IsFiniteSet({thresholds})
    BY <1>5, FS_Singleton DEF Begin
  <2>2. pc'[v] = "classify" /\ action'[v] = "none" /\ zone'[v] = "none"
        /\ thresholds' = thresholds
    BY <1>5 DEF Begin
  <2> QED  BY <2>1, <2>2 DEF Sound
<1>6. CASE ClassifyEvent(v)
  BY <1>6 DEF ClassifyEvent, Sound
<1>7. CASE Decide(v)
  <2>1. /\ pc[v] = "decide" /\ pc'[v] = "readGreen"
        /\ action'[v] = Evaluate(score'[v], thresholds)
        /\ UNCHANGED <<seen, zone, thresholds>>
    BY <1>7 DEF Decide
  <2> QED  BY <2>1, EvaluateType DEF Sound
<1>8. CASE ReadGreenMax(v)
  BY <1>8 DEF ReadGreenMax, Sound
<1>9. CASE LogZone(v)
  <2>1. /\ pc[v] = "readYellow" /\ pc'[v] = "idle"
        /\ zone'[v] = Zone(score[v], green[v], thresholds.yellow)
        /\ UNCHANGED <<seen, action, score, thresholds>>
    BY <1>9 DEF LogZone
  <2>2. ASSUME Cardinality(seen[v]) = 1 PROVE zone'[v] = ZoneOf[action[v]]
    <3>1. action[v] = Evaluate(score[v], thresholds)
      BY <2>1, <2>2, OnlyOne DEF Sound
    <3>2. green[v] = thresholds.green
      BY <2>1, <2>2 DEF Sound
    <3> QED  BY <2>1, <3>1, <3>2, ZoneIsZoneOfDecision
  <2> QED  BY <2>1, <2>2 DEF Sound
<1> QED
  BY <1>2, <1>3, <1>4, <1>5, <1>6, <1>7, <1>8, <1>9 DEF Next, Reload, Work

-----------------------------------------------------------------------------
(* A risk score is a number, whatever patterns match and however often a   *)
(* namespace is listed.                                                    *)
LEMMA CalculateType == ASSUME NEW e, NEW k PROVE Calculate(e, k) \in Int
<1> USE PolicyAssumption
<1>1. Severity(e) \in Int
  <2> DEFINE hits == {i \in DOMAIN Checks : Checks[i] \in e.matches \cap DOMAIN Policy.severity}
  <2>1. CASE hits = {}
    BY <2>1 DEF Severity, Given
  <2>2. CASE hits # {}
    <3>1. hits \subseteq Nat  BY DEF Checks
    <3>2. Min(hits) \in hits  BY <2>2, <3>1, MinMember
    <3> QED  BY <2>2, <3>2 DEF Severity
  <2> QED  BY <2>1, <2>2
<1>2. Given(Policy.context, k) \in Int  BY DEF Given
<1>3. Asset(e.namespace) \in Int
  <2> DEFINE listing == Listing(e.namespace)
  <2>1. listing \subseteq 0..Len(Policy.tiers)
    BY DEF Listing
  <2>2. listing # {} => Max(listing) \in listing
    BY <2>1, MaxMember
  <2> QED  BY <2>2 DEF Asset, TierScore, Listing
<1> QED  BY <1>1, <1>2, <1>3 DEF Calculate

(* The scale the thresholds are set on: a policy with scores from 0 to 100 *)
(* and weights that are not negative yields risks from 0 to 100.1 (the     *)
(* weights may add up to a thousandth more than one), whatever the event,  *)
(* its lineage and its namespace, listed in a tier or not                  *)
(* (risk/engine.go:96-102, 120-141, risk_scoring_policy.yaml:4).           *)
Percent == 0..100

THEOREM RiskIsPercent ==
    ASSUME Policy.weights \in [severity : Nat, context : Nat, asset : Nat],
           \A key \in DOMAIN Policy.severity : Policy.severity[key] \in Percent,
           \A name \in DOMAIN Policy.context : Policy.context[name] \in Percent,
           \A i \in DOMAIN Policy.tiers : Policy.tiers[i].score \in Percent,
           Policy.defaultAsset \in Percent,
           NEW e, NEW k
    PROVE  0 <= Calculate(e, k) /\ 1000 * Calculate(e, k) <= 1001 * (100 * Point)
<1>1. Severity(e) \in Percent
  <2> DEFINE hits == {i \in DOMAIN Checks : Checks[i] \in e.matches \cap DOMAIN Policy.severity}
  <2>1. CASE hits = {}
    BY <2>1 DEF Severity, Given, Percent
  <2>2. CASE hits # {}
    <3>1. hits \subseteq Nat  BY DEF Checks
    <3>2. Min(hits) \in hits  BY <2>2, <3>1, MinMember
    <3> QED  BY <2>2, <3>2 DEF Severity
  <2> QED  BY <2>1, <2>2
<1>2. Given(Policy.context, k) \in Percent  BY DEF Given, Percent
<1>3. Asset(e.namespace) \in Percent
  <2> DEFINE listing == Listing(e.namespace)
  <2>1. listing \subseteq 0..Len(Policy.tiers) /\ Len(Policy.tiers) \in Nat
    BY PolicyAssumption DEF Listing
  <2>2. listing # {} => Max(listing) \in listing
    BY <2>1, MaxMember
  <2> QED  BY <2>2 DEF Asset, TierScore, Listing
<1>4. ASSUME NEW w \in Nat, NEW x \in Percent PROVE w * x \in Int /\ 0 <= w * x /\ w * x <= 100 * w
  BY DEF Percent
<1> DEFINE s == Policy.weights.severity
           c == Policy.weights.context
           a == Policy.weights.asset
<1>5. s \in Nat /\ c \in Nat /\ a \in Nat /\ 1000 * (s + c + a) <= 1001 * Point /\ Point \in Nat
  <2>1. s \in Nat /\ c \in Nat /\ a \in Nat /\ Point \in Nat /\ ValidWeights(Policy.weights)
    BY PolicyAssumption, PointAssumption
  <2> QED  BY <2>1 DEF ValidWeights
<1> HIDE DEF s, c, a
<1>6. /\ s * Severity(e) \in Int /\ 0 <= s * Severity(e) /\ s * Severity(e) <= 100 * s
      /\ c * Given(Policy.context, k) \in Int /\ 0 <= c * Given(Policy.context, k)
      /\ c * Given(Policy.context, k) <= 100 * c
      /\ a * Asset(e.namespace) \in Int /\ 0 <= a * Asset(e.namespace)
      /\ a * Asset(e.namespace) <= 100 * a
  BY <1>1, <1>2, <1>3, <1>4, <1>5
<1>7. Calculate(e, k) = s * Severity(e) + c * Given(Policy.context, k) + a * Asset(e.namespace)
  BY DEF Calculate, s, c, a
<1>8. Calculate(e, k) \in Int /\ 0 <= Calculate(e, k) /\ Calculate(e, k) <= 100 * (s + c + a)
  BY <1>5, <1>6, <1>7
<1> QED  BY <1>5, <1>8

-----------------------------------------------------------------------------
LEMMA TypeStep == TypeOK /\ [Next]_vars => TypeOK'
<1> SUFFICES ASSUME TypeOK, [Next]_vars PROVE TypeOK'
  OBVIOUS
<1> USE DEF TypeOK
<1>1. CASE Edit
  BY <1>1, BoundsAssumption DEF Edit
<1>2. CASE SendHup
  BY <1>2 DEF SendHup
<1>3. CASE ReadConfig
  BY <1>3 DEF ReadConfig
<1>4. CASE UpdateThresholds
  <2>1. thresholds' \in ThresholdConfig
    BY <1>4, ConfigsAssumption DEF UpdateThresholds
  <2> QED  BY <1>4, <2>1 DEF UpdateThresholds
<1>5. CASE ReadAuto
  BY <1>5 DEF ReadAuto, Readable
<1>6. CASE Load \/ LoadMulti
  BY <1>6 DEF Load, LoadMulti
<1>7. CASE ReadManual
  BY <1>7 DEF ReadManual, Readable
<1>8. ASSUME NEW w \in Workers, Work(w) PROVE TypeOK'
  <2>1. CASE Begin(w)
    BY <2>1, BoundsAssumption DEF Begin
  <2>2. CASE ClassifyEvent(w)
    BY <2>2 DEF ClassifyEvent, Classify
  <2>3. CASE Decide(w)
    <3>1. Calculate(event[w], class[w]) \in Int  BY CalculateType
    <3>2. Evaluate(score'[w], thresholds) \in DOMAIN ZoneOf  BY EvaluateType
    <3> QED  BY <2>3, <3>1, <3>2 DEF Decide
  <2>4. CASE ReadGreenMax(w)
    BY <2>4 DEF ReadGreenMax, ThresholdConfig
  <2>5. CASE LogZone(w)
    BY <2>5 DEF LogZone, Zone
  <2> QED  BY <1>8, <2>1, <2>2, <2>3, <2>4, <2>5 DEF Work
<1>9. CASE UNCHANGED vars
  BY <1>9 DEF vars
<1> QED
  BY <1>1, <1>2, <1>3, <1>4, <1>5, <1>6, <1>7, <1>8, <1>9 DEF Next, Reload

LEMMA InitInv == Init => IInv
<1> SUFFICES ASSUME Init PROVE IInv
  OBVIOUS
<1>1. config \in ThresholdConfig
  BY ConfigsAssumption DEF Init
<1>2. thresholds \in ThresholdConfig
  BY <1>1, NewEngineType DEF Init
<1>3. TypeOK
  <2>1. /\ config \in Configs /\ autoFile \in AutoFiles /\ manualFile \in ManualFiles
        /\ hup = FALSE /\ stale = FALSE /\ rpc = "wait"
        /\ edits \in 0..MaxEdits /\ toCome \in 0..MaxEvents
    BY BoundsAssumption DEF Init
  <2>2. /\ pc \in [Workers -> {"idle", "classify", "decide", "readGreen", "readYellow"}]
        /\ event \in [Workers -> SecurityEvents \cup {NoEvent}]
        /\ class \in [Workers -> {"none", "NORMAL", "SUSPICIOUS", "ANOMALOUS"}]
    BY DEF Init
  <2>3. /\ score \in [Workers -> Int] /\ green \in [Workers -> Int]
        /\ action \in [Workers -> DOMAIN ZoneOf \cup {"none"}]
        /\ zone \in [Workers -> {"none", "GREEN", "YELLOW", "RED"}]
        /\ seen \in [Workers -> SUBSET ThresholdConfig]
    BY DEF Init
  <2> QED  BY <1>2, <2>1, <2>2, <2>3 DEF TypeOK
<1>4. \A w \in Workers : Sound(w)
  BY FS_EmptySet DEF Init, Sound
<1>5. Accepts(config) => thresholds = config
  BY <1>1 DEF Init, NewEngine, Filled, Accepts, ThresholdConfig
<1>6. ReadInv /\ ReloadTakesEffect
  BY <1>5 DEF Init, ReadInv, ReloadTakesEffect, InMemory, Loaded
<1> QED  BY <1>3, <1>4, <1>6, SoundMeans DEF IInv

(* The strengthened invariant holds throughout.                            *)
THEOREM InvariantHolds == Spec => []IInv
<1>1. IInv /\ [Next]_vars => IInv'
  <2> SUFFICES ASSUME IInv, [Next]_vars PROVE IInv'
    OBVIOUS
  <2>1. TypeOK' /\ ReadInv' /\ ReloadTakesEffect'
    BY TypeStep, ReloadStep DEF IInv
  <2>2. \A w \in Workers : Sound(w)'
    BY SoundMeans, SoundStep DEF IInv
  <2>3. WorkInv' /\ DecisionFromOneConfig' /\ ZoneMatchesDecision'
    BY <2>2 DEF WorkInv, DecisionFromOneConfig, ZoneMatchesDecision, Sound
  <2> QED  BY <2>1, <2>3 DEF IInv
<1> QED  BY <1>1, InitInv, PTL DEF Spec

(* Every variable keeps to its type, whatever files are read (TypeOK).     *)
THEOREM TypeCorrect == Spec => []TypeOK
<1>1. IInv => TypeOK  BY DEF IInv
<1> QED  BY <1>1, InvariantHolds, PTL

(* However reloads and decisions interleave, a decision is the one that    *)
(* one pair of limits, in force while the event was being processed,       *)
(* prescribes for its score (engine.go:73-88).                             *)
THEOREM OneConfigDecides == Spec => []DecisionFromOneConfig
<1>1. IInv => DecisionFromOneConfig  BY DEF IInv
<1> QED  BY <1>1, InvariantHolds, PTL

(* Unless a reload came in between, the zone in the log is the zone of the *)
(* decision beside it (risk/engine.go:24-35, main.go:385-389).             *)
THEOREM ZoneIsTrue == Spec => []ZoneMatchesDecision
<1>1. IInv => ZoneMatchesDecision  BY DEF IInv
<1> QED  BY <1>1, InvariantHolds, PTL

(* Whatever the files hold and the workers do, a reload that nobody edits  *)
(* under leaves memory as the files say (main.go:279-311).                 *)
THEOREM ReloadIsEffective == Spec => []ReloadTakesEffect
<1>1. IInv => ReloadTakesEffect  BY DEF IInv
<1> QED  BY <1>1, InvariantHolds, PTL

-----------------------------------------------------------------------------
(* Thresholds out of order, which engine.go:18-22 rules out, come from one *)
(* place only: NewEngine's default for a yellow limit that is not above a  *)
(* green limit of DefaultYellow or more.  If no file gives such a limit,   *)
(* no reload brings them either (engine.go:23-46, 48-61).                  *)
THEOREM DisorderHasOneCause ==
    ASSUME \A cfg \in Configs \ {Corrupt} : Ordered(Filled(cfg)) \/ Filled(cfg).green < DefaultYellow
    PROVE  Spec => []ThresholdsOrdered
<1>1. Init => ThresholdsOrdered
  <2> SUFFICES ASSUME Init PROVE Ordered(NewEngine(config))
    BY DEF Init, ThresholdsOrdered
  <2>1. config \in ThresholdConfig /\ config \in Configs \ {Corrupt}
    BY ConfigsAssumption DEF Init
  <2>2. Filled(config) \in ThresholdConfig
    BY <2>1, DefaultsAssumption DEF Filled, DefaultThresholds, ThresholdConfig
  <2>3. CASE Ordered(Filled(config))
    BY <2>3 DEF NewEngine
  <2>4. CASE ~Ordered(Filled(config))
    BY <2>1, <2>2, <2>4 DEF NewEngine, Ordered, ThresholdConfig
  <2> QED  BY <2>3, <2>4
<1>2. ThresholdsOrdered /\ [Next]_vars => ThresholdsOrdered'
  <2> SUFFICES ASSUME ThresholdsOrdered, [Next]_vars PROVE ThresholdsOrdered'
    OBVIOUS
  <2>1. thresholds' = thresholds \/ Accepts(thresholds')
    <3>1. CASE UpdateThresholds
      BY <3>1 DEF UpdateThresholds
    <3>2. CASE Edit \/ SendHup \/ ReadConfig \/ ReadAuto \/ Load \/ ReadManual \/ LoadMulti
               \/ UNCHANGED vars
      BY <3>2 DEF Edit, SendHup, ReadConfig, ReadAuto, Load, ReadManual, LoadMulti, vars
    <3>3. ASSUME NEW w \in Workers, Work(w) PROVE thresholds' = thresholds
      BY <3>3, WorkFrame
    <3> QED  BY <3>1, <3>2, <3>3 DEF Next, Reload
  <2> QED  BY <2>1 DEF ThresholdsOrdered, Accepts, Ordered
<1> QED  BY <1>1, <1>2, PTL DEF Spec

-----------------------------------------------------------------------------
(* What a file allows is still allowed when it is merged on top of what    *)
(* was allowed before, though Load lets the last entry for a parent win    *)
(* and LoadMulti adds them up (validator.go:60-118).                       *)
LEMMA MergeKeeps ==
    ASSUME NEW before, NEW file, DOMAIN file = 1..Len(file), Len(file) \in Nat,
           NEW parent, NEW child, Classify(FromFile(file), parent, child) = "NORMAL"
    PROVE  Classify(Merge(before, file), parent, child) = "NORMAL"
<1> PICK p : p = Base[parent]  OBVIOUS
<1>1. p \in Parents(file) /\ Base[child] \in Names(file[Max(EntriesOf(file, p))].children)
  BY DEF Classify, FromFile
<1>2. EntriesOf(file, p) \subseteq 0..Len(file) /\ EntriesOf(file, p) # {}
  BY <1>1 DEF EntriesOf, Parents
<1>3. Max(EntriesOf(file, p)) \in EntriesOf(file, p)
  BY <1>2, MaxMember
<1>4. p \in DOMAIN Merge(before, file) /\ Base[child] \in Merge(before, file)[p]
  BY <1>1, <1>3 DEF Merge
<1> QED  BY <1>4 DEF Classify

(* Until somebody edits a file, the whitelist in memory lacks the manual   *)
(* overrides only between Load and LoadMulti.                              *)
AtRest == rpc \notin {"readManual", "merge"}

MergedAtRest ==
    /\ edits = MaxEdits => ~stale
    /\ edits = MaxEdits /\ Readable(manualFile) /\ AtRest => allow = Loaded(autoFile, manualFile)

LEMMA MergedStep == ASSUME TypeOK, ReadInv, MergedAtRest, [Next]_vars PROVE MergedAtRest'
<1> USE DEF MergedAtRest, AtRest, ReadInv
<1>1. CASE Edit
  BY <1>1, BoundsAssumption DEF Edit, TypeOK
<1>2. CASE SendHup \/ ReadConfig \/ UpdateThresholds \/ ReadAuto \/ Load \/ UNCHANGED vars
  BY <1>2 DEF SendHup, ReadConfig, UpdateThresholds, ReadAuto, Load, vars
<1>3. CASE ReadManual
  BY <1>3 DEF ReadManual
<1>4. CASE LoadMulti
  BY <1>4 DEF LoadMulti, Loaded
<1>5. ASSUME NEW w \in Workers, Work(w) PROVE MergedAtRest'
  BY <1>5, WorkFrame
<1> QED  BY <1>1, <1>2, <1>3, <1>4, <1>5 DEF Next, Reload

(* A lineage that the manual file allows is classified NORMAL, whatever    *)
(* the whitelist file says, by every worker that looks while the reload is *)
(* not between Load and LoadMulti: the window of ManualOverridesHold is    *)
(* all there is (main.go:203-228, 295-310).                                *)
OverridesHold == \A w \in Workers :
    /\ ClassifyEvent(w) /\ AtRest /\ edits = MaxEdits /\ Readable(manualFile)
    /\ Classify(FromFile(manualFile), event[w].parent, event[w].child) = "NORMAL"
    => class'[w] = "NORMAL"

THEOREM OverridesHoldAtRest ==
    ASSUME \A file \in ManualFiles \ {Missing, Corrupt} : Len(file) \in Nat /\ DOMAIN file = 1..Len(file)
    PROVE  Spec => [][OverridesHold]_vars
<1>1. Init => MergedAtRest
  BY DEF Init, MergedAtRest, Loaded
<1>2. IInv /\ MergedAtRest /\ [Next]_vars => MergedAtRest'
  BY MergedStep DEF IInv
<1>3. IInv /\ MergedAtRest /\ [Next]_vars => [OverridesHold]_vars
  <2> SUFFICES ASSUME IInv, MergedAtRest, NEW w \in Workers, ClassifyEvent(w), AtRest,
                      edits = MaxEdits, Readable(manualFile),
                      Classify(FromFile(manualFile), event[w].parent, event[w].child) = "NORMAL"
               PROVE  class'[w] = "NORMAL"
    BY DEF OverridesHold
  <2>1. manualFile \in ManualFiles \ {Missing, Corrupt}
    BY DEF IInv, TypeOK, Readable
  <2>2. allow = Merge(IF Readable(autoFile) THEN FromFile(autoFile) ELSE Empty, manualFile)
    BY DEF MergedAtRest, Loaded
  <2>3. Classify(allow, event[w].parent, event[w].child) = "NORMAL"
    BY <2>1, <2>2, MergeKeeps
  <2>4. class' = [class EXCEPT ![w] = Classify(allow, event[w].parent, event[w].child)]
    BY DEF ClassifyEvent
  <2> QED  BY <2>3, <2>4 DEF IInv, TypeOK
<1> QED  BY <1>1, <1>2, <1>3, InvariantHolds, PTL DEF Spec
=============================================================================
