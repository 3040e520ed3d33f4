------------------------ MODULE BillingMigration_proofs ------------------------
(***************************************************************************)
(* Proofs about BillingMigration, for any collections, indexes and plans,  *)
(* any number of runs of the script and starts of the program: the types,  *)
(* that a success is complete and that a failure is explained.             *)
(***************************************************************************)
EXTENDS BillingMigration, TLAPS

-------------------------------------------------------------------------------
(* Types *)

LEMMA NoScriptType == NoScript \in Script
BY DEF NoScript, Script, Points

LEMMA NoStartType == NoStart \in Start
BY DEF NoStart, Start

\* What somebody does marks the runs under way and changes nothing else of them.
LEMMA SeenFields ==
  ASSUME MigrationTypeOK, NEW r \in Scripts
  PROVE  /\ Seen[r] \in Script
         /\ Running(r) => Seen[r] = [script[r] EXCEPT !.alone = FALSE]
         /\ Running(r) => Seen[r].alone = FALSE
         /\ ~Running(r) => Seen[r] = script[r]
         /\ Seen[r].at = script[r].at /\ Seen[r].apply = script[r].apply
         /\ Seen[r].listed = script[r].listed /\ Seen[r].counted = script[r].counted
         /\ Seen[r].todo = script[r].todo /\ Seen[r].now = script[r].now
         /\ Seen[r].build = script[r].build /\ Seen[r].outcome = script[r].outcome
<1>1. script[r] \in Script
  BY DEF MigrationTypeOK
<1>2. Seen[r] = IF Running(r) THEN [script[r] EXCEPT !.alone = FALSE] ELSE script[r]
  BY DEF Seen
<1>3. QED
  BY <1>1, <1>2 DEF Script

LEMMA SeenType == MigrationTypeOK => Seen \in [Scripts -> Script]
<1> SUFFICES ASSUME MigrationTypeOK PROVE Seen \in [Scripts -> Script]
  OBVIOUS
<1>1. \A r \in Scripts : Seen[r] \in Script
  BY SeenFields
<1>2. QED
  BY <1>1 DEF Seen

LEMMA SeenByStartFields ==
  ASSUME MigrationTypeOK
  PROVE  /\ SeenByStart \in Start
         /\ Starting => SeenByStart.alone = FALSE
         /\ ~Starting => SeenByStart = start
         /\ SeenByStart.at = start.at /\ SeenByStart.todo = start.todo /\ SeenByStart.now = start.now
<1>1. start \in Start
  BY DEF MigrationTypeOK
<1>2. QED
  BY <1>1 DEF SeenByStart, Start

\* A step of one run, as the others see it.
LEMMA StepFields ==
  ASSUME MigrationTypeOK, NEW r \in Scripts, NEW q \in Script, Step(r, q)
  PROVE  /\ script' \in [Scripts -> Script] /\ start' \in Start
         /\ script'[r] = q
         /\ \A v \in Scripts \ {r} : script'[v] = Seen[v]
         /\ start' = SeenByStart
         /\ UNCHANGED <<doubled, unpaid, legacy, runs, starts>>
<1>1. script' = [Seen EXCEPT ![r] = q] /\ start' = SeenByStart
      /\ UNCHANGED <<doubled, unpaid, legacy, runs, starts>>
  BY DEF Step
<1>2. QED
  BY <1>1, SeenType, SeenByStartFields

\* A run that finishes, and one that goes on.
LEMMA FinishFields ==
  ASSUME MigrationTypeOK, NEW r \in Scripts, NEW outcome \in {"success", "failure"}
  PROVE  /\ Finish(r, outcome) \in Script
         /\ Finish(r, outcome).at = "ended" /\ Finish(r, outcome).outcome = outcome
         /\ Finish(r, outcome).apply = script[r].apply /\ Finish(r, outcome).listed = script[r].listed
         /\ Finish(r, outcome).alone = script[r].alone
<1>1. script[r] \in Script
  BY DEF MigrationTypeOK
<1>2. QED
  BY <1>1 DEF Finish, Script, Points

LEMMA AtFields ==
  ASSUME MigrationTypeOK, NEW r \in Scripts, NEW point \in Points
  PROVE  /\ At(r, point) \in Script
         /\ At(r, point).at = point /\ At(r, point).outcome = script[r].outcome
         /\ At(r, point).apply = script[r].apply /\ At(r, point).listed = script[r].listed
         /\ At(r, point).counted = script[r].counted /\ At(r, point).todo = script[r].todo
         /\ At(r, point).now = script[r].now /\ At(r, point).build = script[r].build
         /\ At(r, point).alone = script[r].alone
<1>1. script[r] \in Script
  BY DEF MigrationTypeOK
<1>2. QED
  BY <1>1 DEF At, Script

LEMMA MigrationTypeInitially == MigrationInit => MigrationTypeOK
<1> SUFFICES ASSUME MigrationInit PROVE MigrationTypeOK
  OBVIOUS
<1>1. plans \in [Catalogue -> Nat]
  BY DEF MigrationInit
<1>2. doubled \subseteq Unique /\ unpaid \in BOOLEAN /\ made \subseteq Collections
  BY DEF MigrationInit
<1>3. QED
  BY <1>1, <1>2, NoScriptType, NoStartType, MigrationAssumption
     DEF MigrationInit, MigrationTypeOK, MigrationAssumption, Makers

\* While it works on collections, a run has only collections in hand.
CollectionsInHand(q) ==
  q.at \in {"list", "scan", "collections", "create", "indexes", "build"} => q.todo \cup q.now \subseteq Collections
InHand == \A r \in Scripts : CollectionsInHand(script[r])

DatabaseTyped ==
  made \subseteq Collections /\ index \in [Indexes -> Makers] /\ plans \in [Catalogue -> Nat]

LEMMA StepType ==
  ASSUME MigrationTypeOK, InHand, NEW r \in Scripts, NEW q \in Script, Step(r, q),
         CollectionsInHand(q), DatabaseTyped'
  PROVE  (MigrationTypeOK /\ InHand)'
<1>1. MigrationTypeOK'
  BY StepFields DEF MigrationTypeOK, DatabaseTyped
<1>2. ASSUME NEW v \in Scripts PROVE CollectionsInHand(script[v])'
  <2>1. CASE v = r
    BY <2>1, StepFields DEF CollectionsInHand
  <2>2. CASE v # r
    <3>1. script'[v] = Seen[v] /\ CollectionsInHand(script[v])
      BY <2>2, StepFields DEF InHand
    <3>2. QED
      BY <3>1, SeenFields DEF CollectionsInHand
  <2>3. QED
    BY <2>1, <2>2
<1>3. QED
  BY <1>1, <1>2 DEF InHand

LEMMA BeginRunType ==
  ASSUME MigrationTypeOK, InHand, NEW r \in Scripts, NEW apply \in BOOLEAN, BeginRun(r, apply)
  PROVE  /\ (MigrationTypeOK /\ InHand)'
         /\ script'[r].at = "list" /\ script'[r].outcome = "none" /\ script'[r].apply = apply
         /\ script'[r].alone => (~Starting /\ \A v \in Scripts : ~Running(v))
         /\ \A v \in Scripts \ {r} : script'[v] = Seen[v]
         /\ start' = SeenByStart
<1> DEFINE alone == ~Starting /\ \A v \in Scripts : ~Running(v)
           q == [NoScript EXCEPT !.at = "list", !.apply = apply, !.alone = alone]
<1>1. q \in Script /\ q.at = "list" /\ q.outcome = "none" /\ q.apply = apply /\ q.alone = alone
      /\ q.todo = {} /\ q.now = {}
  BY NoScriptType DEF Script, Points, NoScript
<1>2. script' = [Seen EXCEPT ![r] = q] /\ start' = SeenByStart /\ runs' = runs + 1 /\ runs < MaxRuns
      /\ UNCHANGED <<made, index, plans, doubled, unpaid, legacy, starts>>
  BY DEF BeginRun
<1> HIDE DEF q
<1>3. script' \in [Scripts -> Script] /\ script'[r] = q /\ \A v \in Scripts \ {r} : script'[v] = Seen[v]
  BY <1>1, <1>2, SeenType
<1>4. runs' \in 0..MaxRuns
  BY <1>2, MigrationAssumption DEF MigrationTypeOK, MigrationAssumption
<1>5. MigrationTypeOK'
  BY <1>2, <1>3, <1>4, SeenByStartFields DEF MigrationTypeOK
<1>6. ASSUME NEW v \in Scripts PROVE CollectionsInHand(script[v])'
  <2>1. CASE v = r
    BY <1>1, <1>3, <2>1 DEF CollectionsInHand
  <2>2. CASE v # r
    <3>1. script'[v] = Seen[v] /\ CollectionsInHand(script[v])
      BY <1>3, <2>2 DEF InHand
    <3>2. QED
      BY <3>1, SeenFields DEF CollectionsInHand
  <2>3. QED
    BY <2>1, <2>2
<1>7. QED
  BY <1>1, <1>2, <1>3, <1>5, <1>6 DEF InHand

LEMMA RunStepType ==
  ASSUME MigrationTypeOK, InHand, NEW r \in Scripts, RunStep(r)
  PROVE  (MigrationTypeOK /\ InHand)'
<1> DEFINE q == script[r]
<1>0. /\ q \in Script /\ CollectionsInHand(q) /\ DatabaseTyped
      /\ q.todo \subseteq Collections \cup Catalogue /\ q.now \subseteq Collections \cup Catalogue
      /\ q.build \subseteq Indexes /\ q.listed \subseteq Collections /\ q.apply \in BOOLEAN
      /\ legacy \in Nat
  BY DEF MigrationTypeOK, InHand, DatabaseTyped, Script
<1>same. Same => DatabaseTyped'
  BY <1>0 DEF Same, DatabaseTyped
<1>1. CASE \E apply \in BOOLEAN : BeginRun(r, apply)
  BY <1>1, BeginRunType
<1>2. CASE ListCollections(r)
  <2> DEFINE n == [script[r] EXCEPT !.at = "scan", !.listed = made, !.counted = legacy]
  <2>1. q.at = "list" /\ Step(r, n) /\ Same
    BY <1>2 DEF ListCollections
  <2>2. n \in Script /\ CollectionsInHand(n)
    BY <1>0, <2>1 DEF Script, Points, CollectionsInHand, DatabaseTyped
  <2> HIDE DEF n
  <2>3. QED
    BY <2>1, <2>2, <1>same, StepType
<1>3. CASE ScanForDuplicates(r)
  <2> DEFINE n == [script[r] EXCEPT !.at = "collections", !.todo = Collections]
  <2>1. q.at = "scan" /\ Same /\ Step(r, IF Found THEN Finish(r, "failure") ELSE n)
    BY <1>3 DEF ScanForDuplicates
  <2>2. n \in Script /\ CollectionsInHand(n)
    BY <1>0, <2>1 DEF Script, Points, CollectionsInHand
  <2>3. Finish(r, "failure") \in Script /\ CollectionsInHand(Finish(r, "failure"))
    BY FinishFields DEF CollectionsInHand
  <2> HIDE DEF n
  <2>4. QED
    BY <2>1, <2>2, <2>3, <1>same, StepType
<1>4. ASSUME NEW c \in Collections, TakeCollection(r, c)
      PROVE  (MigrationTypeOK /\ InHand)'
  <2> DEFINE n == [script[r] EXCEPT !.at = IF Absent(script[r], c) /\ script[r].apply THEN "create" ELSE "indexes",
                                    !.todo = @ \ {c}, !.now = {c}]
  <2>1. q.at = "collections" /\ Same /\ Step(r, n)
    BY <1>4 DEF TakeCollection
  <2>2. n \in Script /\ CollectionsInHand(n)
    BY <1>0, <2>1 DEF Script, Points, CollectionsInHand
  <2> HIDE DEF n
  <2>3. QED
    BY <2>1, <2>2, <1>same, StepType
<1>5. CASE CreateCollection(r)
  <2> DEFINE n == IF q.now \subseteq made THEN Finish(r, "failure") ELSE At(r, "indexes")
  <2>1. q.at = "create" /\ Step(r, n) /\ made' = made \cup q.now /\ UNCHANGED <<index, plans>>
    BY <1>5 DEF CreateCollection
  <2>2. DatabaseTyped'
    BY <1>0, <2>1 DEF DatabaseTyped, CollectionsInHand
  <2>3. "indexes" \in Points
    BY DEF Points
  <2>4. n \in Script /\ CollectionsInHand(n)
    BY <1>0, <2>1, <2>3, FinishFields, AtFields DEF CollectionsInHand
  <2> HIDE DEF n
  <2>5. QED
    BY <2>1, <2>2, <2>4, StepType
<1>6. CASE ListIndexes(r)
  <2> DEFINE built == IF script[r].apply THEN Lacking(script[r]) ELSE {}
             n == [script[r] EXCEPT !.at = "build", !.now = {}, !.build = built]
  <2>1. q.at = "indexes" /\ Same /\ Step(r, n)
    BY <1>6 DEF ListIndexes
  <2>2. built \subseteq Indexes
    BY DEF Lacking
  <2>3. n \in Script /\ CollectionsInHand(n)
    BY <1>0, <2>1, <2>2 DEF Script, Points, CollectionsInHand
  <2> HIDE DEF n
  <2>4. QED
    BY <2>1, <2>3, <1>same, StepType
<1>7. ASSUME NEW i \in Indexes, BuildIndex(r, i)
      PROVE  (MigrationTypeOK /\ InHand)'
  <2> DEFINE n == [script[r] EXCEPT !.build = @ \ {i}]
  <2>1. CASE Step(r, Finish(r, "failure")) /\ Same
    BY <2>1, <1>same, StepType, FinishFields DEF CollectionsInHand
  <2>2. CASE /\ Step(r, n) /\ UNCHANGED <<made, plans>>
             /\ index' = [index EXCEPT ![i] = IF @ = "none" THEN "script" ELSE @]
    <3>1. DatabaseTyped'
      BY <1>0, <2>2 DEF DatabaseTyped, Makers
    <3>2. n \in Script /\ CollectionsInHand(n)
      BY <1>0 DEF Script, CollectionsInHand
    <3> HIDE DEF n
    <3>3. QED
      BY <2>2, <3>1, <3>2, StepType
  <2>3. QED
    BY <1>7, <2>1, <2>2 DEF BuildIndex
<1>8. CASE IndexesBuilt(r)
  <2> DEFINE n == [script[r] EXCEPT !.at = "plans", !.todo = Catalogue]
  <2>1. q.at = "build" /\ Same /\ Step(r, IF script[r].todo # {} THEN At(r, "collections") ELSE n)
    BY <1>8 DEF IndexesBuilt
  <2>2. n \in Script /\ CollectionsInHand(n)
    BY <1>0 DEF Script, Points, CollectionsInHand
  <2>3. At(r, "collections") \in Script /\ CollectionsInHand(At(r, "collections"))
    <3>1. "collections" \in Points
      BY DEF Points
    <3>2. QED
      BY <1>0, <2>1, <3>1, AtFields DEF CollectionsInHand
  <2> HIDE DEF n
  <2>4. QED
    BY <2>1, <2>2, <2>3, <1>same, StepType
<1>9. ASSUME NEW p \in Catalogue, FindPlan(r, p)
      PROVE  (MigrationTypeOK /\ InHand)'
  <2> DEFINE n == [script[r] EXCEPT !.at = IF plans[p] = 0 /\ script[r].apply THEN "insert" ELSE "plans",
                                    !.todo = @ \ {p}, !.now = {p}]
  <2>1. Same /\ Step(r, n)
    BY <1>9 DEF FindPlan
  <2>2. n \in Script /\ CollectionsInHand(n)
    BY <1>0 DEF Script, Points, CollectionsInHand
  <2> HIDE DEF n
  <2>3. QED
    BY <2>1, <2>2, <1>same, StepType
<1>10. CASE InsertPlan(r)
  <2>1. CASE Step(r, Finish(r, "failure")) /\ Same
    BY <2>1, <1>same, StepType, FinishFields DEF CollectionsInHand
  <2>2. CASE /\ Step(r, At(r, "plans")) /\ UNCHANGED <<made, index>>
             /\ plans' = [p \in Catalogue |-> IF p \in script[r].now THEN plans[p] + 1 ELSE plans[p]]
    <3>1. DatabaseTyped'
      BY <1>0, <2>2 DEF DatabaseTyped
    <3>2. "plans" \in Points
      BY DEF Points
    <3>3. QED
      BY <2>2, <3>1, <3>2, StepType, AtFields DEF CollectionsInHand
  <2>3. QED
    BY <1>10, <2>1, <2>2 DEF InsertPlan
<1>11. CASE PlansSeeded(r)
  <2>1. "recount" \in Points
    BY DEF Points
  <2>2. QED
    BY <1>11, <2>1, <1>same, StepType, AtFields DEF PlansSeeded, CollectionsInHand
<1>12. CASE Recount(r)
  BY <1>12, <1>same, StepType, FinishFields DEF Recount, CollectionsInHand
<1>13. CASE StopRun(r)
  <2>1. CollectionsInHand(NoScript)
    BY DEF CollectionsInHand, NoScript
  <2>2. QED
    BY <1>13, <2>1, <1>same, StepType, NoScriptType DEF StopRun
<1>14. QED
  BY <1>1, <1>2, <1>3, <1>4, <1>5, <1>6, <1>7, <1>8, <1>9, <1>10, <1>11, <1>12, <1>13 DEF RunStep

\* What a run does marks whoever else is under way.
LEMMA RunStepOthers ==
  ASSUME MigrationTypeOK, InHand, NEW r \in Scripts, RunStep(r)
  PROVE  start' = SeenByStart /\ \A v \in Scripts \ {r} : script'[v] = Seen[v]
<1>1. CASE \E apply \in BOOLEAN : BeginRun(r, apply)
  BY <1>1, BeginRunType
<1>2. CASE ~\E apply \in BOOLEAN : BeginRun(r, apply)
  <2>1. start' = SeenByStart /\ \E q : script' = [Seen EXCEPT ![r] = q]
    BY <1>2 DEF RunStep, ListCollections, ScanForDuplicates, TakeCollection, CreateCollection,
       ListIndexes, BuildIndex, IndexesBuilt, FindPlan, InsertPlan, PlansSeeded, Recount, StopRun, Step
  <2>2. QED
    BY <2>1, SeenType
<1>3. QED
  BY <1>1, <1>2

LEMMA InHandSeen ==
  ASSUME MigrationTypeOK, InHand, script' = Seen
  PROVE  InHand' /\ script' \in [Scripts -> Script]
BY SeenFields, SeenType DEF InHand, CollectionsInHand

\* The steps of the start.
LEMMA StartStepType ==
  ASSUME MigrationTypeOK, InHand, NEW q \in Start, StartStep(q), DatabaseTyped'
  PROVE  (MigrationTypeOK /\ InHand)' /\ start' = q /\ script' = Seen
BY InHandSeen DEF StartStep, MigrationTypeOK, DatabaseTyped

ProgramStep ==
  \/ BeginStart
  \/ \E c \in Collections : InitCollection(c)
  \/ \E p \in Catalogue : FindPlanAtStart(p)
  \/ InsertPlanAtStart
  \/ ProgramIsUp
  \/ SignUp
  \/ BeginPayment

LEMMA ProgramStepType ==
  ASSUME MigrationTypeOK, InHand, ProgramStep
  PROVE  (MigrationTypeOK /\ InHand)'
<1>0. start \in Start /\ DatabaseTyped
  BY DEF MigrationTypeOK, DatabaseTyped
<1>same. Same => DatabaseTyped'
  BY <1>0 DEF Same, DatabaseTyped
<1>1. CASE BeginStart
  <2> DEFINE n == [NoStart EXCEPT !.at = "indexes", !.todo = Collections,
                                  !.alone = \A r \in Scripts : ~Running(r)]
  <2>1. n \in Start
    BY NoStartType DEF Start
  <2>2. start' = n /\ script' = Seen /\ starts' = starts + 1 /\ starts < MaxStarts
        /\ UNCHANGED <<made, index, plans, doubled, unpaid, legacy, runs>>
    BY <1>1 DEF BeginStart
  <2> HIDE DEF n
  <2>3. starts' \in 0..MaxStarts
    BY <2>2, MigrationAssumption DEF MigrationTypeOK, MigrationAssumption
  <2>4. QED
    BY <2>1, <2>2, <2>3, InHandSeen DEF MigrationTypeOK
<1>2. ASSUME NEW c \in Collections, InitCollection(c)
      PROVE  (MigrationTypeOK /\ InHand)'
  <2>1. CASE StartStep([start EXCEPT !.at = "failed"]) /\ Same
    <3>1. [start EXCEPT !.at = "failed"] \in Start
      BY <1>0 DEF Start
    <3>2. QED
      BY <2>1, <3>1, <1>same, StartStepType
  <2>2. CASE /\ StartStep(IF start.todo = {c} THEN [start EXCEPT !.at = "plans", !.todo = Catalogue]
                          ELSE [start EXCEPT !.todo = @ \ {c}])
             /\ made' = made \cup {c} /\ UNCHANGED plans
             /\ index' = [i \in Indexes |-> IF i \in On(c) /\ index[i] = "none" THEN "program" ELSE index[i]]
    <3>1. [start EXCEPT !.at = "plans", !.todo = Catalogue] \in Start
          /\ [start EXCEPT !.todo = @ \ {c}] \in Start
      BY <1>0 DEF Start
    <3>2. DatabaseTyped'
      BY <1>0, <2>2 DEF DatabaseTyped, Makers
    <3>3. QED
      BY <2>2, <3>1, <3>2, StartStepType
  <2>3. QED
    BY <1>2, <2>1, <2>2 DEF InitCollection
<1>3. ASSUME NEW p \in Catalogue, FindPlanAtStart(p)
      PROVE  (MigrationTypeOK /\ InHand)'
  <2> DEFINE n == [start EXCEPT !.at = IF plans[p] = 0 THEN "insert" ELSE "plans",
                                !.todo = @ \ {p}, !.now = {p}]
  <2>1. n \in Start
    BY <1>0 DEF Start
  <2>2. StartStep(n) /\ Same
    BY <1>3 DEF FindPlanAtStart
  <2> HIDE DEF n
  <2>3. QED
    BY <2>1, <2>2, <1>same, StartStepType
<1>4. CASE InsertPlanAtStart
  <2>1. [start EXCEPT !.at = "plans"] \in Start /\ [start EXCEPT !.at = "failed"] \in Start
    BY <1>0 DEF Start
  <2>2. CASE StartStep([start EXCEPT !.at = "failed"]) /\ Same
    BY <2>1, <2>2, <1>same, StartStepType
  <2>3. CASE /\ StartStep([start EXCEPT !.at = "plans"]) /\ UNCHANGED <<made, index>>
             /\ plans' = [p \in Catalogue |-> IF p \in start.now THEN plans[p] + 1 ELSE plans[p]]
    <3>1. DatabaseTyped'
      BY <1>0, <2>3 DEF DatabaseTyped
    <3>2. QED
      BY <2>1, <2>3, <3>1, StartStepType
  <2>4. QED
    BY <1>4, <2>2, <2>3 DEF InsertPlanAtStart
<1>5. CASE ProgramIsUp
  <2>1. [start EXCEPT !.at = "up"] \in Start
    BY <1>0 DEF Start
  <2>2. QED
    BY <1>5, <2>1, <1>same, StartStepType DEF ProgramIsUp
<1>6. CASE SignUp
  <2>1. legacy' \in 0..MaxSignups
    BY <1>6, MigrationAssumption DEF SignUp, MigrationTypeOK, MigrationAssumption
  <2>2. QED
    BY <1>6, <2>1, InHandSeen DEF SignUp, MigrationTypeOK
<1>7. CASE BeginPayment
  BY <1>7, InHandSeen DEF BeginPayment, MigrationTypeOK
<1>8. QED
  BY <1>1, <1>2, <1>3, <1>4, <1>5, <1>6, <1>7 DEF ProgramStep

LEMMA MigrationTypeStep ==
  MigrationTypeOK /\ InHand /\ [MigrationNext]_migrationVars => (MigrationTypeOK /\ InHand)'
<1> SUFFICES ASSUME MigrationTypeOK, InHand, [MigrationNext]_migrationVars
             PROVE  (MigrationTypeOK /\ InHand)'
  OBVIOUS
<1>1. CASE \E r \in Scripts : RunStep(r)
  BY <1>1, RunStepType
<1>2. CASE ProgramStep
  BY <1>2, ProgramStepType
<1>3. CASE UNCHANGED migrationVars
  BY <1>3 DEF migrationVars, MigrationTypeOK, InHand, CollectionsInHand
<1>4. QED
  BY <1>1, <1>2, <1>3 DEF MigrationNext, ProgramStep

LEMMA InHandInitially == MigrationInit => InHand
BY DEF MigrationInit, InHand, CollectionsInHand, NoScript

\* The database, the runs and the start keep their shape.
THEOREM MigrationTyped == MigrationSpec => []MigrationTypeOK
<1>1. QED
  BY MigrationTypeInitially, InHandInitially, MigrationTypeStep, PTL DEF MigrationSpec

-------------------------------------------------------------------------------
(* What nobody takes back *)

Grown ==
  /\ made \subseteq made' /\ doubled' = doubled /\ (unpaid => unpaid')
  /\ \A i \in Indexes : index[i] # "none" => index'[i] = index[i]
  /\ \A p \in Catalogue : plans[p] <= plans'[p]

\* A plan is never there twice once the index is.
PlansUnique == index[PlanIndex] # "none" => \A p \in Catalogue : plans[p] <= 1

LEMMA PlansGrow ==
  ASSUME MigrationTypeOK, NEW S,
         plans' = [p \in Catalogue |-> IF p \in S THEN plans[p] + 1 ELSE plans[p]],
         \A p \in S : Insertable(p), UNCHANGED index
  PROVE  /\ \A p \in Catalogue : plans[p] <= plans'[p]
         /\ PlansUnique => PlansUnique'
<1>1. \A p \in Catalogue : plans[p] \in Nat
  BY DEF MigrationTypeOK
<1>2. \A p \in Catalogue : plans'[p] = IF p \in S THEN plans[p] + 1 ELSE plans[p]
  OBVIOUS
<1>3. QED
  BY <1>1, <1>2 DEF PlansUnique, Insertable

LEMMA RunGrown ==
  ASSUME MigrationTypeOK, NEW r \in Scripts, RunStep(r)
  PROVE  Grown /\ (PlansUnique => PlansUnique')
<1>0. /\ \A p \in Catalogue : plans[p] \in Nat
      /\ index \in [Indexes -> Makers] /\ PlanIndex \in Indexes
  BY MigrationAssumption DEF MigrationTypeOK, MigrationAssumption
<1>same. Same /\ UNCHANGED <<doubled, unpaid>> => Grown /\ (PlansUnique => PlansUnique')
  BY <1>0 DEF Same, Grown, PlansUnique
<1>1. CASE \E apply \in BOOLEAN : BeginRun(r, apply)
  BY <1>1, <1>same DEF BeginRun, Same
<1>2. CASE CreateCollection(r)
  BY <1>0, <1>2 DEF CreateCollection, Step, Grown, PlansUnique
<1>3. ASSUME NEW i \in Indexes, BuildIndex(r, i)
      PROVE  Grown /\ (PlansUnique => PlansUnique')
  <2>1. CASE UNCHANGED <<made, index, plans, doubled, unpaid>>
    BY <2>1, <1>same DEF Same
  <2>2. CASE /\ ~(index[i] = "none" /\ Refused(i, "script"))
             /\ index' = [index EXCEPT ![i] = IF @ = "none" THEN "script" ELSE @]
             /\ UNCHANGED <<made, plans, doubled, unpaid>>
    <3>1. \A j \in Indexes : index'[j] = IF j = i /\ index[j] = "none" THEN "script" ELSE index[j]
      BY <1>0, <2>2
    <3>2. i = PlanIndex /\ index[i] = "none" => \A p \in Catalogue : plans[p] <= 1
      BY <1>0, <2>2 DEF Refused
    <3>3. QED
      BY <1>0, <2>2, <3>1, <3>2 DEF Grown, PlansUnique
  <2>3. QED
    BY <1>3, <2>1, <2>2 DEF BuildIndex, Step, Same
<1>4. CASE InsertPlan(r)
  <2>1. CASE Same /\ UNCHANGED <<doubled, unpaid>>
    BY <2>1, <1>same
  <2>2. CASE /\ \A p \in script[r].now : Insertable(p)
             /\ plans' = [p \in Catalogue |-> IF p \in script[r].now THEN plans[p] + 1 ELSE plans[p]]
             /\ UNCHANGED <<made, index, doubled, unpaid>>
    BY <2>2, PlansGrow DEF Grown
  <2>3. QED
    BY <1>4, <2>1, <2>2 DEF InsertPlan, Step
<1>5. CASE /\ ~CreateCollection(r) /\ ~InsertPlan(r)
           /\ ~\E i \in Indexes : BuildIndex(r, i)
           /\ ~\E apply \in BOOLEAN : BeginRun(r, apply)
  <2>1. Same /\ UNCHANGED <<doubled, unpaid>>
    BY <1>5 DEF RunStep, ListCollections, ScanForDuplicates, TakeCollection, ListIndexes, IndexesBuilt,
       FindPlan, PlansSeeded, Recount, StopRun, Step
  <2>2. QED
    BY <2>1, <1>same
<1>6. QED
  BY <1>1, <1>2, <1>3, <1>4, <1>5

LEMMA ProgramGrown ==
  ASSUME MigrationTypeOK, ProgramStep
  PROVE  Grown /\ (PlansUnique => PlansUnique')
<1>0. /\ \A p \in Catalogue : plans[p] \in Nat
      /\ index \in [Indexes -> Makers] /\ PlanIndex \in Indexes
  BY MigrationAssumption DEF MigrationTypeOK, MigrationAssumption
<1>same. Same /\ UNCHANGED doubled /\ (unpaid => unpaid') => Grown /\ (PlansUnique => PlansUnique')
  BY <1>0 DEF Same, Grown, PlansUnique
<1>1. ASSUME NEW c \in Collections, InitCollection(c)
      PROVE  Grown /\ (PlansUnique => PlansUnique')
  <2>1. CASE Same /\ UNCHANGED <<doubled, unpaid>>
    BY <2>1, <1>same
  <2>2. CASE /\ ~\E i \in On(c) : Differs(i, "program") \/ (index[i] = "none" /\ Refused(i, "program"))
             /\ made' = made \cup {c}
             /\ index' = [i \in Indexes |-> IF i \in On(c) /\ index[i] = "none" THEN "program" ELSE index[i]]
             /\ UNCHANGED <<plans, doubled, unpaid>>
    <3>1. PlanIndex \in On(c) /\ index[PlanIndex] = "none" => \A p \in Catalogue : plans[p] <= 1
      BY <1>0, <2>2 DEF Refused
    <3>2. QED
      BY <1>0, <2>2, <3>1 DEF Grown, PlansUnique
  <2>3. QED
    BY <1>1, <2>1, <2>2 DEF InitCollection, StartStep
<1>2. CASE InsertPlanAtStart
  <2>1. CASE Same /\ UNCHANGED <<doubled, unpaid>>
    BY <2>1, <1>same
  <2>2. CASE /\ \A p \in start.now : Insertable(p)
             /\ plans' = [p \in Catalogue |-> IF p \in start.now THEN plans[p] + 1 ELSE plans[p]]
             /\ UNCHANGED <<made, index, doubled, unpaid>>
    BY <2>2, PlansGrow DEF Grown
  <2>3. QED
    BY <1>2, <2>1, <2>2 DEF InsertPlanAtStart, StartStep
<1>3. CASE ~InsertPlanAtStart /\ ~\E c \in Collections : InitCollection(c)
  <2>1. CASE BeginPayment
    BY <2>1, <1>same, Zenon DEF BeginPayment, Same
  <2>2. CASE ~BeginPayment
    <3>1. Same /\ UNCHANGED <<doubled, unpaid>>
      BY <1>3, <2>2 DEF ProgramStep, BeginStart, FindPlanAtStart, ProgramIsUp, SignUp, StartStep, Same
    <3>2. QED
      BY <3>1, <1>same
  <2>3. QED
    BY <2>1, <2>2
<1>4. QED
  BY <1>1, <1>2, <1>3

-------------------------------------------------------------------------------
(* What a run that applies the migration has achieved so far *)

Ready(c, M, X) == c \in M /\ \A i \in Indexes : Of[i] = c => X[i] # "none"
Prepared(M, X) == \A c \in Collections : Ready(c, M, X)
Seeded(some, P) == \A p \in some : P[p] >= 1

\* M, X and P stand for made, index and plans.
Progress(q, M, X, P) ==
  /\ q.listed \subseteq M
  /\ q.apply =>
       /\ q.at = "collections" => \A c \in Collections \ q.todo : Ready(c, M, X)
       /\ q.at \in {"create", "indexes"} => \A c \in Collections \ (q.todo \cup q.now) : Ready(c, M, X)
       /\ q.at = "indexes" => q.now \subseteq M
       /\ q.at = "build" =>
            \A c \in Collections \ q.todo :
              c \in M /\ \A i \in Indexes : Of[i] = c => X[i] # "none" \/ i \in q.build
       /\ q.at \in {"plans", "insert", "recount"} => Prepared(M, X)
       /\ q.at = "plans" => Seeded(Catalogue \ q.todo, P)
       /\ q.at = "insert" => Seeded(Catalogue \ (q.todo \cup q.now), P)
       /\ q.at = "recount" => Seeded(Catalogue, P)
       /\ q.outcome = "success" => Prepared(M, X) /\ Seeded(Catalogue, P)

AllProgress == PlansUnique /\ \A r \in Scripts : Progress(script[r], made, index, plans)

\* Progress is never lost, as nothing in the database is taken back.
LEMMA ProgressKept ==
  ASSUME NEW q, NEW M, NEW X, NEW P, NEW M2, NEW X2, NEW P2, Progress(q, M, X, P),
         M \subseteq M2,
         \A i \in Indexes : X[i] # "none" => X2[i] # "none",
         \A p \in Catalogue : P[p] \in Nat /\ P2[p] \in Nat /\ P[p] <= P2[p]
  PROVE  Progress(q, M2, X2, P2)
<1>1. \A c \in Collections : Ready(c, M, X) => Ready(c, M2, X2)
  BY DEF Ready
<1>2. \A some \in SUBSET Catalogue : Seeded(some, P) => Seeded(some, P2)
  BY DEF Seeded
<1>3. Catalogue \ q.todo \in SUBSET Catalogue /\ Catalogue \ (q.todo \cup q.now) \in SUBSET Catalogue
  OBVIOUS
<1>4. QED
  BY <1>1, <1>2, <1>3 DEF Progress, Prepared

\* Who is marked as disturbed has made the same progress.
LEMMA ProgressSeen ==
  ASSUME MigrationTypeOK, NEW r \in Scripts, NEW M, NEW X, NEW P, Progress(script[r], M, X, P)
  PROVE  Progress(Seen[r], M, X, P)
BY SeenFields DEF Progress

LEMMA GrownKeeps ==
  ASSUME MigrationTypeOK, MigrationTypeOK', Grown, NEW q, Progress(q, made, index, plans)
  PROVE  Progress(q, made', index', plans')
<1>1. /\ made \subseteq made'
      /\ \A i \in Indexes : index[i] # "none" => index'[i] # "none"
      /\ \A p \in Catalogue : plans[p] \in Nat /\ plans'[p] \in Nat /\ plans[p] <= plans'[p]
  BY DEF Grown, MigrationTypeOK
<1>2. QED
  BY <1>1, ProgressKept

\* A run that finishes and does not report success, and a run that is gone.
LEMMA ProgressEnds ==
  ASSUME MigrationTypeOK, NEW r \in Scripts, Progress(script[r], made, index, plans)
  PROVE  /\ Progress(Finish(r, "failure"), made, index, plans)
         /\ Progress(NoScript, made, index, plans)
<1>1. Progress(Finish(r, "failure"), made, index, plans)
  BY FinishFields DEF Progress
<1>2. Progress(NoScript, made, index, plans)
  BY DEF Progress, NoScript
<1>3. QED
  BY <1>1, <1>2

LEMMA OwnProgress ==
  ASSUME MigrationTypeOK, MigrationTypeOK', InHand, NEW r \in Scripts, RunStep(r),
         Progress(script[r], made, index, plans)
  PROVE  Progress(script'[r], made', index', plans')
<1> DEFINE q == script[r]
<1>0. /\ q \in Script /\ CollectionsInHand(q) /\ q.apply \in BOOLEAN
      /\ Grown /\ made \subseteq Collections /\ legacy \in Nat
      /\ \A p \in Catalogue : plans[p] \in Nat /\ plans'[p] \in Nat
  BY RunGrown DEF MigrationTypeOK, InHand, Script
<1>ends. /\ Progress(Finish(r, "failure"), made', index', plans')
         /\ Progress(NoScript, made', index', plans')
         /\ Finish(r, "failure") \in Script /\ NoScript \in Script
  BY <1>0, ProgressEnds, GrownKeeps, FinishFields, NoScriptType
<1>1. CASE \E apply \in BOOLEAN : BeginRun(r, apply)
  <2>1. PICK apply \in BOOLEAN : BeginRun(r, apply)
    BY <1>1
  <2>2. script'[r] = [NoScript EXCEPT !.at = "list", !.apply = apply,
                        !.alone = ~Starting /\ \A v \in Scripts : ~Running(v)]
    BY <2>1, SeenType DEF BeginRun
  <2>3. script'[r].at = "list" /\ script'[r].listed = {} /\ script'[r].outcome = "none"
    BY <2>2, NoScriptType DEF Script, NoScript
  <2>4. QED
    BY <2>3 DEF Progress
<1>2. CASE ListCollections(r)
  <2> DEFINE n == [script[r] EXCEPT !.at = "scan", !.listed = made, !.counted = legacy]
  <2>1. n \in Script /\ n.at = "scan" /\ n.listed = made /\ n.outcome = q.outcome /\ n.apply = q.apply
    BY <1>0 DEF Script, Points
  <2>2. Step(r, n) /\ Same
    BY <1>2 DEF ListCollections
  <2>3. Progress(n, made, index, plans)
    BY <2>1 DEF Progress
  <2> HIDE DEF n
  <2>4. QED
    BY <1>0, <2>1, <2>2, <2>3, StepFields, GrownKeeps
<1>3. CASE ScanForDuplicates(r)
  <2> DEFINE n == [script[r] EXCEPT !.at = "collections", !.todo = Collections]
  <2>1. n \in Script /\ n.at = "collections" /\ n.todo = Collections /\ n.listed = q.listed
        /\ n.outcome = q.outcome /\ n.apply = q.apply
    BY <1>0 DEF Script, Points
  <2>2. Step(r, n) \/ Step(r, Finish(r, "failure"))
    BY <1>3 DEF ScanForDuplicates
  <2>3. Progress(n, made, index, plans)
    BY <2>1 DEF Progress
  <2> HIDE DEF n
  <2>4. QED
    BY <1>0, <1>ends, <2>1, <2>2, <2>3, StepFields, GrownKeeps
<1>4. ASSUME NEW c \in Collections, TakeCollection(r, c)
      PROVE  Progress(script'[r], made', index', plans')
  <2> DEFINE n == [script[r] EXCEPT !.at = IF Absent(script[r], c) /\ script[r].apply THEN "create" ELSE "indexes",
                                    !.todo = @ \ {c}, !.now = {c}]
  <2>1. n \in Script /\ n.at = (IF Absent(q, c) /\ q.apply THEN "create" ELSE "indexes")
        /\ n.todo = q.todo \ {c} /\ n.now = {c} /\ n.listed = q.listed
        /\ n.outcome = q.outcome /\ n.apply = q.apply
    BY <1>0 DEF Script, Points
  <2>2. q.at = "collections" /\ Step(r, n)
    BY <1>4 DEF TakeCollection
  <2> HIDE DEF n
  <2>3. n.apply => \A d \in Collections \ (n.todo \cup n.now) : Ready(d, made, index)
    BY <2>1, <2>2 DEF Progress
  <2>4. n.apply /\ n.at = "indexes" => n.now \subseteq made
    BY <2>1 DEF Progress, Absent
  <2>5. Progress(n, made, index, plans)
    BY <2>1, <2>3, <2>4 DEF Progress
  <2>6. QED
    BY <1>0, <2>1, <2>2, <2>5, StepFields, GrownKeeps
<1>5. CASE CreateCollection(r)
  <2>1. "indexes" \in Points
    BY DEF Points
  <2>2. CASE Step(r, Finish(r, "failure"))
    BY <1>ends, <2>2, StepFields
  <2>3. CASE Step(r, At(r, "indexes"))
    <3> DEFINE n == At(r, "indexes")
    <3>1. q.at = "create" /\ made' = made \cup q.now
      BY <1>5 DEF CreateCollection
    <3>2. n \in Script /\ n.at = "indexes" /\ n.todo = q.todo /\ n.now = q.now /\ n.listed = q.listed
          /\ n.outcome = q.outcome /\ n.apply = q.apply
      BY <2>1, AtFields
    <3> HIDE DEF n
    <3>3. Progress(q, made', index', plans')
      BY <1>0, GrownKeeps
    <3>4. Progress(n, made', index', plans')
      BY <3>1, <3>2, <3>3 DEF Progress
    <3>5. QED
      BY <2>3, <3>2, <3>4, StepFields DEF n
  <2>4. QED
    BY <1>5, <2>2, <2>3 DEF CreateCollection
<1>6. CASE ListIndexes(r)
  <2> DEFINE built == IF script[r].apply THEN Lacking(script[r]) ELSE {}
             n == [script[r] EXCEPT !.at = "build", !.now = {}, !.build = built]
  <2>1. built \subseteq Indexes
    BY DEF Lacking
  <2>2. n \in Script /\ n.at = "build" /\ n.todo = q.todo /\ n.listed = q.listed /\ n.build = built
        /\ n.outcome = q.outcome /\ n.apply = q.apply
    BY <1>0, <2>1 DEF Script, Points
  <2>3. q.at = "indexes" /\ Step(r, n)
    BY <1>6 DEF ListIndexes
  <2>4. ASSUME q.apply, NEW c \in Collections \ q.todo
        PROVE  c \in made /\ \A i \in Indexes : Of[i] = c => index[i] # "none" \/ i \in built
    <3>1. CASE c \in q.now
      BY <2>3, <2>4, <3>1 DEF Progress, Lacking
    <3>2. CASE c \notin q.now
      BY <2>3, <2>4, <3>2 DEF Progress, Ready
    <3>3. QED
      BY <3>1, <3>2
  <2> HIDE DEF n, built
  <2>5. Progress(n, made, index, plans)
    BY <2>2, <2>4 DEF Progress
  <2>6. QED
    BY <1>0, <2>2, <2>3, <2>5, StepFields, GrownKeeps
<1>7. ASSUME NEW i \in Indexes, BuildIndex(r, i)
      PROVE  Progress(script'[r], made', index', plans')
  <2> DEFINE n == [script[r] EXCEPT !.build = @ \ {i}]
  <2>1. CASE Step(r, Finish(r, "failure"))
    BY <1>ends, <2>1, StepFields
  <2>2. CASE /\ Step(r, n)
             /\ index' = [index EXCEPT ![i] = IF @ = "none" THEN "script" ELSE @]
    <3>1. q.at = "build"
      BY <1>7 DEF BuildIndex
    <3>2. n \in Script /\ n.at = q.at /\ n.todo = q.todo /\ n.listed = q.listed /\ n.build = q.build \ {i}
          /\ n.outcome = q.outcome /\ n.apply = q.apply
      BY <1>0 DEF Script
    <3> HIDE DEF n
    <3>3. index'[i] # "none"
      BY <2>2 DEF MigrationTypeOK
    <3>4. Progress(q, made', index', plans')
      BY <1>0, GrownKeeps
    <3>5. Progress(n, made', index', plans')
      BY <3>1, <3>2, <3>3, <3>4 DEF Progress
    <3>6. QED
      BY <2>2, <3>2, <3>5, StepFields
  <2>3. QED
    BY <1>7, <2>1, <2>2 DEF BuildIndex
<1>8. CASE IndexesBuilt(r)
  <2> DEFINE n == [script[r] EXCEPT !.at = "plans", !.todo = Catalogue]
  <2>1. n \in Script /\ n.at = "plans" /\ n.todo = Catalogue /\ n.listed = q.listed
        /\ n.outcome = q.outcome /\ n.apply = q.apply
    BY <1>0 DEF Script, Points
  <2>2. q.at = "build" /\ q.build = {}
    BY <1>8 DEF IndexesBuilt
  <2>3. q.apply => \A c \in Collections \ q.todo : Ready(c, made, index)
    BY <2>2 DEF Progress, Ready
  <2>4. CASE q.todo # {} /\ Step(r, At(r, "collections"))
    <3> DEFINE m == At(r, "collections")
    <3>1. "collections" \in Points
      BY DEF Points
    <3>2. m \in Script /\ m.at = "collections" /\ m.todo = q.todo /\ m.listed = q.listed
          /\ m.outcome = q.outcome /\ m.apply = q.apply
      BY <3>1, AtFields
    <3> HIDE DEF m
    <3>3. Progress(m, made, index, plans)
      BY <2>3, <3>2 DEF Progress
    <3>4. QED
      BY <1>0, <2>4, <3>2, <3>3, StepFields, GrownKeeps DEF m
  <2>5. CASE q.todo = {} /\ Step(r, n)
    <3> HIDE DEF n
    <3>1. q.apply => Prepared(made, index)
      BY <2>3, <2>5 DEF Prepared
    <3>2. Progress(n, made, index, plans)
      BY <2>1, <3>1 DEF Progress, Seeded
    <3>3. QED
      BY <1>0, <2>1, <2>5, <3>2, StepFields, GrownKeeps
  <2>6. QED
    BY <1>8, <2>4, <2>5 DEF IndexesBuilt
<1>9. ASSUME NEW p \in Catalogue, FindPlan(r, p)
      PROVE  Progress(script'[r], made', index', plans')
  <2> DEFINE n == [script[r] EXCEPT !.at = IF plans[p] = 0 /\ script[r].apply THEN "insert" ELSE "plans",
                                    !.todo = @ \ {p}, !.now = {p}]
  <2>1. n \in Script /\ n.at = (IF plans[p] = 0 /\ q.apply THEN "insert" ELSE "plans")
        /\ n.todo = q.todo \ {p} /\ n.now = {p} /\ n.listed = q.listed
        /\ n.outcome = q.outcome /\ n.apply = q.apply
    BY <1>0 DEF Script, Points
  <2>2. q.at = "plans" /\ Step(r, n)
    BY <1>9 DEF FindPlan
  <2> HIDE DEF n
  <2>3. q.apply => Prepared(made, index) /\ Seeded(Catalogue \ q.todo, plans)
    BY <2>2 DEF Progress
  <2>4. q.apply /\ n.at = "plans" => Seeded(Catalogue \ n.todo, plans)
    BY <1>0, <2>1, <2>3 DEF Seeded
  <2>5. q.apply => Seeded(Catalogue \ (n.todo \cup n.now), plans)
    BY <2>1, <2>3 DEF Seeded
  <2>6. Progress(n, made, index, plans)
    BY <2>1, <2>3, <2>4, <2>5 DEF Progress
  <2>7. QED
    BY <1>0, <2>1, <2>2, <2>6, StepFields, GrownKeeps
<1>10. CASE InsertPlan(r)
  <2>1. CASE Step(r, Finish(r, "failure"))
    BY <1>ends, <2>1, StepFields
  <2>2. CASE /\ Step(r, At(r, "plans"))
             /\ plans' = [p \in Catalogue |-> IF p \in script[r].now THEN plans[p] + 1 ELSE plans[p]]
    <3> DEFINE n == At(r, "plans")
    <3>1. "plans" \in Points /\ q.at = "insert"
      BY <1>10 DEF Points, InsertPlan
    <3>2. n \in Script /\ n.at = "plans" /\ n.todo = q.todo /\ n.listed = q.listed
          /\ n.outcome = q.outcome /\ n.apply = q.apply
      BY <3>1, AtFields
    <3> HIDE DEF n
    <3>3. Progress(q, made', index', plans')
      BY <1>0, GrownKeeps
    <3>4. q.apply => Seeded(Catalogue \ q.todo, plans')
      <4>1. \A p \in Catalogue : p \in q.now => plans'[p] >= 1
        BY <1>0, <2>2
      <4>2. q.apply => Seeded(Catalogue \ (q.todo \cup q.now), plans')
        BY <3>1, <3>3 DEF Progress
      <4>3. QED
        BY <4>1, <4>2 DEF Seeded
    <3>5. Progress(n, made', index', plans')
      BY <3>1, <3>2, <3>3, <3>4 DEF Progress
    <3>6. QED
      BY <2>2, <3>2, <3>5, StepFields DEF n
  <2>3. QED
    BY <1>10, <2>1, <2>2 DEF InsertPlan
<1>11. CASE PlansSeeded(r)
  <2> DEFINE n == At(r, "recount")
  <2>1. "recount" \in Points /\ q.at = "plans" /\ q.todo = {} /\ Step(r, n)
    BY <1>11 DEF Points, PlansSeeded
  <2>2. n \in Script /\ n.at = "recount" /\ n.listed = q.listed
        /\ n.outcome = q.outcome /\ n.apply = q.apply
    BY <2>1, AtFields
  <2> HIDE DEF n
  <2>3. Progress(n, made, index, plans)
    BY <2>1, <2>2 DEF Progress, Seeded
  <2>4. QED
    BY <1>0, <2>1, <2>2, <2>3, StepFields, GrownKeeps
<1>12. CASE Recount(r)
  <2>1. q.at = "recount" /\ (Step(r, Finish(r, "success")) \/ Step(r, Finish(r, "failure")))
    BY <1>12 DEF Recount
  <2>2. Progress(Finish(r, "success"), made, index, plans)
    BY <2>1, FinishFields DEF Progress
  <2>3. QED
    BY <1>0, <1>ends, <2>1, <2>2, FinishFields, StepFields, GrownKeeps
<1>13. CASE StopRun(r)
  BY <1>ends, <1>13, StepFields DEF StopRun
<1>14. QED
  BY <1>1, <1>2, <1>3, <1>4, <1>5, <1>6, <1>7, <1>8, <1>9, <1>10, <1>11, <1>12, <1>13 DEF RunStep

LEMMA ProgressStep ==
  MigrationTypeOK /\ InHand /\ AllProgress /\ [MigrationNext]_migrationVars => AllProgress'
<1> SUFFICES ASSUME MigrationTypeOK, InHand, AllProgress, [MigrationNext]_migrationVars
             PROVE  AllProgress'
  OBVIOUS
<1>0. MigrationTypeOK' /\ \A r \in Scripts : Progress(script[r], made, index, plans)
  BY MigrationTypeStep DEF AllProgress
<1>others. ASSUME Grown, NEW v \in Scripts, script'[v] = Seen[v]
           PROVE  Progress(script'[v], made', index', plans')
  <2>1. Progress(Seen[v], made, index, plans)
    BY <1>0, ProgressSeen
  <2>2. QED
    BY <1>0, <1>others, <2>1, GrownKeeps
<1>1. ASSUME NEW r \in Scripts, RunStep(r)
      PROVE  AllProgress'
  <2>1. Progress(script'[r], made', index', plans')
    BY <1>0, <1>1, OwnProgress
  <2>2. Grown /\ PlansUnique'
    BY <1>1, RunGrown DEF AllProgress
  <2>3. \A v \in Scripts \ {r} : script'[v] = Seen[v]
    BY <1>1, RunStepOthers
  <2>4. QED
    BY <1>others, <2>1, <2>2, <2>3 DEF AllProgress
<1>2. CASE ProgramStep
  <2>1. script' = Seen
    BY <1>2 DEF ProgramStep, BeginStart, InitCollection, FindPlanAtStart, InsertPlanAtStart, ProgramIsUp,
       SignUp, BeginPayment, StartStep
  <2>2. Grown /\ PlansUnique'
    BY <1>2, ProgramGrown DEF AllProgress
  <2>3. QED
    BY <1>others, <2>1, <2>2 DEF AllProgress
<1>3. CASE UNCHANGED migrationVars
  BY <1>0, <1>3 DEF migrationVars, AllProgress, PlansUnique
<1>4. QED
  BY <1>1, <1>2, <1>3 DEF MigrationNext, ProgramStep

LEMMA ProgressInitially == MigrationInit => AllProgress
<1> SUFFICES ASSUME MigrationInit PROVE AllProgress
  OBVIOUS
<1>1. index[PlanIndex] = "none"
  BY MigrationAssumption DEF MigrationInit, MigrationAssumption
<1>2. Progress(NoScript, made, index, plans)
  BY DEF Progress, NoScript
<1>3. QED
  BY <1>1, <1>2 DEF AllProgress, PlansUnique, MigrationInit

\* A run that applied the migration and reports success leaves nothing out and
\* nothing twice, however many runs and starts were stopped or ran beside it.
THEOREM SuccessMeansComplete == MigrationSpec => []SuccessIsComplete
<1>1. MigrationTypeOK /\ AllProgress => SuccessIsComplete
  <2> SUFFICES ASSUME MigrationTypeOK, AllProgress, NEW r \in Scripts,
                      script[r].apply, script[r].outcome = "success"
               PROVE  /\ made = Collections
                      /\ \A i \in Indexes : index[i] # "none"
                      /\ \A p \in Catalogue : plans[p] = 1
    BY DEF SuccessIsComplete
  <2>1. Prepared(made, index) /\ Seeded(Catalogue, plans)
    BY DEF AllProgress, Progress
  <2>2. made = Collections /\ \A i \in Indexes : index[i] # "none"
    BY <2>1, MigrationAssumption DEF Prepared, Ready, MigrationAssumption, MigrationTypeOK
  <2>3. \A p \in Catalogue : plans[p] <= 1 /\ plans[p] >= 1 /\ plans[p] \in Nat
    BY <2>1, <2>2, MigrationAssumption DEF AllProgress, PlansUnique, Seeded, MigrationAssumption, MigrationTypeOK
  <2>4. \A p \in Catalogue : plans[p] = 1
    BY <2>3
  <2>5. QED
    BY <2>2, <2>4
<1>2. QED
  BY MigrationTypeInitially, InHandInitially, ProgressInitially, MigrationTypeStep, ProgressStep, <1>1, PTL
     DEF MigrationSpec

-------------------------------------------------------------------------------
(* What a run that nobody disturbs can rely on *)

Blocked == \E i \in Unique : Refused(i, "script")
BlockedAtStart == \E i \in Unique : Refused(i, "program") \/ Differs(i, "program")

Undisturbed(q) == q.alone =>
  /\ q.outcome = "failure" => Blocked
  /\ q.at \notin {"off", "list", "ended"} => q.counted = legacy
  /\ q.at = "scan" => made = q.listed
  /\ q.at \in {"collections", "create", "indexes", "build"} => q.todo \cap made \subseteq q.listed
  /\ q.at = "create" => q.now # {} /\ q.now \cap made = {} /\ q.todo \cap q.now = {}
  /\ q.at = "build" => \A i \in q.build : index[i] = "none"
  /\ q.at = "insert" => \A p \in q.now : plans[p] = 0

StartUndisturbed == start.alone =>
  /\ start.at = "failed" => BlockedAtStart
  /\ start.at = "insert" => \A p \in start.now : plans[p] = 0

AllUndisturbed == StartUndisturbed /\ \A r \in Scripts : Undisturbed(script[r])

\* What blocks an index goes on blocking it.
LEMMA BlockedStays ==
  ASSUME MigrationTypeOK, MigrationTypeOK', Grown
  PROVE  (Blocked => Blocked') /\ (BlockedAtStart => BlockedAtStart')
<1>1. ASSUME NEW i \in Unique, NEW m \in {"script", "program"}, Refused(i, m)
      PROVE  Refused(i, m)'
  <2>1. CASE i = PlanIndex
    <3>1. PICK p \in Catalogue : plans[p] > 1
      BY <1>1, <2>1 DEF Refused
    <3>2. plans[p] <= plans'[p] /\ plans[p] \in Nat /\ plans'[p] \in Nat
      BY DEF Grown, MigrationTypeOK
    <3>3. QED
      BY <2>1, <3>1, <3>2 DEF Refused
  <2>2. CASE i # PlanIndex
    BY <1>1, <2>2 DEF Refused, Grown
  <2>3. QED
    BY <2>1, <2>2
<1>2. ASSUME NEW i \in Unique, Differs(i, "program")
      PROVE  Differs(i, "program")'
  BY <1>2, MigrationAssumption DEF Differs, Grown, MigrationAssumption
<1>3. QED
  BY <1>1, <1>2 DEF Blocked, BlockedAtStart

\* Duplicates that the scan finds, and documents over which an index fails.
LEMMA FoundBlocks ==
  ASSUME MigrationTypeOK
  PROVE  /\ Found => Blocked
         /\ \A i \in Indexes : Refused(i, "script") => Blocked
         /\ \A i \in Indexes : Refused(i, "program") \/ Differs(i, "program") => BlockedAtStart
<1>1. \A i : Refused(i, "program") => Refused(i, "script")
  BY DEF Refused
<1>2. Found => Blocked
  BY <1>1 DEF Found, Blocked
<1>3. \A i : Refused(i, "script") \/ Differs(i, "program") => i \in Unique
  BY MigrationAssumption DEF Refused, Differs, MigrationAssumption, MigrationTypeOK
<1>4. QED
  BY <1>1, <1>2, <1>3 DEF Blocked, BlockedAtStart

\* A run or a start that was disturbed need not be explained.
LEMMA OthersUndisturbed ==
  ASSUME MigrationTypeOK, MigrationTypeOK', Grown, NEW v \in Scripts,
         Undisturbed(script[v]), script'[v] = Seen[v]
  PROVE  Undisturbed(script[v])'
<1>1. CASE Running(v)
  BY <1>1, SeenFields DEF Undisturbed
<1>2. CASE ~Running(v)
  <2>1. script'[v] = script[v] /\ script[v].at \in {"off", "ended"}
    BY <1>2, SeenFields DEF Running
  <2>2. QED
    BY <2>1, BlockedStays DEF Undisturbed
<1>3. QED
  BY <1>1, <1>2

LEMMA StartSeen ==
  ASSUME MigrationTypeOK, MigrationTypeOK', Grown, StartUndisturbed, start' = SeenByStart
  PROVE  StartUndisturbed'
<1>1. CASE Starting
  BY <1>1, SeenByStartFields DEF StartUndisturbed
<1>2. CASE ~Starting
  <2>1. start' = start /\ start.at \in {"off", "up", "failed"}
    BY <1>2, SeenByStartFields DEF Starting
  <2>2. QED
    BY <2>1, BlockedStays DEF StartUndisturbed
<1>3. QED
  BY <1>1, <1>2

\* Alone with the database, a run finds what it has left there.
LEMMA OwnUndisturbed ==
  ASSUME MigrationTypeOK, MigrationTypeOK', InHand, NEW r \in Scripts, RunStep(r),
         Undisturbed(script[r])
  PROVE  Undisturbed(script[r])'
<1> DEFINE q == script[r]
<1>0. /\ q \in Script /\ CollectionsInHand(q) /\ q.apply \in BOOLEAN /\ q.alone \in BOOLEAN
      /\ made \subseteq Collections /\ legacy \in Nat /\ index \in [Indexes -> Makers]
      /\ \A p \in Catalogue : plans[p] \in Nat
  BY DEF MigrationTypeOK, InHand, Script
<1>blocked. Blocked => Blocked'
  BY RunGrown, BlockedStays
<1>fails. ASSUME Step(r, Finish(r, "failure")), q.alone => Blocked
          PROVE  Undisturbed(script[r])'
  <2>1. script'[r] = Finish(r, "failure")
    BY <1>fails, FinishFields, StepFields
  <2>2. QED
    BY <2>1, <1>fails, <1>blocked, FinishFields DEF Undisturbed
<1>1. CASE \E apply \in BOOLEAN : BeginRun(r, apply)
  <2>1. script'[r].at = "list" /\ script'[r].outcome = "none"
    BY <1>1, BeginRunType
  <2>2. QED
    BY <2>1 DEF Undisturbed
<1>2. CASE ListCollections(r)
  <2> DEFINE n == [script[r] EXCEPT !.at = "scan", !.listed = made, !.counted = legacy]
  <2>1. n \in Script /\ n.at = "scan" /\ n.listed = made /\ n.counted = legacy
        /\ n.outcome = q.outcome /\ n.alone = q.alone
    BY <1>0 DEF Script, Points
  <2>2. Step(r, n) /\ Same
    BY <1>2 DEF ListCollections
  <2> HIDE DEF n
  <2>3. script'[r] = n /\ UNCHANGED <<made, legacy>>
    BY <2>1, <2>2, StepFields DEF Same
  <2>4. QED
    BY <2>1, <2>3, <1>blocked DEF Undisturbed
<1>3. CASE ScanForDuplicates(r)
  <2> DEFINE n == [script[r] EXCEPT !.at = "collections", !.todo = Collections]
  <2>1. n \in Script /\ n.at = "collections" /\ n.listed = q.listed /\ n.counted = q.counted
        /\ n.outcome = q.outcome /\ n.alone = q.alone
    BY <1>0 DEF Script, Points
  <2>2. CASE Found /\ Step(r, Finish(r, "failure"))
    BY <2>2, <1>fails, FoundBlocks
  <2>3. CASE Step(r, n) /\ Same
    <3> HIDE DEF n
    <3>1. script'[r] = n /\ UNCHANGED <<made, legacy>> /\ q.at = "scan"
      BY <1>3, <2>1, <2>3, StepFields DEF Same, ScanForDuplicates
    <3>2. QED
      BY <2>1, <3>1, <1>blocked DEF Undisturbed
  <2>4. QED
    BY <1>3, <2>2, <2>3 DEF ScanForDuplicates
<1>4. ASSUME NEW c \in Collections, TakeCollection(r, c)
      PROVE  Undisturbed(script[r])'
  <2> DEFINE n == [script[r] EXCEPT !.at = IF Absent(script[r], c) /\ script[r].apply THEN "create" ELSE "indexes",
                                    !.todo = @ \ {c}, !.now = {c}]
  <2>1. n \in Script /\ n.at = (IF Absent(q, c) /\ q.apply THEN "create" ELSE "indexes")
        /\ n.todo = q.todo \ {c} /\ n.now = {c} /\ n.listed = q.listed /\ n.counted = q.counted
        /\ n.outcome = q.outcome /\ n.alone = q.alone
    BY <1>0 DEF Script, Points
  <2>2. q.at = "collections" /\ c \in q.todo /\ Step(r, n) /\ Same
    BY <1>4 DEF TakeCollection
  <2> HIDE DEF n
  <2>3. script'[r] = n /\ UNCHANGED <<made, legacy>>
    BY <2>1, <2>2, StepFields DEF Same
  <2>4. QED
    BY <2>1, <2>2, <2>3, <1>blocked DEF Undisturbed, Absent
<1>5. CASE CreateCollection(r)
  <2>1. q.at = "create" /\ made' = made \cup q.now
    BY <1>5 DEF CreateCollection
  <2>2. CASE q.now \subseteq made /\ Step(r, Finish(r, "failure"))
    BY <2>1, <2>2, <1>fails DEF Undisturbed
  <2>3. CASE Step(r, At(r, "indexes"))
    <3> DEFINE n == At(r, "indexes")
    <3>1. "indexes" \in Points
      BY DEF Points
    <3>2. n \in Script /\ n.at = "indexes" /\ n.todo = q.todo /\ n.listed = q.listed /\ n.counted = q.counted
          /\ n.outcome = q.outcome /\ n.alone = q.alone
      BY <3>1, AtFields
    <3> HIDE DEF n
    <3>3. script'[r] = n /\ UNCHANGED legacy
      BY <2>3, <3>2, StepFields DEF n
    <3>4. QED
      BY <2>1, <3>2, <3>3, <1>blocked DEF Undisturbed
  <2>4. QED
    BY <1>5, <2>2, <2>3 DEF CreateCollection
<1>6. CASE ListIndexes(r)
  <2> DEFINE built == IF script[r].apply THEN Lacking(script[r]) ELSE {}
             n == [script[r] EXCEPT !.at = "build", !.now = {}, !.build = built]
  <2>1. built \subseteq Indexes /\ \A i \in built : index[i] = "none"
    BY DEF Lacking
  <2>2. n \in Script /\ n.at = "build" /\ n.todo = q.todo /\ n.listed = q.listed /\ n.counted = q.counted
        /\ n.build = built /\ n.outcome = q.outcome /\ n.alone = q.alone
    BY <1>0, <2>1 DEF Script, Points
  <2>3. q.at = "indexes" /\ Step(r, n) /\ Same
    BY <1>6 DEF ListIndexes
  <2> HIDE DEF n, built
  <2>4. script'[r] = n /\ UNCHANGED <<made, index, legacy>>
    BY <2>2, <2>3, StepFields DEF Same
  <2>5. QED
    BY <2>1, <2>2, <2>3, <2>4, <1>blocked DEF Undisturbed
<1>7. ASSUME NEW i \in Indexes, BuildIndex(r, i)
      PROVE  Undisturbed(script[r])'
  <2> DEFINE n == [script[r] EXCEPT !.build = @ \ {i}]
  <2>1. q.at = "build" /\ i \in q.build
    BY <1>7 DEF BuildIndex
  <2>2. CASE /\ Differs(i, "script") \/ (index[i] = "none" /\ Refused(i, "script"))
             /\ Step(r, Finish(r, "failure"))
    <3>1. q.alone => index[i] = "none"
      BY <2>1 DEF Undisturbed
    <3>2. q.alone => Blocked
      BY <2>2, <3>1, FoundBlocks DEF Differs
    <3>3. QED
      BY <2>2, <3>2, <1>fails
  <2>3. CASE /\ Step(r, n) /\ UNCHANGED <<made, plans>>
             /\ index' = [index EXCEPT ![i] = IF @ = "none" THEN "script" ELSE @]
    <3>1. n \in Script /\ n.at = q.at /\ n.todo = q.todo /\ n.listed = q.listed /\ n.counted = q.counted
          /\ n.build = q.build \ {i} /\ n.outcome = q.outcome /\ n.alone = q.alone
      BY <1>0 DEF Script
    <3> HIDE DEF n
    <3>2. script'[r] = n /\ UNCHANGED <<made, legacy>>
      BY <2>3, <3>1, StepFields
    <3>3. \A j \in n.build : index'[j] = index[j]
      BY <1>0, <2>3, <3>1 DEF Script
    <3>4. QED
      BY <2>1, <3>1, <3>2, <3>3, <1>blocked DEF Undisturbed
  <2>4. QED
    BY <1>7, <2>2, <2>3 DEF BuildIndex
<1>8. CASE IndexesBuilt(r)
  <2> DEFINE n == [script[r] EXCEPT !.at = "plans", !.todo = Catalogue]
             m == At(r, "collections")
  <2>1. n \in Script /\ n.at = "plans" /\ n.counted = q.counted /\ n.outcome = q.outcome /\ n.alone = q.alone
    BY <1>0 DEF Script, Points
  <2>2. "collections" \in Points
    BY DEF Points
  <2>3. m \in Script /\ m.at = "collections" /\ m.todo = q.todo /\ m.listed = q.listed
        /\ m.counted = q.counted /\ m.outcome = q.outcome /\ m.alone = q.alone
    BY <2>2, AtFields
  <2>4. q.at = "build" /\ Same /\ (Step(r, m) \/ Step(r, n))
    BY <1>8 DEF IndexesBuilt
  <2> HIDE DEF n, m
  <2>5. (script'[r] = m \/ script'[r] = n) /\ UNCHANGED <<made, legacy>>
    BY <2>1, <2>3, <2>4, StepFields DEF Same
  <2>6. QED
    BY <2>1, <2>3, <2>4, <2>5, <1>blocked DEF Undisturbed
<1>9. ASSUME NEW p \in Catalogue, FindPlan(r, p)
      PROVE  Undisturbed(script[r])'
  <2> DEFINE n == [script[r] EXCEPT !.at = IF plans[p] = 0 /\ script[r].apply THEN "insert" ELSE "plans",
                                    !.todo = @ \ {p}, !.now = {p}]
  <2>1. n \in Script /\ n.at = (IF plans[p] = 0 /\ q.apply THEN "insert" ELSE "plans") /\ n.now = {p}
        /\ n.counted = q.counted /\ n.outcome = q.outcome /\ n.alone = q.alone
    BY <1>0 DEF Script, Points
  <2>2. q.at = "plans" /\ Step(r, n) /\ Same
    BY <1>9 DEF FindPlan
  <2> HIDE DEF n
  <2>3. script'[r] = n /\ UNCHANGED <<plans, legacy>>
    BY <2>1, <2>2, StepFields DEF Same
  <2>4. QED
    BY <2>1, <2>2, <2>3, <1>blocked DEF Undisturbed
<1>10. CASE InsertPlan(r)
  <2>1. q.at = "insert"
    BY <1>10 DEF InsertPlan
  <2>2. CASE (\E p \in q.now : ~Insertable(p)) /\ Step(r, Finish(r, "failure"))
    <3>1. ~q.alone
      BY <2>1, <2>2 DEF Undisturbed, Insertable
    <3>2. QED
      BY <2>2, <3>1, <1>fails
  <2>3. CASE Step(r, At(r, "plans"))
    <3> DEFINE n == At(r, "plans")
    <3>1. "plans" \in Points
      BY DEF Points
    <3>2. n \in Script /\ n.at = "plans" /\ n.counted = q.counted
          /\ n.outcome = q.outcome /\ n.alone = q.alone
      BY <3>1, AtFields
    <3> HIDE DEF n
    <3>3. script'[r] = n /\ UNCHANGED legacy
      BY <2>3, <3>2, StepFields DEF n
    <3>4. QED
      BY <2>1, <3>2, <3>3, <1>blocked DEF Undisturbed
  <2>4. QED
    BY <1>10, <2>2, <2>3 DEF InsertPlan
<1>11. CASE PlansSeeded(r)
  <2> DEFINE n == At(r, "recount")
  <2>1. "recount" \in Points /\ q.at = "plans" /\ Step(r, n)
    BY <1>11 DEF Points, PlansSeeded
  <2>2. n \in Script /\ n.at = "recount" /\ n.counted = q.counted
        /\ n.outcome = q.outcome /\ n.alone = q.alone
    BY <2>1, AtFields
  <2> HIDE DEF n
  <2>3. script'[r] = n /\ UNCHANGED legacy
    BY <2>1, <2>2, StepFields
  <2>4. QED
    BY <2>1, <2>2, <2>3, <1>blocked DEF Undisturbed
<1>12. CASE Recount(r)
  <2>1. CASE legacy = q.counted /\ Step(r, Finish(r, "success"))
    <3>1. script'[r] = Finish(r, "success")
      BY <2>1, FinishFields, StepFields
    <3>2. QED
      BY <3>1, FinishFields DEF Undisturbed
  <2>2. CASE legacy # q.counted /\ Step(r, Finish(r, "failure"))
    <3>1. ~q.alone
      BY <1>12, <2>2 DEF Undisturbed, Recount
    <3>2. QED
      BY <2>2, <3>1, <1>fails
  <2>3. QED
    BY <1>12, <2>1, <2>2 DEF Recount
<1>13. CASE StopRun(r)
  <2>1. script'[r] = NoScript
    BY <1>13, NoScriptType, StepFields DEF StopRun
  <2>2. QED
    BY <2>1 DEF Undisturbed, NoScript
<1>14. QED
  BY <1>1, <1>2, <1>3, <1>4, <1>5, <1>6, <1>7, <1>8, <1>9, <1>10, <1>11, <1>12, <1>13 DEF RunStep

\* The same for a start of the program.
LEMMA ProgramUndisturbed ==
  ASSUME MigrationTypeOK, MigrationTypeOK', ProgramStep, StartUndisturbed
  PROVE  StartUndisturbed'
<1>0. start \in Start /\ (BlockedAtStart => BlockedAtStart')
  BY ProgramGrown, BlockedStays DEF MigrationTypeOK
<1>1. CASE BeginStart
  <2> DEFINE n == [NoStart EXCEPT !.at = "indexes", !.todo = Collections,
                                  !.alone = \A r \in Scripts : ~Running(r)]
  <2>1. n.at = "indexes"
    BY NoStartType DEF Start
  <2>2. start' = n
    BY <1>1 DEF BeginStart
  <2> HIDE DEF n
  <2>3. QED
    BY <2>1, <2>2 DEF StartUndisturbed
<1>2. ASSUME NEW c \in Collections, InitCollection(c)
      PROVE  StartUndisturbed'
  <2>1. CASE /\ \E i \in On(c) : Differs(i, "program") \/ (index[i] = "none" /\ Refused(i, "program"))
             /\ StartStep([start EXCEPT !.at = "failed"])
    <3>1. BlockedAtStart
      BY <2>1, FoundBlocks DEF On
    <3>2. start'.at = "failed"
      BY <1>0, <2>1 DEF StartStep, Start
    <3>3. QED
      BY <1>0, <3>1, <3>2 DEF StartUndisturbed
  <2>2. CASE StartStep(IF start.todo = {c} THEN [start EXCEPT !.at = "plans", !.todo = Catalogue]
                       ELSE [start EXCEPT !.todo = @ \ {c}])
    <3>1. start'.at \in {"plans", "indexes"}
      BY <1>0, <1>2, <2>2 DEF StartStep, Start, InitCollection
    <3>2. QED
      BY <3>1 DEF StartUndisturbed
  <2>3. QED
    BY <1>2, <2>1, <2>2 DEF InitCollection
<1>3. ASSUME NEW p \in Catalogue, FindPlanAtStart(p)
      PROVE  StartUndisturbed'
  <2> DEFINE n == [start EXCEPT !.at = IF plans[p] = 0 THEN "insert" ELSE "plans",
                                !.todo = @ \ {p}, !.now = {p}]
  <2>1. n.at = (IF plans[p] = 0 THEN "insert" ELSE "plans") /\ n.now = {p}
    BY <1>0 DEF Start
  <2>2. start' = n /\ UNCHANGED plans
    BY <1>3 DEF FindPlanAtStart, StartStep, Same
  <2> HIDE DEF n
  <2>3. QED
    BY <2>1, <2>2 DEF StartUndisturbed
<1>4. CASE InsertPlanAtStart
  <2>1. CASE (\E p \in start.now : ~Insertable(p)) /\ StartStep([start EXCEPT !.at = "failed"])
    <3>1. ~start.alone
      BY <1>4, <2>1 DEF StartUndisturbed, Insertable, InsertPlanAtStart
    <3>2. start'.alone = start.alone
      BY <1>0, <2>1 DEF StartStep, Start
    <3>3. QED
      BY <3>1, <3>2 DEF StartUndisturbed
  <2>2. CASE StartStep([start EXCEPT !.at = "plans"])
    <3>1. start'.at = "plans"
      BY <1>0, <2>2 DEF StartStep, Start
    <3>2. QED
      BY <3>1 DEF StartUndisturbed
  <2>3. QED
    BY <1>4, <2>1, <2>2 DEF InsertPlanAtStart
<1>5. CASE ProgramIsUp
  <2>1. start'.at = "up"
    BY <1>0, <1>5 DEF ProgramIsUp, StartStep, Start
  <2>2. QED
    BY <2>1 DEF StartUndisturbed
<1>6. CASE SignUp \/ BeginPayment
  <2>1. start' = start /\ start.at = "up"
    BY <1>6 DEF SignUp, BeginPayment
  <2>2. QED
    BY <2>1 DEF StartUndisturbed
<1>7. QED
  BY <1>1, <1>2, <1>3, <1>4, <1>5, <1>6 DEF ProgramStep

LEMMA UndisturbedStep ==
  MigrationTypeOK /\ InHand /\ AllUndisturbed /\ [MigrationNext]_migrationVars => AllUndisturbed'
<1> SUFFICES ASSUME MigrationTypeOK, InHand, AllUndisturbed, [MigrationNext]_migrationVars
             PROVE  AllUndisturbed'
  OBVIOUS
<1>0. MigrationTypeOK' /\ StartUndisturbed /\ \A r \in Scripts : Undisturbed(script[r])
  BY MigrationTypeStep DEF AllUndisturbed
<1>1. ASSUME NEW r \in Scripts, RunStep(r)
      PROVE  AllUndisturbed'
  <2>1. Undisturbed(script[r])'
    BY <1>0, <1>1, OwnUndisturbed
  <2>2. start' = SeenByStart /\ \A v \in Scripts \ {r} : script'[v] = Seen[v]
    BY <1>1, RunStepOthers
  <2>3. Grown
    BY <1>1, RunGrown
  <2>4. StartUndisturbed'
    BY <1>0, <2>2, <2>3, StartSeen
  <2>5. ASSUME NEW v \in Scripts PROVE Undisturbed(script[v])'
    <3>1. CASE v = r
      BY <2>1, <3>1
    <3>2. CASE v # r
      BY <1>0, <2>2, <2>3, <3>2, OthersUndisturbed
    <3>3. QED
      BY <3>1, <3>2
  <2>6. QED
    BY <2>4, <2>5 DEF AllUndisturbed
<1>2. CASE ProgramStep
  <2>1. script' = Seen
    BY <1>2 DEF ProgramStep, BeginStart, InitCollection, FindPlanAtStart, InsertPlanAtStart, ProgramIsUp,
       SignUp, BeginPayment, StartStep
  <2>2. Grown /\ StartUndisturbed'
    BY <1>0, <1>2, ProgramGrown, ProgramUndisturbed
  <2>3. \A v \in Scripts : Undisturbed(script[v])'
    BY <1>0, <2>1, <2>2, OthersUndisturbed
  <2>4. QED
    BY <2>2, <2>3 DEF AllUndisturbed
<1>3. CASE UNCHANGED migrationVars
  <2>1. Blocked' = Blocked /\ BlockedAtStart' = BlockedAtStart
    BY <1>3 DEF migrationVars, Blocked, BlockedAtStart, Refused, Differs
  <2>2. \A v \in Scripts : Undisturbed(script[v])'
    BY <1>0, <1>3, <2>1 DEF migrationVars, Undisturbed
  <2>3. StartUndisturbed'
    BY <1>0, <1>3, <2>1 DEF migrationVars, StartUndisturbed
  <2>4. QED
    BY <2>2, <2>3 DEF AllUndisturbed
<1>4. QED
  BY <1>1, <1>2, <1>3 DEF MigrationNext, ProgramStep

LEMMA UndisturbedInitially == MigrationInit => AllUndisturbed
BY DEF MigrationInit, AllUndisturbed, StartUndisturbed, Undisturbed, NoScript, NoStart

\* A run that had the database to itself fails over documents that hold a key
\* twice and over nothing that an earlier run left half done; a start likewise,
\* but for the index that script and program declare differently.
THEOREM FailureHasAReason == MigrationSpec => []FailureIsExplained
<1>1. AllUndisturbed => FailureIsExplained
  BY DEF AllUndisturbed, StartUndisturbed, Undisturbed, Blocked, BlockedAtStart, FailureIsExplained
<1>2. QED
  BY MigrationTypeInitially, InHandInitially, UndisturbedInitially, MigrationTypeStep, UndisturbedStep, <1>1, PTL
     DEF MigrationSpec
===============================================================================
