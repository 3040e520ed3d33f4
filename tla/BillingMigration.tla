--------------------------- MODULE BillingMigration ---------------------------
(***************************************************************************)
(* The migration to the billing collections                                *)
(* (app/migrations/migrate_billing_v2.py) and the start of the program     *)
(* (app/database.py, app/seed.py), which prepares the same database: both  *)
(* create what is missing of the collections, their indexes and the plans. *)
(*                                                                         *)
(* A run of the script can be stopped at any point and be run again, beside*)
(* another run or while the program starts.  It looks at the list of       *)
(* collections once, at the indexes of a collection once, and looks for    *)
(* each plan before it inserts it.                                         *)
(*                                                                         *)
(* One index is not the same to both: that on the ids of payments counts   *)
(* transactions without an id as equal when the script has created it.     *)
(***************************************************************************)
EXTENDS Naturals, FiniteSets

CONSTANTS
  Collections,  \* names of the billing collections
  Indexes,      \* names of their indexes
  Of,           \* the collection of each index
  Unique,       \* the indexes that are unique
  Scanned,      \* those of them whose duplicates the script looks for
  Differing,    \* those to which script and program give other options
  PlanIndex,    \* the unique index on the plans
  Catalogue,    \* the plans to seed
  Scripts,      \* runs of the script at once
  MaxRuns,      \* bound: runs of the script
  MaxStarts,    \* bound: starts of the program
  MaxSignups    \* bound: users who register while the program is up

MigrationAssumption ==
  /\ IsFiniteSet(Collections) /\ IsFiniteSet(Catalogue)
  /\ Of \in [Indexes -> Collections]
  /\ PlanIndex \in Unique /\ Scanned \subseteq Unique /\ Unique \subseteq Indexes
  /\ Differing \subseteq Unique \ {PlanIndex}
  /\ MaxRuns \in Nat /\ MaxStarts \in Nat /\ MaxSignups \in Nat
ASSUME MigrationAssumption

VARIABLES
  made,      \* the collections that exist
  index,     \* who has created each index
  plans,     \* how many documents there are of each plan
  doubled,   \* unique indexes whose documents hold a key twice
  unpaid,    \* there are transactions without the id of a payment
  legacy,    \* users and payments of before, counted
  script,    \* local state of each run of the script
  start,     \* local state of the program that starts
  runs, starts

migrationVars ==
  <<made, index, plans, doubled, unpaid, legacy, script, start, runs, starts>>

-------------------------------------------------------------------------------
(* The database *)

Makers == {"none", "script", "program"}
On(c) == {i \in Indexes : Of[i] = c}

\* Creating the index would fail over the documents.
Refused(i, maker) ==
  IF i = PlanIndex THEN \E p \in Catalogue : plans[p] > 1
  ELSE i \in doubled \/ (maker = "script" /\ i \in Differing /\ unpaid)

\* An index of the same name is there, with other options.
Differs(i, maker) == i \in Differing /\ index[i] \notin {"none", maker}

\* scan_for_duplicates looks at the collections that are there.
Found == \E i \in Scanned : i \in Unique /\ Of[i] \in made /\ Refused(i, "program")

Insertable(p) == plans[p] = 0 \/ index[PlanIndex] = "none"

-------------------------------------------------------------------------------
(* The script *)

Points == {"off", "list", "scan", "collections", "create", "indexes", "build",
           "plans", "insert", "recount", "ended"}

\* listed and counted are what the run saw when it began; alone says that
\* nobody else has done anything since.
Script == [at: Points, apply: BOOLEAN, listed: SUBSET Collections, counted: Nat,
           todo: SUBSET (Collections \cup Catalogue), now: SUBSET (Collections \cup Catalogue),
           build: SUBSET Indexes, outcome: {"none", "success", "failure"}, alone: BOOLEAN]
NoScript == [at |-> "off", apply |-> FALSE, listed |-> {}, counted |-> 0, todo |-> {},
             now |-> {}, build |-> {}, outcome |-> "none", alone |-> TRUE]

Starting == start.at \notin {"off", "up", "failed"}
Running(r) == script[r].at \notin {"off", "ended"}

\* What somebody does, seen by the runs that are under way.
Seen == [r \in Scripts |-> IF Running(r) THEN [script[r] EXCEPT !.alone = FALSE] ELSE script[r]]
SeenByStart == IF Starting THEN [start EXCEPT !.alone = FALSE] ELSE start

Step(r, q) == /\ script' = [Seen EXCEPT ![r] = q]
              /\ start' = SeenByStart
              /\ UNCHANGED <<doubled, unpaid, legacy, runs, starts>>
At(r, point) == [script[r] EXCEPT !.at = point]
Finish(r, outcome) == [script[r] EXCEPT !.at = "ended", !.outcome = outcome]
Same == UNCHANGED <<made, index, plans>>

BeginRun(r, apply) ==
  /\ ~Running(r) /\ runs < MaxRuns
  /\ runs' = runs + 1
  /\ script' = [Seen EXCEPT ![r] = [NoScript EXCEPT !.at = "list", !.apply = apply,
                   !.alone = ~Starting /\ \A v \in Scripts : ~Running(v)]]
  /\ start' = SeenByStart
  /\ UNCHANGED <<made, index, plans, doubled, unpaid, legacy, starts>>

ListCollections(r) ==
  /\ script[r].at = "list"
  /\ Step(r, [script[r] EXCEPT !.at = "scan", !.listed = made, !.counted = legacy])
  /\ Same

ScanForDuplicates(r) ==
  /\ script[r].at = "scan"
  /\ Step(r, IF Found THEN Finish(r, "failure")
             ELSE [script[r] EXCEPT !.at = "collections", !.todo = Collections])
  /\ Same

\* Faulty: a second run creates the collections again.
AbsentAlways(q, c) == TRUE

Absent(q, c) == c \notin q.listed

TakeCollection(r, c) ==
  LET q == script[r] IN
  /\ q.at = "collections" /\ c \in q.todo
  /\ Step(r, [q EXCEPT !.at = IF Absent(q, c) /\ q.apply THEN "create" ELSE "indexes",
                       !.todo = @ \ {c}, !.now = {c}])
  /\ Same

\* create_collection raises when the collection is there.
CreateCollection(r) ==
  LET q == script[r] IN
  /\ q.at = "create"
  /\ Step(r, IF q.now \subseteq made THEN Finish(r, "failure") ELSE At(r, "indexes"))
  /\ made' = made \cup q.now
  /\ UNCHANGED <<index, plans>>

\* Faulty: a collection that was there has its indexes.
LackingInNew(q) == {i \in Indexes : Of[i] \in q.now \ q.listed /\ index[i] = "none"}

\* A dry run creates none.
Lacking(q) == {i \in Indexes : Of[i] \in q.now /\ index[i] = "none"}

ListIndexes(r) ==
  LET q == script[r]
      build == IF q.apply THEN Lacking(q) ELSE {}
  IN
  /\ q.at = "indexes"
  /\ Step(r, [q EXCEPT !.at = "build", !.now = {}, !.build = build])
  /\ Same

\* An index that is there meanwhile, as it should be, is left.
BuildIndex(r, i) ==
  LET q == script[r] IN
  /\ q.at = "build" /\ i \in q.build
  /\ IF Differs(i, "script") \/ (index[i] = "none" /\ Refused(i, "script"))
       THEN Step(r, Finish(r, "failure")) /\ Same
       ELSE /\ Step(r, [q EXCEPT !.build = @ \ {i}])
            /\ index' = [index EXCEPT ![i] = IF @ = "none" THEN "script" ELSE @]
            /\ UNCHANGED <<made, plans>>

IndexesBuilt(r) ==
  LET q == script[r] IN
  /\ q.at = "build" /\ q.build = {}
  /\ Step(r, IF q.todo # {} THEN At(r, "collections")
             ELSE [q EXCEPT !.at = "plans", !.todo = Catalogue])
  /\ Same

FindPlan(r, p) ==
  LET q == script[r] IN
  /\ q.at = "plans" /\ p \in q.todo
  /\ Step(r, [q EXCEPT !.at = IF plans[p] = 0 /\ q.apply THEN "insert" ELSE "plans",
                       !.todo = @ \ {p}, !.now = {p}])
  /\ Same

InsertPlan(r) ==
  LET q == script[r] IN
  /\ q.at = "insert"
  /\ IF \A p \in q.now : Insertable(p)
       THEN /\ Step(r, At(r, "plans"))
            /\ plans' = [p \in Catalogue |-> IF p \in q.now THEN plans[p] + 1 ELSE plans[p]]
            /\ UNCHANGED <<made, index>>
       ELSE Step(r, Finish(r, "failure")) /\ Same

PlansSeeded(r) ==
  /\ script[r].at = "plans" /\ script[r].todo = {}
  /\ Step(r, At(r, "recount"))
  /\ Same

\* A user who registered meanwhile is taken for a loss of data.  What is
\* counted is compared and the entry in the audit log written.
Recount(r) ==
  LET q == script[r] IN
  /\ q.at = "recount"
  /\ Step(r, Finish(r, IF legacy = q.counted THEN "success" ELSE "failure"))
  /\ Same

\* The process is stopped, or loses the database and reports a failure.
StopRun(r) ==
  /\ Running(r)
  /\ Step(r, NoScript)
  /\ Same

-------------------------------------------------------------------------------
(* The start of the program *)

Start == [at: {"off", "indexes", "plans", "insert", "up", "failed"},
          todo: SUBSET (Collections \cup Catalogue), now: SUBSET Catalogue, alone: BOOLEAN]
NoStart == [at |-> "off", todo |-> {}, now |-> {}, alone |-> TRUE]

StartStep(q) == script' = Seen /\ start' = q /\ UNCHANGED <<doubled, unpaid, legacy, runs, starts>>

BeginStart ==
  /\ ~Starting /\ starts < MaxStarts
  /\ starts' = starts + 1
  /\ script' = Seen
  /\ start' = [NoStart EXCEPT !.at = "indexes", !.todo = Collections,
                              !.alone = \A r \in Scripts : ~Running(r)]
  /\ UNCHANGED <<made, index, plans, doubled, unpaid, legacy, runs>>

\* init_beanie asks for all indexes of a collection and raises what that raises.
InitCollection(c) ==
  /\ start.at = "indexes" /\ c \in start.todo
  /\ IF \E i \in On(c) : Differs(i, "program") \/ (index[i] = "none" /\ Refused(i, "program"))
       THEN StartStep([start EXCEPT !.at = "failed"]) /\ Same
       ELSE /\ StartStep(IF start.todo = {c}
                           THEN [start EXCEPT !.at = "plans", !.todo = Catalogue]
                           ELSE [start EXCEPT !.todo = @ \ {c}])
            /\ made' = made \cup {c}
            /\ index' = [i \in Indexes |->
                 IF i \in On(c) /\ index[i] = "none" THEN "program" ELSE index[i]]
            /\ UNCHANGED plans

\* seed_billing_plans.
FindPlanAtStart(p) ==
  /\ start.at = "plans" /\ p \in start.todo
  /\ StartStep([start EXCEPT !.at = IF plans[p] = 0 THEN "insert" ELSE "plans",
                             !.todo = @ \ {p}, !.now = {p}])
  /\ Same

InsertPlanAtStart ==
  /\ start.at = "insert"
  /\ IF \A p \in start.now : Insertable(p)
       THEN /\ StartStep([start EXCEPT !.at = "plans"])
            /\ plans' = [p \in Catalogue |-> IF p \in start.now THEN plans[p] + 1 ELSE plans[p]]
            /\ UNCHANGED <<made, index>>
       ELSE StartStep([start EXCEPT !.at = "failed"]) /\ Same

ProgramIsUp ==
  /\ start.at = "plans" /\ start.todo = {}
  /\ StartStep([start EXCEPT !.at = "up"])
  /\ Same

\* While it is up users register, and payments begin that have no id yet.
SignUp ==
  /\ start.at = "up" /\ legacy < MaxSignups
  /\ legacy' = legacy + 1
  /\ script' = Seen
  /\ UNCHANGED <<made, index, plans, doubled, unpaid, start, runs, starts>>

BeginPayment ==
  /\ start.at = "up" /\ ~unpaid
  /\ unpaid' = TRUE
  /\ script' = Seen
  /\ UNCHANGED <<made, index, plans, doubled, legacy, start, runs, starts>>

-------------------------------------------------------------------------------
(* The two together *)

\* A database without billing, or one whose collections were made without
\* indexes and may hold a key twice.
MigrationInit ==
  /\ made \in SUBSET Collections
  /\ index = [i \in Indexes |-> "none"]
  /\ plans \in [Catalogue -> IF Of[PlanIndex] \in made THEN 0..2 ELSE {0}]
  /\ doubled \in SUBSET {i \in Unique \ {PlanIndex} : Of[i] \in made}
  /\ unpaid \in IF \E i \in Differing : Of[i] \in made THEN BOOLEAN ELSE {FALSE}
  /\ legacy = 0
  /\ script = [r \in Scripts |-> NoScript]
  /\ start = NoStart
  /\ runs = 0 /\ starts = 0

RunStep(r) ==
  \/ \E apply \in BOOLEAN : BeginRun(r, apply)
  \/ ListCollections(r)
  \/ ScanForDuplicates(r)
  \/ \E c \in Collections : TakeCollection(r, c)
  \/ CreateCollection(r)
  \/ ListIndexes(r)
  \/ \E i \in Indexes : BuildIndex(r, i)
  \/ IndexesBuilt(r)
  \/ \E p \in Catalogue : FindPlan(r, p)
  \/ InsertPlan(r)
  \/ PlansSeeded(r)
  \/ Recount(r)
  \/ StopRun(r)

MigrationNext ==
  \/ \E r \in Scripts : RunStep(r)
  \/ BeginStart
  \/ \E c \in Collections : InitCollection(c)
  \/ \E p \in Catalogue : FindPlanAtStart(p)
  \/ InsertPlanAtStart
  \/ ProgramIsUp
  \/ SignUp
  \/ BeginPayment

MigrationSpec == MigrationInit /\ [][MigrationNext]_migrationVars

-------------------------------------------------------------------------------
(* Properties *)

\* The database, the runs and the start keep their shape.
MigrationTypeOK ==
  /\ made \subseteq Collections
  /\ index \in [Indexes -> Makers]
  /\ plans \in [Catalogue -> Nat]
  /\ doubled \subseteq Unique /\ unpaid \in BOOLEAN
  /\ legacy \in 0..MaxSignups
  /\ script \in [Scripts -> Script]
  /\ start \in Start
  /\ runs \in 0..MaxRuns /\ starts \in 0..MaxStarts

\* Whatever earlier runs left half done and whoever else prepared the database
\* meanwhile: after a run that applied the migration and reports success, every
\* collection and every index is there and every plan is there once.
SuccessIsComplete ==
  \A r \in Scripts :
    script[r].apply /\ script[r].outcome = "success" =>
      /\ made = Collections
      /\ \A i \in Indexes : index[i] # "none"
      /\ \A p \in Catalogue : plans[p] = 1

\* A run that nobody disturbs can be repeated from wherever the last one
\* stopped: it fails only over documents that hold a unique key twice.  A start
\* of the program that nobody disturbs fails over the same - or over the index
\* of payments, when the script was the first to create it.
FailureIsExplained ==
  /\ \A r \in Scripts :
       script[r].outcome = "failure" /\ script[r].alone => \E i \in Unique : Refused(i, "script")
  /\ start.at = "failed" /\ start.alone =>
       \E i \in Unique : Refused(i, "program") \/ Differs(i, "program")
===============================================================================
