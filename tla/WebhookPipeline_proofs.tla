------------------------ MODULE WebhookPipeline_proofs ------------------------
(***************************************************************************)
(* For any events, payments and number of deliveries at once: the types, a *)
(* payment booked at most once, no second run of a handler that has not    *)
(* raised, no success answered to an event nobody came through with, and,  *)
(* while deliveries do not overlap, every processed payment booked and the *)
(* ledger implemented.                                                     *)
(***************************************************************************)
EXTENDS WebhookPipeline, TLAPS

\* A handler at work has an event.
PipeInv == TypeOK /\ \A t \in Tasks : task[t].pc # "idle" => task[t].ev \in Events

Rest == PC \ {"idle"}

LEMMA TypeInit == Init => PipeInv
<1> SUFFICES ASSUME Init PROVE PipeInv
  OBVIOUS
<1>1. /\ log \in [Events -> LogStatus] /\ applied \in [Events -> 0..2]
      /\ overlaps \in 0..MaxOverlaps /\ raises \in 0..MaxRaises
      /\ losses \in 0..MaxLosses
  BY PipelineAssumption DEF Init, LogStatus
<1>2. tx \in [Keys -> Tx]
  <2>1. PICK st \in {"none", "pending"} :
          tx = [k \in Keys |-> IF k = InitKey THEN [NoTx EXCEPT !.status = st]
                               ELSE NoTx]
    BY DEF Init
  <2>2. NoTx \in Tx /\ [NoTx EXCEPT !.status = st] \in Tx
    BY DEF NoTx, Tx, TxStatus
  <2> HIDE DEF NoTx
  <2> QED
    BY <2>1, <2>2
<1>3. task \in [Tasks -> Task] /\ \A t \in Tasks : task[t].pc = "idle"
  BY DEF Init, Task, Idle, PC
<1> QED
  BY <1>1, <1>2, <1>3 DEF Init, PipeInv, TypeOK

\* A handler moves on to another of its steps, begins, or returns.
LEMMA GotoType ==
  ASSUME PipeInv, NEW t \in Tasks, NEW pc \in Rest, task[t].pc # "idle",
         Goto(t, pc)
  PROVE  /\ task' \in [Tasks -> Task]
         /\ \A u \in Tasks : task'[u].pc # "idle" => task'[u].ev \in Events
         /\ \A u \in Tasks \ {t} : task'[u] = task[u]
         /\ task'[t].pc = pc /\ task'[t].ev = task[t].ev
<1>1. task[t] \in Task /\ [task[t] EXCEPT !.pc = pc] \in Task
  BY DEF PipeInv, TypeOK, Task, Rest
<1>2. task' = [task EXCEPT ![t] = [task[t] EXCEPT !.pc = pc]]
  BY DEF Goto
<1> QED
  BY <1>1, <1>2 DEF PipeInv, TypeOK, Task

LEMMA ReturnType ==
  ASSUME PipeInv, NEW t \in Tasks, Return(t)
  PROVE  /\ task' \in [Tasks -> Task]
         /\ \A u \in Tasks : task'[u].pc # "idle" => task'[u].ev \in Events
         /\ \A u \in Tasks \ {t} : task'[u] = task[u]
         /\ task'[t].pc = "idle"
  BY DEF Return, Idle, PipeInv, TypeOK, Task, PC

LEMMA EnterType ==
  ASSUME PipeInv, NEW t \in Tasks, NEW e \in Events, NEW pc \in Rest,
         Enter(t, pc, e)
  PROVE  /\ task' \in [Tasks -> Task]
         /\ \A u \in Tasks : task'[u].pc # "idle" => task'[u].ev \in Events
         /\ \A u \in Tasks \ {t} : task'[u] = task[u]
         /\ task'[t] = [pc |-> pc, ev |-> e]
         /\ overlaps' \in 0..MaxOverlaps
<1>1. [pc |-> pc, ev |-> e] \in Task
  BY DEF Task, Rest
<1> QED
  BY <1>1, PipelineAssumption DEF Enter, PipeInv, TypeOK

\* What a handler writes is a transaction, under a key of its own.
LEMMA BookingType ==
  ASSUME NEW e \in Events
  PROVE  /\ Booking(e) \in Tx /\ KeyOf(e) \in Keys /\ KeyOf(e) # InitKey
         /\ Booking(e).pay = PayOf[e]
<1>1. PayOf[e] \in Payments \cup {Unset} /\ KindOf[e] \in {"paid", "failed"}
  BY PipelineAssumption
<1> QED
  BY <1>1 DEF Booking, Tx, TxStatus, OutcomeOf, KeyOf, Keys, InitKey

LEMMA TypeStep == PipeInv /\ [Next]_vars => PipeInv'
<1> SUFFICES ASSUME PipeInv, [Next]_vars PROVE PipeInv'
  OBVIOUS
<1> USE DEF history
<1>p. /\ {"insert", "claim", "apply", "init", "saveInit", "byPay", "byKey",
          "insertTx", "finish", "fail"} \subseteq Rest
      /\ {"none", "processing", "processed", "failed"} \subseteq LogStatus
  BY DEF Rest, PC, LogStatus
<1>a. ASSUME NEW e \in Events, Attempt(e) PROVE PipeInv'
  <2>1. CASE AnswerDuplicate(e)
    BY <2>1 DEF AnswerDuplicate, Answer, PipeInv, TypeOK
  <2>2. ASSUME NEW t \in Tasks, Deliver(t, e) PROVE PipeInv'
    BY <1>p, <2>2, EnterType DEF Deliver, PipeInv, TypeOK
  <2> QED
    BY <1>a, <2>1, <2>2 DEF Attempt
<1>s. ASSUME NEW t \in Tasks, Step(t) \/ Die(t) PROVE PipeInv'
  <2>0. task[t].pc # "idle" /\ task[t].ev \in Events
    BY <1>s DEF Step, Die, Record, RecordRefused, RecordLost, Claim, Apply,
                FindInit, SaveInit, SaveInitRefused, FindByPayment, FindByKey,
                Lookup, InsertTx, InsertTxLost, Finish, Raise, Fail, PipeInv
  <2>1. CASE Record(t) \/ Claim(t)
    BY <1>p, <2>0, <2>1, GotoType DEF Record, Claim, PipeInv, TypeOK
  <2>2. CASE RecordRefused(t) \/ RecordLost(t) \/ Die(t)
    <3>1. losses' \in 0..MaxLosses
      BY <2>2, PipelineAssumption
         DEF RecordRefused, RecordLost, Die, Lose, PipeInv, TypeOK
    <3>2. acked' \in SUBSET Events /\ waved' \in SUBSET Events
      BY <2>0, <2>2
         DEF RecordRefused, RecordLost, Die, Answer, PipeInv, TypeOK
    <3> QED
      BY <2>2, <3>1, <3>2, ReturnType
         DEF RecordRefused, RecordLost, Die, PipeInv, TypeOK
  <2>3. CASE Apply(t)
    BY <1>p, <2>0, <2>3, GotoType DEF Apply, PipeInv, TypeOK
  <2>4. CASE FindInit(t) \/ FindByPayment(t) \/ FindByKey(t)
    <3>1. \A e, pc : FirstLookup(e) \in Rest /\ NextLookup(e, pc) \in Rest
      BY <1>p DEF FirstLookup, NextLookup
    <3>2. PICK pc \in Rest : Goto(t, pc)
      BY <1>p, <2>4, <3>1 DEF FindInit, FindByPayment, FindByKey, Lookup
    <3> QED
      BY <2>0, <2>4, <3>2, GotoType
         DEF FindInit, FindByPayment, FindByKey, Lookup, PipeInv, TypeOK
  <2>5. CASE SaveInit(t) \/ InsertTx(t)
    <3>1. tx' \in [Keys -> Tx]
      BY <2>0, <2>5, BookingType DEF SaveInit, InsertTx, PipeInv, TypeOK
    <3> QED
      BY <1>p, <2>0, <2>5, <3>1, GotoType DEF SaveInit, InsertTx, PipeInv, TypeOK
  <2>6. CASE SaveInitRefused(t) \/ Raise(t)
    <3>1. raises' \in 0..MaxRaises
      BY <2>6, PipelineAssumption DEF SaveInitRefused, Raise, PipeInv, TypeOK
    <3> QED
      BY <1>p, <2>0, <2>6, <3>1, GotoType DEF SaveInitRefused, Raise, PipeInv, TypeOK
  <2>7. CASE InsertTxLost(t)
    <3>1. losses' \in 0..MaxLosses
      BY <2>7, PipelineAssumption DEF InsertTxLost, Lose, PipeInv, TypeOK
    <3> QED
      BY <1>p, <2>0, <2>7, <3>1, GotoType DEF InsertTxLost, PipeInv, TypeOK
  <2>8. CASE Finish(t) \/ Fail(t)
    BY <1>p, <2>0, <2>8, ReturnType DEF Finish, Fail, Answer, PipeInv, TypeOK
  <2> QED
    BY <1>s, <2>1, <2>2, <2>3, <2>4, <2>5, <2>6, <2>7, <2>8 DEF Step
<1>u. CASE UNCHANGED vars
  BY <1>u DEF vars, PipeInv, TypeOK
<1> QED
  BY <1>a, <1>s, <1>u DEF Next

\* Every document and delivery of every behaviour is of its type.
THEOREM TypeCorrect == Spec => []TypeOK
<1>1. PipeInv => TypeOK
  BY DEF PipeInv
<1> QED
  BY <1>1, TypeInit, TypeStep, PTL DEF Spec

-------------------------------------------------------------------------------
\* A payment is booked at most once, however deliveries interleave, fail or die:
\* the two writes of a payment id are guarded by the unique index.
THEOREM PaymentsAreUnique == Spec => []UniquePayment
<1>1. Init => UniquePayment
  BY DEF Init, UniquePayment, NoTx
<1>2. PipeInv /\ UniquePayment /\ [Next]_vars => UniquePayment'
  <2> SUFFICES ASSUME PipeInv, UniquePayment, [Next]_vars PROVE UniquePayment'
    OBVIOUS
  <2>1. ASSUME NEW t \in Tasks, SaveInit(t) \/ InsertTx(t) PROVE UniquePayment'
    <3> DEFINE e == task[t].ev
    <3>0. e \in Events /\ tx \in [Keys -> Tx] /\ InitKey \in Keys
      BY <2>1 DEF SaveInit, InsertTx, PipeInv, TypeOK, Keys
    <3>1. CASE UNCHANGED tx
      BY <3>1 DEF UniquePayment
    <3>2. CASE ~UNCHANGED tx
      <4>1. PICK k \in Keys : /\ tx' = [tx EXCEPT ![k] = Booking(e)]
                              /\ \A j \in Keys \ {k} : ~HasPayment(j, e)
        BY <2>1, <3>0, <3>2, BookingType DEF SaveInit, InsertTx, Insertable
      <4> QED
        BY <3>0, <4>1, BookingType DEF UniquePayment, HasPayment
    <3> QED
      BY <3>1, <3>2
  <2>2. CASE UNCHANGED tx
    BY <2>2 DEF UniquePayment
  <2>3. UNCHANGED tx \/ \E t \in Tasks : SaveInit(t) \/ InsertTx(t)
    BY DEF Next, vars, Attempt, AnswerDuplicate, Deliver, Step, Die, Record,
           RecordRefused, RecordLost, Claim, Apply, FindInit, SaveInitRefused,
           FindByPayment, FindByKey, Lookup, InsertTxLost, Finish, Raise, Fail
  <2> QED
    BY <2>1, <2>2, <2>3
<1> QED
  BY <1>1, <1>2, TypeInit, TypeStep, PTL DEF Spec

-------------------------------------------------------------------------------
(* A handler runs once: the log tells its attempts apart *)

\* A delivery that has taken its event on.
Running == PC \ {"idle", "insert", "claim"}
On(t, e) == task[t].ev = e /\ task[t].pc \in Running

\* An event with no document has had no attempt.
Unheard(e) ==
  log[e] = "none" =>
    /\ applied[e] = 0 /\ e \notin raised
    /\ \A t \in Tasks : task[t].ev = e => task[t].pc \in {"idle", "insert"}

\* Until its handler raises, an event has one attempt at most.
Exclusive(e) ==
  e \notin raised =>
    /\ log[e] # "failed" /\ applied[e] # 2
    /\ \A t \in Tasks : task[t].ev = e =>
         /\ task[t].pc \notin {"claim", "fail"}
         /\ task[t].pc = "apply" => applied[e] = 0
    /\ \A t, u \in Tasks : On(t, e) /\ On(u, e) => t = u

OnceInv == \A e \in Events : Unheard(e) /\ Exclusive(e)

\* What a step of one delivery does to its own record and leaves of the others.
LEMMA StepShape ==
  ASSUME PipeInv, NEW t \in Tasks, Step(t) \/ Die(t)
  PROVE  /\ task[t].pc # "idle" /\ task[t].ev \in Events
         /\ \A u \in Tasks \ {t} : task'[u] = task[u]
         /\ \/ task'[t].pc = "idle"
            \/ task'[t].ev = task[t].ev /\ task'[t].pc \in Running
<1>0. task[t].pc # "idle" /\ task[t].ev \in Events
  BY DEF Step, Die, Record, RecordRefused, RecordLost, Claim, Apply, FindInit,
         SaveInit, SaveInitRefused, FindByPayment, FindByKey, Lookup, InsertTx,
         InsertTxLost, Finish, Raise, Fail, PipeInv
<1>1. Running \subseteq Rest
  BY DEF Running, Rest
<1>2. Return(t) \/ \E pc \in Running : Goto(t, pc)
  <2>1. /\ {"apply", "init", "saveInit", "finish", "fail"} \subseteq Running
        /\ \A e, pc : FirstLookup(e) \in Running /\ NextLookup(e, pc) \in Running
    BY DEF Running, PC, FirstLookup, NextLookup
  <2> HIDE DEF Running
  <2> QED
    BY <2>1 DEF Step, Die, Record, RecordRefused, RecordLost, Claim, Apply,
                FindInit, SaveInit, SaveInitRefused, FindByPayment, FindByKey,
                Lookup, InsertTx, InsertTxLost, Finish, Raise, Fail
<1>3. CASE Return(t)
  BY <1>0, <1>3, ReturnType
<1>4. CASE \E pc \in Running : Goto(t, pc)
  BY <1>0, <1>1, <1>4, GotoType
<1> QED
  BY <1>0, <1>2, <1>3, <1>4

LEMMA OnceInit == Init => OnceInv
  BY DEF Init, OnceInv, Unheard, Exclusive, On, Idle, Running

\* A delivery that begins reads "none" or "failed": with the first there is no
\* attempt, with the second one has raised.
LEMMA AttemptOnce ==
  ASSUME PipeInv, OnceInv, NEW d \in Events, Attempt(d)
  PROVE  OnceInv'
<1> USE DEF history
<1>1. CASE AnswerDuplicate(d)
  BY <1>1 DEF AnswerDuplicate, OnceInv, Unheard, Exclusive, On
<1>2. ASSUME NEW t \in Tasks, Deliver(t, d) PROVE OnceInv'
  <2> DEFINE pc == IF log[d] = "none" THEN "insert" ELSE "claim"
  <2>1. pc \in Rest /\ pc \notin Running
    BY DEF Rest, PC, Running
  <2>2. log[d] = "none" \/ log[d] = "failed"
    BY <1>2 DEF Deliver, Seen, PipeInv, TypeOK, LogStatus
  <2>3. /\ \A u \in Tasks \ {t} : task'[u] = task[u]
        /\ task'[t] = [pc |-> pc, ev |-> d]
        /\ UNCHANGED <<log, applied, raised>>
    BY <1>2, <2>1, EnterType DEF Deliver
  <2> SUFFICES ASSUME NEW e \in Events PROVE Unheard(e)' /\ Exclusive(e)'
    BY DEF OnceInv
  <2>4. Unheard(e)'
    BY <2>3 DEF OnceInv, Unheard
  <2>5. Exclusive(e)'
    <3> SUFFICES ASSUME e \notin raised PROVE Exclusive(e)'
      BY <2>3 DEF Exclusive
    <3>1. Exclusive(e)
      BY DEF OnceInv
    <3>2. \A u \in Tasks : On(u, e)' => On(u, e)
      BY <2>1, <2>3 DEF On
    <3>3. d = e => pc = "insert"
      BY <2>2, <3>1 DEF Exclusive
    <3> QED
      BY <2>3, <3>1, <3>2, <3>3 DEF Exclusive
  <2> QED
    BY <2>4, <2>5
<1> QED
  BY <1>1, <1>2 DEF Attempt

\* Of a step of a delivery of d, other events see nothing.
LEMMA OthersOnce ==
  ASSUME PipeInv, OnceInv, NEW t \in Tasks, Step(t) \/ Die(t),
         NEW e \in Events, e # task[t].ev
  PROVE  Unheard(e)' /\ Exclusive(e)'
<1>1. log'[e] = log[e] /\ applied'[e] = applied[e] /\ (e \in raised' <=> e \in raised)
  BY StepShape DEF history, Step, Die, Record, RecordRefused, RecordLost, Claim,
         Apply, FindInit, SaveInit, SaveInitRefused, FindByPayment, FindByKey,
         Lookup, InsertTx, InsertTxLost, Finish, Raise, Fail, PipeInv, TypeOK
<1>2. \A u \in Tasks : task'[u].ev = e => task'[u] = task[u] \/ task'[u].pc = "idle"
  BY StepShape
<1>3. \A u \in Tasks : On(u, e)' => On(u, e)
  BY <1>2 DEF On, Running
<1>4. Unheard(e) /\ Exclusive(e)
  BY DEF OnceInv
<1>5. Unheard(e)'
  BY <1>1, <1>2, <1>4 DEF Unheard
<1>6. Exclusive(e)'
  <2> SUFFICES ASSUME e \notin raised' PROVE Exclusive(e)'
    BY DEF Exclusive
  <2> QED
    BY <1>1, <1>2, <1>3, <1>4 DEF Exclusive
<1> QED
  BY <1>5, <1>6

\* The steps of a delivery of e itself.
LEMMA OwnOnce ==
  ASSUME PipeInv, OnceInv, NEW t \in Tasks, Step(t) \/ Die(t),
         NEW e \in Events, e = task[t].ev
  PROVE  Unheard(e)' /\ Exclusive(e)'
<1> USE DEF history
<1>0. /\ e \in Events /\ Unheard(e) /\ Exclusive(e)
      /\ \A u \in Tasks \ {t} : task'[u] = task[u]
      /\ task'[t].pc = "idle" \/ (task'[t].ev = e /\ task'[t].pc \in Running)
  BY StepShape DEF OnceInv
<1>f. log \in [Events -> LogStatus] /\ applied \in [Events -> 0..2]
  BY DEF PipeInv, TypeOK
<1>1. CASE Record(t)
  <2>1. log'[e] = "processing" /\ UNCHANGED <<applied, raised>>
    BY <1>0, <1>f, <1>1 DEF Record
  <2>2. \A u \in Tasks \ {t} : task'[u].ev = e => task'[u].pc \in {"idle", "insert"}
    BY <1>0, <1>1 DEF Record, Unheard
  <2>3. task'[t].pc = "apply" /\ applied[e] = 0
    BY <1>0, <1>1 DEF Record, Unheard, Goto, PipeInv, TypeOK, Task
  <2>4. \A u \in Tasks : On(u, e)' => u = t
    BY <2>2 DEF On, Running
  <2> QED
    BY <1>0, <2>1, <2>2, <2>3, <2>4 DEF Unheard, Exclusive
<1>2. CASE RecordRefused(t) \/ RecordLost(t) \/ Die(t)
  <2>1. UNCHANGED <<log, applied, raised>> /\ Return(t)
    BY <1>2 DEF RecordRefused, RecordLost, Die
  <2>2. task'[t].pc = "idle"
    BY <2>1, ReturnType
  <2>3. \A u \in Tasks : On(u, e)' => On(u, e)
    BY <1>0, <2>2 DEF On, Running
  <2>4. Unheard(e)'
    BY <1>0, <2>1, <2>2 DEF Unheard
  <2>5. Exclusive(e)'
    BY <1>0, <2>1, <2>2, <2>3 DEF Exclusive
  <2> QED
    BY <2>4, <2>5
<1>3. CASE Claim(t)
  <2>1. log'[e] = "processing" /\ e \in raised'
    BY <1>0, <1>f, <1>3 DEF Claim, Exclusive
  <2> QED
    BY <2>1 DEF Unheard, Exclusive
<1>4. CASE Apply(t)
  <2>1. /\ UNCHANGED <<log, raised>> /\ task'[t].pc = "init"
        /\ applied'[e] = IF applied[e] = 0 THEN 1 ELSE 2
    BY <1>0, <1>f, <1>4 DEF Apply, Goto, PipeInv, TypeOK, Task
  <2>2. On(t, e) /\ log[e] # "none"
    BY <1>0, <1>4 DEF Apply, On, Running, PC, Unheard
  <2>3. e \notin raised => applied[e] = 0
    BY <1>0, <1>4 DEF Apply, Exclusive
  <2>4. \A u \in Tasks : On(u, e)' => On(u, e)
    BY <1>0, <2>2 DEF On
  <2>5. Exclusive(e)'
    <3> SUFFICES ASSUME e \notin raised' PROVE Exclusive(e)'
      BY DEF Exclusive
    <3>1. \A u \in Tasks \ {t} : task'[u].ev = e => task'[u].pc # "apply"
      BY <1>0, <2>1, <2>2 DEF Exclusive, On, Running, PC
    <3> QED
      BY <1>0, <2>1, <2>3, <2>4, <3>1 DEF Exclusive
  <2> QED
    BY <2>1, <2>2, <2>5 DEF Unheard
<1>5. CASE \/ FindInit(t) \/ SaveInit(t) \/ FindByPayment(t) \/ FindByKey(t)
           \/ InsertTx(t) \/ InsertTxLost(t)
  <2>1. UNCHANGED <<log, raised, applied>>
    BY <1>5 DEF FindInit, SaveInit, FindByPayment, FindByKey, Lookup, InsertTx,
                InsertTxLost
  <2>2. On(t, e)
    BY <1>5 DEF On, Running, PC, FindInit, SaveInit, FindByPayment, FindByKey,
                Lookup, InsertTx, InsertTxLost
  <2>3. task'[t].pc \notin {"claim", "fail", "apply"}
    <3>1. /\ \A d, pc : FirstLookup(d) \notin {"claim", "fail", "apply"}
          /\ \A d, pc : NextLookup(d, pc) \notin {"claim", "fail", "apply"}
      BY DEF FirstLookup, NextLookup
    <3>2. PICK pc : Goto(t, pc) /\ pc \notin {"claim", "fail", "apply"}
      BY <1>5, <3>1 DEF FindInit, SaveInit, FindByPayment, FindByKey, Lookup,
                        InsertTx, InsertTxLost
    <3> QED
      BY <3>2 DEF Goto, PipeInv, TypeOK, Task
  <2>4. log[e] # "none"
    BY <1>0, <2>2 DEF Unheard, On, Running
  <2>5. \A u \in Tasks : On(u, e)' => On(u, e)
    BY <1>0, <2>2 DEF On
  <2>6. Exclusive(e)'
    BY <1>0, <2>1, <2>3, <2>5 DEF Exclusive
  <2> QED
    BY <2>1, <2>4, <2>6 DEF Unheard
<1>6. CASE SaveInitRefused(t) \/ Raise(t)
  <2>1. e \in raised' /\ UNCHANGED log
    BY <1>6 DEF SaveInitRefused, Raise
  <2>2. log[e] # "none"
    BY <1>0, <1>6 DEF SaveInitRefused, Raise, Unheard
  <2> QED
    BY <2>1, <2>2 DEF Unheard, Exclusive
<1>7. CASE Finish(t)
  <2>1. /\ log'[e] = "processed" /\ UNCHANGED <<applied, raised>>
        /\ task'[t].pc = "idle"
    BY <1>0, <1>f, <1>7, ReturnType DEF Finish
  <2>2. \A u \in Tasks : On(u, e)' => On(u, e)
    BY <1>0, <2>1 DEF On, Running
  <2>3. Exclusive(e)'
    BY <1>0, <2>1, <2>2 DEF Exclusive
  <2> QED
    BY <2>1, <2>3 DEF Unheard
<1>8. CASE Fail(t)
  <2>1. log'[e] = "failed" /\ e \in raised'
    BY <1>0, <1>f, <1>8 DEF Fail, Exclusive
  <2> QED
    BY <2>1 DEF Unheard, Exclusive
<1> QED
  BY <1>1, <1>2, <1>3, <1>4, <1>5, <1>6, <1>7, <1>8 DEF Step

LEMMA OnceStep == PipeInv /\ OnceInv /\ [Next]_vars => OnceInv'
<1> SUFFICES ASSUME PipeInv, OnceInv, [Next]_vars PROVE OnceInv'
  OBVIOUS
<1>1. ASSUME NEW t \in Tasks, Step(t) \/ Die(t) PROVE OnceInv'
  <2> SUFFICES ASSUME NEW e \in Events PROVE Unheard(e)' /\ Exclusive(e)'
    BY DEF OnceInv
  <2>1. CASE e = task[t].ev
    BY <1>1, <2>1, OwnOnce
  <2>2. CASE e # task[t].ev
    BY <1>1, <2>2, OthersOnce
  <2> QED
    BY <2>1, <2>2
<1>2. CASE UNCHANGED vars
  BY <1>2 DEF vars, OnceInv, Unheard, Exclusive, On
<1> QED
  BY <1>1, <1>2, AttemptOnce DEF Next

\* However often an event is delivered, its handler runs a second time only
\* after it has raised: no redelivery, overlap or death repeats its effects.
THEOREM HandlersRunOnce == Spec => []AppliedOnce
<1>1. OnceInv => AppliedOnce
  BY DEF OnceInv, Exclusive, AppliedOnce
<1> QED
  BY <1>1, TypeInit, TypeStep, OnceInit, OnceStep, PTL DEF Spec

-------------------------------------------------------------------------------
(* A success is the answer to an event that somebody came through with *)

\* While nothing is lost, an event marked as being processed is.
InHand(e) ==
  losses = 0 /\ log[e] = "processing" => e \in handled \/ \E t \in Tasks : On(t, e)

AnswerInv ==
  /\ losses = 0 => acked \subseteq handled \cup waved
  /\ \A e \in Events : log[e] = "processed" => e \in handled
  /\ \A e \in Events : InHand(e)

LEMMA AnswerInit == Init => AnswerInv
  BY DEF Init, AnswerInv, InHand

LEMMA AttemptAnswers ==
  ASSUME PipeInv, AnswerInv, NEW d \in Events, Attempt(d)
  PROVE  AnswerInv'
<1> USE DEF history
<1>1. CASE AnswerDuplicate(d)
  <2>1. losses = 0 => d \in handled \cup waved'
    BY <1>1 DEF AnswerDuplicate, Seen, AnswerInv, InHand, On, Handling
  <2>2. /\ acked' = acked \cup {d} /\ waved \subseteq waved'
        /\ UNCHANGED <<log, task, losses, handled>>
    BY <1>1 DEF AnswerDuplicate, Answer
  <2> QED
    BY <2>1, <2>2 DEF AnswerInv, InHand, On
<1>2. ASSUME NEW t \in Tasks, Deliver(t, d) PROVE AnswerInv'
  <2>1. /\ UNCHANGED <<log, acked, losses, handled, waved>>
        /\ task[t].pc = "idle"
    BY <1>2 DEF Deliver, Enter
  <2>2. \A u \in Tasks \ {t} : task'[u] = task[u]
    BY <1>2 DEF Deliver, Enter, PipeInv, TypeOK
  <2>3. \A e \in Events, u \in Tasks : On(u, e) => On(u, e)'
    BY <2>1, <2>2 DEF On, Running
  <2> QED
    BY <2>1, <2>3 DEF AnswerInv, InHand
<1> QED
  BY <1>1, <1>2 DEF Attempt

\* A step of a delivery answers its event when it comes through, or when the
\* index refuses it; it leaves an event that it marks as being processed in hand.
LEMMA StepAnswers ==
  ASSUME PipeInv, AnswerInv, NEW t \in Tasks, Step(t) \/ Die(t)
  PROVE  AnswerInv'
<1> USE DEF history
<1>0. /\ task[t].ev \in Events
      /\ \A u \in Tasks \ {t} : task'[u] = task[u]
      /\ task'[t].pc = "idle" \/ (task'[t].ev = task[t].ev /\ task'[t].pc \in Running)
  BY StepShape
<1>t. log \in [Events -> LogStatus] /\ losses \in Nat
  BY DEF PipeInv, TypeOK
<1>1. handled \subseteq handled' /\ waved \subseteq waved' /\ (losses' = 0 => losses = 0)
  BY <1>t DEF Step, Die, Record, RecordRefused, RecordLost, Claim, Apply, FindInit,
         SaveInit, SaveInitRefused, FindByPayment, FindByKey, Lookup, InsertTx,
         InsertTxLost, Finish, Raise, Fail, Lose
<1>2. losses' = 0 => acked' \subseteq handled' \cup waved'
  <2>1. losses' = 0 =>
          acked' = acked \/ (acked' = acked \cup {task[t].ev}
                             /\ task[t].ev \in handled' \cup waved')
    BY <1>t DEF Step, Die, Record, RecordRefused, RecordLost, Claim, Apply, FindInit,
           SaveInit, SaveInitRefused, FindByPayment, FindByKey, Lookup, InsertTx,
           InsertTxLost, Finish, Raise, Fail, Lose, Answer
  <2> QED
    BY <1>1, <2>1 DEF AnswerInv
<1>3. \A e \in Events :
        log'[e] = log[e] \/ (e = task[t].ev /\ log'[e] = "processing")
          \/ (log'[e] = "processed" /\ e \in handled') \/ log'[e] = "failed"
  BY <1>0, <1>t DEF Step, Die, Record, RecordRefused, RecordLost, Claim, Apply,
         FindInit, SaveInit, SaveInitRefused, FindByPayment, FindByKey, Lookup,
         InsertTx, InsertTxLost, Finish, Raise, Fail
<1>4. \A e \in Events : InHand(e)'
  <2> SUFFICES ASSUME NEW e \in Events, losses' = 0, log'[e] = "processing",
                      e \notin handled'
               PROVE  \E u \in Tasks : On(u, e)'
    BY DEF InHand
  <2>1. CASE task'[t].pc \in Running
    <3>1. \A u \in Tasks : On(u, e) => On(u, e)'
      BY <1>0, <2>1 DEF On, Running
    <3>2. CASE log[e] = "processing"
      BY <1>1, <3>1, <3>2 DEF AnswerInv, InHand
    <3>3. CASE log[e] # "processing"
      BY <1>0, <1>3, <2>1, <3>3 DEF On, Running
    <3> QED
      BY <3>2, <3>3
  <2>2. CASE task'[t].pc \notin Running
    <3>1. \/ RecordRefused(t) \/ RecordLost(t) \/ Die(t) \/ Finish(t) \/ Fail(t)
      <4>1. \A d, pc : FirstLookup(d) \in Running /\ NextLookup(d, pc) \in Running
        BY DEF Running, PC, FirstLookup, NextLookup
      <4>2. {"apply", "init", "saveInit", "finish", "fail"} \subseteq Running
        BY DEF Running, PC
      <4>3. \A pc : Goto(t, pc) => task'[t].pc = pc
        BY DEF Goto, PipeInv, TypeOK, Task
      <4> HIDE DEF Running
      <4> QED
        BY <2>2, <4>1, <4>2, <4>3
           DEF Step, Record, Claim, Apply, FindInit, SaveInit, SaveInitRefused,
               FindByPayment, FindByKey, Lookup, InsertTx, InsertTxLost, Raise
    <3>2. CASE RecordLost(t) \/ Die(t)
      BY <1>t, <3>2 DEF RecordLost, Die, Lose
    <3>3. CASE Finish(t) \/ Fail(t)
      <4>1. e # task[t].ev /\ log[e] = "processing"
        BY <1>0, <1>t, <3>3 DEF Finish, Fail
      <4>2. \A u \in Tasks : On(u, e) => On(u, e)'
        BY <1>0, <4>1 DEF On
      <4> QED
        BY <1>1, <4>1, <4>2 DEF AnswerInv, InHand
    <3>4. CASE RecordRefused(t)
      <4>1. log[e] = "processing" /\ task[t].pc = "insert"
        BY <3>4 DEF RecordRefused
      <4>2. \A u \in Tasks : On(u, e) => On(u, e)'
        BY <1>0, <4>1 DEF On, Running
      <4> QED
        BY <1>1, <4>1, <4>2 DEF AnswerInv, InHand
    <3> QED
      BY <3>1, <3>2, <3>3, <3>4
  <2> QED
    BY <2>1, <2>2
<1> QED
  BY <1>1, <1>2, <1>3, <1>4 DEF AnswerInv

LEMMA AnswerStep == PipeInv /\ AnswerInv /\ [Next]_vars => AnswerInv'
<1> SUFFICES ASSUME PipeInv, AnswerInv, [Next]_vars PROVE AnswerInv'
  OBVIOUS
<1>1. CASE UNCHANGED vars
  BY <1>1 DEF vars, AnswerInv, InHand, On
<1> QED
  BY <1>1, AttemptAnswers, StepAnswers DEF Next

\* While nothing is lost, the gateway has a success only for events that were
\* handled or were taken for the duplicate of an overlapping delivery: that one
\* window is all the log leaves open.
THEOREM AnswersAreEarned == Spec => []AnsweredIsProcessed
<1>1. AnswerInv => AnsweredIsProcessed
  BY DEF AnswerInv, AnsweredIsProcessed
<1> QED
  BY <1>1, TypeInit, TypeStep, AnswerInit, AnswerStep, PTL DEF Spec

-------------------------------------------------------------------------------
(* The payment of a processed event is booked *)

\* While deliveries do not overlap, one handler at most is at work.
Solo ==
  overlaps = 0 =>
    \A t, u \in Tasks : task[t].pc # "idle" /\ task[u].pc # "idle" => t = u

\* A transaction that names a payment or has an outcome is the booking of an
\* event, under the key of that event unless it is the initial one.
Untouched(k) ==
  /\ tx[k].pay = Unset
  /\ tx[k].status \in (IF k = InitKey THEN {"none", "pending"} ELSE {"none"})
Shaped ==
  \A k \in Keys :
    Untouched(k) \/ \E e \in Events : tx[k] = Booking(e) /\ (k # InitKey => k = KeyOf(e))

\* The initial transaction a handler is about to settle is pending still.
Opening ==
  overlaps = 0 =>
    \A t \in Tasks : task[t].pc = "saveInit" => tx[InitKey].status = "pending"

Booked(e) ==
  PayOf[e] # Unset =>
    \E k \in Keys : tx[k].pay = PayOf[e] /\ tx[k].status = OutcomeOf(e)

BookedInv ==
  overlaps = 0 /\ losses = 0 =>
    /\ \A e \in handled : Booked(e)
    /\ \A t \in Tasks : task[t].pc = "finish" => Booked(task[t].ev)

\* A transaction that names a payment says what became of it.
LEMMA FoundByPayment ==
  ASSUME Shaped, NEW k \in Keys, NEW e \in Events, HasPayment(k, e)
  PROVE  Booked(e)
<1>1. PICK d \in Events : tx[k] = Booking(d)
  BY DEF Shaped, Untouched, HasPayment
<1>2. PayOf[d] = PayOf[e] /\ PayOf[e] # Unset /\ tx[k].status = OutcomeOf(d)
  BY <1>1 DEF HasPayment, Booking
<1>3. OutcomeOf(d) = OutcomeOf(e)
  BY <1>2, AgreementAssumption DEF OutcomeOf
<1> QED
  BY <1>1, <1>2, <1>3 DEF Booked, HasPayment

\* So does one under the key of the event: a success shares its key with
\* successes of its payment only, a failure with no event.
LEMMA FoundByKey ==
  ASSUME Shaped, NEW e \in Events, tx[KeyOf(e)].status # "none"
  PROVE  Booked(e)
<1>0. KeyOf(e) \in Keys /\ KeyOf(e) # InitKey
  BY BookingType
<1>1. PICK d \in Events : tx[KeyOf(e)] = Booking(d) /\ KeyOf(e) = KeyOf(d)
  BY <1>0 DEF Shaped, Untouched
<1>2. PayOf[e] # Unset => PayOf[d] = PayOf[e] /\ KindOf[d] = KindOf[e]
  <2>1. /\ KindOf[d] \in {"paid", "failed"} /\ KindOf[e] \in {"paid", "failed"}
        /\ PayOf[d] \in Payments \cup {Unset} /\ PayOf[e] \in Payments \cup {Unset}
        /\ Payments \cap Events = {}
    BY PipelineAssumption
  <2> QED
    BY <1>1, <2>1 DEF KeyOf
<1> QED
  BY <1>0, <1>1, <1>2 DEF Booked, Booking, OutcomeOf

\* What a handler may write, and where: on the initial transaction, pending
\* when deliveries do not overlap, or under a key that has none.
LEMMA WriteShape ==
  ASSUME PipeInv, [Next]_vars, tx' # tx
  PROVE  \E t \in Tasks, k \in Keys :
           LET e == task[t].ev IN
           /\ e \in Events /\ task[t].pc \in {"saveInit", "insertTx"}
           /\ tx' = [tx EXCEPT ![k] = Booking(e)]
           /\ \A j \in Keys \ {k} : ~HasPayment(j, e)
           /\ \/ k = InitKey /\ task[t].pc = "saveInit"
              \/ k # InitKey /\ k = KeyOf(e) /\ tx[k].status = "none"
<1>1. PICK t \in Tasks : SaveInit(t) \/ InsertTx(t)
  BY DEF Next, vars, Attempt, AnswerDuplicate, Deliver, Step, Die, Record,
         RecordRefused, RecordLost, Claim, Apply, FindInit, SaveInitRefused,
         FindByPayment, FindByKey, Lookup, InsertTxLost, Finish, Raise, Fail
<1>2. task[t].ev \in Events /\ InitKey \in Keys
  BY <1>1 DEF SaveInit, InsertTx, PipeInv, Keys
<1>3. CASE SaveInit(t)
  BY <1>2, <1>3 DEF SaveInit
<1>4. CASE InsertTx(t)
  BY <1>2, <1>4, BookingType DEF InsertTx, Insertable
<1> QED
  BY <1>1, <1>3, <1>4

LEMMA ShapedStep == PipeInv /\ Shaped /\ [Next]_vars => Shaped'
<1> SUFFICES ASSUME PipeInv, Shaped, [Next]_vars PROVE Shaped'
  OBVIOUS
<1>1. CASE tx' = tx
  BY <1>1 DEF Shaped, Untouched
<1>2. CASE tx' # tx
  <2>1. PICK t \in Tasks, k \in Keys :
          /\ task[t].ev \in Events
          /\ tx' = [tx EXCEPT ![k] = Booking(task[t].ev)]
          /\ k = InitKey \/ k = KeyOf(task[t].ev)
    BY <1>2, WriteShape
  <2>2. tx'[k] = Booking(task[t].ev) /\ \A j \in Keys \ {k} : tx'[j] = tx[j]
    BY <2>1 DEF PipeInv, TypeOK
  <2> QED
    BY <2>1, <2>2 DEF Shaped, Untouched
<1> QED
  BY <1>1, <1>2

\* A delivery that begins while no other runs, or moves on, is alone.
LEMMA SoloStep == PipeInv /\ Solo /\ [Next]_vars => Solo' /\ (overlaps' = 0 => overlaps = 0)
<1> SUFFICES ASSUME PipeInv, Solo, [Next]_vars
             PROVE  Solo' /\ (overlaps' = 0 => overlaps = 0)
  OBVIOUS
<1>0. overlaps \in Nat
  BY DEF PipeInv, TypeOK
<1>1. CASE UNCHANGED <<task, overlaps>>
  BY <1>1 DEF Solo
<1>2. ASSUME NEW t \in Tasks, NEW e \in Events, Deliver(t, e)
      PROVE  Solo' /\ (overlaps' = 0 => overlaps = 0)
  <2>1. \A u \in Tasks \ {t} : task'[u] = task[u]
    BY <1>2 DEF Deliver, Enter, PipeInv, TypeOK
  <2>2. overlaps' = 0 => Quiet /\ overlaps = 0
    BY <1>0, <1>2 DEF Deliver, Enter
  <2> QED
    BY <2>1, <2>2 DEF Solo, Quiet
<1>3. ASSUME NEW t \in Tasks, Step(t) \/ Die(t)
      PROVE  Solo' /\ (overlaps' = 0 => overlaps = 0)
  <2>1. task[t].pc # "idle" /\ \A u \in Tasks \ {t} : task'[u] = task[u]
    BY <1>3, StepShape
  <2>2. UNCHANGED overlaps
    BY <1>3 DEF Step, Die, Record, RecordRefused, RecordLost, Claim, Apply,
       FindInit, SaveInit, SaveInitRefused, FindByPayment, FindByKey, Lookup,
       InsertTx, InsertTxLost, Finish, Raise, Fail
  <2> QED
    BY <2>1, <2>2 DEF Solo
<1> QED
  BY <1>1, <1>2, <1>3 DEF Next, Attempt, AnswerDuplicate, vars

\* A handler settles the initial transaction only if it found it pending.
LEMMA MoveShape ==
  ASSUME PipeInv, [Next]_vars, NEW u \in Tasks
  PROVE  /\ task'[u].pc = "saveInit" =>
              task'[u] = task[u]
              \/ (tx' = tx /\ tx[InitKey].status = "pending")
         /\ task'[u].pc = "finish" =>
              \/ task'[u] = task[u]
              \/ /\ task'[u].ev = task[u].ev /\ task[u].ev \in Events
                 /\ \/ SaveInit(u) \/ FindByPayment(u) \/ FindByKey(u)
                    \/ InsertTx(u) \/ InsertTxLost(u)
<1>2. ASSUME NEW t \in Tasks, NEW e \in Events, Deliver(t, e)
      PROVE  task'[u] = task[u] \/ task'[u].pc \in {"insert", "claim"}
  BY <1>2 DEF Deliver, Enter, PipeInv, TypeOK
<1>3. ASSUME NEW t \in Tasks, Step(t) \/ Die(t), t # u
      PROVE  task'[u] = task[u]
  BY <1>3, StepShape
<1>4. CASE Step(u) \/ Die(u)
  <2>0. task[u].ev \in Events
    BY <1>4, StepShape
  <2>1. /\ \A pc : Goto(u, pc) => task'[u].pc = pc /\ task'[u].ev = task[u].ev
        /\ Return(u) => task'[u].pc = "idle"
    BY DEF Goto, Return, Idle, PipeInv, TypeOK, Task
  <2>2. \A e, pc : /\ FirstLookup(e) \notin {"saveInit", "finish"}
                   /\ NextLookup(e, pc) \notin {"saveInit", "finish"}
    BY DEF FirstLookup, NextLookup
  <2>3. task'[u].pc = "saveInit" => FindInit(u)
    BY <1>4, <2>1, <2>2
       DEF Step, Die, Record, RecordRefused, RecordLost, Claim, Apply,
           SaveInit, SaveInitRefused, FindByPayment, FindByKey, Lookup,
           InsertTx, InsertTxLost, Finish, Raise, Fail
  <2>4. task'[u].pc = "finish" =>
          /\ task'[u].ev = task[u].ev
          /\ \/ SaveInit(u) \/ FindByPayment(u) \/ FindByKey(u)
             \/ InsertTx(u) \/ InsertTxLost(u)
    BY <1>4, <2>1, <2>2
       DEF Step, Die, Record, RecordRefused, RecordLost, Claim, Apply, FindInit,
           SaveInit, SaveInitRefused, FindByPayment, FindByKey, Lookup,
           InsertTx, InsertTxLost, Finish, Raise, Fail
  <2> QED
    BY <2>0, <2>1, <2>2, <2>3, <2>4 DEF FindInit
<1>5. \/ task'[u] = task[u] \/ task'[u].pc \in {"insert", "claim"}
      \/ Step(u) \/ Die(u)
  BY <1>2, <1>3 DEF Next, Attempt, AnswerDuplicate, vars
<1>6. CASE task'[u] = task[u]
  BY <1>6
<1>7. CASE task'[u].pc \in {"insert", "claim"}
  BY <1>7
<1> QED
  BY <1>4, <1>5, <1>6, <1>7

LEMMA OpeningStep == PipeInv /\ Solo /\ Opening /\ [Next]_vars => Opening'
<1> SUFFICES ASSUME PipeInv, Solo, Opening, [Next]_vars, overlaps' = 0,
                    NEW u \in Tasks, task'[u].pc = "saveInit"
             PROVE  tx'[InitKey].status = "pending"
  BY DEF Opening
<1>1. overlaps = 0
  BY SoloStep
<1>2. CASE tx' = tx
  BY <1>1, <1>2, MoveShape DEF Opening
<1>3. CASE tx' # tx
  <2>1. task'[u] = task[u]
    BY <1>3, MoveShape
  <2>2. PICK t \in Tasks : task[t].pc \in {"saveInit", "insertTx"} /\ task'[t] # task[t]
    <3>1. PICK t \in Tasks : SaveInit(t) \/ InsertTx(t)
      BY <1>3 DEF Next, vars, Attempt, AnswerDuplicate, Deliver, Step, Die, Record,
         RecordRefused, RecordLost, Claim, Apply, FindInit, SaveInitRefused,
         FindByPayment, FindByKey, Lookup, InsertTxLost, Finish, Raise, Fail
    <3>2. Goto(t, "finish") => task'[t].pc = "finish"
      BY DEF Goto, PipeInv, TypeOK, Task
    <3> QED
      BY <3>1, <3>2 DEF SaveInit, InsertTx
  <2> QED
    BY <1>1, <2>1, <2>2 DEF Solo
<1> QED
  BY <1>2, <1>3

\* While deliveries do not overlap, no transaction that names a payment is
\* written again.
LEMMA BookingsStay ==
  ASSUME PipeInv, Shaped, Opening, overlaps = 0, [Next]_vars, NEW k \in Keys,
         tx[k].pay # Unset
  PROVE  tx'[k] = tx[k]
<1>1. CASE tx' = tx
  BY <1>1
<1>2. CASE tx' # tx
  <2>1. PICK t \in Tasks, j \in Keys :
          /\ tx' = [tx EXCEPT ![j] = Booking(task[t].ev)]
          /\ tx[j].status \in {"pending", "none"}
    BY <1>2, WriteShape DEF Opening
  <2>2. tx[j].pay = Unset
    <3>1. \A e \in Events : Booking(e).status \notin {"pending", "none"}
      BY DEF Booking, OutcomeOf
    <3> QED
      BY <2>1, <3>1 DEF Shaped, Untouched
  <2> QED
    BY <2>1, <2>2 DEF PipeInv, TypeOK
<1> QED
  BY <1>1, <1>2

LEMMA BookedStep ==
  PipeInv /\ Solo /\ Shaped /\ Opening /\ BookedInv /\ [Next]_vars => BookedInv'
<1> SUFFICES ASSUME PipeInv, Solo, Shaped, Opening, BookedInv, [Next]_vars,
                    overlaps' = 0, losses' = 0
             PROVE  (\A e \in handled : Booked(e))'
                    /\ (\A t \in Tasks : task[t].pc = "finish" => Booked(task[t].ev))'
  BY DEF BookedInv
<1>1. overlaps = 0 /\ losses = 0
  <2>1. losses \in Nat
    BY DEF PipeInv, TypeOK
  <2>2. losses' = 0 => losses = 0
    BY <2>1 DEF Next, vars, Attempt, AnswerDuplicate, Deliver, Step, Die, Record,
       RecordRefused, RecordLost, Claim, Apply, FindInit, SaveInit, SaveInitRefused,
       FindByPayment, FindByKey, Lookup, InsertTx, InsertTxLost, Finish, Raise,
       Fail, Lose
  <2> QED
    BY <2>2, SoloStep
<1>2. \A e : Booked(e) => Booked(e)'
  BY <1>1, BookingsStay DEF Booked
<1>3. ASSUME NEW e \in handled' PROVE Booked(e)'
  <2>1. e \in handled \/ \E t \in Tasks : task[t].pc = "finish" /\ e = task[t].ev
    BY DEF history, Next, vars, Attempt, AnswerDuplicate, Deliver, Step, Die,
       Record, RecordRefused, RecordLost, Claim, Apply, FindInit, SaveInit,
       SaveInitRefused, FindByPayment, FindByKey, Lookup, InsertTx, InsertTxLost,
       Finish, Raise, Fail
  <2> QED
    BY <1>1, <1>2, <2>1 DEF BookedInv
<1>4. ASSUME NEW t \in Tasks, NEW e, task'[t].pc = "finish", task'[t].ev = e
      PROVE  Booked(e)'
  <2>1. CASE task'[t] = task[t]
    BY <1>1, <1>2, <1>4, <2>1 DEF BookedInv
  <2>2. CASE task'[t] # task[t]
    <3>0. /\ task[t].ev = e /\ e \in Events
          /\ \/ SaveInit(t) \/ FindByPayment(t) \/ FindByKey(t) \/ InsertTx(t)
             \/ InsertTxLost(t)
      BY <1>4, <2>2, MoveShape
    <3>t. tx \in [Keys -> Tx] /\ KeyOf(e) \in Keys /\ InitKey \in Keys
      BY <3>0, BookingType DEF PipeInv, TypeOK, Keys
    <3>1. CASE SaveInit(t)
      <4>1. tx'[InitKey] = Booking(e)
        BY <3>0, <3>t, <3>1 DEF SaveInit
      <4> QED
        BY <3>0, <3>t, <4>1 DEF Booked, Booking
    <3>2. CASE FindByPayment(t)
      <4>1. NextLookup(e, "byPay") # "finish"
        BY DEF NextLookup
      <4>2. \E k \in Keys : HasPayment(k, e)
        BY <1>4, <3>2, <4>1 DEF FindByPayment, Lookup, Goto, PipeInv, TypeOK, Task
      <4> QED
        BY <1>2, <3>0, <4>2, FoundByPayment
    <3>3. CASE FindByKey(t)
      <4>1. NextLookup(e, "byKey") # "finish"
        BY DEF NextLookup
      <4>2. tx[KeyOf(e)].status # "none"
        BY <1>4, <3>3, <4>1 DEF FindByKey, Lookup, Goto, PipeInv, TypeOK, Task
      <4> QED
        BY <1>2, <3>0, <4>2, FoundByKey
    <3>4. CASE InsertTx(t)
      <4>1. CASE Insertable(e)
        <5>1. tx'[KeyOf(e)] = Booking(e)
          BY <3>0, <3>t, <3>4, <4>1 DEF InsertTx
        <5> QED
          BY <3>0, <3>t, <5>1 DEF Booked, Booking
      <4>2. CASE ~Insertable(e)
        BY <1>2, <3>0, <4>2, FoundByPayment, FoundByKey DEF Insertable
      <4> QED
        BY <4>1, <4>2
    <3>5. CASE InsertTxLost(t)
      BY <1>1, <3>5 DEF InsertTxLost, Lose, PipeInv, TypeOK
    <3> QED
      BY <3>0, <3>1, <3>2, <3>3, <3>4, <3>5
  <2> QED
    BY <2>1, <2>2
<1> QED
  BY <1>3, <1>4 DEF Booked

LEMMA BookedInit == Init => Solo /\ Shaped /\ Opening /\ BookedInv
  BY DEF Init, Solo, Shaped, Untouched, NoTx, Opening, BookedInv, Idle

\* When deliveries have not overlapped and nothing was lost, the payment of a
\* processed event has a transaction with its outcome: a lookup that finds one,
\* by payment or by key, and an insert the index refuses have found that payment.
THEOREM ProcessedPaymentsAreBooked == Spec => []ProcessedIsBooked
<1>1. BookedInv => ProcessedIsBooked
  BY DEF BookedInv, Booked, ProcessedIsBooked
<1> QED
  BY <1>1, TypeInit, TypeStep, BookedInit, SoloStep, ShapedStep, OpeningStep,
     BookedStep, PTL DEF Spec

-------------------------------------------------------------------------------
(* The transactions implement the ledger *)

\* The refinement mapping, of any transactions x.
Named(x, p) == CHOOSE k \in Keys : x[k].pay = p
BookedIn(x) ==
  [p \in Payments |->
    IF \E k \in Keys : x[k].pay = p THEN x[Named(x, p)].status ELSE "none"]

OutcomeMap ==
  [p \in Payments |->
    IF \E e \in Events : PayOf[e] = p /\ KindOf[e] = "failed"
    THEN "failed" ELSE "success"]

LEMMA OutcomeAgrees ==
  ASSUME NEW e \in Events, PayOf[e] # Unset
  PROVE  PayOf[e] \in Payments /\ OutcomeMap[PayOf[e]] = OutcomeOf(e)
<1>1. PayOf[e] \in Payments /\ KindOf[e] \in {"paid", "failed"}
  BY PipelineAssumption
<1>2. \A d \in Events : PayOf[d] = PayOf[e] => KindOf[d] = KindOf[e]
  BY AgreementAssumption
<1> QED
  BY <1>1, <1>2 DEF OutcomeMap, OutcomeOf

\* Writing one transaction that named no payment books its payment, if it has
\* one and no other transaction names it, and leaves the other payments alone.
LEMMA WriteBooks ==
  ASSUME NEW x, NEW y, NEW k \in Keys, NEW b \in Tx, x[k].pay = Unset,
         y[k] = b, \A j \in Keys \ {k} : y[j] = x[j] /\ (b.pay # Unset => x[j].pay # b.pay)
  PROVE  /\ \A p \in Payments :
              BookedIn(y)[p] = IF p = b.pay THEN b.status ELSE BookedIn(x)[p]
         /\ b.pay # Unset => BookedIn(x)[b.pay] = "none"
<1>0. Unset \notin Payments /\ b.pay \in Payments \cup {Unset}
  BY PipelineAssumption DEF Tx
<1>1. ASSUME NEW p \in Payments, p # b.pay PROVE BookedIn(y)[p] = BookedIn(x)[p]
  <2>1. \A j \in Keys : y[j].pay = p <=> x[j].pay = p
    BY <1>0, <1>1
  <2>2. Named(y, p) = Named(x, p)
    BY <2>1 DEF Named
  <2>3. CASE \E j \in Keys : x[j].pay = p
    <3>1. Named(x, p) \in Keys /\ x[Named(x, p)].pay = p
      BY <2>3 DEF Named
    <3>2. y[Named(x, p)] = x[Named(x, p)]
      BY <1>0, <1>1, <3>1
    <3> QED
      BY <2>1, <2>2, <2>3, <3>2 DEF BookedIn
  <2>4. CASE ~\E j \in Keys : x[j].pay = p
    BY <2>1, <2>4 DEF BookedIn
  <2> QED
    BY <2>3, <2>4
<1>2. ASSUME b.pay # Unset
      PROVE  BookedIn(x)[b.pay] = "none" /\ BookedIn(y)[b.pay] = b.status
  <2>1. b.pay \in Payments /\ BookedIn(x)[b.pay] = "none"
    BY <1>0, <1>2 DEF BookedIn
  <2>2. \A j \in Keys : y[j].pay = b.pay => j = k
    BY <1>0, <1>2
  <2>3. Named(y, b.pay) = k
    BY <1>0, <2>2 DEF Named
  <2> QED
    BY <1>0, <2>1, <2>3 DEF BookedIn
<1> QED
  BY <1>0, <1>1, <1>2

LEMMA LedgerInit == Init => Ledger!Init
<1> SUFFICES ASSUME Init PROVE Ledger!Init
  OBVIOUS
<1>1. tx[InitKey].status \in {"none", "pending"} /\ \A k \in Keys : tx[k].pay = Unset
  BY DEF Init, NoTx, Keys
<1>2. Unset \notin Payments
  BY PipelineAssumption
<1> QED
  BY <1>1, <1>2 DEF Ledger!Init

LEMMA LedgerStep ==
  ASSUME PipeInv, Shaped, Opening, overlaps = 0, [Next]_vars
  PROVE  Ledger!Next \/ UNCHANGED <<tx[InitKey].status, BookedIn(tx)>>
<1>1. CASE tx' = tx
  BY <1>1
<1>2. CASE tx' # tx
  <2>1. PICK t \in Tasks, k \in Keys, e \in Events :
          /\ tx' = [tx EXCEPT ![k] = Booking(e)]
          /\ \A j \in Keys \ {k} : ~HasPayment(j, e)
          /\ \/ k = InitKey /\ task[t].pc = "saveInit"
             \/ k # InitKey /\ tx[k].status = "none"
    BY <1>2, WriteShape
  <2>2. tx \in [Keys -> Tx] /\ InitKey \in Keys
    BY DEF PipeInv, TypeOK, Keys
  <2>3. tx[k].pay = Unset
    <3>1. \A d \in Events : Booking(d).status \notin {"pending", "none"}
      BY DEF Booking, OutcomeOf
    <3> QED
      BY <2>1, <3>1 DEF Shaped, Untouched, Opening
  <2>4. /\ Booking(e) \in Tx /\ Booking(e).pay = PayOf[e]
        /\ Booking(e).status = OutcomeOf(e)
    BY <2>1, BookingType DEF Booking
  <2>5. /\ PayOf[e] = Unset => BookedIn(tx') = BookedIn(tx)
        /\ PayOf[e] # Unset =>
             /\ BookedIn(tx)[PayOf[e]] = "none"
             /\ BookedIn(tx') = [BookedIn(tx) EXCEPT ![PayOf[e]] = OutcomeOf(e)]
    <3> DEFINE b == Booking(e)
    <3>1. /\ b \in Tx /\ b.pay = PayOf[e] /\ b.status = OutcomeOf(e)
          /\ tx'[k] = b
          /\ \A j \in Keys \ {k} : tx'[j] = tx[j] /\ (b.pay # Unset => tx[j].pay # b.pay)
      BY <2>1, <2>2, <2>4 DEF HasPayment
    <3> HIDE DEF b
    <3>2. /\ \A p \in Payments :
               BookedIn(tx')[p] = IF p = b.pay THEN b.status ELSE BookedIn(tx)[p]
          /\ b.pay # Unset => BookedIn(tx)[b.pay] = "none"
      BY <2>3, <3>1, WriteBooks
    <3>3. /\ BookedIn(tx) = [p \in Payments |-> BookedIn(tx)[p]]
          /\ BookedIn(tx') = [p \in Payments |-> BookedIn(tx')[p]]
      BY DEF BookedIn
    <3> QED
      BY <3>1, <3>2, <3>3, PipelineAssumption
  <2>6. PayOf[e] # Unset => Ledger!Book(PayOf[e])
    BY <2>1, <2>5, OutcomeAgrees DEF Ledger!Book, BookedIn, Named, OutcomeMap
  <2>7. CASE k = InitKey
    <3>1. tx[InitKey].status = "pending" /\ tx'[InitKey].status = OutcomeOf(e)
      BY <2>1, <2>2, <2>4, <2>7 DEF Opening
    <3>2. Ledger!Settle(OutcomeOf(e))
      BY <2>1, <2>5, <2>6, <3>1, OutcomeAgrees
         DEF Ledger!Settle, BookedIn, Named, OutcomeMap
    <3>3. OutcomeOf(e) \in {"success", "failed"}
      BY DEF OutcomeOf
    <3> QED
      BY <3>2, <3>3 DEF Ledger!Next
  <2>8. CASE k # InitKey
    <3>1. tx'[InitKey] = tx[InitKey]
      BY <2>1, <2>2, <2>8
    <3>2. CASE PayOf[e] = Unset
      BY <2>5, <3>1, <3>2
    <3>3. CASE PayOf[e] # Unset
      BY <2>1, <2>6, <3>1, <3>3, OutcomeAgrees DEF Ledger!Next, Ledger!Renew
    <3> QED
      BY <3>2, <3>3
  <2> QED
    BY <2>7, <2>8
<1> QED
  BY <1>1, <1>2

\* In every behaviour in which deliveries do not overlap, the transactions
\* implement the ledger, however handlers raise, lose an insert or die: a payment
\* is booked once and for good, and the opening payment is settled once.
THEOREM TransactionsImplementTheLedger ==
  Spec /\ [](overlaps = 0) => ImplementsLedger
<1>1. PipeInv /\ Shaped /\ Opening /\ overlaps = 0 /\ [Next]_vars
      => [Ledger!Next]_<<tx[InitKey].status,
            [p \in Payments |->
               IF \E k \in Keys : tx[k].pay = p
               THEN tx[CHOOSE k \in Keys : tx[k].pay = p].status ELSE "none"]>>
  BY LedgerStep DEF BookedIn, Named
<1> QED
  BY <1>1, TypeInit, TypeStep, BookedInit, SoloStep, ShapedStep, OpeningStep,
     LedgerInit, PTL DEF Spec, ImplementsLedger, Ledger!Spec
===============================================================================
