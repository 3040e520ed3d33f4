--------------------------- MODULE WebhookPipeline ---------------------------
(***************************************************************************)
(* How webhook deliveries become payment transactions.                     *)
(*                                                                         *)
(* process_webhook_payload logs each event in webhook_events, which is     *)
(* what recognises a duplicate delivery, and the payment handlers book the *)
(* payment in payment_transactions (app/billing_service.py).  The gateway  *)
(* delivers every event at least once, in any order, again when the answer *)
(* is not a success or does not come, and sometimes when it did.           *)
(* Deliveries of one event, and events that report one payment, interleave *)
(* at the awaits of the handlers.                                          *)
(*                                                                         *)
(* The events are those of one subscription.  What they do to it and to    *)
(* the entitlement is in BillingLifecycle; here it is the step Apply, and  *)
(* everything that may raise.                                              *)
(***************************************************************************)
EXTENDS Naturals, FiniteSets

CONSTANTS
  Events,       \* event ids, given by the gateway or derived from the payload
  Payments,     \* payment ids
  KindOf,       \* what an event reports: a payment "paid" or "failed"
  PayOf,        \* the payment it names, or Unset
  Unset,
  Tasks,        \* deliveries being handled at once
  MaxOverlaps,  \* bound: handlers that begin while another is running
  MaxRaises,    \* bound: handlers that raise for a reason outside this module
  MaxLosses     \* bound: database errors and handlers that die half way

ASSUME PipelineAssumption ==
  /\ KindOf \in [Events -> {"paid", "failed"}]
  /\ PayOf \in [Events -> Payments \cup {Unset}]
  /\ Unset \notin Payments \cup Events /\ Payments \cap Events = {}
  /\ MaxOverlaps \in Nat /\ MaxRaises \in Nat /\ MaxLosses \in Nat

\* A payment succeeds or fails for good: its events agree.
ASSUME AgreementAssumption ==
  \A d, e \in Events :
    PayOf[d] = PayOf[e] /\ PayOf[d] # Unset => KindOf[d] = KindOf[e]

VARIABLES
  log,       \* status of each event in webhook_events
  tx,        \* payment_transactions, by idempotency key
  task,      \* the deliveries being handled
  acked,     \* events the gateway has had a success for
  overlaps, raises, losses,
  applied,   \* history: times the handler of each event ran, counted to two
  raised,    \* history: events whose handler raised
  handled,   \* history: events whose handler came through
  waved      \* history: events answered as duplicates of an overlapping delivery

vars == <<log, tx, task, acked, overlaps, raises, losses, applied, raised,
          handled, waved>>
history == <<applied, raised, handled, waved>>

-------------------------------------------------------------------------------
(* Documents *)

LogStatus == {"none", "processing", "processed", "failed"}
TxStatus == {"none", "pending", "success", "failed"}

InitKey == <<"init", Unset>>
Keys == {InitKey} \cup ({"pay"} \X (Payments \cup Events)) \cup ({"fail"} \X Events)

Tx == [status: TxStatus, pay: Payments \cup {Unset}, by: Events \cup {Unset}]
NoTx == [status |-> "none", pay |-> Unset, by |-> Unset]

\* Faulty: the spelling of the legacy payment records.
OutcomeLegacy(e) == IF KindOf[e] = "paid" THEN "SUCCESS" ELSE "FAILED"

OutcomeOf(e) == IF KindOf[e] = "paid" THEN "success" ELSE "failed"
Booking(e) == [status |-> OutcomeOf(e), pay |-> PayOf[e], by |-> e]

\* A success is keyed by its payment, a failure by its event.
KeyOf(e) ==
  IF KindOf[e] = "failed" THEN <<"fail", e>>
  ELSE <<"pay", IF PayOf[e] = Unset THEN e ELSE PayOf[e]>>

\* Both transactions of a payment have its id: the queries look for it, the
\* unique index on (provider, cashfree_payment_id) refuses the second.
HasPayment(k, e) == PayOf[e] # Unset /\ tx[k].pay = PayOf[e]

PC == {"idle", "insert", "claim", "apply", "init", "saveInit", "byPay", "byKey",
       "insertTx", "finish", "fail"}
Task == [pc: PC, ev: Events \cup {Unset}]
Idle == [pc |-> "idle", ev |-> Unset]

\* The initial transaction is inserted after the subscription: a request that
\* died in between has left none.
Init ==
  /\ log = [e \in Events |-> "none"]
  /\ \E st \in {"none", "pending"} :
       tx = [k \in Keys |-> IF k = InitKey THEN [NoTx EXCEPT !.status = st] ELSE NoTx]
  /\ task = [t \in Tasks |-> Idle]
  /\ acked = {}
  /\ overlaps = 0 /\ raises = 0 /\ losses = 0
  /\ applied = [e \in Events |-> 0] /\ raised = {}
  /\ handled = {} /\ waved = {}

-------------------------------------------------------------------------------
(* Scheduling *)

Handling(e) == \E t \in Tasks : task[t].ev = e
Quiet == \A t \in Tasks : task[t].pc = "idle"

Enter(t, pc, e) ==
  /\ task[t].pc = "idle"
  /\ task' = [task EXCEPT ![t] = [pc |-> pc, ev |-> e]]
  /\ IF Quiet THEN UNCHANGED overlaps
     ELSE overlaps < MaxOverlaps /\ overlaps' = overlaps + 1

Goto(t, pc) == task' = [task EXCEPT ![t].pc = pc]
Return(t) == task' = [task EXCEPT ![t] = Idle]

Answer(e) == acked' = acked \cup {e}
Lose == losses < MaxLosses /\ losses' = losses + 1

-------------------------------------------------------------------------------
(* process_webhook_payload: is it a duplicate? *)

\* Faulty: a failed attempt counts as well.
SeenWithFailed == {"processed", "processing", "failed"}

\* The statuses that mark a delivery as a duplicate.
Seen == {"processed", "processing"}

Deliver(t, e) ==
  /\ log[e] \notin Seen
  /\ Enter(t, IF log[e] = "none" THEN "insert" ELSE "claim", e)
  /\ UNCHANGED <<log, tx, acked, raises, losses, history>>

AnswerDuplicate(e) ==
  /\ log[e] \in Seen
  /\ Answer(e)
  /\ waved' = IF Handling(e) THEN waved \cup {e} ELSE waved
  /\ UNCHANGED <<log, tx, task, overlaps, raises, losses, applied, raised,
                 handled>>

\* Faulty: the insert does not meet the unique index.
RecordAnyway(t) ==
  /\ task[t].pc = "insert"
  /\ log' = [log EXCEPT ![task[t].ev] = "processing"]
  /\ Goto(t, "apply")
  /\ UNCHANGED <<tx, acked, overlaps, raises, losses, history>>

Record(t) ==
  /\ task[t].pc = "insert" /\ log[task[t].ev] = "none"
  /\ log' = [log EXCEPT ![task[t].ev] = "processing"]
  /\ Goto(t, "apply")
  /\ UNCHANGED <<tx, acked, overlaps, raises, losses, history>>

\* The index refuses the second document of an event.
RecordRefused(t) ==
  LET e == task[t].ev IN
  /\ task[t].pc = "insert" /\ log[e] # "none"
  /\ Answer(e) /\ Return(t)
  /\ waved' = waved \cup {e}
  /\ UNCHANGED <<log, tx, overlaps, raises, losses, applied, raised,
                 handled>>

\* Any other database error is taken for the same.
RecordLost(t) ==
  /\ task[t].pc = "insert" /\ Lose
  /\ Answer(task[t].ev) /\ Return(t)
  /\ UNCHANGED <<log, tx, overlaps, raises, history>>

\* A failed event is tried again, on the document that was read.
Claim(t) ==
  /\ task[t].pc = "claim"
  /\ log' = [log EXCEPT ![task[t].ev] = "processing"]
  /\ Goto(t, "apply")
  /\ UNCHANGED <<tx, acked, overlaps, raises, losses, history>>

-------------------------------------------------------------------------------
(* _handle_payment_success_webhook and _handle_payment_failed_webhook *)

\* The subscription is saved.
Apply(t) ==
  LET e == task[t].ev IN
  /\ task[t].pc = "apply"
  /\ applied' = [applied EXCEPT ![e] = IF @ = 0 THEN 1 ELSE 2]
  /\ Goto(t, "init")
  /\ UNCHANGED <<log, tx, acked, overlaps, raises, losses, raised, handled,
                 waved>>

\* A success looks for its payment, then for its key, a failure the other way
\* round; an event that names no payment has only the key to look for.
FirstLookup(e) ==
  IF KindOf[e] = "paid" /\ PayOf[e] # Unset THEN "byPay" ELSE "byKey"
NextLookup(e, pc) ==
  CASE pc = "byPay" /\ KindOf[e] = "paid" -> "byKey"
    [] pc = "byKey" /\ KindOf[e] = "failed" /\ PayOf[e] # Unset -> "byPay"
    [] OTHER -> "insertTx"

\* Faulty: an initial payment that failed is settled again.
FindInitFailed(t) ==
  /\ task[t].pc = "init"
  /\ Goto(t, IF tx[InitKey].status \in {"pending", "failed"} THEN "saveInit"
             ELSE FirstLookup(task[t].ev))
  /\ UNCHANGED <<log, tx, acked, overlaps, raises, losses, history>>

FindInit(t) ==
  /\ task[t].pc = "init"
  /\ Goto(t, IF tx[InitKey].status = "pending" THEN "saveInit"
             ELSE FirstLookup(task[t].ev))
  /\ UNCHANGED <<log, tx, acked, overlaps, raises, losses, history>>

\* Faulty: the payment that settles the initial transaction is not noted.
SaveInitUnnamed(t) ==
  /\ task[t].pc = "saveInit"
  /\ tx' = [tx EXCEPT ![InitKey] = [Booking(task[t].ev) EXCEPT !.pay = Unset]]
  /\ Goto(t, "finish")
  /\ UNCHANGED <<log, acked, overlaps, raises, losses, history>>

\* The pending transaction, as it was found, is saved with its outcome.
SaveInit(t) ==
  LET e == task[t].ev IN
  /\ task[t].pc = "saveInit"
  /\ \A k \in Keys \ {InitKey} : ~HasPayment(k, e)
  /\ tx' = [tx EXCEPT ![InitKey] = Booking(e)]
  /\ Goto(t, "finish")
  /\ UNCHANGED <<log, acked, overlaps, raises, losses, history>>

\* Nothing catches the error of the index here but the handler of last resort.
SaveInitRefused(t) ==
  /\ task[t].pc = "saveInit"
  /\ \E k \in Keys \ {InitKey} : HasPayment(k, task[t].ev)
  /\ Goto(t, "fail")
  /\ raised' = raised \cup {task[t].ev}
  /\ UNCHANGED <<log, tx, acked, overlaps, raises, losses, applied, handled,
                 waved>>

Lookup(t, pc, found) ==
  /\ task[t].pc = pc
  /\ Goto(t, IF found THEN "finish" ELSE NextLookup(task[t].ev, pc))
  /\ UNCHANGED <<log, tx, acked, overlaps, raises, losses, history>>

FindByPayment(t) == Lookup(t, "byPay", \E k \in Keys : HasPayment(k, task[t].ev))
FindByKey(t) == Lookup(t, "byKey", tx[KeyOf(task[t].ev)].status # "none")

\* Faulty: the index on the payment does not cover it.
InsertableByKey(e) == tx[KeyOf(e)].status = "none"

Insertable(e) ==
  tx[KeyOf(e)].status = "none" /\ \A k \in Keys : ~HasPayment(k, e)

\* A renewal; a refused insert is logged and ignored.
InsertTx(t) ==
  LET e == task[t].ev IN
  /\ task[t].pc = "insertTx"
  /\ tx' = IF Insertable(e) THEN [tx EXCEPT ![KeyOf(e)] = Booking(e)] ELSE tx
  /\ Goto(t, "finish")
  /\ UNCHANGED <<log, acked, overlaps, raises, losses, history>>

\* And so is any other database error.
InsertTxLost(t) ==
  /\ task[t].pc = "insertTx" /\ Lose
  /\ Goto(t, "finish")
  /\ UNCHANGED <<log, tx, acked, overlaps, raises, history>>

-------------------------------------------------------------------------------
(* The answer *)

Finish(t) ==
  LET e == task[t].ev IN
  /\ task[t].pc = "finish"
  /\ log' = [log EXCEPT ![e] = "processed"]
  /\ Answer(e) /\ Return(t)
  /\ handled' = handled \cup {e}
  /\ UNCHANGED <<tx, overlaps, raises, losses, applied, raised, waved>>

\* The subscription, the entitlement, the audit trail or a superseded mandate:
\* something outside this module raises.
Raise(t) ==
  /\ task[t].pc \in PC \ {"idle", "insert", "claim", "fail"}
  /\ raises < MaxRaises /\ raises' = raises + 1
  /\ raised' = raised \cup {task[t].ev}
  /\ Goto(t, "fail")
  /\ UNCHANGED <<log, tx, acked, overlaps, losses, applied, handled,
                 waved>>

\* Faulty: the event is left as it was.
FailUnmarked(t) ==
  /\ task[t].pc = "fail"
  /\ Return(t)
  /\ UNCHANGED <<log, tx, acked, overlaps, raises, losses, history>>

\* The answer is 500: the gateway will try again.
Fail(t) ==
  /\ task[t].pc = "fail"
  /\ log' = [log EXCEPT ![task[t].ev] = "failed"]
  /\ Return(t)
  /\ UNCHANGED <<tx, acked, overlaps, raises, losses, history>>

\* The process or the request dies at an await, or the database fails where
\* nothing catches it; the gateway has no answer.
Die(t) ==
  /\ task[t].pc # "idle" /\ Lose
  /\ Return(t)
  /\ UNCHANGED <<log, tx, acked, overlaps, raises, history>>

-------------------------------------------------------------------------------
Step(t) ==
  \/ Record(t) \/ RecordRefused(t) \/ RecordLost(t) \/ Claim(t)
  \/ Apply(t) \/ FindInit(t) \/ SaveInit(t) \/ SaveInitRefused(t)
  \/ FindByPayment(t) \/ FindByKey(t) \/ InsertTx(t) \/ InsertTxLost(t)
  \/ Finish(t) \/ Raise(t) \/ Fail(t)

Attempt(e) == AnswerDuplicate(e) \/ \E t \in Tasks : Deliver(t, e)

Next ==
  \/ \E e \in Events : Attempt(e)
  \/ \E t \in Tasks : Step(t) \/ Die(t)

Spec == Init /\ [][Next]_vars

\* The event loop runs every handler on; the gateway goes on delivering an event
\* until it has had a success for it, whatever else it delivers.
Fairness ==
  /\ \A t \in Tasks : WF_vars(Step(t))
  /\ \A e \in Events : SF_vars(e \notin acked /\ Attempt(e))

FairSpec == Spec /\ Fairness

-------------------------------------------------------------------------------
(* Properties *)

\* Every document and delivery is of its type.
TypeOK ==
  /\ log \in [Events -> LogStatus]
  /\ tx \in [Keys -> Tx]
  /\ task \in [Tasks -> Task]
  /\ acked \in SUBSET Events
  /\ overlaps \in 0..MaxOverlaps /\ raises \in 0..MaxRaises
  /\ losses \in 0..MaxLosses
  /\ applied \in [Events -> 0..2]
  /\ raised \in SUBSET Events /\ handled \in SUBSET Events
  /\ waved \in SUBSET Events

\* However deliveries interleave, fail or die, a payment is booked at most once.
UniquePayment ==
  \A j, k \in Keys : tx[j].pay # Unset /\ tx[j].pay = tx[k].pay => j = k

\* However often an event is delivered and however its deliveries interleave or
\* die, its handler runs a second time only after it has raised.
AppliedOnce == \A e \in Events : applied[e] = 2 => e \in raised

\* Nothing having been lost, the gateway has a success for an event only when
\* its handler has come through, or it was answered as the duplicate of a delivery
\* that overlapped it and may fail or have failed.
AnsweredIsProcessed ==
  losses = 0 => acked \subseteq handled \cup waved

\* An event is processed in the end, however many attempts fail, unless a
\* duplicate of an overlapping attempt was waved through or something was lost.
EventuallyProcessed ==
  \A e \in Events : <>(e \in handled \cup waved \/ losses > 0)

\* When deliveries have not overlapped and nothing was lost, the payment of a
\* processed event has a transaction that says what became of it.
ProcessedIsBooked ==
  overlaps = 0 /\ losses = 0 =>
    \A e \in handled :
      PayOf[e] # Unset =>
        \E k \in Keys : tx[k].pay = PayOf[e] /\ tx[k].status = OutcomeOf(e)

\* When deliveries do not overlap, the transactions implement the ledger: none
\* is rewritten, however handlers raise, lose an insert or die.
Ledger ==
  INSTANCE PaymentLedger WITH
    Outcome <- [p \in Payments |->
      IF \E e \in Events : PayOf[e] = p /\ KindOf[e] = "failed"
      THEN "failed" ELSE "success"],
    opening <- tx[InitKey].status,
    booked <- [p \in Payments |->
      IF \E k \in Keys : tx[k].pay = p
      THEN tx[CHOOSE k \in Keys : tx[k].pay = p].status ELSE "none"]

ImplementsLedger == Ledger!Spec

\* process_webhook_payload and the tests promise that an event delivered twice
\* books one transaction.
OneBookingPerEvent ==
  \A e \in Events : Cardinality({k \in Keys : tx[k].by = e}) <= 1
===============================================================================
