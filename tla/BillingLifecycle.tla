--------------------------- MODULE BillingLifecycle ---------------------------
(***************************************************************************)
(* The subscription lifecycle of one user: the webhook handlers, the       *)
(* expiry worker and the HTTP handlers that create, resume, cancel and     *)
(* read a subscription, as they interleave on one asyncio event loop over  *)
(* the documents of that user (app/billing_service.py,                     *)
(* app/subscription_routes.py, the one-time checkout of                    *)
(* app/payment_routes.py).                                                 *)
(*                                                                         *)
(* Every handler is cut at its awaits.  A step reads one document into the *)
(* handler's local record or writes one document back as a whole, as       *)
(* Beanie's save() does: between the two, other handlers run, and what     *)
(* they wrote is overwritten.  Every query of the code selects by user_id, *)
(* so users do not interact and one user is enough.                        *)
(*                                                                         *)
(* Transactions, the webhook log and the audit trail are not here: the     *)
(* module WebhookPipeline has the first two.                               *)
(***************************************************************************)
EXTENDS Naturals, FiniteSets

CONSTANTS
  Subs,        \* Subscription documents; each is also the id of its mandate
  Orders,      \* one-time checkout orders
  Tasks,       \* requests in flight at once
  Worker,      \* the expiry worker; _expiry_lock admits a single pass
  OfferOf,     \* plan and interval a subscription or an order is for
  Free,        \* the free plan
  Unset,       \* a field that holds nothing
  Period,      \* length of a billing period, in clock ticks
  Grace,       \* length of the grace period, in clock ticks
  MaxTime,     \* bound: last tick of the clock
  MaxCharges,  \* bound: charges the gateway attempts
  MaxOverlaps, \* bound: handlers that begin while another is running
  MaxFaults    \* bound: calls that fail or handlers that die half way

Items == Subs \cup Orders
Procs == Tasks \cup {Worker}

ASSUME LifecycleAssumption ==
  /\ Subs \cap Orders = {} /\ Unset \notin Items
  /\ Worker \notin Tasks
  /\ Free \notin {OfferOf[i] : i \in Items}
  /\ Period \in Nat \ {0} /\ Grace \in Nat \ {0}
  /\ MaxTime \in Nat /\ MaxCharges \in Nat
  /\ MaxOverlaps \in Nat /\ MaxFaults \in Nat

VARIABLES
  sub,       \* Subscription documents
  ent,       \* the user's Entitlement document
  user,      \* the billing fields of the User document
  gateway,   \* state of each mandate and order at Cashfree
  events,    \* webhooks sent and not yet answered with success
  task,      \* local state of each handler in flight
  now,       \* the clock
  charges,   \* charges attempted so far
  overlaps,  \* handlers that began while another was running
  faults,    \* faults so far
  declined,  \* history: the declined charges
  payer,     \* history: whose handler wrote the entitlement last
  polled,    \* history: a subscription went active on a gateway poll
  replaced   \* history: the subscriptions that have been superseded

vars == <<sub, ent, user, gateway, events, task, now, charges, overlaps,
          faults, declined, payer, polled, replaced>>

outside == <<gateway, events, charges, declined>>
history == <<payer, polled, replaced>>

-------------------------------------------------------------------------------
(* Documents *)

Plans == {OfferOf[i] : i \in Items} \cup {Free}

\* "cancelled" is the spelling of an abandoned pending mandate, "canceled" the
\* one of a mandate that has ended.
Live == {"active", "past_due", "cancel_at_period_end", "pending_authorization"}
SubStatus == Live \cup {"none", "cancelled", "canceled", "superseded", "expired"}

SubDoc == [status: SubStatus, periodEnd: Nat, graceEnd: Nat]
NoDoc == [status |-> "none", periodEnd |-> 0, graceEnd |-> 0]
NoGrace == 0

BillingStatus == {"trial", "active", "past_due", "canceled", "expired"}
Grants == [plan: Plans, status: BillingStatus, upload: BOOLEAN]
EntDoc == [exists: BOOLEAN, grant: Grants]
UserDoc == [plan: Plans, status: BillingStatus, customer: BOOLEAN]

NewUser == [plan |-> Free, status |-> "trial", customer |-> FALSE]
NoGrant == [plan |-> Free, status |-> "trial", upload |-> TRUE]

Event == [kind: {"paid"}, id: Items, at: Nat]
           \cup [kind: {"failed", "cancelled"}, id: Subs, at: Nat]
ASSUME UnsetAssumption == Unset \notin Event

Mandate == {"none", "INITIALIZED", "ACTIVE", "CANCELLED"}

Snapshot == [id: Subs, doc: SubDoc]

Act == {"none", "paid", "failed", "cancelled", "order", "cancel", "create",
        "abandon", "resume", "close", "poll", "current", "verify", "grace",
        "ending"}
PC == {"idle", "save", "entFind", "entSave", "mirror", "prior", "supersede",
       "stop", "pick", "poll", "provider", "insert", "customer", "userSave"}

Task ==
  [pc: PC, act: Act, id: Items \cup {Unset}, new: Subs \cup {Unset},
   ev: Event \cup {Unset}, doc: SubDoc, grant: Grants, usr: UserDoc,
   found: BOOLEAN, todo: SUBSET Snapshot]

\* A handler about to take the step pc: what it is for, what it has read and
\* what it is going to write.
Handler(pc, act, id, ev, doc, grant) ==
  [pc |-> pc, act |-> act, id |-> id, new |-> Unset, ev |-> ev, doc |-> doc,
   grant |-> grant, usr |-> NewUser, found |-> FALSE, todo |-> {}]

Idle == Handler("idle", "none", Unset, Unset, NoDoc, NoGrant)

Init ==
  /\ sub = [s \in Subs |-> NoDoc]
  /\ ent = [exists |-> FALSE, grant |-> NoGrant]
  /\ user = NewUser
  /\ gateway = [i \in Items |-> "none"]
  /\ events = {}
  /\ task = [t \in Procs |-> Idle]
  /\ now = 0 /\ charges = 0 /\ overlaps = 0 /\ faults = 0
  /\ declined = {} /\ payer = Unset /\ polled = FALSE
  /\ replaced = {}

-------------------------------------------------------------------------------
(* The documents the handlers compute *)

\* Faulty: a payment leaves an abandoned subscription abandoned.
ActivatedUnlessAbandoned(doc, at) ==
  [status |-> IF doc.status = "cancelled" THEN doc.status ELSE "active",
   periodEnd |-> at + Period, graceEnd |-> NoGrace]

\* billing_service: a successful payment opens a new period and ends any grace.
Activated(doc, at) ==
  [status |-> "active", periodEnd |-> at + Period, graceEnd |-> NoGrace]

\* Faulty: a grace period that has lapsed counts as none.
InGraceUnlapsed(doc) ==
  doc.graceEnd # NoGrace /\ doc.status = "past_due" /\ doc.graceEnd > now

\* A declined payment opens a grace period unless one is running.
InGrace(doc) == doc.graceEnd # NoGrace /\ doc.status = "past_due"
PastDue(doc, at) ==
  [status |-> "past_due", periodEnd |-> doc.periodEnd, graceEnd |-> at + Grace]

Pending(at) ==
  [status |-> "pending_authorization", periodEnd |-> at + Period,
   graceEnd |-> NoGrace]

Grant(plan, status, upload) ==
  [plan |-> plan, status |-> status, upload |-> upload]

\* Faulty: the query forgets the end of the grace period.
GraceOverAtOnce(doc) == doc.status = "past_due"

GraceOver(doc) == doc.status = "past_due" /\ doc.graceEnd <= now
PeriodOver(doc) == doc.status = "cancel_at_period_end" /\ doc.periodEnd <= now

Snapshots(S) == {[id |-> s, doc |-> sub[s]] : s \in S}
WithStatus(st) == {s \in Subs : sub[s].status \in st}

-------------------------------------------------------------------------------
(* Scheduling *)

Busy(t) == task[t].pc # "idle"
Quiet == \A t \in Procs : ~Busy(t)

Enter(t, k) ==
  /\ ~Busy(t)
  /\ task' = [task EXCEPT ![t] = k]
  /\ IF Quiet THEN UNCHANGED overlaps
     ELSE overlaps < MaxOverlaps /\ overlaps' = overlaps + 1

Continue(t, k) == task' = [task EXCEPT ![t] = k]

\* The handler returns; a webhook it handled is answered with success.
Return(t) ==
  /\ task' = [task EXCEPT ![t] = Idle]
  /\ events' = events \ {task[t].ev}

Goto(t, pc) == Continue(t, [task[t] EXCEPT !.pc = pc])

Fault == faults < MaxFaults /\ faults' = faults + 1

-------------------------------------------------------------------------------
(* Webhook handlers, up to the first save *)

Delivering(e) == e \in events /\ \A t \in Procs : task[t].ev # e

\* _handle_payment_success_webhook for a subscription in any state.
StartPaid(t, e) ==
  /\ Delivering(e) /\ e.kind = "paid" /\ e.id \in Subs
  /\ sub[e.id].status # "none"
  /\ Enter(t, Handler("save", "paid", e.id, e, Activated(sub[e.id], e.at),
                      Grant(OfferOf[e.id], "active", TRUE)))
  /\ UNCHANGED <<sub, ent, user, outside, now, faults, history>>

\* _handle_payment_failed_webhook: within a grace period nothing is saved, the
\* entitlement is synchronised all the same.
StartFailed(t, e) ==
  /\ Delivering(e) /\ e.kind = "failed"
  /\ sub[e.id].status # "none"
  /\ LET doc == sub[e.id]
         grant == Grant(OfferOf[e.id], "past_due", TRUE)
     IN  Enter(t, IF InGrace(doc)
                  THEN Handler("entFind", "failed", e.id, e, doc, grant)
                  ELSE Handler("save", "failed", e.id, e, PastDue(doc, e.at),
                               grant))
  /\ UNCHANGED <<sub, ent, user, outside, now, faults, history>>

\* _handle_subscription_cancelled_webhook: no downgrade, whatever the plan of
\* the subscription that ended.
StartCancelled(t, e) ==
  /\ Delivering(e) /\ e.kind = "cancelled"
  /\ sub[e.id].status # "none"
  /\ Enter(t, Handler("save", "cancelled", e.id, e,
                      [sub[e.id] EXCEPT !.status = "canceled"],
                      Grant(OfferOf[e.id], "canceled", TRUE)))
  /\ UNCHANGED <<sub, ent, user, outside, now, faults, history>>

\* A payment of a one-time order: the legacy record, then the entitlement.
StartOrderPaid(t, e) ==
  /\ Delivering(e) /\ e.id \in Orders
  /\ Enter(t, Handler("entFind", "order", e.id, e, NoDoc,
                      Grant(OfferOf[e.id], "active", TRUE)))
  /\ UNCHANGED <<sub, ent, user, outside, now, faults, history>>

\* A webhook of a mandate whose document was never inserted changes nothing.
IgnoreOrphan(e) ==
  /\ Delivering(e) /\ e.id \in Subs /\ sub[e.id].status = "none"
  /\ events' = events \ {e}
  /\ UNCHANGED <<sub, ent, user, gateway, task, now, charges, faults, declined,
                 overlaps, history>>

-------------------------------------------------------------------------------
(* The expiry worker, up to the first save of each listed document *)

\* Faulty: only a cancellation that is due wakes the worker.
StartExpiryEnding ==
  /\ \E s \in Subs : PeriodOver(sub[s])
  /\ Enter(Worker, [Handler("pick", "grace", Unset, Unset, NoDoc, NoGrant)
                     EXCEPT !.todo = Snapshots({s \in Subs : GraceOver(sub[s])})])
  /\ UNCHANGED <<sub, ent, user, outside, now, faults, history>>

\* The first query lists past_due documents whose grace period is over.  A pass
\* that would list nothing changes nothing and is left out.
StartExpiry ==
  /\ \E s \in Subs : GraceOver(sub[s]) \/ PeriodOver(sub[s])
  /\ Enter(Worker, [Handler("pick", "grace", Unset, Unset, NoDoc, NoGrant)
                     EXCEPT !.todo = Snapshots({s \in Subs : GraceOver(sub[s])})])
  /\ UNCHANGED <<sub, ent, user, outside, now, faults, history>>

\* Faulty: the other spelling of the status.
ExpiryOutcomeMisspelt(act) ==
  IF act = "grace" THEN Grant(Free, "expired", FALSE)
                   ELSE Grant(Free, "cancelled", TRUE)

ExpiryOutcome(act) ==
  IF act = "grace" THEN Grant(Free, "expired", FALSE)
                   ELSE Grant(Free, "canceled", TRUE)

PickExpired ==
  LET k == task[Worker] IN
  /\ k.pc = "pick"
  /\ \E x \in k.todo :
       Continue(Worker,
         [k EXCEPT !.pc = "save", !.id = x.id, !.todo = k.todo \ {x},
                   !.doc = [x.doc EXCEPT !.status = ExpiryOutcome(k.act).status],
                   !.grant = ExpiryOutcome(k.act)])
  /\ UNCHANGED <<sub, ent, user, outside, now, faults, overlaps, history>>

\* The second query, once the first list is done: cancellations now due.
ListEnding ==
  LET k == task[Worker] IN
  /\ k.pc = "pick" /\ k.act = "grace" /\ k.todo = {}
  /\ Continue(Worker, [k EXCEPT !.act = "ending",
                         !.todo = Snapshots({s \in Subs : PeriodOver(sub[s])})])
  /\ UNCHANGED <<sub, ent, user, outside, now, faults, overlaps, history>>

EndExpiry ==
  /\ task[Worker].pc = "pick" /\ task[Worker].act = "ending"
  /\ task[Worker].todo = {}
  /\ Return(Worker)
  /\ UNCHANGED <<sub, ent, user, gateway, now, charges, faults, declined,
                 overlaps, history>>

-------------------------------------------------------------------------------
(* Requests of the user, up to the first write *)

\* cancel_user_subscription takes any one subscription of these three states.
StartCancel(t) ==
  /\ \E s \in WithStatus({"active", "past_due", "pending_authorization"}) :
       Enter(t, Handler("save", "cancel", s, Unset,
                        [sub[s] EXCEPT !.status = "cancel_at_period_end"],
                        NoGrant))
  /\ UNCHANGED <<sub, ent, user, outside, now, faults, history>>

\* resume_user_pending_subscription
StartResume(t) ==
  /\ \E s \in WithStatus({"pending_authorization"}) :
       Enter(t, Handler("poll", "resume", s, Unset, sub[s], NoGrant))
  /\ UNCHANGED <<sub, ent, user, outside, now, faults, history>>

Unused(n) ==
  /\ sub[n].status = "none" /\ gateway[n] = "none"
  /\ \A t \in Procs : task[t].new # n

\* create_user_subscription: n is the document it may insert; the User document
\* is the one the request was authenticated with.
StartCreate(t, n) ==
  /\ Unused(n)
  /\ LET Creating(k) == [k EXCEPT !.new = n, !.usr = user] IN
     \/ \E s \in WithStatus({"pending_authorization"}) :
          Enter(t, Creating(Handler("poll", "create", s, Unset, sub[s], NoGrant)))
     \/ /\ WithStatus({"pending_authorization"}) = {}
        /\ Enter(t, Creating(Handler("provider", "create", Unset, Unset, NoDoc,
                                     NoGrant)))
  /\ UNCHANGED <<sub, ent, user, outside, now, faults, history>>

\* GET /current initialises a missing entitlement from the User document.
StartCurrent(t) ==
  /\ ~ent.exists
  /\ Enter(t, Handler("entFind", "current", Unset, Unset, NoDoc,
                      Grant(user.plan, user.status, TRUE)))
  /\ UNCHANGED <<sub, ent, user, outside, now, faults, history>>

\* verify_payment of a one-time order writes the User document first.  What the
\* gateway says of the order is fetched and not looked at.
StartVerify(t, o) ==
  /\ Enter(t, Handler("userSave", "verify", o, Unset, NoDoc,
                      Grant(OfferOf[o], "active", TRUE)))
  /\ UNCHANGED <<sub, ent, user, outside, now, faults, history>>

-------------------------------------------------------------------------------
(* The remaining steps of every handler *)

\* Faulty: the worker goes on to the next subscription without the entitlement.
AfterSaveUnsynced(act) ==
  CASE act = "cancel" -> "stop"
    [] act = "abandon" -> "provider"
    [] act \in {"grace", "ending"} -> "pick"
    [] OTHER -> "entFind"

AfterSave(act) ==
  CASE act = "cancel" -> "stop"
    [] act = "abandon" -> "provider"
    [] OTHER -> "entFind"

\* The whole document is written back from the handler's snapshot.
SaveSub(t) ==
  LET k == task[t] IN
  /\ k.pc = "save"
  /\ sub' = [sub EXCEPT ![k.id] = k.doc]
  /\ IF k.act = "close" THEN Return(t)
     ELSE Goto(t, AfterSave(k.act)) /\ UNCHANGED events
  /\ polled' = (polled \/ k.act = "poll")
  /\ UNCHANGED <<ent, user, gateway, now, charges, faults, declined, payer,
                 overlaps, replaced>>

\* sync_user_entitlement looks for the document ...
FindEnt(t) ==
  /\ task[t].pc = "entFind"
  /\ Continue(t, [task[t] EXCEPT !.pc = "entSave", !.found = ent.exists])
  /\ UNCHANGED <<sub, ent, user, outside, now, faults, overlaps, history>>

\* ... and saves what it found, or inserts one ...
SaveEnt(t) ==
  LET k == task[t] IN
  /\ k.pc = "entSave" /\ (ent.exists => k.found)
  /\ ent' = [exists |-> TRUE, grant |-> k.grant]
  /\ payer' = k.id
  /\ Goto(t, "mirror")
  /\ UNCHANGED <<sub, user, outside, now, faults, overlaps, polled, replaced>>

\* ... which the unique index on user_id refuses when there is one by now.  The
\* exception ends the handler and leaves a webhook to be delivered again.
InsertEntRefused(t) ==
  /\ task[t].pc = "entSave" /\ ent.exists /\ ~task[t].found
  /\ Continue(t, Idle)
  /\ UNCHANGED <<sub, ent, user, outside, now, faults, overlaps, history>>

\* Faulty: a payment supersedes nothing.
AfterMirrorAlone(t) ==
  IF task[t].act \in {"grace", "ending"}
  THEN Goto(t, "pick") /\ UNCHANGED events
  ELSE Return(t)

AfterMirror(t) ==
  CASE task[t].act = "paid" -> Goto(t, "prior") /\ UNCHANGED events
    [] task[t].act \in {"grace", "ending"} ->
         Goto(t, "pick") /\ UNCHANGED events
    [] OTHER -> Return(t)

\* Faulty: the status is left out of the dual write.
MirrorUserPlan(t) ==
  /\ task[t].pc = "mirror"
  /\ user' = [user EXCEPT !.plan = task[t].grant.plan]
  /\ AfterMirror(t)
  /\ UNCHANGED <<sub, ent, gateway, now, charges, faults, declined, overlaps,
                 history>>

\* The dual write to the User document, found and saved in one step ...
MirrorUser(t) ==
  /\ task[t].pc = "mirror"
  /\ user' = [user EXCEPT !.plan = task[t].grant.plan,
                          !.status = task[t].grant.status]
  /\ AfterMirror(t)
  /\ UNCHANGED <<sub, ent, gateway, now, charges, faults, declined, overlaps,
                 history>>

\* ... whose failure is logged and forgotten.
MirrorFails(t) ==
  /\ task[t].pc = "mirror" /\ Fault
  /\ AfterMirror(t)
  /\ UNCHANGED <<sub, ent, user, gateway, now, charges, declined, overlaps,
                 history>>

\* The subscriptions the new one supersedes.
ListPrior(t) ==
  LET k == task[t]
      prior == WithStatus(Live) \ {k.id}
  IN
  /\ k.pc = "prior"
  /\ IF prior = {} THEN Return(t)
     ELSE /\ Continue(t, [k EXCEPT !.pc = "supersede",
                            !.todo = Snapshots(prior)])
          /\ UNCHANGED events
  /\ UNCHANGED <<sub, ent, user, gateway, now, charges, faults, declined,
                 overlaps, history>>

Supersede(t) ==
  LET k == task[t] IN
  /\ k.pc = "supersede"
  /\ \E x \in k.todo :
       /\ sub' = [sub EXCEPT ![x.id] = [x.doc EXCEPT !.status = "superseded"]]
       /\ replaced' = replaced \cup {x.id}
       /\ Continue(t, [k EXCEPT !.pc = "stop", !.id = x.id, !.todo = k.todo \ {x}])
  /\ UNCHANGED <<ent, user, outside, now, faults, payer, overlaps, polled>>

AfterStop(t, sent) ==
  IF task[t].todo # {}
  THEN Goto(t, "supersede") /\ events' = events \cup sent
  ELSE /\ Continue(t, Idle)
       /\ events' = (events \ {task[t].ev}) \cup sent

Notice(s) == [kind |-> "cancelled", id |-> s, at |-> now]

\* Faulty: the gateway is not called.
StopMandateUnsent(t) ==
  /\ task[t].pc = "stop"
  /\ AfterStop(t, {})
  /\ UNCHANGED <<sub, ent, user, gateway, now, charges, faults, declined,
                 overlaps, history>>

\* cancel_cashfree_subscription; the gateway reports the end of the mandate.
StopMandate(t) ==
  LET s == task[t].id
      ends == gateway[s] \in {"INITIALIZED", "ACTIVE"}
  IN
  /\ task[t].pc = "stop"
  /\ gateway' = [gateway EXCEPT ![s] = IF ends THEN "CANCELLED" ELSE @]
  /\ AfterStop(t, IF ends THEN {Notice(s)} ELSE {})
  /\ UNCHANGED <<sub, ent, user, now, charges, faults, declined, overlaps,
                 history>>

\* It returns (False, error), which no caller looks at.
StopFails(t) ==
  /\ task[t].pc = "stop" /\ Fault
  /\ AfterStop(t, {})
  /\ UNCHANGED <<sub, ent, user, gateway, now, charges, declined, overlaps,
                 history>>

\* get_cashfree_subscription answers for the pending subscription.
PollActive(t) ==
  LET k == task[t] IN
  /\ k.pc = "poll" /\ gateway[k.id] = "ACTIVE"
  /\ Continue(t, [k EXCEPT !.pc = "save", !.act = "poll",
                    !.doc = [k.doc EXCEPT !.status = "active"],
                    !.grant = Grant(OfferOf[k.id], "active", TRUE)])
  /\ UNCHANGED <<sub, ent, user, outside, now, faults, overlaps, history>>

\* Resume hands the session back, and so does create when the offer is the same.
PollWaiting(t) ==
  LET k == task[t] IN
  /\ k.pc = "poll" /\ gateway[k.id] = "INITIALIZED"
  /\ k.act = "create" => OfferOf[k.id] = OfferOf[k.new]
  /\ Return(t)
  /\ UNCHANGED <<sub, ent, user, gateway, now, charges, faults, declined,
                 overlaps, history>>

\* A pending subscription for another offer, or one whose mandate has ended, is
\* closed; create goes on.
PollClosing(t) ==
  LET k == task[t] IN
  /\ k.pc = "poll"
  /\ \/ gateway[k.id] = "CANCELLED"
     \/ /\ gateway[k.id] = "INITIALIZED" /\ k.act = "create"
        /\ OfferOf[k.id] # OfferOf[k.new]
  /\ Continue(t, [k EXCEPT !.pc = "save",
                    !.act = IF k.act = "create" THEN "abandon" ELSE "close",
                    !.doc = [k.doc EXCEPT !.status = "cancelled"]])
  /\ UNCHANGED <<sub, ent, user, outside, now, faults, overlaps, history>>

\* No answer: resume reports the error, create goes on beside the old mandate.
PollFails(t) ==
  LET k == task[t] IN
  /\ k.pc = "poll" /\ Fault
  /\ IF k.act = "resume" THEN Return(t)
     ELSE Goto(t, "provider") /\ UNCHANGED events
  /\ UNCHANGED <<sub, ent, user, gateway, now, charges, declined, overlaps,
                 history>>

\* create_cashfree_recurring_subscription
CreateMandate(t) ==
  /\ task[t].pc = "provider"
  /\ gateway' = [gateway EXCEPT ![task[t].new] = "INITIALIZED"]
  /\ Goto(t, "insert")
  /\ UNCHANGED <<sub, ent, user, events, now, charges, faults, declined,
                 overlaps, history>>

InsertSub(t) ==
  LET k == task[t] IN
  /\ k.pc = "insert"
  /\ sub' = [sub EXCEPT ![k.new] = Pending(now)]
  /\ IF k.usr.customer THEN Return(t)
     ELSE Goto(t, "customer") /\ UNCHANGED events
  /\ UNCHANGED <<ent, user, gateway, now, charges, faults, declined, overlaps,
                 history>>

\* user.save() of the document read when the request began.
SaveCustomer(t) ==
  /\ task[t].pc = "customer"
  /\ user' = [task[t].usr EXCEPT !.customer = TRUE]
  /\ Return(t)
  /\ UNCHANGED <<sub, ent, gateway, now, charges, faults, declined, overlaps,
                 history>>

SaveVerifiedUser(t) ==
  /\ task[t].pc = "userSave"
  /\ user' = [plan |-> task[t].grant.plan, status |-> "active",
              customer |-> TRUE]
  /\ Goto(t, "entFind")
  /\ UNCHANGED <<sub, ent, outside, now, faults, overlaps, history>>

\* A handler raises, or its process dies, at any await.  A webhook is marked
\* failed and delivered again, or is left in "processing" and never is.
Abort(t) ==
  /\ Busy(t) /\ Fault
  /\ Continue(t, Idle)
  /\ events' \in {events, events \ {task[t].ev}}
  /\ UNCHANGED <<sub, ent, user, gateway, now, charges, declined, overlaps,
                 history>>

-------------------------------------------------------------------------------
(* The gateway and the clock *)

Send(kind, i) == events' = events \cup {[kind |-> kind, id |-> i, at |-> now]}

Authorise(s) ==
  /\ gateway[s] = "INITIALIZED"
  /\ gateway' = [gateway EXCEPT ![s] = "ACTIVE"]
  /\ Send("paid", s)
  /\ UNCHANGED <<sub, ent, user, task, now, charges, faults, declined,
                 overlaps, history>>

\* A first charge may be declined before the mandate is active.
Charge(s) ==
  /\ charges < MaxCharges /\ charges' = charges + 1
  /\ \/ gateway[s] = "ACTIVE" /\ Send("paid", s) /\ UNCHANGED declined
     \/ /\ gateway[s] \in {"INITIALIZED", "ACTIVE"}
        /\ Send("failed", s)
        /\ declined' = declined \cup {[id |-> s, at |-> now]}
  /\ UNCHANGED <<sub, ent, user, gateway, task, now, faults, overlaps,
                 history>>

\* The customer or the bank ends the mandate.
Revoke(s) ==
  /\ gateway[s] = "ACTIVE"
  /\ gateway' = [gateway EXCEPT ![s] = "CANCELLED"]
  /\ Send("cancelled", s)
  /\ UNCHANGED <<sub, ent, user, task, now, charges, faults, declined,
                 overlaps, history>>

PayOrder(o) ==
  /\ gateway[o] = "none"
  /\ gateway' = [gateway EXCEPT ![o] = "ACTIVE"]
  /\ Send("paid", o)
  /\ UNCHANGED <<sub, ent, user, task, now, charges, faults, declined,
                 overlaps, history>>

\* A tick is days and a handler takes milliseconds: no handler spans one.
Tick ==
  /\ Quiet /\ now < MaxTime
  /\ now' = now + 1
  /\ UNCHANGED <<sub, ent, user, gateway, events, task, charges, faults,
                 declined, overlaps, history>>

-------------------------------------------------------------------------------
Start(t) ==
  \/ \E e \in events : \/ StartPaid(t, e) \/ StartFailed(t, e)
                       \/ StartCancelled(t, e) \/ StartOrderPaid(t, e)
  \/ \E n \in Subs : StartCreate(t, n)
  \/ \E o \in Orders : StartVerify(t, o)
  \/ StartCancel(t) \/ StartResume(t) \/ StartCurrent(t)

Step(t) ==
  \/ SaveSub(t)
  \/ FindEnt(t) \/ SaveEnt(t) \/ InsertEntRefused(t)
  \/ MirrorUser(t) \/ MirrorFails(t)
  \/ ListPrior(t) \/ Supersede(t) \/ StopMandate(t) \/ StopFails(t)
  \/ PollActive(t) \/ PollWaiting(t) \/ PollClosing(t) \/ PollFails(t)
  \/ CreateMandate(t) \/ InsertSub(t) \/ SaveCustomer(t) \/ SaveVerifiedUser(t)

WorkerStep == PickExpired \/ ListEnding \/ EndExpiry \/ Step(Worker)

Environment ==
  \/ \E s \in Subs : Authorise(s) \/ Charge(s) \/ Revoke(s)
  \/ \E o \in Orders : PayOrder(o)
  \/ \E e \in events : IgnoreOrphan(e)

Next ==
  \/ \E t \in Tasks : Start(t) \/ Step(t)
  \/ StartExpiry \/ WorkerStep
  \/ \E t \in Procs : Abort(t)
  \/ Environment
  \/ Tick

Spec == Init /\ [][Next]_vars

\* The event loop runs every handler on, and the worker loop starts another
\* pass for ever; nothing is promised of the user, the gateway or the clock.
\* Strong fairness of the start undoes what MaxOverlaps does to it: once the
\* bound is reached a running request disables the worker, in the code none does.
Fairness ==
  /\ \A t \in Tasks : WF_vars(Step(t))
  /\ WF_vars(WorkerStep)
  /\ SF_vars(StartExpiry)

FairSpec == Spec /\ Fairness

-------------------------------------------------------------------------------
(* Properties *)

\* Every document, handler and message is of its type.
TypeOK ==
  /\ sub \in [Subs -> SubDoc]
  /\ ent \in EntDoc
  /\ user \in UserDoc
  /\ gateway \in [Items -> Mandate]
  /\ events \in SUBSET Event
  /\ task \in [Procs -> Task]
  /\ now \in 0..MaxTime
  /\ charges \in 0..MaxCharges
  /\ faults \in 0..MaxFaults
  /\ declined \in SUBSET [id: Subs, at: Nat]
  /\ payer \in Items \cup {Unset}
  /\ overlaps \in 0..MaxOverlaps /\ polled \in BOOLEAN
  /\ replaced \in SUBSET Subs

Orderly == Quiet /\ overlaps = 0 /\ faults = 0

\* When handlers have not overlapped or failed, the entitlement says what the
\* subscription that wrote it last has come to: no paid plan outlives its
\* subscription, no block outlives the lapse that caused it.
EntitlementFollowsPayer ==
  Orderly /\ payer \in Subs =>
    LET st == sub[payer].status
        g == ent.grant
    IN
    /\ g.status = "active" => st \in {"active", "cancel_at_period_end"}
    /\ g.status = "past_due" => st \in {"past_due", "cancel_at_period_end"}
    /\ g.status \in {"active", "past_due"} => g.plan = OfferOf[payer]
    /\ g.status = "canceled" => st = "canceled"
    /\ g.status = "expired" => st = "expired" /\ g.plan = Free /\ ~g.upload

\* When handlers have not overlapped or failed, the dual write of
\* sync_user_entitlement leaves the User document, which the quota checks read,
\* in agreement with the entitlement.
UserMirrorsEntitlement ==
  Orderly /\ ent.exists =>
    user.plan = ent.grant.plan /\ user.status = ent.grant.status

\* However handlers interleave and fail, uploads are blocked only after some
\* charge of the subscription was declined a whole grace period ago.
NoEarlyBlock ==
  ~ent.grant.upload =>
    \E f \in declined : f.id = payer /\ f.at + Grace <= now

\* However handlers interleave, a subscription the application has ended or has
\* replaced has no mandate left to charge, once the handler is through.
NoChargeableMandateLeft ==
  Quiet /\ faults = 0 =>
    \A s \in WithStatus({"superseded", "canceled", "cancel_at_period_end"}) :
      gateway[s] = "CANCELLED"

\* When handlers have not overlapped or failed and every webhook has been heard,
\* a mandate the gateway may charge belongs to a subscription the application
\* still shows as running, or has blocked for want of payment.
ChargedMandateIsKnown ==
  Orderly /\ events = {} =>
    \A s \in Subs : gateway[s] = "ACTIVE" => sub[s].status \in Live \cup {"expired"}

\* Two subscriptions are active at once only if one went active on a poll, which
\* supersedes nothing, or handlers overlapped or failed.
OneActiveSubscription ==
  Orderly /\ ~polled =>
    Cardinality(WithStatus({"active"})) <= 1

\* Handlers that do not overlap never move the end of a running grace period: a
\* repeated decline buys no time.
GraceIsNotExtended ==
  [][\A s \in Subs :
       sub[s].status = "past_due" /\ sub'[s].status = "past_due"
         /\ overlaps' = 0
       => sub'[s].graceEnd = sub[s].graceEnd]_vars

\* The worker sees to every lapsed grace period and every cancellation that has
\* come due, whatever else interleaves.
LapsedIsSettled ==
  \A s \in Subs : GraceOver(sub[s]) \/ PeriodOver(sub[s])
                    ~> ~(GraceOver(sub[s]) \/ PeriodOver(sub[s]))

\* What the code and its tests say and handlers that neither overlap nor fail
\* already break.  An upgrade has no downtime: while the new subscription is
\* active, the one it superseded does not put an end to the entitlement.
UpgradeHasNoDowntime ==
  Orderly /\ payer \in replaced /\ sub[payer].status = "canceled" =>
    ~ \E s \in WithStatus({"active"}) : now < sub[s].periodEnd

\* cancel_user_subscription promises a cancellation effective at the end of the
\* billing period: the subscription the entitlement comes from lasts until then.
CancelsAtPeriodEnd ==
  [][\A s \in Subs :
       payer = s /\ sub[s].status = "cancel_at_period_end"
         /\ sub'[s].status = "canceled"
       => sub[s].periodEnd <= now]_vars
===============================================================================
