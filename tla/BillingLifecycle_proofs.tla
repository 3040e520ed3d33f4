----------------------- MODULE BillingLifecycle_proofs -----------------------
(***************************************************************************)
(* Proofs about BillingLifecycle, for every number of subscriptions,       *)
(* orders and requests in flight and for every bound: its types, and what  *)
(* holds however its handlers overlap.  No upload is blocked before its    *)
(* time, however handlers fail or die, and no mandate survives its         *)
(* subscription as long as none fails.                                     *)
(***************************************************************************)
EXTENDS BillingLifecycle, TLAPS

-------------------------------------------------------------------------------
(* Types *)

\* Handlers that save, stop or poll a mandate name a subscription.
TaskOK ==
  \A t \in Procs : task[t].pc \in {"save", "stop", "poll"} => task[t].id \in Subs

TypeInv == TypeOK /\ TaskOK

\* What a handler holds before it begins is of its type.
LEMMA IdleType == Idle \in Task /\ Idle.pc = "idle"
  BY DEF Idle, Handler, Task, PC, Act, NoDoc, SubDoc, SubStatus, Live, NoGrant,
         Grants, Plans, BillingStatus, NewUser, UserDoc, Snapshot

LEMMA NothingType == NoDoc \in SubDoc /\ NoGrant \in Grants /\ NewUser \in UserDoc
  BY DEF NoDoc, SubDoc, SubStatus, NoGrant, Grants, NewUser, UserDoc, Plans,
         BillingStatus

\* The documents of a well-typed state are of their types.
LEMMA DocTypes ==
  ASSUME TypeInv
  PROVE  /\ \A s \in Subs : sub[s] \in SubDoc
         /\ \A t \in Procs : task[t] \in Task
         /\ ent.grant \in Grants /\ ent.exists \in BOOLEAN
         /\ user \in UserDoc
         /\ now \in Nat
  BY LifecycleAssumption DEF TypeInv, TypeOK, EntDoc, Procs, Items

\* What the handlers compute is of its type.
LEMMA ComputedTypes ==
  ASSUME TypeInv
  PROVE  /\ \A d \in SubDoc, at \in Nat :
              Activated(d, at) \in SubDoc /\ PastDue(d, at) \in SubDoc
         /\ \A at \in Nat : Pending(at) \in SubDoc
         /\ \A p \in Plans, st \in BillingStatus, u \in BOOLEAN :
              Grant(p, st, u) \in Grants
         /\ \A i \in Items : OfferOf[i] \in Plans
         /\ \A S \in SUBSET Subs : Snapshots(S) \in SUBSET Snapshot
<1>1. \A d \in SubDoc, at \in Nat :
        Activated(d, at) \in SubDoc /\ PastDue(d, at) \in SubDoc
  BY LifecycleAssumption
     DEF Activated, PastDue, SubDoc, SubStatus, Live, NoGrace
<1>2. \A at \in Nat : Pending(at) \in SubDoc
  BY LifecycleAssumption DEF Pending, SubDoc, SubStatus, Live, NoGrace
<1>3. \A p \in Plans, st \in BillingStatus, u \in BOOLEAN :
        Grant(p, st, u) \in Grants
  BY DEF Grant, Grants
<1>4. \A i \in Items : OfferOf[i] \in Plans
  BY DEF Plans
<1>5. \A S \in SUBSET Subs : Snapshots(S) \in SUBSET Snapshot
  BY DocTypes DEF Snapshots, Snapshot
<1> QED
  BY <1>1, <1>2, <1>3, <1>4, <1>5

\* A handler's record stays of its type when a field of it is replaced ...
LEMMA FieldTypes ==
  ASSUME NEW k \in Task
  PROVE  /\ \A v \in PC : [k EXCEPT !.pc = v] \in Task
         /\ \A v \in Act : [k EXCEPT !.act = v] \in Task
         /\ \A v \in Items \cup {Unset} : [k EXCEPT !.id = v] \in Task
         /\ \A v \in Subs \cup {Unset} : [k EXCEPT !.new = v] \in Task
         /\ \A v \in SubDoc : [k EXCEPT !.doc = v] \in Task
         /\ \A v \in Grants : [k EXCEPT !.grant = v] \in Task
         /\ \A v \in UserDoc : [k EXCEPT !.usr = v] \in Task
         /\ \A v \in BOOLEAN : [k EXCEPT !.found = v] \in Task
         /\ \A v \in SUBSET Snapshot : [k EXCEPT !.todo = v] \in Task
  BY DEF Task

\* ... or several: one form for each combination the handlers use.
LEMMA TwoFieldTypes ==
  ASSUME NEW k \in Task
  PROVE  /\ \A n \in Subs \cup {Unset}, u \in UserDoc :
              [k EXCEPT !.new = n, !.usr = u] \in Task
         /\ \A v \in PC, b \in BOOLEAN :
              [k EXCEPT !.pc = v, !.found = b] \in Task
         /\ \A v \in PC, S \in SUBSET Snapshot :
              [k EXCEPT !.pc = v, !.todo = S] \in Task
         /\ \A v \in Act, S \in SUBSET Snapshot :
              [k EXCEPT !.act = v, !.todo = S] \in Task
<1>1. ASSUME NEW n \in Subs \cup {Unset}, NEW u \in UserDoc
      PROVE  [k EXCEPT !.new = n, !.usr = u] \in Task
  <2> DEFINE k1 == [k EXCEPT !.new = n]
  <2>1. k1 \in Task
    BY FieldTypes
  <2> HIDE DEF k1
  <2>2. [k1 EXCEPT !.usr = u] \in Task
    BY <2>1, FieldTypes
  <2> QED
    BY <2>2 DEF k1
<1>2. ASSUME NEW v \in PC
      PROVE  /\ \A b \in BOOLEAN : [k EXCEPT !.pc = v, !.found = b] \in Task
             /\ \A S \in SUBSET Snapshot :
                  [k EXCEPT !.pc = v, !.todo = S] \in Task
  <2> DEFINE k1 == [k EXCEPT !.pc = v]
  <2>1. k1 \in Task
    BY FieldTypes
  <2> HIDE DEF k1
  <2>2. /\ \A b \in BOOLEAN : [k1 EXCEPT !.found = b] \in Task
        /\ \A S \in SUBSET Snapshot : [k1 EXCEPT !.todo = S] \in Task
    BY <2>1, FieldTypes
  <2> QED
    BY <2>2 DEF k1
<1>3. ASSUME NEW v \in Act, NEW S \in SUBSET Snapshot
      PROVE  [k EXCEPT !.act = v, !.todo = S] \in Task
  <2> DEFINE k1 == [k EXCEPT !.act = v]
  <2>1. k1 \in Task
    BY FieldTypes
  <2> HIDE DEF k1
  <2>2. [k1 EXCEPT !.todo = S] \in Task
    BY <2>1, FieldTypes
  <2> QED
    BY <2>2 DEF k1
<1> QED
  BY <1>1, <1>2, <1>3

LEMMA SupersedeTask ==
  ASSUME NEW k \in Task, NEW v \in PC, NEW i \in Subs, NEW S \in SUBSET Snapshot
  PROVE  [k EXCEPT !.pc = v, !.id = i, !.todo = S] \in Task
<1> DEFINE k1 == [k EXCEPT !.pc = v]
           k2 == [k1 EXCEPT !.id = i]
<1>1. k1 \in Task
  BY FieldTypes
<1> HIDE DEF k1
<1>2. k2 \in Task
  BY <1>1, FieldTypes DEF Items
<1> HIDE DEF k2
<1>3. [k2 EXCEPT !.todo = S] \in Task
  BY <1>2, FieldTypes
<1> QED
  BY <1>3 DEF k1, k2

LEMMA PollTask ==
  ASSUME NEW k \in Task, NEW v \in PC, NEW a \in Act, NEW d \in SubDoc
  PROVE  /\ [k EXCEPT !.pc = v, !.act = a, !.doc = d] \in Task
         /\ \A g \in Grants :
              [k EXCEPT !.pc = v, !.act = a, !.doc = d, !.grant = g] \in Task
<1> DEFINE k1 == [k EXCEPT !.pc = v]
           k2 == [k1 EXCEPT !.act = a]
           k3 == [k2 EXCEPT !.doc = d]
<1>1. k1 \in Task
  BY FieldTypes
<1> HIDE DEF k1
<1>2. k2 \in Task
  BY <1>1, FieldTypes
<1> HIDE DEF k2
<1>3. k3 \in Task
  BY <1>2, FieldTypes
<1> HIDE DEF k3
<1>4. \A g \in Grants : [k3 EXCEPT !.grant = g] \in Task
  BY <1>3, FieldTypes
<1> QED
  BY <1>3, <1>4 DEF k1, k2, k3

LEMMA PickTask ==
  ASSUME NEW k \in Task, NEW v \in PC, NEW i \in Subs,
         NEW S \in SUBSET Snapshot, NEW d \in SubDoc, NEW g \in Grants
  PROVE  [k EXCEPT !.pc = v, !.id = i, !.todo = S, !.doc = d, !.grant = g]
           \in Task
<1> DEFINE k3 == [k EXCEPT !.pc = v, !.id = i, !.todo = S]
           k4 == [k3 EXCEPT !.doc = d]
<1>1. k3 \in Task
  BY SupersedeTask
<1> HIDE DEF k3
<1>2. k4 \in Task
  BY <1>1, FieldTypes
<1> HIDE DEF k4
<1>3. [k4 EXCEPT !.grant = g] \in Task
  BY <1>2, FieldTypes
<1> QED
  BY <1>3 DEF k3, k4

\* The record a handler begins with.
LEMMA HandlerType ==
  ASSUME NEW pc \in PC, NEW act \in Act, NEW id \in Items \cup {Unset},
         NEW ev \in Event \cup {Unset}, NEW doc \in SubDoc, NEW g \in Grants
  PROVE  /\ Handler(pc, act, id, ev, doc, g) \in Task
         /\ Handler(pc, act, id, ev, doc, g).pc = pc
         /\ Handler(pc, act, id, ev, doc, g).id = id
<1>1. NewUser \in UserDoc
  BY DEF NewUser, UserDoc, Plans, BillingStatus
<1> QED
  BY <1>1 DEF Handler, Task

\* A handler that begins, goes on or returns leaves well-typed handlers behind.
LEMMA EnterType ==
  ASSUME TypeInv, NEW t \in Procs, NEW k \in Task, Enter(t, k),
         k.pc \in {"save", "stop", "poll"} => k.id \in Subs
  PROVE  task' \in [Procs -> Task] /\ overlaps' \in 0..MaxOverlaps /\ TaskOK'
  BY LifecycleAssumption DEF TypeInv, TypeOK, TaskOK, Enter

LEMMA ContinueType ==
  ASSUME TypeInv, NEW t \in Procs, NEW k \in Task, Continue(t, k),
         k.pc \in {"save", "stop", "poll"} => k.id \in Subs
  PROVE  task' \in [Procs -> Task] /\ TaskOK'
  BY DEF TypeInv, TypeOK, TaskOK, Continue

LEMMA GotoType ==
  ASSUME TypeInv, NEW t \in Procs, NEW pc \in PC, Goto(t, pc),
         pc \in {"save", "stop", "poll"} => task[t].id \in Subs
  PROVE  task' \in [Procs -> Task] /\ TaskOK'
<1> DEFINE k == [task[t] EXCEPT !.pc = pc]
<1>1. k \in Task /\ k.pc = pc /\ k.id = task[t].id
  BY DocTypes DEF Task
<1> QED
  BY <1>1, ContinueType DEF Goto

LEMMA ReturnType ==
  ASSUME TypeInv, NEW t \in Procs, Return(t)
  PROVE  task' \in [Procs -> Task] /\ TaskOK' /\ events' \in SUBSET Event
<1>1. task' \in [Procs -> Task] /\ TaskOK'
  BY IdleType, ContinueType DEF Return, Continue
<1>2. events' \in SUBSET Event
  BY DEF Return, TypeInv, TypeOK
<1> QED
  BY <1>1, <1>2

\* The first step of every webhook handler keeps the types.
LEMMA StartWebhookType ==
  ASSUME TypeInv, NEW t \in Procs, NEW e \in events,
         StartPaid(t, e) \/ StartFailed(t, e) \/ StartCancelled(t, e)
           \/ StartOrderPaid(t, e)
  PROVE  TypeInv'
<1> USE DEF outside, history
<1>0. e \in Event /\ e.at \in Nat /\ e.id \in Items
  BY DEF TypeInv, TypeOK, Event, Items
<1>p. {"idle", "save", "entFind"} \subseteq PC
      /\ {"paid", "failed", "cancelled", "order"} \subseteq Act
  BY DEF PC, Act
<1>b. {"active", "past_due", "canceled"} \subseteq BillingStatus
  BY DEF BillingStatus
<1>n. NoDoc \in SubDoc
  BY NothingType
<1>1. CASE StartPaid(t, e)
  <2> DEFINE d == Activated(sub[e.id], e.at)
             g == Grant(OfferOf[e.id], "active", TRUE)
             k == Handler("save", "paid", e.id, e, d, g)
  <2>1. e.id \in Subs /\ d \in SubDoc /\ g \in Grants
    BY <1>0, <1>1, <1>b, DocTypes, ComputedTypes DEF StartPaid
  <2>2. Enter(t, k)
    BY <1>1 DEF StartPaid
  <2> HIDE DEF d, g
  <2>3. k \in Task /\ k.id \in Subs
    BY <1>0, <1>p, <2>1, HandlerType
  <2> HIDE DEF k
  <2> QED
    BY <1>1, <2>2, <2>3, EnterType DEF StartPaid, TypeInv, TypeOK
<1>2. CASE StartFailed(t, e)
  <2> DEFINE d == PastDue(sub[e.id], e.at)
             c == sub[e.id]
             g == Grant(OfferOf[e.id], "past_due", TRUE)
             k1 == Handler("entFind", "failed", e.id, e, c, g)
             k2 == Handler("save", "failed", e.id, e, d, g)
             k == IF InGrace(c) THEN k1 ELSE k2
  <2>1. e.id \in Subs
    BY <1>0, <1>2 DEF StartFailed, Event
  <2>2. d \in SubDoc /\ c \in SubDoc /\ g \in Grants
    BY <1>0, <1>b, <2>1, DocTypes, ComputedTypes
  <2>3. Enter(t, k)
    BY <1>2 DEF StartFailed
  <2> HIDE DEF d, c, g
  <2>4. k1 \in Task /\ k1.id \in Subs
    BY <1>0, <1>p, <2>1, <2>2, HandlerType
  <2>5. k2 \in Task /\ k2.id \in Subs
    BY <1>0, <1>p, <2>1, <2>2, HandlerType
  <2> HIDE DEF k1, k2
  <2>6. k \in Task /\ k.id \in Subs
    BY <2>4, <2>5
  <2> HIDE DEF k
  <2> QED
    BY <1>2, <2>3, <2>6, EnterType DEF StartFailed, TypeInv, TypeOK
<1>3. CASE StartCancelled(t, e)
  <2> DEFINE d == [sub[e.id] EXCEPT !.status = "canceled"]
             g == Grant(OfferOf[e.id], "canceled", TRUE)
             k == Handler("save", "cancelled", e.id, e, d, g)
  <2>1. e.id \in Subs
    BY <1>0, <1>3 DEF StartCancelled, Event
  <2>2. d \in SubDoc
    BY <2>1, DocTypes DEF SubDoc, SubStatus
  <2>3. g \in Grants
    BY <1>0, <1>b, ComputedTypes
  <2>4. Enter(t, k)
    BY <1>3 DEF StartCancelled
  <2> HIDE DEF d, g
  <2>5. k \in Task /\ k.id \in Subs
    BY <1>0, <1>p, <2>1, <2>2, <2>3, HandlerType
  <2> HIDE DEF k
  <2> QED
    BY <1>3, <2>4, <2>5, EnterType DEF StartCancelled, TypeInv, TypeOK
<1>4. CASE StartOrderPaid(t, e)
  <2> DEFINE g == Grant(OfferOf[e.id], "active", TRUE)
             k == Handler("entFind", "order", e.id, e, NoDoc, g)
  <2>1. g \in Grants
    BY <1>0, <1>b, ComputedTypes
  <2>2. Enter(t, k)
    BY <1>4 DEF StartOrderPaid
  <2> HIDE DEF g
  <2>3. k \in Task /\ k.pc = "entFind"
    BY <1>0, <1>p, <1>n, <2>1, HandlerType
  <2> HIDE DEF k
  <2> QED
    BY <1>4, <2>2, <2>3, EnterType DEF StartOrderPaid, TypeInv, TypeOK
<1> QED
  BY <1>1, <1>2, <1>3, <1>4

\* So does the first step of every request of the user.
LEMMA StartRequestType ==
  ASSUME TypeInv, NEW t \in Procs,
         \/ StartCancel(t) \/ StartResume(t) \/ StartCurrent(t)
         \/ \E n \in Subs : StartCreate(t, n)
         \/ \E o \in Orders : StartVerify(t, o)
  PROVE  TypeInv'
<1> USE DEF outside, history
<1>p. {"save", "poll", "provider", "entFind", "userSave"} \subseteq PC
      /\ {"cancel", "resume", "create", "current", "verify"} \subseteq Act
  BY DEF PC, Act
<1>n. NoDoc \in SubDoc /\ NoGrant \in Grants
  BY NothingType
<1>1. CASE StartCancel(t)
  <2>1. PICK s \in Subs :
          Enter(t, Handler("save", "cancel", s, Unset,
                           [sub[s] EXCEPT !.status = "cancel_at_period_end"],
                           NoGrant))
    BY <1>1 DEF StartCancel, WithStatus
  <2> DEFINE d == [sub[s] EXCEPT !.status = "cancel_at_period_end"]
             k == Handler("save", "cancel", s, Unset, d, NoGrant)
  <2>2. d \in SubDoc
    BY DocTypes DEF SubDoc, SubStatus, Live
  <2>3. Enter(t, k)
    BY <2>1
  <2> HIDE DEF d
  <2>4. k \in Task /\ k.id \in Subs
    BY <1>p, <1>n, <2>2, HandlerType DEF Items
  <2> HIDE DEF k
  <2> QED
    BY <1>1, <2>3, <2>4, EnterType DEF StartCancel, TypeInv, TypeOK
<1>2. CASE StartResume(t)
  <2>1. PICK s \in Subs :
          Enter(t, Handler("poll", "resume", s, Unset, sub[s], NoGrant))
    BY <1>2 DEF StartResume, WithStatus
  <2> DEFINE k == Handler("poll", "resume", s, Unset, sub[s], NoGrant)
  <2>2. k \in Task /\ k.id \in Subs
    BY <1>p, <1>n, DocTypes, HandlerType DEF Items
  <2> HIDE DEF k
  <2> QED
    BY <1>2, <2>1, <2>2, EnterType DEF StartResume, TypeInv, TypeOK, k
<1>3. CASE StartCurrent(t)
  <2> DEFINE g == Grant(user.plan, user.status, TRUE)
             k == Handler("entFind", "current", Unset, Unset, NoDoc, g)
  <2>1. g \in Grants
    BY DocTypes, ComputedTypes DEF UserDoc
  <2>2. Enter(t, k)
    BY <1>3 DEF StartCurrent
  <2> HIDE DEF g
  <2>3. k \in Task /\ k.pc = "entFind"
    BY <1>p, <1>n, <2>1, HandlerType
  <2> HIDE DEF k
  <2> QED
    BY <1>3, <2>2, <2>3, EnterType DEF StartCurrent, TypeInv, TypeOK
<1>4. ASSUME NEW n \in Subs, StartCreate(t, n)
      PROVE  TypeInv'
  <2> DEFINE Creating(k) == [k EXCEPT !.new = n, !.usr = user]
  <2>1. PICK k \in Task : /\ k.pc = "poll" => k.id \in Subs
                          /\ k.pc \in {"poll", "provider"}
                          /\ Enter(t, Creating(k))
    <3>1. CASE \E s \in WithStatus({"pending_authorization"}) :
                 Enter(t, Creating(Handler("poll", "create", s, Unset, sub[s],
                                           NoGrant)))
      <4>1. PICK s \in Subs :
              Enter(t, Creating(Handler("poll", "create", s, Unset, sub[s],
                                        NoGrant)))
        BY <3>1 DEF WithStatus
      <4> DEFINE h == Handler("poll", "create", s, Unset, sub[s], NoGrant)
      <4>2. h \in Task /\ h.id \in Subs /\ h.pc = "poll"
        BY <1>p, <1>n, DocTypes, HandlerType DEF Items
      <4> HIDE DEF h
      <4> QED
        BY <4>1, <4>2 DEF h
    <3>2. CASE Enter(t, Creating(Handler("provider", "create", Unset, Unset,
                                         NoDoc, NoGrant)))
      <4> DEFINE h == Handler("provider", "create", Unset, Unset, NoDoc, NoGrant)
      <4>2. h \in Task /\ h.pc = "provider"
        BY <1>p, <1>n, HandlerType
      <4> HIDE DEF h
      <4> QED
        BY <3>2, <4>2 DEF h
    <3> QED
      BY <1>4, <3>1, <3>2 DEF StartCreate
  <2>2. Creating(k) \in Task
    BY DocTypes, TwoFieldTypes
  <2>3. Creating(k).pc = k.pc /\ Creating(k).id = k.id
    BY DEF Task
  <2> DEFINE c == Creating(k)
  <2>4. c \in Task /\ Enter(t, c) /\ (c.pc \in {"save", "stop", "poll"} => c.id \in Subs)
    BY <2>1, <2>2, <2>3
  <2> HIDE DEF c
  <2> QED
    BY <1>4, <2>4, EnterType DEF StartCreate, TypeInv, TypeOK
<1>5. ASSUME NEW o \in Orders, StartVerify(t, o)
      PROVE  TypeInv'
  <2> DEFINE g == Grant(OfferOf[o], "active", TRUE)
             k == Handler("userSave", "verify", o, Unset, NoDoc, g)
  <2>1. g \in Grants
    BY ComputedTypes DEF Items, BillingStatus
  <2>2. Enter(t, k)
    BY <1>5 DEF StartVerify
  <2> HIDE DEF g
  <2>3. k \in Task /\ k.pc = "userSave"
    BY <1>p, <1>n, <2>1, HandlerType DEF Items
  <2> HIDE DEF k
  <2> QED
    BY <1>5, <2>2, <2>3, EnterType DEF StartVerify, TypeInv, TypeOK
<1> QED
  BY <1>1, <1>2, <1>3, <1>4, <1>5
\* The expiry worker's own steps keep the types.
LEMMA WorkerType ==
  ASSUME TypeInv, StartExpiry \/ PickExpired \/ ListEnding \/ EndExpiry
  PROVE  TypeInv'
<1> USE DEF outside, history
<1>w. Worker \in Procs /\ task[Worker] \in Task
  BY DocTypes DEF Procs
<1>p. {"save", "pick"} \subseteq PC /\ {"grace", "ending"} \subseteq Act
  BY DEF PC, Act
<1>1. CASE StartExpiry
  <2> DEFINE S == Snapshots({s \in Subs : GraceOver(sub[s])})
             h == Handler("pick", "grace", Unset, Unset, NoDoc, NoGrant)
             k == [h EXCEPT !.todo = S]
  <2>1. NoDoc \in SubDoc /\ NoGrant \in Grants
    BY NothingType
  <2>2. h \in Task /\ h.pc = "pick"
    BY <1>p, <2>1, HandlerType
  <2>3. S \in SUBSET Snapshot
    BY ComputedTypes
  <2>4. Enter(Worker, k)
    BY <1>1 DEF StartExpiry
  <2> HIDE DEF S, h
  <2>5. k \in Task /\ k.pc = "pick"
    BY <2>2, <2>3, FieldTypes DEF Task
  <2> HIDE DEF k
  <2> QED
    BY <1>1, <1>w, <2>4, <2>5, EnterType DEF StartExpiry, TypeInv, TypeOK
<1>2. CASE PickExpired
  <2>1. PICK x \in task[Worker].todo :
          Continue(Worker,
            [task[Worker] EXCEPT
               !.pc = "save", !.id = x.id, !.todo = task[Worker].todo \ {x},
               !.doc = [x.doc EXCEPT
                          !.status = ExpiryOutcome(task[Worker].act).status],
               !.grant = ExpiryOutcome(task[Worker].act)])
    BY <1>2 DEF PickExpired
  <2> DEFINE S == task[Worker].todo \ {x}
             g == ExpiryOutcome(task[Worker].act)
             d == [x.doc EXCEPT !.status = g.status]
             k == [task[Worker] EXCEPT !.pc = "save", !.id = x.id, !.todo = S,
                                       !.doc = d, !.grant = g]
  <2>2. x \in Snapshot /\ S \in SUBSET Snapshot
    BY <1>w DEF Task
  <2>3. g \in Grants /\ g.status \in {"expired", "canceled"}
    BY ComputedTypes DEF ExpiryOutcome, Grant, Grants, Plans, BillingStatus
  <2> HIDE DEF S, g
  <2>4. d \in SubDoc
    BY <2>2, <2>3 DEF Snapshot, SubDoc, SubStatus
  <2> HIDE DEF d
  <2>5. k \in Task
    BY <1>w, <1>p, <2>2, <2>3, <2>4, PickTask DEF Snapshot
  <2>6. k.id \in Subs
    BY <1>w, <2>2 DEF Task, Snapshot
  <2>7. Continue(Worker, k)
    BY <2>1 DEF S, g, d
  <2> HIDE DEF k
  <2> QED
    BY <1>2, <1>w, <2>5, <2>6, <2>7, ContinueType
       DEF PickExpired, TypeInv, TypeOK
<1>3. CASE ListEnding
  <2> DEFINE S == Snapshots({s \in Subs : PeriodOver(sub[s])})
             k == [task[Worker] EXCEPT !.act = "ending", !.todo = S]
  <2>1. S \in SUBSET Snapshot
    BY ComputedTypes
  <2>2. Continue(Worker, k) /\ task[Worker].pc = "pick"
    BY <1>3 DEF ListEnding
  <2> HIDE DEF S
  <2>3. k \in Task
    BY <1>w, <1>p, <2>1, TwoFieldTypes
  <2>4. k.pc = "pick"
    BY <1>w, <2>2 DEF Task
  <2> HIDE DEF k
  <2> QED
    BY <1>3, <1>w, <2>2, <2>3, <2>4, ContinueType DEF ListEnding, TypeInv, TypeOK
<1>4. CASE EndExpiry
  BY <1>4, <1>w, ReturnType DEF EndExpiry, TypeInv, TypeOK
<1> QED
  BY <1>1, <1>2, <1>3, <1>4

\* The steps on the entitlement and the User document.
LEMMA SyncType ==
  ASSUME TypeInv, NEW t \in Procs,
         \/ FindEnt(t) \/ SaveEnt(t) \/ InsertEntRefused(t)
         \/ MirrorUser(t) \/ MirrorFails(t) \/ SaveCustomer(t)
         \/ SaveVerifiedUser(t)
  PROVE  TypeInv'
<1> USE DEF outside, history
<1>k. task[t] \in Task
  BY DocTypes
<1>p. {"entFind", "entSave", "mirror", "prior", "pick"} \subseteq PC
  BY DEF PC
<1>m. ASSUME AfterMirror(t)
      PROVE  task' \in [Procs -> Task] /\ TaskOK' /\ events' \in SUBSET Event
  BY <1>m, <1>p, GotoType, ReturnType DEF AfterMirror, TypeInv, TypeOK
<1>1. CASE FindEnt(t)
  <2> DEFINE k == [task[t] EXCEPT !.pc = "entSave", !.found = ent.exists]
  <2>1. k \in Task
    BY <1>k, <1>p, DocTypes, TwoFieldTypes
  <2>2. k.pc = "entSave"
    BY <1>k DEF Task
  <2>3. Continue(t, k)
    BY <1>1 DEF FindEnt
  <2> HIDE DEF k
  <2> QED
    BY <1>1, <2>1, <2>2, <2>3, ContinueType DEF FindEnt, TypeInv, TypeOK
<1>2. CASE SaveEnt(t)
  <2>1. ent' \in EntDoc /\ payer' \in Items \cup {Unset}
    BY <1>2, <1>k DEF SaveEnt, EntDoc, Task
  <2>2. task' \in [Procs -> Task] /\ TaskOK'
    BY <1>2, <1>p, GotoType DEF SaveEnt
  <2> QED
    BY <1>2, <2>1, <2>2 DEF SaveEnt, TypeInv, TypeOK
<1>3. CASE InsertEntRefused(t)
  BY <1>3, IdleType, ContinueType DEF InsertEntRefused, TypeInv, TypeOK
<1>4. CASE MirrorUser(t)
  <2>1. user' \in UserDoc
    <3> DEFINE u == [user EXCEPT !.plan = task[t].grant.plan]
    <3>1. u \in UserDoc /\ task[t].grant.status \in BillingStatus
      BY <1>k, DocTypes DEF Task, Grants, UserDoc
    <3> HIDE DEF u
    <3>2. [u EXCEPT !.status = task[t].grant.status] \in UserDoc
      BY <3>1 DEF UserDoc
    <3> QED
      BY <1>4, <3>2 DEF MirrorUser, u
  <2> QED
    BY <1>4, <1>m, <2>1 DEF MirrorUser, TypeInv, TypeOK
<1>5. CASE MirrorFails(t)
  <2>1. faults' \in 0..MaxFaults
    BY <1>5, LifecycleAssumption DEF MirrorFails, Fault, TypeInv, TypeOK
  <2> QED
    BY <1>5, <1>m, <2>1 DEF MirrorFails, TypeInv, TypeOK
<1>6. CASE SaveCustomer(t)
  <2>1. user' \in UserDoc
    BY <1>6, <1>k DEF SaveCustomer, Task, UserDoc
  <2> QED
    BY <1>6, <2>1, ReturnType DEF SaveCustomer, TypeInv, TypeOK
<1>7. CASE SaveVerifiedUser(t)
  <2>1. user' \in UserDoc
    BY <1>7, <1>k DEF SaveVerifiedUser, Task, UserDoc, Grants, BillingStatus
  <2>2. task' \in [Procs -> Task] /\ TaskOK'
    BY <1>7, <1>p, GotoType DEF SaveVerifiedUser
  <2> QED
    BY <1>7, <2>1, <2>2 DEF SaveVerifiedUser, TypeInv, TypeOK
<1> QED
  BY <1>1, <1>2, <1>3, <1>4, <1>5, <1>6, <1>7
\* The steps on subscriptions and mandates.
LEMMA MandateType ==
  ASSUME TypeInv, NEW t \in Procs,
         \/ SaveSub(t) \/ ListPrior(t) \/ Supersede(t) \/ StopMandate(t)
         \/ StopFails(t) \/ CreateMandate(t) \/ InsertSub(t)
  PROVE  TypeInv'
<1> USE DEF outside, history
<1>k. task[t] \in Task
  BY DocTypes
<1>p. {"stop", "provider", "entFind", "insert", "customer", "supersede"}
        \subseteq PC
  BY DEF PC
<1>1. CASE SaveSub(t)
  <2>1. task[t].id \in Subs /\ task[t].doc \in SubDoc
    BY <1>1, <1>k DEF SaveSub, TypeInv, TaskOK, Task
  <2>2. sub' \in [Subs -> SubDoc] /\ polled' \in BOOLEAN
    BY <1>1, <2>1 DEF SaveSub, TypeInv, TypeOK
  <2>3. task' \in [Procs -> Task] /\ TaskOK' /\ events' \in SUBSET Event
    <3>1. CASE task[t].act = "close"
      BY <1>1, <3>1, ReturnType DEF SaveSub
    <3>2. CASE task[t].act # "close"
      <4> DEFINE pc == AfterSave(task[t].act)
      <4>1. pc \in PC
        BY <1>p DEF AfterSave
      <4>2. Goto(t, pc) /\ UNCHANGED events
        BY <1>1, <3>2 DEF SaveSub
      <4> HIDE DEF pc
      <4> QED
        BY <2>1, <4>1, <4>2, GotoType DEF TypeInv, TypeOK
    <3> QED
      BY <3>1, <3>2
  <2> QED
    BY <1>1, <2>2, <2>3 DEF SaveSub, TypeInv, TypeOK
<1>2. CASE ListPrior(t)
  <2> DEFINE S == Snapshots(WithStatus(Live) \ {task[t].id})
             k == [task[t] EXCEPT !.pc = "supersede", !.todo = S]
  <2>1. S \in SUBSET Snapshot
    BY ComputedTypes DEF WithStatus
  <2> HIDE DEF S
  <2>2. k \in Task
    BY <1>k, <1>p, <2>1, TwoFieldTypes
  <2>3. k.pc = "supersede"
    BY <1>k DEF Task
  <2>4. Return(t) \/ (Continue(t, k) /\ UNCHANGED events)
    BY <1>2 DEF ListPrior, S
  <2> HIDE DEF k
  <2>5. task' \in [Procs -> Task] /\ TaskOK' /\ events' \in SUBSET Event
    BY <2>2, <2>3, <2>4, ReturnType, ContinueType DEF TypeInv, TypeOK
  <2> QED
    BY <1>2, <2>5 DEF ListPrior, TypeInv, TypeOK
<1>3. CASE Supersede(t)
  <2>1. PICK x \in task[t].todo :
          /\ sub' = [sub EXCEPT ![x.id] = [x.doc EXCEPT !.status = "superseded"]]
          /\ replaced' = replaced \cup {x.id}
          /\ Continue(t, [task[t] EXCEPT !.pc = "stop", !.id = x.id,
                                        !.todo = task[t].todo \ {x}])
    BY <1>3 DEF Supersede
  <2> DEFINE d == [x.doc EXCEPT !.status = "superseded"]
             S == task[t].todo \ {x}
             k == [task[t] EXCEPT !.pc = "stop", !.id = x.id, !.todo = S]
  <2>2. x \in Snapshot /\ S \in SUBSET Snapshot
    BY <1>k DEF Task
  <2>3. d \in SubDoc
    BY <2>2 DEF Snapshot, SubDoc, SubStatus
  <2>4. sub' \in [Subs -> SubDoc] /\ replaced' \in SUBSET Subs
    BY <2>1, <2>2, <2>3 DEF Snapshot, TypeInv, TypeOK
  <2> HIDE DEF S
  <2>5. k \in Task
    BY <1>k, <1>p, <2>2, SupersedeTask DEF Snapshot
  <2>6. k.id \in Subs
    BY <1>k, <2>2 DEF Task, Snapshot
  <2>7. Continue(t, k)
    BY <2>1 DEF S
  <2> HIDE DEF k
  <2>8. task' \in [Procs -> Task] /\ TaskOK'
    BY <2>5, <2>6, <2>7, ContinueType
  <2> QED
    BY <1>3, <2>4, <2>8 DEF Supersede, TypeInv, TypeOK
<1>a. ASSUME NEW sent \in SUBSET Event, AfterStop(t, sent)
      PROVE  task' \in [Procs -> Task] /\ TaskOK' /\ events' \in SUBSET Event
  BY <1>a, <1>p, IdleType, GotoType, ContinueType DEF AfterStop, TypeInv, TypeOK
<1>4. CASE StopMandate(t)
  <2>1. task[t].id \in Subs /\ Notice(task[t].id) \in Event
    BY <1>4, DocTypes DEF StopMandate, TypeInv, TaskOK, Notice, Event
  <2>2. PICK sent \in SUBSET Event : AfterStop(t, sent)
    BY <1>4, <2>1 DEF StopMandate
  <2>3. gateway' \in [Items -> Mandate]
    BY <1>4 DEF StopMandate, TypeInv, TypeOK, Mandate
  <2> QED
    BY <1>4, <1>a, <2>2, <2>3 DEF StopMandate, TypeInv, TypeOK
<1>5. CASE StopFails(t)
  <2>1. faults' \in 0..MaxFaults
    BY <1>5, LifecycleAssumption DEF StopFails, Fault, TypeInv, TypeOK
  <2> QED
    BY <1>5, <1>a, <2>1 DEF StopFails, TypeInv, TypeOK
<1>6. CASE CreateMandate(t)
  <2>1. gateway' \in [Items -> Mandate]
    BY <1>6 DEF CreateMandate, TypeInv, TypeOK, Mandate
  <2>2. task' \in [Procs -> Task] /\ TaskOK'
    BY <1>6, <1>p, GotoType DEF CreateMandate
  <2> QED
    BY <1>6, <2>1, <2>2 DEF CreateMandate, TypeInv, TypeOK
<1>7. CASE InsertSub(t)
  <2>1. Pending(now) \in SubDoc
    BY DocTypes, ComputedTypes
  <2>2. sub' \in [Subs -> SubDoc]
    BY <1>7, <2>1 DEF InsertSub, TypeInv, TypeOK
  <2>3. task' \in [Procs -> Task] /\ TaskOK' /\ events' \in SUBSET Event
    BY <1>7, <1>p, GotoType, ReturnType DEF InsertSub, TypeInv, TypeOK
  <2> QED
    BY <1>7, <2>2, <2>3 DEF InsertSub, TypeInv, TypeOK
<1> QED
  BY <1>1, <1>2, <1>3, <1>4, <1>5, <1>6, <1>7

\* The answers of the gateway to a poll.
LEMMA PollType ==
  ASSUME TypeInv, NEW t \in Procs,
         PollActive(t) \/ PollWaiting(t) \/ PollClosing(t) \/ PollFails(t)
  PROVE  TypeInv'
<1> USE DEF outside, history
<1>k. task[t] \in Task /\ task[t].doc \in SubDoc /\ task[t].id \in Subs
  BY DocTypes DEF Task, TypeInv, TaskOK, PollActive, PollWaiting, PollClosing,
                  PollFails
<1>p. {"save", "provider"} \subseteq PC /\ {"poll", "abandon", "close"} \subseteq Act
  BY DEF PC, Act
<1>1. CASE PollActive(t)
  <2> DEFINE d == [task[t].doc EXCEPT !.status = "active"]
             g == Grant(OfferOf[task[t].id], "active", TRUE)
             k == [task[t] EXCEPT !.pc = "save", !.act = "poll", !.doc = d,
                                  !.grant = g]
  <2>1. d \in SubDoc
    BY <1>k DEF SubDoc, SubStatus, Live
  <2>2. g \in Grants
    BY <1>k, ComputedTypes DEF Items, BillingStatus
  <2>3. Continue(t, k)
    BY <1>1 DEF PollActive
  <2> HIDE DEF d, g
  <2>4. k \in Task
    BY <1>k, <1>p, <2>1, <2>2, PollTask
  <2>5. k.id \in Subs
    BY <1>k DEF Task
  <2> HIDE DEF k
  <2> QED
    BY <1>1, <2>3, <2>4, <2>5, ContinueType DEF PollActive, TypeInv, TypeOK
<1>2. CASE PollWaiting(t)
  BY <1>2, ReturnType DEF PollWaiting, TypeInv, TypeOK
<1>3. CASE PollClosing(t)
  <2> DEFINE d == [task[t].doc EXCEPT !.status = "cancelled"]
             a == IF task[t].act = "create" THEN "abandon" ELSE "close"
             k == [task[t] EXCEPT !.pc = "save", !.act = a, !.doc = d]
  <2>1. d \in SubDoc
    BY <1>k DEF SubDoc, SubStatus
  <2>2. a \in Act
    BY <1>p
  <2>3. Continue(t, k)
    BY <1>3 DEF PollClosing
  <2> HIDE DEF d, a
  <2>4. k \in Task
    BY <1>k, <1>p, <2>1, <2>2, PollTask
  <2>5. k.id \in Subs
    BY <1>k DEF Task
  <2> HIDE DEF k
  <2> QED
    BY <1>3, <2>3, <2>4, <2>5, ContinueType DEF PollClosing, TypeInv, TypeOK
<1>4. CASE PollFails(t)
  <2>1. faults' \in 0..MaxFaults
    BY <1>4, LifecycleAssumption DEF PollFails, Fault, TypeInv, TypeOK
  <2>2. task' \in [Procs -> Task] /\ TaskOK' /\ events' \in SUBSET Event
    BY <1>4, <1>p, GotoType, ReturnType DEF PollFails, TypeInv, TypeOK
  <2> QED
    BY <1>4, <2>1, <2>2 DEF PollFails, TypeInv, TypeOK
<1> QED
  BY <1>1, <1>2, <1>3, <1>4

\* The gateway, the clock and a handler that dies.
LEMMA EnvironmentType ==
  ASSUME TypeInv, Environment \/ Tick \/ (\E t \in Procs : Abort(t))
  PROVE  TypeInv'
<1> USE DEF outside, history
<1>1. ASSUME NEW s \in Subs, Authorise(s) \/ Charge(s) \/ Revoke(s)
      PROVE  TypeInv'
  <2>1. /\ gateway' \in [Items -> Mandate]
        /\ charges' \in 0..MaxCharges
        /\ declined' \in SUBSET [id: Subs, at: Nat]
    BY <1>1, DocTypes, LifecycleAssumption
       DEF Authorise, Charge, Revoke, TypeInv, TypeOK, Mandate
  <2>2. events' \in SUBSET Event
    BY <1>1, DocTypes
       DEF Authorise, Charge, Revoke, Send, TypeInv, TypeOK, Event, Items
  <2> QED
    BY <1>1, <2>1, <2>2 DEF Authorise, Charge, Revoke, TypeInv, TypeOK, TaskOK
<1>2. ASSUME NEW o \in Orders, PayOrder(o)
      PROVE  TypeInv'
  <2>1. gateway' \in [Items -> Mandate] /\ events' \in SUBSET Event
    BY <1>2, DocTypes DEF PayOrder, Send, TypeInv, TypeOK, Mandate, Event, Items
  <2> QED
    BY <1>2, <2>1 DEF PayOrder, TypeInv, TypeOK, TaskOK
<1>3. ASSUME NEW e \in events, IgnoreOrphan(e)
      PROVE  TypeInv'
  BY <1>3 DEF IgnoreOrphan, TypeInv, TypeOK, TaskOK
<1>4. CASE Tick
  BY <1>4, LifecycleAssumption DEF Tick, TypeInv, TypeOK, TaskOK
<1>5. ASSUME NEW t \in Procs, Abort(t)
      PROVE  TypeInv'
  <2>1. faults' \in 0..MaxFaults
    BY <1>5, LifecycleAssumption DEF Abort, Fault, TypeInv, TypeOK
  <2>2. task' \in [Procs -> Task] /\ TaskOK'
    BY <1>5, IdleType, ContinueType DEF Abort
  <2> QED
    BY <1>5, <2>1, <2>2 DEF Abort, TypeInv, TypeOK
<1> QED
  BY <1>1, <1>2, <1>3, <1>4, <1>5 DEF Environment

\* Every step keeps the types.
LEMMA TypeStep ==
  ASSUME TypeInv, [Next]_vars
  PROVE  TypeInv'
<1>1. ASSUME NEW t \in Procs, Step(t)
      PROVE  TypeInv'
  BY <1>1, SyncType, MandateType, PollType DEF Step
<1>2. ASSUME NEW t \in Tasks, Start(t)
      PROVE  TypeInv'
  BY <1>2, StartWebhookType, StartRequestType DEF Start, Procs
<1>3. CASE StartExpiry \/ WorkerStep
  BY <1>1, <1>3, WorkerType DEF WorkerStep, Procs
<1>4. CASE UNCHANGED vars
  BY <1>4 DEF vars, TypeInv, TypeOK, TaskOK
<1> QED
  BY <1>1, <1>2, <1>3, <1>4, EnvironmentType DEF Next, Procs

LEMMA TypeInit == Init => TypeInv
<1> SUFFICES ASSUME Init PROVE TypeInv
  OBVIOUS
<1>1. NoDoc \in SubDoc /\ NoGrant \in Grants /\ NewUser \in UserDoc
  BY NothingType
<1> DEFINE e == [exists |-> FALSE, grant |-> NoGrant]
<1>2. e \in EntDoc
  BY <1>1 DEF EntDoc
<1>3. ent = e
  BY DEF Init
<1> HIDE DEF e
<1>4. /\ sub \in [Subs -> SubDoc] /\ gateway \in [Items -> Mandate]
      /\ task \in [Procs -> Task]
  BY <1>1, IdleType DEF Init, Mandate
<1>a. /\ now \in 0..MaxTime /\ charges \in 0..MaxCharges
      /\ faults \in 0..MaxFaults /\ overlaps \in 0..MaxOverlaps
  BY LifecycleAssumption DEF Init
<1>b. /\ events \in SUBSET Event /\ declined \in SUBSET [id: Subs, at: Nat]
      /\ replaced \in SUBSET Subs
  BY DEF Init
<1>c. payer \in Items \cup {Unset} /\ polled \in BOOLEAN /\ user \in UserDoc
  BY <1>1 DEF Init
<1>5. TypeOK
  BY <1>2, <1>3, <1>4, <1>a, <1>b, <1>c DEF TypeOK
<1> QED
  BY <1>5, IdleType DEF Init, TypeInv, TaskOK

\* Every document, handler and message of every behaviour is of its type: no
\* interleaving of the handlers writes a status outside the sets the queries
\* select from.
THEOREM TypeCorrect == Spec => []TypeOK
<1>1. TypeInv /\ [Next]_vars => TypeInv'
  BY TypeStep
<1>2. TypeInv => TypeOK
  BY DEF TypeInv
<1> QED
  BY <1>1, <1>2, TypeInit, PTL DEF Spec

-------------------------------------------------------------------------------
(***************************************************************************)
(* No upload is blocked before its time.                                   *)
(*                                                                         *)
(* NoEarlyBlock alone is not inductive: the entitlement is written from a  *)
(* handler's record, which comes from a list the worker made, which comes  *)
(* from documents a webhook wrote, which comes from a charge.  BlockInv    *)
(* follows the end of the grace period all along that way.                 *)
(***************************************************************************)
\* A charge of s was declined a whole grace period ago.
Lapsed(s) == \E f \in declined : f.id = s /\ f.at + Grace <= now

\* The end of a running grace period is that of a charge declined.
GraceDue(s, doc) ==
  doc.status = "past_due" => \E f \in declined : f.id = s /\ doc.graceEnd = f.at + Grace

ExpirySteps == {"pick", "save", "entFind", "entSave", "mirror"}

\* A handler writes grace periods that are due, and blocks only what has lapsed.
TaskBlocks(k) ==
  /\ k.pc = "save" => GraceDue(k.id, k.doc)
  /\ k.act = "grace" =>
       k.pc \in ExpirySteps /\ \A x \in k.todo : Lapsed(x.id)
  /\ ~k.grant.upload =>
       /\ Lapsed(k.id)
       /\ k.pc \in ExpirySteps
       /\ k.pc # "pick" => k.act = "grace"

FailedIsDeclined(e) == e.kind = "failed" => [id |-> e.id, at |-> e.at] \in declined

BlockInv ==
  /\ ~ent.grant.upload => Lapsed(payer)
  /\ \A e \in events : FailedIsDeclined(e)
  /\ \A s \in Subs : GraceDue(s, sub[s])
  /\ \A t \in Procs : TaskBlocks(task[t])

-------------------------------------------------------------------------------
\* A handler that begins for anything but the grace periods blocks nothing.
LEMMA HandlerBlocks ==
  ASSUME NEW pc, NEW act, NEW id, NEW ev, NEW doc, NEW g,
         g.upload, act # "grace", pc = "save" => GraceDue(id, doc)
  PROVE  TaskBlocks(Handler(pc, act, id, ev, doc, g))
  BY DEF TaskBlocks, Handler

LEMMA IdleBlocks == TaskBlocks(Idle)
<1>1. NoGrant.upload
  BY DEF NoGrant
<1> QED
  BY <1>1, HandlerBlocks DEF Idle

\* One handler goes on and the charges and the clock stand still.
LEMMA TasksBlock ==
  ASSUME TypeInv, BlockInv, NEW t \in Procs, NEW k, TaskBlocks(k),
         task' = [task EXCEPT ![t] = k], UNCHANGED <<declined, now>>
  PROVE  (\A u \in Procs : TaskBlocks(task[u]))'
<1> SUFFICES ASSUME NEW u \in Procs PROVE TaskBlocks(task[u])'
  OBVIOUS
<1>1. task'[u] = IF u = t THEN k ELSE task[u]
  BY DEF TypeInv, TypeOK
<1>2. TaskBlocks(task'[u])
  BY <1>1 DEF BlockInv
<1> QED
  BY <1>2 DEF TaskBlocks, GraceDue, Lapsed

\* With the charges and the clock at rest, what the documents and the messages
\* say stays true.
LEMMA RestBlocks ==
  ASSUME BlockInv, UNCHANGED <<declined, now>>
  PROVE  /\ UNCHANGED <<ent, payer>> => (~ent.grant.upload => Lapsed(payer))'
         /\ (\A e \in events' : e \in events \/ e.kind # "failed")
              => (\A e \in events : FailedIsDeclined(e))'
         /\ UNCHANGED sub => (\A s \in Subs : GraceDue(s, sub[s]))'
  BY DEF BlockInv, Lapsed, FailedIsDeclined, GraceDue

\* A handler that takes its next step with the same record.
LEMMA GotoBlocks ==
  ASSUME TypeInv, BlockInv, NEW t \in Procs, NEW pc, Goto(t, pc),
         UNCHANGED <<declined, now>>, pc # "save",
         task[t].act = "grace" => pc \in ExpirySteps,
         ~task[t].grant.upload =>
            pc \in ExpirySteps /\ (pc # "pick" => task[t].act = "grace")
  PROVE  (\A u \in Procs : TaskBlocks(task[u]))'
<1> DEFINE k == [task[t] EXCEPT !.pc = pc]
<1>1. /\ k.pc = pc /\ k.act = task[t].act /\ k.id = task[t].id
      /\ k.todo = task[t].todo /\ k.grant = task[t].grant
  BY DocTypes DEF Task
<1>2. task' = [task EXCEPT ![t] = k]
  BY DEF Goto, Continue
<1> HIDE DEF k
<1>3. TaskBlocks(k)
  BY <1>1 DEF TaskBlocks, BlockInv
<1> QED
  BY <1>2, <1>3, TasksBlock

\* A handler that ends.
LEMMA ReturnBlocks ==
  ASSUME TypeInv, BlockInv, NEW t \in Procs, Return(t) \/ Continue(t, Idle),
         UNCHANGED <<declined, now>>
  PROVE  (\A u \in Procs : TaskBlocks(task[u]))'
  BY IdleBlocks, TasksBlock DEF Return, Continue
-------------------------------------------------------------------------------
\* Webhooks: only a decline opens a grace period, and it was declined then.
LEMMA StartWebhookBlocks ==
  ASSUME TypeInv, BlockInv, NEW t \in Procs, NEW e \in events,
         StartPaid(t, e) \/ StartFailed(t, e) \/ StartCancelled(t, e)
           \/ StartOrderPaid(t, e)
  PROVE  BlockInv'
<1> USE DEF outside, history
<1>0. /\ e \in Event /\ FailedIsDeclined(e)
      /\ \A p, st : Grant(p, st, TRUE).upload
  BY DEF TypeInv, TypeOK, BlockInv, Grant
<1>1. UNCHANGED <<sub, ent, payer, events, declined, now>>
  BY DEF StartPaid, StartFailed, StartCancelled, StartOrderPaid
<1>2. PICK k : TaskBlocks(k) /\ task' = [task EXCEPT ![t] = k]
  <2>1. CASE StartPaid(t, e)
    <3>1. GraceDue(e.id, Activated(sub[e.id], e.at))
      BY DEF GraceDue, Activated
    <3> QED
      BY <1>0, <2>1, <3>1, HandlerBlocks DEF StartPaid, Enter
  <2>2. CASE StartFailed(t, e)
    <3>1. e.id \in Subs /\ [id |-> e.id, at |-> e.at] \in declined
      BY <1>0, <2>2 DEF StartFailed, Event, FailedIsDeclined
    <3>2. GraceDue(e.id, PastDue(sub[e.id], e.at))
      BY <3>1 DEF GraceDue, PastDue
    <3>3. /\ TaskBlocks(Handler("entFind", "failed", e.id, e, sub[e.id],
                              Grant(OfferOf[e.id], "past_due", TRUE)))
          /\ TaskBlocks(Handler("save", "failed", e.id, e,
                              PastDue(sub[e.id], e.at),
                              Grant(OfferOf[e.id], "past_due", TRUE)))
      BY <1>0, <3>2, HandlerBlocks
    <3> QED
      BY <2>2, <3>3 DEF StartFailed, Enter
  <2>3. CASE StartCancelled(t, e)
    <3>1. [sub[e.id] EXCEPT !.status = "canceled"].status # "past_due"
      <4>1. sub[e.id] \in SubDoc
        BY <1>0, <2>3, DocTypes DEF StartCancelled, Event
      <4> QED
        BY <4>1 DEF SubDoc
    <3> QED
      BY <1>0, <2>3, <3>1, HandlerBlocks DEF StartCancelled, Enter, GraceDue
  <2>4. CASE StartOrderPaid(t, e)
    BY <1>0, <2>4, HandlerBlocks DEF StartOrderPaid, Enter
  <2> QED
    BY <2>1, <2>2, <2>3, <2>4
<1> QED
  BY <1>1, <1>2, TasksBlock, RestBlocks DEF BlockInv

\* Requests of the user block nothing and open no grace period.
LEMMA StartRequestBlocks ==
  ASSUME TypeInv, BlockInv, NEW t \in Procs,
         \/ StartCancel(t) \/ StartResume(t) \/ StartCurrent(t)
         \/ \E n \in Subs : StartCreate(t, n)
         \/ \E o \in Orders : StartVerify(t, o)
  PROVE  BlockInv'
<1> USE DEF outside, history
<1>0. NoGrant.upload /\ \A p, st : Grant(p, st, TRUE).upload
  BY DEF Grant, NoGrant
<1>1. UNCHANGED <<sub, ent, payer, events, declined, now>>
  BY DEF StartCancel, StartResume, StartCurrent, StartCreate, StartVerify
<1>2. PICK k : TaskBlocks(k) /\ task' = [task EXCEPT ![t] = k]
  <2>1. CASE StartCancel(t)
    <3>1. PICK s \in Subs :
            Enter(t, Handler("save", "cancel", s, Unset,
                             [sub[s] EXCEPT !.status = "cancel_at_period_end"],
                             NoGrant))
      BY <2>1 DEF StartCancel, WithStatus
    <3>2. [sub[s] EXCEPT !.status = "cancel_at_period_end"].status # "past_due"
      BY DocTypes DEF SubDoc
    <3> QED
      BY <1>0, <3>1, <3>2, HandlerBlocks DEF Enter, GraceDue
  <2>2. CASE StartResume(t) \/ StartCurrent(t)
    BY <1>0, <2>2, HandlerBlocks DEF StartResume, StartCurrent, Enter
  <2>3. ASSUME NEW n \in Subs, StartCreate(t, n)
        PROVE  \E k : TaskBlocks(k) /\ task' = [task EXCEPT ![t] = k]
    <3>1. PICK pc \in {"poll", "provider"}, id \in Items \cup {Unset},
               d \in SubDoc :
            Enter(t, [Handler(pc, "create", id, Unset, d, NoGrant)
                      EXCEPT !.new = n, !.usr = user])
      <4> QED
        BY <2>3, NothingType, DocTypes DEF StartCreate, WithStatus, Items
    <3> DEFINE h == Handler(pc, "create", id, Unset, d, NoGrant)
               k == [h EXCEPT !.new = n, !.usr = user]
    <3>p. pc \in PC /\ "create" \in Act
      BY DEF PC, Act
    <3>2. h \in Task
      BY <3>p, NothingType, HandlerType
    <3>3. h.pc # "save" /\ h.act = "create" /\ h.grant.upload
      BY <1>0 DEF Handler
    <3> HIDE DEF h
    <3>4. k.pc # "save" /\ k.act = "create" /\ k.grant.upload
      BY <3>2, <3>3 DEF Task
    <3> HIDE DEF k
    <3> QED
      BY <3>1, <3>4 DEF TaskBlocks, Enter, h, k
  <2>4. ASSUME NEW o \in Orders, StartVerify(t, o)
        PROVE  \E k : TaskBlocks(k) /\ task' = [task EXCEPT ![t] = k]
    BY <1>0, <2>4, HandlerBlocks DEF StartVerify, Enter
  <2> QED
    BY <2>1, <2>2, <2>3, <2>4
<1> QED
  BY <1>1, <1>2, TasksBlock, RestBlocks DEF BlockInv

\* The worker blocks only what its first query lists, which has lapsed.
LEMMA WorkerBlocks ==
  ASSUME TypeInv, BlockInv, StartExpiry \/ PickExpired \/ ListEnding \/ EndExpiry
  PROVE  BlockInv'
<1> USE DEF outside, history
<1>w. Worker \in Procs /\ task[Worker] \in Task /\ TaskBlocks(task[Worker])
  BY DocTypes DEF Procs, BlockInv
<1>0. UNCHANGED <<sub, ent, payer, declined, now>> /\ events' \subseteq events
  BY DEF StartExpiry, PickExpired, ListEnding, EndExpiry, Return
<1>1. PICK k : TaskBlocks(k) /\ task' = [task EXCEPT ![Worker] = k]
  <2>1. CASE StartExpiry
    <3> DEFINE S == Snapshots({s \in Subs : GraceOver(sub[s])})
               h == Handler("pick", "grace", Unset, Unset, NoDoc, NoGrant)
               k == [h EXCEPT !.todo = S]
    <3>1. \A x \in S : Lapsed(x.id)
      <4> SUFFICES ASSUME NEW s \in Subs, GraceOver(sub[s]) PROVE Lapsed(s)
        BY DEF Snapshots
      <4>1. PICK f \in declined : f.id = s /\ sub[s].graceEnd = f.at + Grace
        BY DEF BlockInv, GraceDue, GraceOver
      <4> QED
        BY <4>1 DEF GraceOver, Lapsed
    <3>p. "pick" \in PC /\ "grace" \in Act
      BY DEF PC, Act
    <3>2. h \in Task
      BY <3>p, NothingType, HandlerType
    <3>3. h.pc = "pick" /\ h.act = "grace" /\ h.grant.upload
      BY DEF Handler, NoGrant
    <3>4. Enter(Worker, k)
      BY <2>1 DEF StartExpiry
    <3> HIDE DEF S, h
    <3>5. k.pc = "pick" /\ k.todo = S /\ k.grant.upload
      BY <3>2, <3>3 DEF Task
    <3> HIDE DEF k
    <3>6. TaskBlocks(k)
      BY <3>1, <3>5 DEF TaskBlocks, ExpirySteps
    <3> QED
      BY <3>4, <3>6 DEF Enter
  <2>2. CASE PickExpired
    <3>1. PICK x \in task[Worker].todo :
            Continue(Worker,
              [task[Worker] EXCEPT
                 !.pc = "save", !.id = x.id, !.todo = task[Worker].todo \ {x},
                 !.doc = [x.doc EXCEPT
                            !.status = ExpiryOutcome(task[Worker].act).status],
                 !.grant = ExpiryOutcome(task[Worker].act)])
      BY <2>2 DEF PickExpired
    <3> DEFINE S == task[Worker].todo \ {x}
               g == ExpiryOutcome(task[Worker].act)
               d == [x.doc EXCEPT !.status = g.status]
               k == [task[Worker] EXCEPT !.pc = "save", !.id = x.id, !.todo = S,
                                         !.doc = d, !.grant = g]
    <3>2. x \in Snapshot
      BY <1>w DEF Task
    <3>3. g.status # "past_due" /\ (~g.upload => task[Worker].act = "grace")
      BY DEF ExpiryOutcome, Grant
    <3> HIDE DEF g
    <3>4. d.status # "past_due"
      BY <3>2, <3>3 DEF Snapshot, SubDoc
    <3>5. task[Worker].act = "grace" =>
            Lapsed(x.id) /\ \A y \in S : Lapsed(y.id)
      BY <1>w DEF TaskBlocks
    <3>6. Continue(Worker, k)
      BY <3>1 DEF g
    <3> HIDE DEF S, d
    <3>7. /\ k.pc = "save" /\ k.id = x.id /\ k.todo = S /\ k.doc = d
          /\ k.grant = g /\ k.act = task[Worker].act
      BY <1>w DEF Task
    <3> HIDE DEF k
    <3>8. TaskBlocks(k)
      BY <3>3, <3>4, <3>5, <3>7 DEF TaskBlocks, GraceDue, ExpirySteps
    <3> QED
      BY <3>6, <3>8 DEF Continue
  <2>3. CASE ListEnding
    <3> DEFINE S == Snapshots({s \in Subs : PeriodOver(sub[s])})
               k == [task[Worker] EXCEPT !.act = "ending", !.todo = S]
    <3>1. Continue(Worker, k) /\ task[Worker].pc = "pick"
      BY <2>3 DEF ListEnding
    <3> HIDE DEF S
    <3>2. /\ k.pc = "pick" /\ k.act = "ending" /\ k.id = task[Worker].id
          /\ k.grant = task[Worker].grant
      BY <1>w, <3>1 DEF Task
    <3> HIDE DEF k
    <3> QED
      BY <1>w, <3>1, <3>2 DEF TaskBlocks, Continue
  <2>4. CASE EndExpiry
    BY <2>4, IdleBlocks DEF EndExpiry, Return
  <2> QED
    BY <2>1, <2>2, <2>3, <2>4
<1> QED
  BY <1>0, <1>1, <1>w, TasksBlock, RestBlocks DEF BlockInv
\* Writing the documents: the entitlement is blocked from a record that names a
\* lapsed subscription, a subscription is saved with a grace period that is due.
LEMMA SyncBlocks ==
  ASSUME TypeInv, BlockInv, NEW t \in Procs,
         \/ FindEnt(t) \/ SaveEnt(t) \/ InsertEntRefused(t)
         \/ MirrorUser(t) \/ MirrorFails(t) \/ SaveCustomer(t)
         \/ SaveVerifiedUser(t)
  PROVE  BlockInv'
<1> USE DEF outside, history
<1>k. task[t] \in Task /\ TaskBlocks(task[t])
  BY DocTypes DEF BlockInv
<1>0. UNCHANGED <<sub, declined, now>> /\ events' \subseteq events
  BY DEF FindEnt, SaveEnt, InsertEntRefused, MirrorUser, MirrorFails,
         SaveCustomer, SaveVerifiedUser, AfterMirror, Return
<1>1. (~ent.grant.upload => Lapsed(payer))'
  <2>1. CASE SaveEnt(t)
    <3>1. ent'.grant = task[t].grant /\ payer' = task[t].id
      BY <2>1 DEF SaveEnt
    <3> QED
      BY <1>k, <1>0, <3>1 DEF TaskBlocks, Lapsed
  <2>2. CASE ~SaveEnt(t)
    <3>1. UNCHANGED <<ent, payer>>
      BY <2>2 DEF FindEnt, InsertEntRefused, MirrorUser, MirrorFails,
                  SaveCustomer, SaveVerifiedUser
    <3> QED
      BY <1>0, <3>1, RestBlocks
  <2> QED
    BY <2>1, <2>2
<1>m. ASSUME AfterMirror(t), task[t].pc = "mirror"
      PROVE  (\A u \in Procs : TaskBlocks(task[u]))'
  <2>1. ~task[t].grant.upload => task[t].act = "grace"
    BY <1>k, <1>m DEF TaskBlocks
  <2>2. \/ Goto(t, "prior") /\ task[t].grant.upload /\ task[t].act # "grace"
        \/ Goto(t, "pick")
        \/ Return(t)
    BY <1>m, <2>1 DEF AfterMirror
  <2> QED
    BY <1>0, <2>2, GotoBlocks, ReturnBlocks DEF ExpirySteps
<1>2. (\A u \in Procs : TaskBlocks(task[u]))'
  <2>1. CASE FindEnt(t)
    <3> DEFINE k == [task[t] EXCEPT !.pc = "entSave", !.found = ent.exists]
    <3>1. /\ k.pc = "entSave" /\ k.act = task[t].act /\ k.id = task[t].id
          /\ k.todo = task[t].todo /\ k.grant = task[t].grant
      BY <1>k DEF Task
    <3>2. Continue(t, k) /\ task[t].pc = "entFind"
      BY <2>1 DEF FindEnt
    <3> HIDE DEF k
    <3>3. TaskBlocks(k)
      BY <1>k, <3>1, <3>2 DEF TaskBlocks, ExpirySteps
    <3> QED
      BY <1>0, <3>2, <3>3, TasksBlock DEF Continue
  <2>2. CASE SaveEnt(t)
    <3>1. task[t].pc = "entSave" /\ Goto(t, "mirror")
      BY <2>2 DEF SaveEnt
    <3> QED
      BY <1>k, <1>0, <3>1, GotoBlocks DEF TaskBlocks, ExpirySteps
  <2>3. CASE InsertEntRefused(t)
    BY <1>0, <2>3, ReturnBlocks DEF InsertEntRefused
  <2>4. CASE MirrorUser(t) \/ MirrorFails(t)
    BY <1>m, <2>4 DEF MirrorUser, MirrorFails
  <2>5. CASE SaveCustomer(t)
    BY <1>0, <2>5, ReturnBlocks DEF SaveCustomer
  <2>6. CASE SaveVerifiedUser(t)
    <3>1. task[t].pc = "userSave" /\ Goto(t, "entFind")
      BY <2>6 DEF SaveVerifiedUser
    <3> QED
      BY <1>k, <1>0, <3>1, GotoBlocks DEF TaskBlocks, ExpirySteps
  <2> QED
    BY <2>1, <2>2, <2>3, <2>4, <2>5, <2>6
<1> QED
  BY <1>0, <1>1, <1>2, RestBlocks DEF BlockInv

LEMMA MandateBlocks ==
  ASSUME TypeInv, BlockInv, NEW t \in Procs,
         \/ SaveSub(t) \/ ListPrior(t) \/ Supersede(t) \/ StopMandate(t)
         \/ StopFails(t) \/ CreateMandate(t) \/ InsertSub(t)
  PROVE  BlockInv'
<1> USE DEF outside, history
<1>k. task[t] \in Task /\ TaskBlocks(task[t])
  BY DocTypes DEF BlockInv
<1>0. UNCHANGED <<ent, payer, declined, now>>
  BY DEF SaveSub, ListPrior, Supersede, StopMandate, StopFails, CreateMandate,
         InsertSub
<1>e. \A e \in events' : e \in events \/ e.kind # "failed"
  <2>1. CASE StopMandate(t)
    <3>1. Notice(task[t].id).kind = "cancelled"
      BY DEF Notice
    <3> QED
      BY <2>1, <3>1 DEF StopMandate, AfterStop
  <2>2. CASE ~StopMandate(t)
    BY <2>2 DEF SaveSub, ListPrior, Supersede, StopFails, CreateMandate,
                InsertSub, AfterStop, Return
  <2> QED
    BY <2>1, <2>2
<1>1. (\A s \in Subs : GraceDue(s, sub[s]))'
  <2>1. CASE SaveSub(t)
    <3>1. sub' = [sub EXCEPT ![task[t].id] = task[t].doc]
      BY <2>1 DEF SaveSub
    <3>2. GraceDue(task[t].id, task[t].doc)
      BY <1>k, <2>1 DEF SaveSub, TaskBlocks
    <3>3. \A s \in Subs : GraceDue(s, sub'[s])
      BY <3>1, <3>2 DEF BlockInv, TypeInv, TypeOK
    <3> QED
      BY <1>0, <3>3 DEF GraceDue
  <2>2. CASE Supersede(t)
    <3>1. PICK x \in task[t].todo :
            sub' = [sub EXCEPT ![x.id] = [x.doc EXCEPT !.status = "superseded"]]
      BY <2>2 DEF Supersede
    <3>2. [x.doc EXCEPT !.status = "superseded"].status # "past_due"
      BY <1>k DEF Task, Snapshot, SubDoc
    <3>3. \A s \in Subs : GraceDue(s, sub'[s])
      BY <3>1, <3>2 DEF BlockInv, TypeInv, TypeOK, GraceDue
    <3> QED
      BY <1>0, <3>3 DEF GraceDue
  <2>3. CASE InsertSub(t)
    <3>1. sub' = [sub EXCEPT ![task[t].new] = Pending(now)]
      BY <2>3 DEF InsertSub
    <3>2. \A s \in Subs : GraceDue(s, sub'[s])
      BY <3>1 DEF BlockInv, TypeInv, TypeOK, GraceDue, Pending
    <3> QED
      BY <1>0, <3>2 DEF GraceDue
  <2>4. CASE UNCHANGED sub
    BY <1>0, <2>4, RestBlocks
  <2> QED
    BY <2>1, <2>2, <2>3, <2>4
       DEF ListPrior, StopMandate, StopFails, CreateMandate
<1>a. ASSUME NEW sent, AfterStop(t, sent), task[t].pc = "stop"
      PROVE  (\A u \in Procs : TaskBlocks(task[u]))'
  <2>1. task[t].grant.upload /\ task[t].act # "grace"
    BY <1>k, <1>a DEF TaskBlocks, ExpirySteps
  <2> QED
    BY <1>a, <1>0, <2>1, GotoBlocks, ReturnBlocks DEF AfterStop
<1>2. (\A u \in Procs : TaskBlocks(task[u]))'
  <2>1. CASE SaveSub(t)
    <3> DEFINE pc == AfterSave(task[t].act)
    <3>1. Return(t) \/ Goto(t, pc)
      BY <2>1 DEF SaveSub
    <3>2. ~task[t].grant.upload => task[t].act = "grace"
      BY <1>k, <2>1 DEF SaveSub, TaskBlocks
    <3>3. pc # "save" /\ (task[t].act = "grace" => pc = "entFind")
      BY DEF AfterSave
    <3> HIDE DEF pc
    <3> QED
      BY <1>0, <3>1, <3>2, <3>3, GotoBlocks, ReturnBlocks DEF ExpirySteps
  <2>2. CASE ListPrior(t)
    <3> DEFINE S == Snapshots(WithStatus(Live) \ {task[t].id})
               k == [task[t] EXCEPT !.pc = "supersede", !.todo = S]
    <3>1. Return(t) \/ Continue(t, k)
      BY <2>2 DEF ListPrior
    <3>2. task[t].grant.upload /\ task[t].act # "grace"
      BY <1>k, <2>2 DEF ListPrior, TaskBlocks, ExpirySteps
    <3> HIDE DEF S
    <3>3. k.pc = "supersede" /\ k.act = task[t].act /\ k.grant = task[t].grant
      BY <1>k DEF Task
    <3> HIDE DEF k
    <3>4. TaskBlocks(k)
      BY <3>2, <3>3 DEF TaskBlocks
    <3> QED
      BY <1>0, <3>1, <3>4, TasksBlock, ReturnBlocks DEF Continue
  <2>3. CASE Supersede(t)
    <3>1. PICK x \in task[t].todo :
            Continue(t, [task[t] EXCEPT !.pc = "stop", !.id = x.id,
                                        !.todo = task[t].todo \ {x}])
      BY <2>3 DEF Supersede
    <3> DEFINE S == task[t].todo \ {x}
               k == [task[t] EXCEPT !.pc = "stop", !.id = x.id, !.todo = S]
    <3>2. task[t].grant.upload /\ task[t].act # "grace"
      BY <1>k, <2>3 DEF Supersede, TaskBlocks, ExpirySteps
    <3>3. Continue(t, k)
      BY <3>1
    <3> HIDE DEF S
    <3>4. k.pc = "stop" /\ k.act = task[t].act /\ k.grant = task[t].grant
      BY <1>k DEF Task
    <3> HIDE DEF k
    <3>5. TaskBlocks(k)
      BY <3>2, <3>4 DEF TaskBlocks
    <3> QED
      BY <1>0, <3>3, <3>5, TasksBlock DEF Continue
  <2>4. CASE StopMandate(t) \/ StopFails(t)
    BY <1>a, <2>4 DEF StopMandate, StopFails
  <2>5. CASE CreateMandate(t) \/ InsertSub(t)
    <3>1. task[t].grant.upload /\ task[t].act # "grace"
      BY <1>k, <2>5 DEF CreateMandate, InsertSub, TaskBlocks, ExpirySteps
    <3>2. Goto(t, "insert") \/ Goto(t, "customer") \/ Return(t)
      BY <2>5 DEF CreateMandate, InsertSub
    <3> QED
      BY <1>0, <3>1, <3>2, GotoBlocks, ReturnBlocks
  <2> QED
    BY <2>1, <2>2, <2>3, <2>4, <2>5
<1> QED
  BY <1>0, <1>e, <1>1, <1>2, RestBlocks DEF BlockInv

\* A poll saves no grace period and blocks nothing.
LEMMA PollBlocks ==
  ASSUME TypeInv, BlockInv, NEW t \in Procs,
         PollActive(t) \/ PollWaiting(t) \/ PollClosing(t) \/ PollFails(t)
  PROVE  BlockInv'
<1> USE DEF outside, history
<1>k. task[t] \in Task /\ task[t].doc \in SubDoc
  BY DocTypes DEF Task
<1>0. /\ UNCHANGED <<sub, ent, payer, declined, now>> /\ events' \subseteq events
      /\ task[t].pc = "poll"
  BY DEF PollActive, PollWaiting, PollClosing, PollFails, Return
<1>1. task[t].grant.upload /\ task[t].act # "grace"
  BY <1>0 DEF BlockInv, TaskBlocks, ExpirySteps
<1>2. (\A u \in Procs : TaskBlocks(task[u]))'
  <2>1. CASE PollActive(t)
    <3> DEFINE d == [task[t].doc EXCEPT !.status = "active"]
               g == Grant(OfferOf[task[t].id], "active", TRUE)
               k == [task[t] EXCEPT !.pc = "save", !.act = "poll", !.doc = d,
                                    !.grant = g]
    <3>1. Continue(t, k)
      BY <2>1 DEF PollActive
    <3>2. d.status # "past_due" /\ g.upload
      BY <1>k DEF SubDoc, Grant
    <3> HIDE DEF d, g
    <3>3. k.act = "poll" /\ k.doc = d /\ k.grant = g
      BY <1>k DEF Task
    <3> HIDE DEF k
    <3>4. TaskBlocks(k)
      BY <3>2, <3>3 DEF TaskBlocks, GraceDue
    <3> QED
      BY <1>0, <3>1, <3>4, TasksBlock DEF Continue
  <2>2. CASE PollClosing(t)
    <3> DEFINE d == [task[t].doc EXCEPT !.status = "cancelled"]
               a == IF task[t].act = "create" THEN "abandon" ELSE "close"
               k == [task[t] EXCEPT !.pc = "save", !.act = a, !.doc = d]
    <3>1. Continue(t, k)
      BY <2>2 DEF PollClosing
    <3>2. d.status # "past_due" /\ a # "grace"
      BY <1>k DEF SubDoc
    <3> HIDE DEF d, a
    <3>3. k.act = a /\ k.doc = d /\ k.grant = task[t].grant
      BY <1>k DEF Task
    <3> HIDE DEF k
    <3>4. TaskBlocks(k)
      BY <1>1, <3>2, <3>3 DEF TaskBlocks, GraceDue
    <3> QED
      BY <1>0, <3>1, <3>4, TasksBlock DEF Continue
  <2>3. CASE PollWaiting(t) \/ PollFails(t)
    <3>1. Goto(t, "provider") \/ Return(t)
      BY <2>3 DEF PollWaiting, PollFails
    <3> QED
      BY <1>0, <1>1, <3>1, GotoBlocks, ReturnBlocks
  <2> QED
    BY <2>1, <2>2, <2>3
<1> QED
  BY <1>0, <1>2, RestBlocks DEF BlockInv

\* Time and further declines only add to what has lapsed.
LEMMA LapsedGrows ==
  ASSUME TypeInv, TypeInv', declined \subseteq declined', now <= now'
  PROVE  /\ \A s : Lapsed(s) => Lapsed(s)'
         /\ \A s, d : GraceDue(s, d) => GraceDue(s, d)'
         /\ \A k : TaskBlocks(k) => TaskBlocks(k)'
<1>1. /\ now \in Nat /\ now' \in Nat /\ Grace \in Nat
      /\ \A f \in declined : f.at \in Nat
  BY LifecycleAssumption DEF TypeInv, TypeOK
<1>2. \A s : Lapsed(s) => Lapsed(s)'
  BY <1>1 DEF Lapsed
<1>3. \A s, d : GraceDue(s, d) => GraceDue(s, d)'
  BY DEF GraceDue
<1> QED
  BY <1>2, <1>3 DEF TaskBlocks

LEMMA EnvironmentBlocks ==
  ASSUME TypeInv, TypeInv', BlockInv,
         Environment \/ Tick \/ (\E t \in Procs : Abort(t))
  PROVE  BlockInv'
<1> USE DEF outside, history
<1>1. CASE \E t \in Procs : Abort(t)
  <2>1. PICK t \in Procs : Abort(t)
    BY <1>1
  <2>2. /\ UNCHANGED <<sub, ent, payer, declined, now>> /\ events' \subseteq events
        /\ Continue(t, Idle)
    BY <2>1 DEF Abort
  <2> QED
    BY <2>2, ReturnBlocks, RestBlocks DEF BlockInv
<1>2. CASE Environment \/ Tick
  <2>1. /\ UNCHANGED <<sub, ent, payer, task>>
        /\ declined \subseteq declined' /\ now <= now'
    BY <1>2, DocTypes
       DEF Environment, Authorise, Charge, Revoke, PayOrder, IgnoreOrphan, Tick
  <2>2. (\A e \in events : FailedIsDeclined(e))'
    <3>1. \A e \in events' :
            \/ e \in events
            \/ e.kind # "failed"
            \/ [id |-> e.id, at |-> e.at] \in declined'
      <4>1. ASSUME NEW s \in Subs, Charge(s)
            PROVE  \A e \in events' :
                     \/ e \in events
                     \/ e.kind # "failed"
                     \/ [id |-> e.id, at |-> e.at] \in declined'
        BY <4>1 DEF Charge, Send
      <4>2. CASE ~ \E s \in Subs : Charge(s)
        BY <1>2, <4>2 DEF Environment, Authorise, Revoke, PayOrder,
                          IgnoreOrphan, Tick, Send
      <4> QED
        BY <4>1, <4>2
    <3> QED
      BY <2>1, <3>1 DEF BlockInv, FailedIsDeclined
  <2>3. (~ent.grant.upload => Lapsed(payer))'
    BY <2>1, LapsedGrows DEF BlockInv
  <2>4. (\A s \in Subs : GraceDue(s, sub[s]))'
    BY <2>1, LapsedGrows DEF BlockInv
  <2>5. (\A t \in Procs : TaskBlocks(task[t]))'
    BY <2>1, LapsedGrows DEF BlockInv
  <2> QED
    BY <2>2, <2>3, <2>4, <2>5 DEF BlockInv
<1> QED
  BY <1>1, <1>2

-------------------------------------------------------------------------------
\* Every step keeps what is blocked tied to a charge that was declined.
LEMMA BlockStep ==
  ASSUME TypeInv, BlockInv, [Next]_vars
  PROVE  BlockInv'
<1>0. TypeInv'
  BY TypeStep
<1>1. ASSUME NEW t \in Procs, Step(t)
      PROVE  BlockInv'
  BY <1>1, SyncBlocks, MandateBlocks, PollBlocks DEF Step
<1>2. ASSUME NEW t \in Tasks, Start(t)
      PROVE  BlockInv'
  BY <1>2, StartWebhookBlocks, StartRequestBlocks DEF Start, Procs
<1>3. CASE StartExpiry \/ WorkerStep
  BY <1>1, <1>3, WorkerBlocks DEF WorkerStep, Procs
<1>4. CASE UNCHANGED vars
  BY <1>4 DEF vars, BlockInv, Lapsed, FailedIsDeclined, GraceDue, TaskBlocks
<1> QED
  BY <1>0, <1>1, <1>2, <1>3, <1>4, EnvironmentBlocks DEF Next, Procs

LEMMA BlockInit == Init => BlockInv
<1> SUFFICES ASSUME Init PROVE BlockInv
  OBVIOUS
<1>1. ent.grant.upload
  BY DEF Init, NoGrant
<1>2. \A s \in Subs : GraceDue(s, sub[s])
  BY DEF Init, GraceDue, NoDoc
<1>3. \A t \in Procs : TaskBlocks(task[t])
  BY IdleBlocks DEF Init
<1> QED
  BY <1>1, <1>2, <1>3 DEF Init, BlockInv

\* Whatever interleaves, fails or dies, uploads are blocked only a whole grace
\* period after a charge of the subscription that is to blame was declined.
THEOREM NoBlockIsEarly == Spec => []NoEarlyBlock
<1>1. Init => TypeInv /\ BlockInv
  BY TypeInit, BlockInit
<1>2. TypeInv /\ BlockInv /\ [Next]_vars => (TypeInv /\ BlockInv)'
  BY TypeStep, BlockStep
<1>3. TypeInv /\ BlockInv => NoEarlyBlock
  BY DEF BlockInv, Lapsed, NoEarlyBlock
<1> QED
  BY <1>1, <1>2, <1>3, PTL DEF Spec

-------------------------------------------------------------------------------
(***************************************************************************)
(* No mandate survives its subscription.                                   *)
(*                                                                         *)
(* NoChargeableMandateLeft speaks of a moment when no handler runs and is  *)
(* not inductive.  Between the save that ends a subscription and the call  *)
(* that ends its mandate, EndInv points at the handler that is about to    *)
(* make the call, and follows the ended documents a handler or the worker  *)
(* carries from a query to a save.  KnownInv is what makes the call reach  *)
(* its mandate: a document is inserted after its mandate was created, and  *)
(* no two requests create the same one.                                    *)
(***************************************************************************)
Ended == {"superseded", "canceled", "cancel_at_period_end"}

\* A mandate has ended, or a handler is about to end it.
Stopping(s) == \E t \in Procs : task[t].pc = "stop" /\ task[t].id = s
Ending(s) == gateway[s] = "CANCELLED" \/ Stopping(s)

\* With mandates g, what handler k names at the gateway is there, and what it
\* is going to create is not yet.
TaskKnows(g, k) ==
  /\ k.pc \in {"save", "stop", "poll"} => g[k.id] # "none"
  /\ k.new \in Subs => (g[k.new] # "none" <=> k.pc \in {"insert", "customer"})
  /\ \A x \in k.todo : g[x.id] # "none"

NewDiffers ==
  \A t, u \in Procs : task[t].new \in Subs /\ task[t].new = task[u].new => t = u

KnownInv ==
  /\ \A e \in events : e.kind = "cancelled" => gateway[e.id] = "CANCELLED"
  /\ \A s \in Subs : sub[s].status # "none" => gateway[s] # "none"
  /\ \A t \in Procs : TaskKnows(gateway, task[t])
  /\ NewDiffers

\* A handler saves as ended only what is ending, or ends it next.
TaskEnds(k) ==
  /\ k.pc = "pick" => k.act \in {"grace", "ending"}
  /\ k.pc = "prior" => k.act = "paid"
  /\ k.pc = "save" /\ k.act # "cancel" /\ k.doc.status \in Ended => Ending(k.id)
  /\ k.act = "ending" => \A x \in k.todo : Ending(x.id)

EndInv ==
  faults = 0 =>
    /\ \A s \in Subs : sub[s].status \in Ended => Ending(s)
    /\ \A t \in Procs : TaskEnds(task[t])

MandateInv == KnownInv /\ EndInv

-------------------------------------------------------------------------------
(* The gateway *)

\* The steps that change the gateway.
LEMMA GatewayMoves ==
  ASSUME [Next]_vars
  PROVE  \/ UNCHANGED gateway
         \/ \E t \in Procs : CreateMandate(t) \/ StopMandate(t)
         \/ \E s \in Subs : Authorise(s) \/ Revoke(s)
         \/ \E o \in Orders : PayOrder(o)
<1> USE DEF outside, history
<1>1. ASSUME NEW t \in Procs, Step(t)
      PROVE  UNCHANGED gateway \/ CreateMandate(t) \/ StopMandate(t)
  BY <1>1 DEF Step, SaveSub, FindEnt, SaveEnt, InsertEntRefused, MirrorUser,
              MirrorFails, ListPrior, Supersede, StopFails, PollActive,
              PollWaiting, PollClosing, PollFails, InsertSub, SaveCustomer,
              SaveVerifiedUser
<1>2. ASSUME NEW t \in Tasks, Start(t)
      PROVE  UNCHANGED gateway
  BY <1>2 DEF Start, StartPaid, StartFailed, StartCancelled, StartOrderPaid,
              StartCreate, StartVerify, StartCancel, StartResume, StartCurrent
<1>3. CASE StartExpiry \/ PickExpired \/ ListEnding \/ EndExpiry
  BY <1>3 DEF StartExpiry, PickExpired, ListEnding, EndExpiry
<1>4. CASE Tick \/ UNCHANGED vars \/ \E t \in Procs : Abort(t)
  BY <1>4 DEF Tick, vars, Abort
<1>5. CASE Environment
  BY <1>5 DEF Environment, Charge, IgnoreOrphan
<1> QED
  BY <1>1, <1>2, <1>3, <1>4, <1>5 DEF Next, WorkerStep, Procs

\* A mandate that exists goes on existing, one that has ended stays so, and a
\* new one is created by the request that reserved it.
LEMMA GatewayStep ==
  ASSUME TypeInv, KnownInv, [Next]_vars
  PROVE  /\ \A i \in Items :
              /\ gateway[i] = "CANCELLED" => gateway'[i] = "CANCELLED"
              /\ gateway[i] # "none" => gateway'[i] # "none"
         /\ \A s \in Subs :
              gateway[s] = "none" /\ gateway'[s] # "none" =>
                \E t \in Procs : CreateMandate(t) /\ task[t].new = s
<1>0. gateway \in [Items -> Mandate] /\ Subs \subseteq Items /\ Subs \cap Orders = {}
  BY LifecycleAssumption DEF TypeInv, TypeOK, Items
<1>1. ASSUME NEW t \in Procs, CreateMandate(t)
      PROVE  /\ gateway' = [gateway EXCEPT ![task[t].new] = "INITIALIZED"]
             /\ task[t].new \in Items => gateway[task[t].new] = "none"
  <2>1. task[t].new \in Subs \cup {Unset} /\ Unset \notin Items
    BY LifecycleAssumption, DocTypes DEF Task
  <2>2. TaskKnows(gateway, task[t]) /\ task[t].pc = "provider"
    BY <1>1 DEF KnownInv, CreateMandate
  <2> QED
    BY <1>1, <2>1, <2>2 DEF CreateMandate, TaskKnows
<1>2. CASE \E t \in Procs : CreateMandate(t)
  <2>1. PICK t \in Procs : CreateMandate(t)
    BY <1>2
  <2> QED
    BY <1>0, <1>1, <2>1
<1>3. ASSUME NEW t \in Procs, StopMandate(t)
      PROVE  \A i \in Items :
               \/ gateway'[i] = gateway[i]
               \/ gateway[i] # "none" /\ gateway'[i] = "CANCELLED"
  BY <1>0, <1>3 DEF StopMandate
<1>4. ASSUME NEW s \in Subs, Authorise(s) \/ Revoke(s)
      PROVE  \A i \in Items :
               \/ gateway'[i] = gateway[i]
               \/ gateway[i] \notin {"none", "CANCELLED"} /\ gateway'[i] # "none"
  BY <1>0, <1>4 DEF Authorise, Revoke
<1>5. ASSUME NEW o \in Orders, PayOrder(o)
      PROVE  /\ o \notin Subs /\ gateway[o] = "none"
             /\ \A i \in Items : i # o => gateway'[i] = gateway[i]
  BY <1>0, <1>5 DEF PayOrder
<1>6. CASE ~ \E t \in Procs : CreateMandate(t)
  BY <1>0, <1>3, <1>4, <1>5, <1>6, GatewayMoves
<1> QED
  BY <1>2, <1>6

\* A call to end a mandate ends it.
LEMMA StopEnds ==
  ASSUME TypeInv, KnownInv, NEW t \in Procs, StopMandate(t)
  PROVE  gateway'[task[t].id] = "CANCELLED"
<1>1. task[t].id \in Subs /\ gateway[task[t].id] # "none"
  BY DEF StopMandate, KnownInv, TaskKnows, TypeInv, TaskOK
<1>2. gateway \in [Items -> Mandate] /\ task[t].id \in Items
  BY <1>1 DEF TypeInv, TypeOK, Items
<1> QED
  BY <1>1, <1>2 DEF StopMandate, Mandate

\* A notice that a mandate has ended is sent when it has.
LEMMA NoticesTrue ==
  ASSUME TypeInv, KnownInv, [Next]_vars
  PROVE  (\A e \in events : e.kind = "cancelled" => gateway[e.id] = "CANCELLED")'
<1> USE DEF outside, history
<1> SUFFICES \A e \in events' :
               e.kind = "cancelled" => e \in events \/ gateway'[e.id] = "CANCELLED"
  <2>1. \A e \in events : e.id \in Items
    BY DEF TypeInv, TypeOK, Event, Items
  <2> QED
    BY <2>1, GatewayStep DEF KnownInv
<1>1. ASSUME NEW t \in Procs, Step(t)
      PROVE  events' \subseteq events \/ StopMandate(t)
  <2>1. CASE SaveSub(t)
    BY <2>1 DEF SaveSub, Return
  <2>2. CASE MirrorUser(t) \/ MirrorFails(t)
    BY <2>2 DEF MirrorUser, MirrorFails, AfterMirror, Return
  <2>3. CASE StopFails(t)
    BY <2>3 DEF StopFails, AfterStop
  <2> QED
    BY <1>1, <2>1, <2>2, <2>3
       DEF Step, FindEnt, SaveEnt, InsertEntRefused, ListPrior, Supersede,
           PollActive, PollWaiting, PollClosing, PollFails, CreateMandate,
           InsertSub, SaveCustomer, SaveVerifiedUser, Return
<1>2. ASSUME NEW t \in Procs, StopMandate(t)
      PROVE  \A e \in events' :
               e.kind = "cancelled" => e \in events \/ gateway'[e.id] = "CANCELLED"
  <2>1. gateway'[Notice(task[t].id).id] = "CANCELLED"
    BY <1>2, StopEnds DEF Notice
  <2>2. events' \subseteq events \cup {Notice(task[t].id)}
    BY <1>2 DEF StopMandate, AfterStop
  <2> QED
    BY <2>1, <2>2
<1>3. ASSUME NEW t \in Tasks, Start(t)
      PROVE  UNCHANGED events
  BY <1>3 DEF Start, StartPaid, StartFailed, StartCancelled, StartOrderPaid,
              StartCreate, StartVerify, StartCancel, StartResume, StartCurrent
<1>4. CASE \/ StartExpiry \/ PickExpired \/ ListEnding \/ EndExpiry
           \/ Tick \/ UNCHANGED vars \/ \E t \in Procs : Abort(t)
  BY <1>4 DEF StartExpiry, PickExpired, ListEnding, EndExpiry, Return, Tick,
              vars, Abort
<1>5. ASSUME NEW s \in Subs, Authorise(s) \/ Charge(s)
      PROVE  \A e \in events' : e.kind = "cancelled" => e \in events
  BY <1>5 DEF Authorise, Charge, Send
<1>6. ASSUME NEW s \in Subs, Revoke(s)
      PROVE  \A e \in events' :
               e.kind = "cancelled" => e \in events \/ gateway'[e.id] = "CANCELLED"
  <2>1. gateway'[s] = "CANCELLED"
    BY <1>6 DEF Revoke, TypeInv, TypeOK, Items
  <2> QED
    BY <1>6, <2>1 DEF Revoke, Send
<1>7. CASE (\E o \in Orders : PayOrder(o)) \/ \E e \in events : IgnoreOrphan(e)
  BY <1>7 DEF PayOrder, IgnoreOrphan, Send
<1> QED
  BY <1>1, <1>2, <1>3, <1>4, <1>5, <1>6, <1>7
     DEF Next, WorkerStep, Environment, Procs

-------------------------------------------------------------------------------
(* The documents *)

\* The steps that write a subscription, and what they write.
LEMMA SubMoves ==
  ASSUME TypeInv, [Next]_vars
  PROVE  \A s \in Subs :
           \/ sub'[s] = sub[s]
           \/ \E t \in Procs :
                /\ SaveSub(t) /\ task[t].id = s /\ sub'[s] = task[t].doc
           \/ \E t \in Procs :
                /\ task[t].pc = "supersede" /\ task'[t].pc = "stop"
                /\ task'[t].id = s /\ \E x \in task[t].todo : x.id = s
           \/ \E t \in Procs :
                /\ InsertSub(t) /\ task[t].new = s
                /\ sub'[s].status = "pending_authorization"
<1> USE DEF outside, history
<1>0. sub \in [Subs -> SubDoc] /\ task \in [Procs -> Task]
  BY DEF TypeInv, TypeOK
<1>1. ASSUME NEW t \in Procs, SaveSub(t)
      PROVE  \A s \in Subs :
               sub'[s] = sub[s] \/ (task[t].id = s /\ sub'[s] = task[t].doc)
  BY <1>0, <1>1 DEF SaveSub
<1>2. ASSUME NEW t \in Procs, Supersede(t)
      PROVE  \A s \in Subs :
               \/ sub'[s] = sub[s]
               \/ /\ task[t].pc = "supersede" /\ task'[t].pc = "stop"
                  /\ task'[t].id = s /\ \E x \in task[t].todo : x.id = s
  <2>1. PICK x \in task[t].todo :
          /\ sub' = [sub EXCEPT ![x.id] = [x.doc EXCEPT !.status = "superseded"]]
          /\ Continue(t, [task[t] EXCEPT !.pc = "stop", !.id = x.id,
                                         !.todo = task[t].todo \ {x}])
    BY <1>2 DEF Supersede
  <2> DEFINE S == task[t].todo \ {x}
             k == [task[t] EXCEPT !.pc = "stop", !.id = x.id, !.todo = S]
             d == [x.doc EXCEPT !.status = "superseded"]
  <2>2. Continue(t, k) /\ sub' = [sub EXCEPT ![x.id] = d]
    BY <2>1
  <2> HIDE DEF S, d
  <2>3. k.pc = "stop" /\ k.id = x.id
    BY <1>0 DEF Task
  <2> HIDE DEF k
  <2>4. task'[t] = k
    BY <1>0, <2>2 DEF Continue
  <2> QED
    BY <1>0, <1>2, <2>2, <2>3, <2>4 DEF Supersede
<1>3. ASSUME NEW t \in Procs, InsertSub(t)
      PROVE  \A s \in Subs :
               \/ sub'[s] = sub[s]
               \/ task[t].new = s /\ sub'[s].status = "pending_authorization"
  BY <1>0, <1>3 DEF InsertSub, Pending
<1>4. ASSUME NEW t \in Procs, Step(t), ~SaveSub(t), ~Supersede(t), ~InsertSub(t)
      PROVE  UNCHANGED sub
  BY <1>4 DEF Step, FindEnt, SaveEnt, InsertEntRefused, MirrorUser, MirrorFails,
              ListPrior, StopMandate, StopFails, PollActive, PollWaiting,
              PollClosing, PollFails, CreateMandate, SaveCustomer,
              SaveVerifiedUser
<1>5. ASSUME NEW t \in Tasks, Start(t)
      PROVE  UNCHANGED sub
  BY <1>5 DEF Start, StartPaid, StartFailed, StartCancelled, StartOrderPaid,
              StartCreate, StartVerify, StartCancel, StartResume, StartCurrent
<1>6. CASE \/ StartExpiry \/ PickExpired \/ ListEnding \/ EndExpiry
           \/ Tick \/ UNCHANGED vars \/ \E t \in Procs : Abort(t)
  BY <1>6 DEF StartExpiry, PickExpired, ListEnding, EndExpiry, Tick, vars, Abort
<1>7. CASE Environment
  BY <1>7 DEF Environment, Authorise, Charge, Revoke, PayOrder, IgnoreOrphan
<1>8. ASSUME NEW t \in Procs, Step(t), NEW s \in Subs
      PROVE  \/ sub'[s] = sub[s]
             \/ \E u \in Procs :
                  /\ SaveSub(u) /\ task[u].id = s /\ sub'[s] = task[u].doc
             \/ \E u \in Procs :
                  /\ task[u].pc = "supersede" /\ task'[u].pc = "stop"
                  /\ task'[u].id = s /\ \E x \in task[u].todo : x.id = s
             \/ \E u \in Procs :
                  /\ InsertSub(u) /\ task[u].new = s
                  /\ sub'[s].status = "pending_authorization"
  BY <1>1, <1>2, <1>3, <1>4, <1>8
<1> QED
  BY <1>5, <1>6, <1>7, <1>8 DEF Next, WorkerStep, Procs

\* A document is written only once its mandate exists.
LEMMA DocsKnown ==
  ASSUME TypeInv, KnownInv, [Next]_vars
  PROVE  (\A s \in Subs : sub[s].status # "none" => gateway[s] # "none")'
<1> SUFFICES ASSUME NEW s \in Subs, sub'[s] # sub[s]
             PROVE  gateway[s] # "none"
  BY GatewayStep DEF KnownInv, Items
<1>1. \A t \in Procs : TaskKnows(gateway, task[t])
  BY DEF KnownInv
<1>2. ASSUME NEW t \in Procs, SaveSub(t), task[t].id = s
      PROVE  gateway[s] # "none"
  BY <1>1, <1>2 DEF SaveSub, TaskKnows
<1>3. ASSUME NEW t \in Procs, \E x \in task[t].todo : x.id = s
      PROVE  gateway[s] # "none"
  BY <1>1, <1>3 DEF TaskKnows
<1>4. ASSUME NEW t \in Procs, InsertSub(t), task[t].new = s
      PROVE  gateway[s] # "none"
  BY <1>1, <1>4 DEF InsertSub, TaskKnows
<1> QED
  BY <1>2, <1>3, <1>4, SubMoves

-------------------------------------------------------------------------------
(* What is ending *)

\* No handler that is about to end a mandate is diverted, unless it fails.
LEMMA StopIsNext ==
  ASSUME TypeInv, [Next]_vars, faults' = 0, NEW t \in Procs, task[t].pc = "stop"
  PROVE  task'[t] = task[t] \/ StopMandate(t)
<1> USE DEF outside, history
<1>0. task \in [Procs -> Task] /\ faults \in Nat
  BY LifecycleAssumption DEF TypeInv, TypeOK
<1>f. ~Fault
  BY <1>0 DEF Fault
<1>s. ASSUME NEW u \in Procs, NEW k, task' = [task EXCEPT ![u] = k],
             task[u].pc # "stop"
      PROVE  task'[t] = task[t]
  BY <1>0, <1>s
<1>1. ASSUME NEW u \in Procs, Step(u), ~StopMandate(u)
      PROVE  task'[t] = task[t]
  <2>1. task[u].pc # "stop"
    BY <1>1, <1>f DEF Step, SaveSub, FindEnt, SaveEnt, InsertEntRefused,
         MirrorUser, MirrorFails, ListPrior, Supersede, StopFails, PollActive,
         PollWaiting, PollClosing, PollFails, CreateMandate, InsertSub,
         SaveCustomer, SaveVerifiedUser
  <2>2. \E k : task' = [task EXCEPT ![u] = k]
    BY <1>1, <1>f DEF Step, SaveSub, FindEnt, SaveEnt, InsertEntRefused,
         MirrorUser, MirrorFails, ListPrior, Supersede, StopFails, PollActive,
         PollWaiting, PollClosing, PollFails, CreateMandate, InsertSub,
         SaveCustomer, SaveVerifiedUser, AfterMirror, Return, Goto, Continue
  <2> QED
    BY <1>s, <2>1, <2>2
<1>2. ASSUME NEW u \in Procs, StopMandate(u)
      PROVE  task'[t] = task[t] \/ StopMandate(t)
  <2>1. \E k : task' = [task EXCEPT ![u] = k]
    BY <1>2 DEF StopMandate, AfterStop, Goto, Continue
  <2> QED
    BY <1>0, <1>2, <2>1
<1>3. ASSUME NEW u \in Tasks, Start(u)
      PROVE  task'[t] = task[t]
  <2>1. \E k : Enter(u, k)
    BY <1>3 DEF Start, StartPaid, StartFailed, StartCancelled, StartOrderPaid,
         StartCreate, StartVerify, StartCancel, StartResume, StartCurrent
  <2> QED
    BY <1>s, <2>1 DEF Enter, Busy, Procs
<1>4. CASE StartExpiry
  BY <1>s, <1>4 DEF StartExpiry, Enter, Busy, Procs
<1>5. CASE PickExpired \/ ListEnding \/ EndExpiry
  BY <1>s, <1>5 DEF PickExpired, ListEnding, EndExpiry, Return, Continue, Procs
<1>6. CASE Environment \/ Tick \/ UNCHANGED vars \/ \E u \in Procs : Abort(u)
  BY <1>6, <1>f DEF Environment, Authorise, Charge, Revoke, PayOrder,
                    IgnoreOrphan, Tick, vars, Abort
<1> QED
  BY <1>1, <1>2, <1>3, <1>4, <1>5, <1>6 DEF Next, WorkerStep, Procs

\* What is ending goes on ending, and ends.
LEMMA EndingStays ==
  ASSUME TypeInv, KnownInv, [Next]_vars, faults' = 0, NEW s \in Subs, Ending(s)
  PROVE  Ending(s)'
<1>1. CASE gateway[s] = "CANCELLED"
  BY <1>1, GatewayStep DEF Ending, Items
<1>2. ASSUME NEW t \in Procs, task[t].pc = "stop", task[t].id = s
      PROVE  Ending(s)'
  <2>1. CASE task'[t] = task[t]
    BY <1>2, <2>1 DEF Ending, Stopping
  <2>2. CASE StopMandate(t)
    BY <1>2, <2>2, StopEnds DEF Ending
  <2> QED
    BY <1>2, <2>1, <2>2, StopIsNext
<1> QED
  BY <1>1, <1>2 DEF Ending, Stopping

-------------------------------------------------------------------------------
(* The handlers *)

\* Handler t goes on as k, which knows its mandates and ends them.
Moves(t, k) ==
  /\ task' = [task EXCEPT ![t] = k]
  /\ TaskKnows(gateway', k)
  /\ k.new \in Subs =>
       k.new = task[t].new \/ \A u \in Procs : task[u].new # k.new
  /\ faults = 0 => TaskEnds(k)

\* The record of a handler that begins and creates no mandate.
LEMMA HandlerMoves ==
  ASSUME NEW t, NEW pc, NEW act, NEW id, NEW ev, NEW doc, NEW g,
         UNCHANGED gateway, pc \notin {"pick", "prior"},
         pc \in {"save", "stop", "poll"} => gateway[id] # "none",
         pc = "save" /\ act # "cancel" /\ doc.status \in Ended => Ending(id),
         Enter(t, Handler(pc, act, id, ev, doc, g))
  PROVE  \E k : Moves(t, k)
<1> DEFINE k == Handler(pc, act, id, ev, doc, g)
<1>1. /\ k.pc = pc /\ k.act = act /\ k.id = id /\ k.doc = doc
      /\ k.new \notin Subs /\ k.todo = {}
  BY LifecycleAssumption DEF Handler, Items
<1>2. task' = [task EXCEPT ![t] = k]
  BY DEF Enter
<1> HIDE DEF k
<1>3. TaskKnows(gateway', k)
  BY <1>1 DEF TaskKnows
<1>4. TaskEnds(k)
  BY <1>1 DEF TaskEnds
<1> QED
  BY <1>1, <1>2, <1>3, <1>4 DEF Moves

\* A handler that ends.
LEMMA ReturnMoves ==
  ASSUME NEW t, Return(t) \/ Continue(t, Idle)
  PROVE  \E k : Moves(t, k)
<1>1. /\ Idle.pc = "idle" /\ Idle.new \notin Subs /\ Idle.todo = {}
      /\ Idle.act = "none"
  BY LifecycleAssumption DEF Idle, Handler, Items
<1>2. TaskKnows(gateway', Idle) /\ TaskEnds(Idle)
  BY <1>1 DEF TaskKnows, TaskEnds
<1> QED
  BY <1>1, <1>2 DEF Moves, Return, Continue

\* A handler that takes its next step with the same record.
LEMMA GotoMoves ==
  ASSUME TypeInv, MandateInv, NEW t \in Procs, NEW pc, Goto(t, pc),
         pc # "save", pc \in {"stop", "poll"} => task[t].pc = "save",
         pc = "pick" => task[t].act \in {"grace", "ending"},
         pc = "prior" => task[t].act = "paid",
         UNCHANGED gateway,
         task[t].new \in Subs =>
           (pc \in {"insert", "customer"} <=> task[t].pc \in {"insert", "customer"})
  PROVE  \E k : Moves(t, k)
<1> DEFINE k == [task[t] EXCEPT !.pc = pc]
<1>1. /\ k.pc = pc /\ k.act = task[t].act /\ k.id = task[t].id
      /\ k.todo = task[t].todo /\ k.new = task[t].new
  BY DocTypes DEF Task
<1>2. task' = [task EXCEPT ![t] = k]
  BY DEF Goto, Continue
<1> HIDE DEF k
<1>3. TaskKnows(gateway, task[t]) /\ (faults = 0 => TaskEnds(task[t]))
  BY DEF MandateInv, KnownInv, EndInv
<1>4. TaskKnows(gateway', k)
  BY <1>1, <1>3 DEF TaskKnows
<1>5. faults = 0 => TaskEnds(k)
  BY <1>1, <1>3 DEF TaskEnds
<1> QED
  BY <1>1, <1>2, <1>4, <1>5 DEF Moves
-------------------------------------------------------------------------------
\* Webhooks: only the notice of an ended mandate saves an ended subscription.
LEMMA StartWebhookMoves ==
  ASSUME TypeInv, MandateInv, NEW t \in Procs, NEW e \in events,
         StartPaid(t, e) \/ StartFailed(t, e) \/ StartCancelled(t, e)
           \/ StartOrderPaid(t, e)
  PROVE  \E k : Moves(t, k)
<1> USE DEF outside, history
<1>0. /\ e.kind \in {"failed", "cancelled"} => e.id \in Subs
      /\ e.kind = "cancelled" => gateway[e.id] = "CANCELLED"
      /\ \A s \in Subs : sub[s].status # "none" => gateway[s] # "none"
  BY DEF TypeInv, TypeOK, Event, MandateInv, KnownInv
<1>1. UNCHANGED gateway
  BY DEF StartPaid, StartFailed, StartCancelled, StartOrderPaid
<1>2. CASE StartPaid(t, e)
  <2>1. Activated(sub[e.id], e.at).status \notin Ended
    BY DEF Activated, Ended
  <2>2. gateway[e.id] # "none"
    BY <1>0, <1>2 DEF StartPaid
  <2> DEFINE g == Grant(OfferOf[e.id], "active", TRUE)
  <2>3. Enter(t, Handler("save", "paid", e.id, e, Activated(sub[e.id], e.at), g))
    BY <1>2 DEF StartPaid
  <2> HIDE DEF g
  <2> QED
    BY <1>1, <2>1, <2>2, <2>3, HandlerMoves
<1>3. CASE StartFailed(t, e)
  <2>1. PastDue(sub[e.id], e.at).status \notin Ended
    BY DEF PastDue, Ended
  <2>2. gateway[e.id] # "none"
    BY <1>0, <1>3 DEF StartFailed
  <2>3. CASE InGrace(sub[e.id])
    <3> DEFINE g == Grant(OfferOf[e.id], "past_due", TRUE)
    <3>1. Enter(t, Handler("entFind", "failed", e.id, e, sub[e.id], g))
      BY <1>3, <2>3 DEF StartFailed
    <3> HIDE DEF g
    <3> QED
      BY <1>1, <3>1, HandlerMoves
  <2>4. CASE ~InGrace(sub[e.id])
    <3> DEFINE g == Grant(OfferOf[e.id], "past_due", TRUE)
    <3>1. Enter(t, Handler("save", "failed", e.id, e, PastDue(sub[e.id], e.at), g))
      BY <1>3, <2>4 DEF StartFailed
    <3> HIDE DEF g
    <3> QED
      BY <1>1, <2>1, <2>2, <3>1, HandlerMoves
  <2> QED
    BY <2>3, <2>4
<1>4. CASE StartCancelled(t, e)
  <2>1. gateway[e.id] # "none" /\ Ending(e.id)
    BY <1>0, <1>4 DEF StartCancelled, Ending
  <2> DEFINE g == Grant(OfferOf[e.id], "canceled", TRUE)
  <2>2. Enter(t, Handler("save", "cancelled", e.id, e,
                         [sub[e.id] EXCEPT !.status = "canceled"], g))
    BY <1>4 DEF StartCancelled
  <2> HIDE DEF g
  <2> QED
    BY <1>1, <2>1, <2>2, HandlerMoves
<1>5. CASE StartOrderPaid(t, e)
  <2> DEFINE g == Grant(OfferOf[e.id], "active", TRUE)
  <2>1. Enter(t, Handler("entFind", "order", e.id, e, NoDoc, g))
    BY <1>5 DEF StartOrderPaid
  <2> HIDE DEF g
  <2> QED
    BY <1>1, <2>1, HandlerMoves
<1> QED
  BY <1>2, <1>3, <1>4, <1>5

\* Requests of the user: a cancellation is saved by the handler that goes on to
\* end the mandate, a new mandate is reserved by one request.
LEMMA StartRequestMoves ==
  ASSUME TypeInv, MandateInv, NEW t \in Procs,
         \/ StartCancel(t) \/ StartResume(t) \/ StartCurrent(t)
         \/ \E n \in Subs : StartCreate(t, n)
         \/ \E o \in Orders : StartVerify(t, o)
  PROVE  \E k : Moves(t, k)
<1> USE DEF outside, history
<1>0. \A s \in Subs : sub[s].status # "none" => gateway[s] # "none"
  BY DEF MandateInv, KnownInv
<1>1. UNCHANGED gateway
  BY DEF StartCancel, StartResume, StartCurrent, StartCreate, StartVerify
<1>2. CASE StartCancel(t)
  <2>1. PICK s \in WithStatus({"active", "past_due", "pending_authorization"}) :
          Enter(t, Handler("save", "cancel", s, Unset,
                           [sub[s] EXCEPT !.status = "cancel_at_period_end"],
                           NoGrant))
    BY <1>2 DEF StartCancel
  <2>2. gateway[s] # "none"
    BY <1>0 DEF WithStatus
  <2> QED
    BY <1>1, <2>1, <2>2, HandlerMoves
<1>3. CASE StartResume(t)
  <2>1. PICK s \in WithStatus({"pending_authorization"}) :
          Enter(t, Handler("poll", "resume", s, Unset, sub[s], NoGrant))
    BY <1>3 DEF StartResume
  <2>2. gateway[s] # "none"
    BY <1>0 DEF WithStatus
  <2> QED
    BY <1>1, <2>1, <2>2, HandlerMoves
<1>4. CASE StartCurrent(t)
  <2> DEFINE g == Grant(user.plan, user.status, TRUE)
  <2>1. Enter(t, Handler("entFind", "current", Unset, Unset, NoDoc, g))
    BY <1>4 DEF StartCurrent
  <2> HIDE DEF g
  <2> QED
    BY <1>1, <2>1, HandlerMoves
<1>5. ASSUME NEW o \in Orders, StartVerify(t, o)
      PROVE  \E k : Moves(t, k)
  <2> DEFINE g == Grant(OfferOf[o], "active", TRUE)
  <2>1. Enter(t, Handler("userSave", "verify", o, Unset, NoDoc, g))
    BY <1>5 DEF StartVerify
  <2> HIDE DEF g
  <2> QED
    BY <1>1, <2>1, HandlerMoves
<1>6. ASSUME NEW n \in Subs, StartCreate(t, n)
      PROVE  \E k : Moves(t, k)
  <2>1. PICK pc \in {"poll", "provider"}, id \in Items \cup {Unset}, d \in SubDoc :
          /\ Enter(t, [Handler(pc, "create", id, Unset, d, NoGrant)
                       EXCEPT !.new = n, !.usr = user])
          /\ pc = "poll" => gateway[id] # "none"
    BY <1>0, <1>6, NothingType, DocTypes DEF StartCreate, WithStatus, Items
  <2> DEFINE h == Handler(pc, "create", id, Unset, d, NoGrant)
             k == [h EXCEPT !.new = n, !.usr = user]
  <2>p. pc \in PC /\ "create" \in Act
    BY DEF PC, Act
  <2>2. h \in Task
    BY <2>p, NothingType, HandlerType
  <2>3. h.pc = pc /\ h.act = "create" /\ h.id = id /\ h.todo = {}
    BY DEF Handler
  <2> HIDE DEF h
  <2>4. k.pc = pc /\ k.act = "create" /\ k.id = id /\ k.todo = {} /\ k.new = n
    BY <2>2, <2>3 DEF Task
  <2> HIDE DEF k
  <2>5. gateway[n] = "none" /\ \A u \in Procs : task[u].new # n
    BY <1>6 DEF StartCreate, Unused
  <2>6. TaskKnows(gateway', k)
    BY <1>1, <2>1, <2>4, <2>5 DEF TaskKnows
  <2>7. TaskEnds(k)
    BY <2>4 DEF TaskEnds
  <2>8. task' = [task EXCEPT ![t] = k]
    BY <2>1 DEF Enter, h, k
  <2> QED
    BY <2>4, <2>5, <2>6, <2>7, <2>8 DEF Moves
<1> QED
  BY <1>2, <1>3, <1>4, <1>5, <1>6

\* The worker: what its second query lists is ending already.
LEMMA WorkerMoves ==
  ASSUME TypeInv, MandateInv,
         StartExpiry \/ PickExpired \/ ListEnding \/ EndExpiry
  PROVE  \E k : Moves(Worker, k)
<1> USE DEF outside, history
<1>w. /\ Worker \in Procs /\ task[Worker] \in Task
      /\ TaskKnows(gateway, task[Worker])
      /\ faults = 0 => TaskEnds(task[Worker])
  BY DocTypes DEF Procs, MandateInv, KnownInv, EndInv
<1>0. \A s \in Subs : sub[s].status # "none" => gateway[s] # "none"
  BY DEF MandateInv, KnownInv
<1>1. CASE StartExpiry
  <2> DEFINE S == Snapshots({s \in Subs : GraceOver(sub[s])})
             h == Handler("pick", "grace", Unset, Unset, NoDoc, NoGrant)
             k == [h EXCEPT !.todo = S]
  <2>1. \A x \in S : gateway[x.id] # "none"
    BY <1>0 DEF Snapshots, GraceOver
  <2>p. "pick" \in PC /\ "grace" \in Act
    BY DEF PC, Act
  <2>2. h \in Task
    BY <2>p, NothingType, HandlerType
  <2>3. h.pc = "pick" /\ h.act = "grace" /\ h.new = Unset
    BY DEF Handler
  <2>4. Enter(Worker, k) /\ UNCHANGED gateway
    BY <1>1 DEF StartExpiry
  <2> HIDE DEF S, h
  <2>5. k.pc = "pick" /\ k.act = "grace" /\ k.todo = S /\ k.new = Unset
    BY <2>2, <2>3 DEF Task
  <2> HIDE DEF k
  <2>6. TaskKnows(gateway', k) /\ TaskEnds(k) /\ k.new \notin Subs
    BY <2>1, <2>4, <2>5, LifecycleAssumption DEF TaskKnows, TaskEnds, Items
  <2> QED
    BY <2>4, <2>6 DEF Enter, Moves
<1>2. CASE PickExpired
  <2>1. PICK x \in task[Worker].todo :
          Continue(Worker,
            [task[Worker] EXCEPT
               !.pc = "save", !.id = x.id, !.todo = task[Worker].todo \ {x},
               !.doc = [x.doc EXCEPT
                          !.status = ExpiryOutcome(task[Worker].act).status],
               !.grant = ExpiryOutcome(task[Worker].act)])
    BY <1>2 DEF PickExpired
  <2> DEFINE S == task[Worker].todo \ {x}
             g == ExpiryOutcome(task[Worker].act)
             d == [x.doc EXCEPT !.status = g.status]
             k == [task[Worker] EXCEPT !.pc = "save", !.id = x.id, !.todo = S,
                                       !.doc = d, !.grant = g]
  <2>2. x \in Snapshot
    BY <1>w DEF Task
  <2>3. task[Worker].act = "grace" => g.status = "expired"
    BY DEF ExpiryOutcome, Grant
  <2>4. UNCHANGED gateway /\ task[Worker].pc = "pick"
    BY <1>2 DEF PickExpired
  <2>5. Continue(Worker, k)
    BY <2>1
  <2> HIDE DEF g
  <2>6. d.status = g.status
    BY <2>2 DEF Snapshot, SubDoc
  <2> HIDE DEF d
  <2>7. S \subseteq task[Worker].todo
    OBVIOUS
  <2> HIDE DEF S
  <2>8. /\ k.pc = "save" /\ k.id = x.id /\ k.todo = S /\ k.doc = d
        /\ k.act = task[Worker].act /\ k.new = task[Worker].new
    BY <1>w DEF Task
  <2> HIDE DEF k
  <2>9. TaskKnows(gateway', k)
    BY <1>w, <2>4, <2>7, <2>8 DEF TaskKnows
  <2>10. faults = 0 => TaskEnds(k)
    BY <1>w, <2>3, <2>4, <2>6, <2>7, <2>8 DEF TaskEnds, Ended
  <2> QED
    BY <2>5, <2>8, <2>9, <2>10 DEF Continue, Moves
<1>3. CASE ListEnding
  <2> DEFINE S == Snapshots({s \in Subs : PeriodOver(sub[s])})
             k == [task[Worker] EXCEPT !.act = "ending", !.todo = S]
  <2>1. \A x \in S : gateway[x.id] # "none" /\ (faults = 0 => Ending(x.id))
    BY <1>0 DEF Snapshots, PeriodOver, MandateInv, EndInv, Ended
  <2>2. Continue(Worker, k) /\ task[Worker].pc = "pick" /\ UNCHANGED gateway
    BY <1>3 DEF ListEnding
  <2> HIDE DEF S
  <2>3. k.pc = "pick" /\ k.act = "ending" /\ k.todo = S /\ k.new = task[Worker].new
    BY <1>w, <2>2 DEF Task
  <2> HIDE DEF k
  <2>4. TaskKnows(gateway', k) /\ (faults = 0 => TaskEnds(k))
    BY <1>w, <2>1, <2>2, <2>3 DEF TaskKnows, TaskEnds
  <2> QED
    BY <2>2, <2>3, <2>4 DEF Continue, Moves
<1>4. CASE EndExpiry
  BY <1>4, ReturnMoves DEF EndExpiry
<1> QED
  BY <1>1, <1>2, <1>3, <1>4

\* Synchronising the entitlement and writing the user names no mandate.
LEMMA SyncMoves ==
  ASSUME TypeInv, MandateInv, NEW t \in Procs,
         \/ FindEnt(t) \/ SaveEnt(t) \/ InsertEntRefused(t)
         \/ MirrorUser(t) \/ MirrorFails(t) \/ SaveCustomer(t)
         \/ SaveVerifiedUser(t)
  PROVE  \E k : Moves(t, k)
<1> USE DEF outside, history
<1>k. /\ task[t] \in Task /\ TaskKnows(gateway, task[t])
      /\ faults = 0 => TaskEnds(task[t])
  BY DocTypes DEF MandateInv, KnownInv, EndInv
<1>0. UNCHANGED gateway
  BY DEF FindEnt, SaveEnt, InsertEntRefused, MirrorUser, MirrorFails,
         SaveCustomer, SaveVerifiedUser
<1>1. CASE FindEnt(t)
  <2> DEFINE b == ent.exists
             k == [task[t] EXCEPT !.pc = "entSave", !.found = b]
  <2>1. Continue(t, k) /\ task[t].pc = "entFind"
    BY <1>1 DEF FindEnt
  <2> HIDE DEF b
  <2>2. /\ k.pc = "entSave" /\ k.act = task[t].act /\ k.id = task[t].id
        /\ k.todo = task[t].todo /\ k.new = task[t].new
    BY <1>k DEF Task
  <2> HIDE DEF k
  <2>3. TaskKnows(gateway', k) /\ (faults = 0 => TaskEnds(k))
    BY <1>k, <1>0, <2>1, <2>2 DEF TaskKnows, TaskEnds
  <2> QED
    BY <2>1, <2>2, <2>3 DEF Continue, Moves
<1>2. CASE SaveEnt(t) \/ SaveVerifiedUser(t)
  <2>1. /\ task[t].pc \in {"entSave", "userSave"}
        /\ Goto(t, "mirror") \/ Goto(t, "entFind")
    BY <1>2 DEF SaveEnt, SaveVerifiedUser
  <2> QED
    BY <1>0, <2>1, GotoMoves
<1>3. CASE MirrorUser(t) \/ MirrorFails(t)
  <2>1. AfterMirror(t) /\ task[t].pc = "mirror"
    BY <1>3 DEF MirrorUser, MirrorFails
  <2>2. \/ Goto(t, "prior") /\ task[t].act = "paid"
        \/ Goto(t, "pick") /\ task[t].act \in {"grace", "ending"}
        \/ Return(t)
    BY <2>1 DEF AfterMirror
  <2> QED
    BY <1>0, <2>1, <2>2, GotoMoves, ReturnMoves
<1>4. CASE InsertEntRefused(t) \/ SaveCustomer(t)
  BY <1>4, ReturnMoves DEF InsertEntRefused, SaveCustomer
<1> QED
  BY <1>1, <1>2, <1>3, <1>4

\* A handler whose mandate the gateway changes keeps its record.
LEMMA GatewayGotoMoves ==
  ASSUME TypeInv, MandateInv, [Next]_vars, NEW t \in Procs, NEW pc, Goto(t, pc),
         pc \in {"supersede", "insert"},
         task[t].new \in Subs =>
           (gateway'[task[t].new] # "none" <=> pc = "insert")
  PROVE  \E k : Moves(t, k)
<1> DEFINE k == [task[t] EXCEPT !.pc = pc]
<1>t. task[t] \in Task /\ task[t].todo \subseteq Snapshot
  BY DocTypes DEF Task
<1>1. /\ k.pc = pc /\ k.act = task[t].act
      /\ k.todo = task[t].todo /\ k.new = task[t].new
  BY <1>t DEF Task
<1>2. task' = [task EXCEPT ![t] = k]
  BY DEF Goto, Continue
<1> HIDE DEF k
<1>3. TaskKnows(gateway, task[t]) /\ (faults = 0 => TaskEnds(task[t]))
  BY DEF MandateInv, KnownInv, EndInv
<1>4. \A x \in k.todo : gateway'[x.id] # "none"
  <2>1. \A x \in k.todo : x.id \in Items /\ gateway[x.id] # "none"
    BY <1>t, <1>1, <1>3 DEF Snapshot, Items, TaskKnows
  <2> QED
    BY <2>1, GatewayStep DEF MandateInv
<1>5. TaskKnows(gateway', k)
  BY <1>1, <1>4 DEF TaskKnows
<1>6. faults = 0 => TaskEnds(k)
  BY <1>1, <1>3 DEF TaskEnds
<1> QED
  BY <1>1, <1>2, <1>5, <1>6 DEF Moves

\* A handler that ends a subscription goes on to end its mandate.
LEMMA MandateMoves ==
  ASSUME TypeInv, MandateInv, [Next]_vars, NEW t \in Procs,
         \/ SaveSub(t) \/ ListPrior(t) \/ Supersede(t) \/ StopMandate(t)
         \/ StopFails(t) \/ CreateMandate(t) \/ InsertSub(t)
  PROVE  \E k : Moves(t, k)
<1> USE DEF outside, history
<1>k. /\ task[t] \in Task /\ TaskKnows(gateway, task[t])
      /\ faults = 0 => TaskEnds(task[t])
      /\ task[t].new \in Subs \cup {Unset}
      /\ gateway \in [Items -> Mandate] /\ Subs \subseteq Items
  BY DocTypes DEF MandateInv, KnownInv, EndInv, Task, TypeInv, TypeOK, Items
<1>1. CASE SaveSub(t)
  <2> DEFINE pc == AfterSave(task[t].act)
  <2>1. Return(t) \/ Goto(t, pc)
    BY <1>1 DEF SaveSub
  <2>2. pc \in {"stop", "provider", "entFind"}
    BY DEF AfterSave
  <2>3. UNCHANGED gateway /\ task[t].pc = "save"
    BY <1>1 DEF SaveSub
  <2> HIDE DEF pc
  <2> QED
    BY <2>1, <2>2, <2>3, GotoMoves, ReturnMoves
<1>2. CASE ListPrior(t)
  <2> DEFINE S == Snapshots(WithStatus(Live) \ {task[t].id})
             k == [task[t] EXCEPT !.pc = "supersede", !.todo = S]
  <2>1. \A x \in S : gateway[x.id] # "none"
    BY DEF Snapshots, WithStatus, Live, MandateInv, KnownInv
  <2>2. Return(t) \/ Continue(t, k)
    BY <1>2 DEF ListPrior
  <2>3. UNCHANGED gateway /\ task[t].pc = "prior"
    BY <1>2 DEF ListPrior
  <2> HIDE DEF S
  <2>4. /\ k.pc = "supersede" /\ k.act = task[t].act /\ k.todo = S
        /\ k.new = task[t].new
    BY <1>k DEF Task
  <2> HIDE DEF k
  <2>5. TaskKnows(gateway', k) /\ (faults = 0 => TaskEnds(k))
    BY <1>k, <2>1, <2>3, <2>4 DEF TaskKnows, TaskEnds
  <2> QED
    BY <2>2, <2>4, <2>5, ReturnMoves DEF Continue, Moves
<1>3. CASE Supersede(t)
  <2>1. PICK x \in task[t].todo :
          Continue(t, [task[t] EXCEPT !.pc = "stop", !.id = x.id,
                                      !.todo = task[t].todo \ {x}])
    BY <1>3 DEF Supersede
  <2> DEFINE S == task[t].todo \ {x}
             k == [task[t] EXCEPT !.pc = "stop", !.id = x.id, !.todo = S]
  <2>2. Continue(t, k)
    BY <2>1
  <2>3. UNCHANGED gateway /\ task[t].pc = "supersede"
    BY <1>3 DEF Supersede
  <2>4. S \subseteq task[t].todo
    OBVIOUS
  <2> HIDE DEF S
  <2>5. /\ k.pc = "stop" /\ k.act = task[t].act /\ k.id = x.id /\ k.todo = S
        /\ k.new = task[t].new
    BY <1>k DEF Task
  <2> HIDE DEF k
  <2>6. TaskKnows(gateway', k)
    BY <1>k, <2>3, <2>4, <2>5 DEF TaskKnows
  <2>7. faults = 0 => TaskEnds(k)
    BY <1>k, <2>4, <2>5 DEF TaskEnds
  <2> QED
    BY <2>2, <2>5, <2>6, <2>7 DEF Continue, Moves
<1>4. CASE StopMandate(t)
  <2>1. Goto(t, "supersede") \/ Continue(t, Idle)
    BY <1>4 DEF StopMandate, AfterStop
  <2>2. task[t].new \in Subs => gateway'[task[t].new] = "none"
    BY <1>k, <1>4 DEF StopMandate, TaskKnows
  <2> QED
    BY <2>1, <2>2, GatewayGotoMoves, ReturnMoves
<1>5. CASE StopFails(t)
  <2>1. Goto(t, "supersede") \/ Continue(t, Idle)
    BY <1>5 DEF StopFails, AfterStop
  <2>2. UNCHANGED gateway /\ task[t].pc = "stop"
    BY <1>5 DEF StopFails
  <2> QED
    BY <2>1, <2>2, GotoMoves, ReturnMoves
<1>6. CASE CreateMandate(t)
  <2>1. task[t].new \in Subs => gateway'[task[t].new] # "none"
    BY <1>k, <1>6 DEF CreateMandate
  <2>2. Goto(t, "insert")
    BY <1>6 DEF CreateMandate
  <2> QED
    BY <2>1, <2>2, GatewayGotoMoves
<1>7. CASE InsertSub(t)
  <2>1. /\ Goto(t, "customer") \/ Return(t)
        /\ UNCHANGED gateway /\ task[t].pc = "insert"
    BY <1>7 DEF InsertSub
  <2> QED
    BY <2>1, GotoMoves, ReturnMoves
<1> QED
  BY <1>1, <1>2, <1>3, <1>4, <1>5, <1>6, <1>7

\* A poll ends no subscription: it saves an active or an abandoned one.
LEMMA PollMoves ==
  ASSUME TypeInv, MandateInv, NEW t \in Procs,
         PollActive(t) \/ PollWaiting(t) \/ PollClosing(t) \/ PollFails(t)
  PROVE  \E k : Moves(t, k)
<1> USE DEF outside, history
<1>k. /\ task[t] \in Task /\ TaskKnows(gateway, task[t])
      /\ faults = 0 => TaskEnds(task[t])
      /\ task[t].doc \in SubDoc
  BY DocTypes DEF MandateInv, KnownInv, EndInv, Task
<1>0. UNCHANGED gateway /\ task[t].pc = "poll"
  BY DEF PollActive, PollWaiting, PollClosing, PollFails
<1>1. CASE PollActive(t)
  <2> DEFINE d == [task[t].doc EXCEPT !.status = "active"]
             g == Grant(OfferOf[task[t].id], "active", TRUE)
             k == [task[t] EXCEPT !.pc = "save", !.act = "poll", !.doc = d,
                                  !.grant = g]
  <2>1. Continue(t, k)
    BY <1>1 DEF PollActive
  <2>2. d.status \notin Ended
    BY <1>k DEF SubDoc, Ended
  <2> HIDE DEF d, g
  <2>3. /\ k.pc = "save" /\ k.act = "poll" /\ k.doc = d /\ k.id = task[t].id
        /\ k.todo = task[t].todo /\ k.new = task[t].new
    BY <1>k DEF Task
  <2> HIDE DEF k
  <2>4. TaskKnows(gateway', k) /\ TaskEnds(k)
    BY <1>k, <1>0, <2>2, <2>3 DEF TaskKnows, TaskEnds
  <2> QED
    BY <2>1, <2>3, <2>4 DEF Continue, Moves
<1>2. CASE PollClosing(t)
  <2> DEFINE d == [task[t].doc EXCEPT !.status = "cancelled"]
             a == IF task[t].act = "create" THEN "abandon" ELSE "close"
             k == [task[t] EXCEPT !.pc = "save", !.act = a, !.doc = d]
  <2>1. Continue(t, k)
    BY <1>2 DEF PollClosing
  <2>2. d.status \notin Ended /\ a # "ending"
    BY <1>k DEF SubDoc, Ended
  <2> HIDE DEF d, a
  <2>3. /\ k.pc = "save" /\ k.act = a /\ k.doc = d /\ k.id = task[t].id
        /\ k.todo = task[t].todo /\ k.new = task[t].new
    BY <1>k DEF Task
  <2> HIDE DEF k
  <2>4. TaskKnows(gateway', k) /\ TaskEnds(k)
    BY <1>k, <1>0, <2>2, <2>3 DEF TaskKnows, TaskEnds
  <2> QED
    BY <2>1, <2>3, <2>4 DEF Continue, Moves
<1>3. CASE PollWaiting(t) \/ PollFails(t)
  <2>1. Goto(t, "provider") \/ Return(t)
    BY <1>3 DEF PollWaiting, PollFails
  <2> QED
    BY <1>0, <2>1, GotoMoves, ReturnMoves
<1> QED
  BY <1>1, <1>2, <1>3

-------------------------------------------------------------------------------
(* Every step *)

\* Every step moves one handler, or none.
LEMMA OneMoves ==
  ASSUME TypeInv, MandateInv, [Next]_vars
  PROVE  UNCHANGED task \/ \E t \in Procs : \E k : Moves(t, k)
<1>1. ASSUME NEW t \in Procs, Step(t)
      PROVE  \E k : Moves(t, k)
  BY <1>1, SyncMoves, MandateMoves, PollMoves DEF Step
<1>2. ASSUME NEW t \in Tasks, Start(t)
      PROVE  \E k : Moves(t, k)
  BY <1>2, StartWebhookMoves, StartRequestMoves DEF Start, Procs
<1>3. CASE StartExpiry \/ PickExpired \/ ListEnding \/ EndExpiry
  BY <1>3, WorkerMoves DEF Procs
<1>4. ASSUME NEW t \in Procs, Abort(t)
      PROVE  \E k : Moves(t, k)
  BY <1>4, ReturnMoves DEF Abort
<1>5. CASE Environment \/ Tick \/ UNCHANGED vars
  BY <1>5 DEF Environment, Authorise, Charge, Revoke, PayOrder, IgnoreOrphan,
              Tick, vars
<1> QED
  BY <1>1, <1>2, <1>3, <1>4, <1>5 DEF Next, WorkerStep, Procs

LEMMA KnownStep ==
  ASSUME TypeInv, MandateInv, [Next]_vars
  PROVE  KnownInv'
<1>0. task \in [Procs -> Task] /\ task' \in [Procs -> Task]
  BY TypeStep DEF TypeInv, TypeOK
<1>k. KnownInv /\ \A u \in Procs : TaskKnows(gateway, task[u])
  BY DEF MandateInv, KnownInv
\* A handler that does not move still knows what it knew.
<1>1. ASSUME NEW u \in Procs, task'[u] = task[u]
      PROVE  TaskKnows(gateway', task[u])
  <2>1. task[u].pc \in {"save", "stop", "poll"} => gateway'[task[u].id] # "none"
    BY <1>k, GatewayStep DEF TaskKnows, TypeInv, TaskOK, Items
  <2>2. \A x \in task[u].todo : gateway'[x.id] # "none"
    <3>1. \A x \in task[u].todo : x.id \in Items
      BY <1>0 DEF Task, Snapshot, Items
    <3> QED
      BY <1>k, <3>1, GatewayStep DEF TaskKnows
  <2>3. ASSUME task[u].new \in Subs
        PROVE  gateway'[task[u].new] # "none" <=> gateway[task[u].new] # "none"
    <3>1. SUFFICES ASSUME gateway[task[u].new] = "none",
                          gateway'[task[u].new] # "none"
                   PROVE  FALSE
      BY <1>k, <2>3, GatewayStep DEF Items
    <3>2. PICK t \in Procs : CreateMandate(t) /\ task[t].new = task[u].new
      BY <1>k, <2>3, <3>1, GatewayStep
    <3>3. t = u
      BY <1>k, <2>3, <3>2 DEF KnownInv, NewDiffers
    <3> DEFINE k == [task[u] EXCEPT !.pc = "insert"]
    <3>4. k.pc = "insert"
      BY <1>0 DEF Task
    <3>5. task'[u] = k /\ task[u].pc = "provider"
      BY <1>0, <3>2, <3>3 DEF CreateMandate, Goto, Continue
    <3> HIDE DEF k
    <3> QED
      BY <1>1, <3>4, <3>5
  <2> QED
    BY <1>k, <2>1, <2>2, <2>3 DEF TaskKnows
<1>2. CASE UNCHANGED task
  <2>1. \A u \in Procs : TaskKnows(gateway', task'[u])
    BY <1>1, <1>2
  <2>2. NewDiffers'
    BY <1>k, <1>2 DEF KnownInv, NewDiffers
  <2> QED
    BY <1>k, <2>1, <2>2, NoticesTrue, DocsKnown DEF KnownInv
<1>3. ASSUME NEW t \in Procs, NEW k, Moves(t, k)
      PROVE  KnownInv'
  <2>1. \A u \in Procs : task'[u] = IF u = t THEN k ELSE task[u]
    BY <1>0, <1>3 DEF Moves
  <2>2. \A u \in Procs : TaskKnows(gateway', task'[u])
    BY <1>1, <1>3, <2>1 DEF Moves
  <2>3. NewDiffers'
    <3>1. k.new \in Subs =>
            k.new = task[t].new \/ \A u \in Procs : task[u].new # k.new
      BY <1>3 DEF Moves
    <3>2. \A u, v \in Procs :
            task'[u].new \in Subs /\ task'[u].new = task'[v].new => u = v
      BY <1>k, <2>1, <3>1 DEF KnownInv, NewDiffers
    <3> QED
      BY <3>2 DEF NewDiffers
  <2> QED
    BY <1>k, <2>2, <2>3, NoticesTrue, DocsKnown DEF KnownInv
<1> QED
  BY <1>2, <1>3, OneMoves

\* No step takes a fault back.
LEMMA FaultsStay ==
  ASSUME TypeInv, [Next]_vars, faults' = 0
  PROVE  faults = 0
<1> USE DEF outside, history
<1>0. faults \in Nat
  BY LifecycleAssumption DEF TypeInv, TypeOK
<1>1. ASSUME NEW t \in Procs, Step(t) \/ Abort(t)
      PROVE  UNCHANGED faults \/ Fault
  BY <1>1 DEF Step, SaveSub, FindEnt, SaveEnt, InsertEntRefused, MirrorUser,
              MirrorFails, ListPrior, Supersede, StopMandate, StopFails,
              PollActive, PollWaiting, PollClosing, PollFails, CreateMandate,
              InsertSub, SaveCustomer, SaveVerifiedUser, Abort
<1>2. ASSUME NEW t \in Tasks, Start(t)
      PROVE  UNCHANGED faults
  BY <1>2 DEF Start, StartPaid, StartFailed, StartCancelled, StartOrderPaid,
              StartCreate, StartVerify, StartCancel, StartResume, StartCurrent
<1>3. CASE \/ StartExpiry \/ PickExpired \/ ListEnding \/ EndExpiry
           \/ Environment \/ Tick \/ UNCHANGED vars
  BY <1>3 DEF StartExpiry, PickExpired, ListEnding, EndExpiry, Environment,
              Authorise, Charge, Revoke, PayOrder, IgnoreOrphan, Tick, vars
<1>4. UNCHANGED faults \/ Fault
  BY <1>1, <1>2, <1>3 DEF Next, WorkerStep, Procs
<1> QED
  BY <1>0, <1>4 DEF Fault

LEMMA EndStep ==
  ASSUME TypeInv, MandateInv, [Next]_vars
  PROVE  EndInv'
<1> SUFFICES ASSUME faults' = 0
             PROVE  /\ \A s \in Subs : sub'[s].status \in Ended => Ending(s)'
                    /\ \A t \in Procs : TaskEnds(task[t])'
  BY DEF EndInv
<1>0. /\ task \in [Procs -> Task] /\ task' \in [Procs -> Task]
      /\ KnownInv
      /\ \A s \in Subs : sub[s].status \in Ended => Ending(s)
      /\ \A t \in Procs : TaskEnds(task[t])
  BY TypeStep, FaultsStay DEF MandateInv, EndInv, TypeInv, TypeOK
<1>1. ASSUME NEW s \in Subs, sub'[s].status \in Ended
      PROVE  Ending(s)'
  <2>1. CASE sub'[s] = sub[s]
    BY <1>0, <1>1, <2>1, EndingStays
  <2>2. ASSUME NEW t \in Procs, SaveSub(t), task[t].id = s, sub'[s] = task[t].doc
        PROVE  Ending(s)'
    <3>1. CASE task[t].act = "cancel"
      <4> DEFINE k == [task[t] EXCEPT !.pc = "stop"]
      <4>1. k.pc = "stop" /\ k.id = s
        BY <1>0, <2>2 DEF Task
      <4>2. task'[t] = k
        BY <1>0, <2>2, <3>1 DEF SaveSub, AfterSave, Goto, Continue
      <4> HIDE DEF k
      <4> QED
        BY <4>1, <4>2 DEF Ending, Stopping
    <3>2. CASE task[t].act # "cancel"
      <4>1. Ending(s)
        BY <1>0, <1>1, <2>2, <3>2 DEF SaveSub, TaskEnds
      <4> QED
        BY <1>0, <4>1, EndingStays
    <3> QED
      BY <3>1, <3>2
  <2>3. ASSUME NEW t \in Procs, task'[t].pc = "stop", task'[t].id = s
        PROVE  Ending(s)'
    BY <2>3 DEF Ending, Stopping
  <2>4. sub'[s].status # "pending_authorization"
    BY <1>1 DEF Ended
  <2> QED
    BY <2>1, <2>2, <2>3, <2>4, SubMoves
<1>2. ASSUME NEW t \in Procs
      PROVE  TaskEnds(task[t])'
  <2>1. TaskEnds(task'[t])
    <3>1. CASE UNCHANGED task
      BY <1>0, <3>1
    <3>2. ASSUME NEW u \in Procs, NEW k, Moves(u, k)
          PROVE  TaskEnds(task'[t])
      <4>1. task'[t] = IF t = u THEN k ELSE task[t]
        BY <1>0, <3>2 DEF Moves
      <4> QED
        BY <1>0, <3>2, <4>1, FaultsStay DEF Moves
    <3> QED
      BY <3>1, <3>2, OneMoves
  <2>2. task'[t].pc = "save" => task'[t].id \in Subs
    BY TypeStep DEF TypeInv, TaskOK
  <2>3. \A x \in task'[t].todo : x.id \in Subs
    BY <1>0 DEF Task, Snapshot
  <2>4. \A s \in Subs : Ending(s) => Ending(s)'
    BY <1>0, EndingStays
  <2> QED
    BY <2>1, <2>2, <2>3, <2>4 DEF TaskEnds
<1> QED
  BY <1>1, <1>2

LEMMA MandateInit == Init => MandateInv
<1> SUFFICES ASSUME Init PROVE MandateInv
  OBVIOUS
<1>1. /\ Idle.pc = "idle" /\ Idle.new \notin Subs /\ Idle.todo = {}
      /\ Idle.act = "none" /\ NoDoc.status = "none"
  BY LifecycleAssumption DEF Idle, Handler, Items, NoDoc
<1>2. \A t \in Procs : task[t] = Idle
  BY DEF Init
<1>3. KnownInv
  BY <1>1, <1>2 DEF Init, KnownInv, TaskKnows, NewDiffers
<1>4. EndInv
  BY <1>1, <1>2 DEF Init, EndInv, TaskEnds, Ended
<1> QED
  BY <1>3, <1>4 DEF MandateInv

\* However many handlers overlap, a subscription the application has ended or
\* replaced has no mandate left to charge, once no handler runs and none failed.
THEOREM NoMandateSurvives == Spec => []NoChargeableMandateLeft
<1>1. Init => TypeInv /\ MandateInv
  BY TypeInit, MandateInit
<1>2. TypeInv /\ MandateInv /\ [Next]_vars => (TypeInv /\ MandateInv)'
  BY TypeStep, KnownStep, EndStep DEF MandateInv
<1>3. TypeInv /\ MandateInv => NoChargeableMandateLeft
  <2> SUFFICES ASSUME TypeInv, MandateInv, Quiet, faults = 0,
                      NEW s \in Subs, sub[s].status \in Ended
               PROVE  gateway[s] = "CANCELLED"
    BY DEF NoChargeableMandateLeft, WithStatus, Ended
  <2>1. Ending(s)
    BY DEF MandateInv, EndInv
  <2>2. ~Stopping(s)
    BY DEF Quiet, Busy, Stopping
  <2> QED
    BY <2>1, <2>2 DEF Ending
<1> QED
  BY <1>1, <1>2, <1>3, PTL DEF Spec
===============================================================================
