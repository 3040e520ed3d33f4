------------------------- MODULE BillingSerial_proofs -------------------------
(***************************************************************************)
(* What holds of the subscription lifecycle while handlers do not overlap, *)
(* for every number of subscriptions and orders: a grace period is never   *)
(* extended, whatever fails; and if nothing fails, the entitlement follows *)
(* the subscription that pays, the User document mirrors it, one           *)
(* subscription is active, and a mandate that may be charged is known.     *)
(***************************************************************************)
EXTENDS BillingLifecycle_proofs, FiniteSetTheorems

-------------------------------------------------------------------------------
(* One handler at a time *)

IdleInv == \A t \in Procs : ~Busy(t) => task[t] = Idle
Alone(t) == \A u \in Procs : Busy(u) => u = t
SoloInv == overlaps = 0 => \A t \in Procs : Busy(t) => Alone(t)

\* Only a decline outside a grace period is going to be saved as one.
Due(k) == k.pc = "save" /\ k.doc.status = "past_due" => ~InGrace(sub[k.id])

\* Handler t goes on with record k, or begins, counted if another is at work.
\* A document is computed from what is stored, and saved in a later step.
Turn(t, k) ==
  /\ Continue(t, k)
  /\ k.pc = "idle" => k = Idle
  /\ k.pc = "save" => Due(k) /\ UNCHANGED sub
  /\ \/ Busy(t) /\ overlaps' = overlaps
     \/ Quiet /\ overlaps' = overlaps
     \/ overlaps' = overlaps + 1

\* A handler that takes its next step with the same record.
LEMMA GotoFields ==
  ASSUME TypeInv, NEW t \in Procs, NEW pc, Goto(t, pc)
  PROVE  \E k : /\ Continue(t, k) /\ k.pc = pc
                /\ k.act = task[t].act /\ k.id = task[t].id /\ k.new = task[t].new
                /\ k.ev = task[t].ev /\ k.doc = task[t].doc
                /\ k.grant = task[t].grant /\ k.usr = task[t].usr
                /\ k.found = task[t].found /\ k.todo = task[t].todo
<1> DEFINE k == [task[t] EXCEPT !.pc = pc]
<1>1. /\ k.pc = pc /\ k.act = task[t].act /\ k.id = task[t].id
      /\ k.new = task[t].new /\ k.ev = task[t].ev /\ k.doc = task[t].doc
      /\ k.grant = task[t].grant /\ k.usr = task[t].usr
      /\ k.found = task[t].found /\ k.todo = task[t].todo
  BY DocTypes DEF Task
<1>2. Continue(t, k)
  BY DEF Goto
<1> HIDE DEF k
<1> QED
  BY <1>1, <1>2

LEMMA EnterTurn ==
  ASSUME NEW t, NEW k, Enter(t, k), k.pc # "idle",
         k.pc = "save" => Due(k) /\ UNCHANGED sub
  PROVE  Turn(t, k)
  BY DEF Enter, Turn, Continue

LEMMA HandlerTurn ==
  ASSUME NEW t, NEW pc, NEW act, NEW id, NEW ev, NEW doc, NEW g,
         Enter(t, Handler(pc, act, id, ev, doc, g)), pc # "idle",
         UNCHANGED sub, doc.status = "past_due" => ~InGrace(sub[id])
  PROVE  \E k : Turn(t, k)
<1> DEFINE k == Handler(pc, act, id, ev, doc, g)
<1>1. k.pc = pc /\ k.id = id /\ k.doc = doc /\ Enter(t, k)
  BY DEF Handler
<1> HIDE DEF k
<1> QED
  BY <1>1, EnterTurn DEF Due

LEMMA StartTurn ==
  ASSUME TypeInv, NEW t \in Tasks, Start(t)
  PROVE  \E k : Turn(t, k)
<1>1. ASSUME NEW e \in events, StartPaid(t, e) \/ StartOrderPaid(t, e)
      PROVE  \E k : Turn(t, k)
  <2>1. Activated(sub[e.id], e.at).status # "past_due" /\ NoDoc.status # "past_due"
    BY DEF Activated, NoDoc
  <2> QED
    BY <1>1, <2>1, HandlerTurn DEF StartPaid, StartOrderPaid
<1>4. ASSUME NEW e \in events, StartFailed(t, e)
      PROVE  \E k : Turn(t, k)
  <2> DEFINE g == Grant(OfferOf[e.id], "past_due", TRUE)
             d == PastDue(sub[e.id], e.at)
  <2>1. CASE ~InGrace(sub[e.id])
    <3>1. Enter(t, Handler("save", "failed", e.id, e, d, g)) /\ UNCHANGED sub
      BY <1>4, <2>1 DEF StartFailed
    <3> HIDE DEF d, g
    <3> QED
      BY <2>1, <3>1, HandlerTurn
  <2>2. CASE InGrace(sub[e.id])
    <3> DEFINE k == Handler("entFind", "failed", e.id, e, sub[e.id], g)
    <3>1. Enter(t, k)
      BY <1>4, <2>2 DEF StartFailed
    <3>2. k.pc = "entFind"
      BY DEF Handler
    <3> HIDE DEF k
    <3> QED
      BY <3>1, <3>2, EnterTurn
  <2> QED
    BY <2>1, <2>2
<1>5. ASSUME NEW e \in events, StartCancelled(t, e)
      PROVE  \E k : Turn(t, k)
  <2>1. e.id \in Subs
    BY <1>5 DEF StartCancelled, TypeInv, TypeOK, Event
  <2>2. [sub[e.id] EXCEPT !.status = "canceled"].status # "past_due"
    BY <2>1, DocTypes DEF SubDoc
  <2> QED
    BY <1>5, <2>2, HandlerTurn DEF StartCancelled
<1>2. ASSUME NEW n \in Subs, StartCreate(t, n)
      PROVE  \E k : Turn(t, k)
  <2>1. PICK pc \in {"poll", "provider"}, id \in Items \cup {Unset}, d \in SubDoc :
          Enter(t, [Handler(pc, "create", id, Unset, d, NoGrant)
                    EXCEPT !.new = n, !.usr = user])
    BY <1>2, NothingType, DocTypes DEF StartCreate, WithStatus, Items
  <2> DEFINE h == Handler(pc, "create", id, Unset, d, NoGrant)
             k == [h EXCEPT !.new = n, !.usr = user]
  <2>p. pc \in PC /\ "create" \in Act
    BY DEF PC, Act
  <2>2. h \in Task /\ h.pc = pc
    BY <2>p, NothingType, HandlerType
  <2>3. Enter(t, k)
    BY <2>1
  <2> HIDE DEF h
  <2>4. k.pc \notin {"idle", "save"}
    BY <2>2 DEF Task
  <2> HIDE DEF k
  <2> QED
    BY <2>3, <2>4, EnterTurn
<1>3. CASE StartCurrent(t) \/ \E o \in Orders : StartVerify(t, o)
  <2>1. NoDoc.status # "past_due"
    BY DEF NoDoc
  <2> QED
    BY <1>3, <2>1, HandlerTurn DEF StartCurrent, StartVerify
<1>6. CASE StartCancel(t)
  <2>1. PICK s \in Subs :
          Enter(t, Handler("save", "cancel", s, Unset,
                           [sub[s] EXCEPT !.status = "cancel_at_period_end"],
                           NoGrant))
    BY <1>6 DEF StartCancel, WithStatus
  <2>2. [sub[s] EXCEPT !.status = "cancel_at_period_end"].status # "past_due"
    BY DocTypes DEF SubDoc
  <2> QED
    BY <1>6, <2>1, <2>2, HandlerTurn DEF StartCancel
<1>7. CASE StartResume(t)
  <2>1. PICK s \in Subs : /\ sub[s].status = "pending_authorization"
                          /\ Enter(t, Handler("poll", "resume", s, Unset, sub[s],
                                              NoGrant))
    BY <1>7 DEF StartResume, WithStatus
  <2> QED
    BY <1>7, <2>1, HandlerTurn DEF StartResume
<1> QED
  BY <1>1, <1>2, <1>3, <1>4, <1>5, <1>6, <1>7 DEF Start

LEMMA WorkerTurn ==
  ASSUME TypeInv, StartExpiry \/ PickExpired \/ ListEnding \/ EndExpiry
  PROVE  \E k : Turn(Worker, k)
<1>w. Worker \in Procs /\ task[Worker] \in Task
  BY DocTypes DEF Procs
<1>1. CASE StartExpiry
  <2> DEFINE S == Snapshots({s \in Subs : GraceOver(sub[s])})
             h == Handler("pick", "grace", Unset, Unset, NoDoc, NoGrant)
             k == [h EXCEPT !.todo = S]
  <2>p. "pick" \in PC /\ "grace" \in Act
    BY DEF PC, Act
  <2>1. h \in Task /\ h.pc = "pick"
    BY <2>p, NothingType, HandlerType
  <2>2. Enter(Worker, k)
    BY <1>1 DEF StartExpiry
  <2> HIDE DEF S, h
  <2>3. k.pc = "pick"
    BY <2>1 DEF Task
  <2> HIDE DEF k
  <2> QED
    BY <2>2, <2>3, EnterTurn
<1>2. CASE PickExpired
  <2>1. PICK x \in task[Worker].todo :
          Continue(Worker,
            [task[Worker] EXCEPT
               !.pc = "save", !.id = x.id, !.todo = task[Worker].todo \ {x},
               !.doc = [x.doc EXCEPT
                          !.status = ExpiryOutcome(task[Worker].act).status],
               !.grant = ExpiryOutcome(task[Worker].act)])
    BY <1>2 DEF PickExpired
  <2> DEFINE S == task[Worker].todo \ {x}
             g == ExpiryOutcome(task[Worker].act)
             d == [x.doc EXCEPT !.status = g.status]
             k == [task[Worker] EXCEPT !.pc = "save", !.id = x.id, !.todo = S,
                                       !.doc = d, !.grant = g]
  <2>2. Continue(Worker, k) /\ Busy(Worker) /\ UNCHANGED <<overlaps, sub>>
    BY <1>2, <2>1 DEF PickExpired, Busy
  <2>3. g.status # "past_due" /\ x \in Snapshot
    BY <1>w DEF ExpiryOutcome, Grant, Task
  <2> HIDE DEF S, g
  <2>4. d.status # "past_due"
    BY <2>3 DEF Snapshot, SubDoc
  <2> HIDE DEF d
  <2>5. k.pc = "save" /\ k.doc = d
    BY <1>w DEF Task
  <2> HIDE DEF k
  <2> QED
    BY <2>2, <2>4, <2>5 DEF Turn, Due
<1>3. CASE ListEnding
  <2> DEFINE S == Snapshots({s \in Subs : PeriodOver(sub[s])})
             k == [task[Worker] EXCEPT !.act = "ending", !.todo = S]
  <2>1. /\ Continue(Worker, k) /\ task[Worker].pc = "pick" /\ overlaps' = overlaps
    BY <1>3 DEF ListEnding
  <2> HIDE DEF S
  <2>2. k.pc = "pick"
    BY <1>w, <2>1 DEF Task
  <2> HIDE DEF k
  <2> QED
    BY <2>1, <2>2 DEF Turn, Busy
<1>4. CASE EndExpiry
  BY <1>4, IdleType DEF EndExpiry, Return, Turn, Continue, Busy
<1> QED
  BY <1>1, <1>2, <1>3, <1>4

LEMMA StepTurn ==
  ASSUME TypeInv, NEW t \in Procs, Step(t) \/ Abort(t)
  PROVE  \E k : Turn(t, k)
<1>k. task[t] \in Task
  BY DocTypes
<1>0. Busy(t) /\ overlaps' = overlaps
  BY DEF Step, Abort, Busy, SaveSub, FindEnt, SaveEnt, InsertEntRefused, MirrorUser,
         MirrorFails, ListPrior, Supersede, StopMandate, StopFails, PollActive,
         PollWaiting, PollClosing, PollFails, CreateMandate, InsertSub,
         SaveCustomer, SaveVerifiedUser
<1>g. ASSUME NEW pc, Goto(t, pc), pc \notin {"idle", "save"}
      PROVE  \E k : Turn(t, k)
  BY <1>0, <1>g, GotoFields DEF Turn
<1>r. ASSUME Return(t) \/ Continue(t, Idle)
      PROVE  \E k : Turn(t, k)
  BY <1>0, <1>r, IdleType DEF Turn, Return, Continue
<1>1. CASE FindEnt(t)
  <2> DEFINE k == [task[t] EXCEPT !.pc = "entSave", !.found = ent.exists]
  <2>1. Continue(t, k) /\ k.pc = "entSave"
    BY <1>k, <1>1 DEF FindEnt, Task
  <2> HIDE DEF k
  <2> QED
    BY <1>0, <2>1 DEF Turn
<1>2. CASE ListPrior(t)
  <2> DEFINE S == Snapshots(WithStatus(Live) \ {task[t].id})
             k == [task[t] EXCEPT !.pc = "supersede", !.todo = S]
  <2>1. Return(t) \/ Continue(t, k)
    BY <1>2 DEF ListPrior
  <2> HIDE DEF S
  <2>2. k.pc = "supersede"
    BY <1>k DEF Task
  <2> HIDE DEF k
  <2> QED
    BY <1>0, <1>r, <2>1, <2>2 DEF Turn
<1>3. CASE Supersede(t)
  <2>1. PICK x \in task[t].todo :
          Continue(t, [task[t] EXCEPT !.pc = "stop", !.id = x.id,
                                      !.todo = task[t].todo \ {x}])
    BY <1>3 DEF Supersede
  <2> DEFINE S == task[t].todo \ {x}
             k == [task[t] EXCEPT !.pc = "stop", !.id = x.id, !.todo = S]
  <2>2. Continue(t, k)
    BY <2>1
  <2> HIDE DEF S
  <2>3. k.pc = "stop"
    BY <1>k DEF Task
  <2> HIDE DEF k
  <2> QED
    BY <1>0, <2>2, <2>3 DEF Turn
<1>4. CASE PollActive(t)
  <2> DEFINE d == [task[t].doc EXCEPT !.status = "active"]
             g == Grant(OfferOf[task[t].id], "active", TRUE)
             k == [task[t] EXCEPT !.pc = "save", !.act = "poll", !.doc = d,
                                  !.grant = g]
  <2>1. Continue(t, k) /\ UNCHANGED sub /\ d.status # "past_due"
    BY <1>k, <1>4 DEF PollActive, Task, SubDoc
  <2> HIDE DEF d, g
  <2>2. k.pc = "save" /\ k.doc = d
    BY <1>k DEF Task
  <2> HIDE DEF k
  <2> QED
    BY <1>0, <2>1, <2>2 DEF Turn, Due
<1>5. CASE PollClosing(t)
  <2> DEFINE d == [task[t].doc EXCEPT !.status = "cancelled"]
             a == IF task[t].act = "create" THEN "abandon" ELSE "close"
             k == [task[t] EXCEPT !.pc = "save", !.act = a, !.doc = d]
  <2>1. Continue(t, k) /\ UNCHANGED sub /\ d.status # "past_due"
    BY <1>k, <1>5 DEF PollClosing, Task, SubDoc
  <2> HIDE DEF d, a
  <2>2. k.pc = "save" /\ k.doc = d
    BY <1>k DEF Task
  <2> HIDE DEF k
  <2> QED
    BY <1>0, <2>1, <2>2 DEF Turn, Due
<1>6. CASE SaveSub(t)
  <2>1. AfterSave(task[t].act) \notin {"idle", "save"}
    BY DEF AfterSave
  <2> QED
    BY <1>g, <1>r, <1>6, <2>1 DEF SaveSub
<1>7. CASE MirrorUser(t) \/ MirrorFails(t)
  BY <1>g, <1>r, <1>7 DEF MirrorUser, MirrorFails, AfterMirror
<1>8. CASE StopMandate(t) \/ StopFails(t)
  BY <1>g, <1>r, <1>8 DEF StopMandate, StopFails, AfterStop
<1>9. CASE \/ SaveEnt(t) \/ InsertEntRefused(t) \/ PollWaiting(t) \/ PollFails(t)
           \/ CreateMandate(t) \/ InsertSub(t) \/ SaveCustomer(t)
           \/ SaveVerifiedUser(t) \/ Abort(t)
  BY <1>g, <1>r, <1>9
     DEF SaveEnt, InsertEntRefused, PollWaiting, PollFails, CreateMandate,
         InsertSub, SaveCustomer, SaveVerifiedUser, Abort
<1> QED
  BY <1>1, <1>2, <1>3, <1>4, <1>5, <1>6, <1>7, <1>8, <1>9 DEF Step

LEMMA NextTurn ==
  ASSUME TypeInv, [Next]_vars
  PROVE  UNCHANGED <<task, overlaps>> \/ \E t \in Procs : \E k : Turn(t, k)
<1>1. CASE Environment \/ Tick \/ UNCHANGED vars
  BY <1>1 DEF Environment, Authorise, Charge, Revoke, PayOrder, IgnoreOrphan, Tick,
              vars
<1> QED
  BY <1>1, StartTurn, WorkerTurn, StepTurn DEF Next, WorkerStep, Procs

LEMMA SoloStep ==
  ASSUME TypeInv, IdleInv, SoloInv, [Next]_vars
  PROVE  IdleInv' /\ SoloInv' /\ (overlaps' = 0 => overlaps = 0)
<1>0. task \in [Procs -> Task] /\ overlaps \in Nat
  BY LifecycleAssumption DEF TypeInv, TypeOK
<1>1. CASE UNCHANGED <<task, overlaps>>
  BY <1>1 DEF IdleInv, SoloInv, Alone, Busy
<1>2. ASSUME NEW t \in Procs, NEW k, Turn(t, k)
      PROVE  IdleInv' /\ SoloInv' /\ (overlaps' = 0 => overlaps = 0)
  <2>1. \A u \in Procs : task'[u] = IF u = t THEN k ELSE task[u]
    BY <1>0, <1>2 DEF Turn, Continue
  <2>2. overlaps' = 0 => overlaps = 0 /\ Alone(t)
    BY <1>0, <1>2 DEF Turn, SoloInv, Alone, Quiet
  <2>3. IdleInv'
    BY <1>2, <2>1 DEF IdleInv, Busy, Turn
  <2>4. SoloInv'
    BY <2>1, <2>2 DEF SoloInv, Alone, Busy
  <2> QED
    BY <2>2, <2>3, <2>4
<1> QED
  BY <1>1, <1>2, NextTurn

LEMMA SoloInit == Init => IdleInv /\ SoloInv
  BY IdleType DEF Init, IdleInv, SoloInv, Busy

-------------------------------------------------------------------------------
(* A repeated decline buys no time *)

\* While handlers do not overlap, a decline is saved on the document it found.
DueInv == overlaps = 0 => \A t \in Procs : Due(task[t])

\* Three steps write a subscription.
LEMMA Writers ==
  ASSUME [Next]_vars, sub' # sub
  PROVE  \E t \in Procs : SaveSub(t) \/ Supersede(t) \/ InsertSub(t)
<1>1. ASSUME NEW t \in Procs, Step(t) \/ Abort(t), ~SaveSub(t), ~Supersede(t),
             ~InsertSub(t)
      PROVE  UNCHANGED sub
  BY <1>1 DEF Step, Abort, FindEnt, SaveEnt, InsertEntRefused, MirrorUser,
       MirrorFails, ListPrior, StopMandate, StopFails, PollActive, PollWaiting,
       PollClosing, PollFails, CreateMandate, SaveCustomer, SaveVerifiedUser
<1>2. ASSUME NEW t \in Tasks, Start(t)
      PROVE  UNCHANGED sub
  BY <1>2 DEF Start, StartPaid, StartFailed, StartCancelled, StartOrderPaid,
              StartCreate, StartVerify, StartCancel, StartResume, StartCurrent
<1>3. CASE \/ StartExpiry \/ PickExpired \/ ListEnding \/ EndExpiry
           \/ Environment \/ Tick \/ UNCHANGED vars
  BY <1>3 DEF StartExpiry, PickExpired, ListEnding, EndExpiry, Environment,
              Authorise, Charge, Revoke, PayOrder, IgnoreOrphan, Tick, vars
<1> QED
  BY <1>1, <1>2, <1>3 DEF Next, WorkerStep, Procs

\* What a save writes is the handler's document, and it goes on from there; no
\* other write puts a subscription in a grace period.
LEMMA SubWrites ==
  ASSUME TypeInv, [Next]_vars, NEW s \in Subs, sub'[s] # sub[s]
  PROVE  \/ \E t \in Procs :
              /\ task[t].pc = "save" /\ task[t].id = s /\ sub'[s] = task[t].doc
         \/ sub'[s].status # "past_due"
<1>0. sub \in [Subs -> SubDoc] /\ task \in [Procs -> Task]
  BY DEF TypeInv, TypeOK
<1>1. ASSUME NEW t \in Procs, SaveSub(t)
      PROVE  task[t].pc = "save" /\ task[t].id = s /\ sub'[s] = task[t].doc
  BY <1>0, <1>1 DEF SaveSub
<1>2. ASSUME NEW t \in Procs, Supersede(t)
      PROVE  sub'[s].status # "past_due"
  <2>1. PICK x \in task[t].todo :
          sub' = [sub EXCEPT ![x.id] = [x.doc EXCEPT !.status = "superseded"]]
    BY <1>2 DEF Supersede
  <2>2. [x.doc EXCEPT !.status = "superseded"].status = "superseded"
    BY <1>0 DEF Task, Snapshot, SubDoc
  <2> QED
    BY <1>0, <2>1, <2>2
<1>3. ASSUME NEW t \in Procs, InsertSub(t)
      PROVE  sub'[s].status # "past_due"
  BY <1>0, <1>3 DEF InsertSub, Pending
<1> QED
  BY <1>1, <1>2, <1>3, Writers

LEMMA SavedMovesOn ==
  ASSUME TypeInv, NEW t \in Procs, SaveSub(t)
  PROVE  task'[t].pc # "save"
<1>1. CASE Return(t)
  BY <1>1, IdleType DEF Return, TypeInv, TypeOK
<1>2. CASE Goto(t, AfterSave(task[t].act))
  <2>1. PICK k : Continue(t, k) /\ k.pc = AfterSave(task[t].act)
    BY <1>2, GotoFields
  <2>2. task'[t] = k
    BY <2>1 DEF Continue, TypeInv, TypeOK
  <2> QED
    BY <2>1, <2>2 DEF AfterSave
<1> QED
  BY <1>1, <1>2 DEF SaveSub

\* A handler about to save is not moved and sees no other write.
LEMMA DueStep ==
  ASSUME TypeInv, IdleInv, SoloInv, DueInv, [Next]_vars
  PROVE  DueInv'
<1> SUFFICES ASSUME overlaps' = 0, NEW u \in Procs
             PROVE  Due(task[u])'
  BY DEF DueInv
<1>0. overlaps = 0 /\ task \in [Procs -> Task] /\ Due(task[u])
  BY SoloStep DEF DueInv, TypeInv, TypeOK
<1>1. CASE task'[u] = task[u]
  <2>1. CASE UNCHANGED sub
    BY <1>0, <1>1, <2>1 DEF Due, InGrace
  <2>2. CASE sub' # sub /\ task[u].pc = "save"
    <3>1. PICK t \in Procs : SaveSub(t) \/ Supersede(t) \/ InsertSub(t)
      BY <2>2, Writers
    <3>2. t = u
      BY <1>0, <2>2, <3>1
         DEF SoloInv, Alone, Busy, SaveSub, Supersede, InsertSub
    <3>3. SaveSub(u)
      BY <2>2, <3>1, <3>2 DEF Supersede, InsertSub
    <3> QED
      BY <1>1, <2>2, <3>3, SavedMovesOn
  <2> QED
    BY <1>1, <2>1, <2>2 DEF Due
<1>2. CASE task'[u] # task[u]
  <2>1. PICK t, k : t \in Procs /\ Turn(t, k)
    BY <1>2, NextTurn
  <2>2. task'[u] = k
    BY <1>0, <1>2, <2>1 DEF Turn, Continue
  <2>3. Due(k)'
    BY <2>1 DEF Turn, Due, InGrace
  <2> QED
    BY <2>2, <2>3 DEF Due
<1> QED
  BY <1>1, <1>2

\* The end of a running grace period does not move: the decline that would move
\* it is saved on a document that was read with the subscription as it is.
LEMMA GraceStays ==
  ASSUME TypeInv, BlockInv, IdleInv, SoloInv, DueInv, [Next]_vars,
         NEW s \in Subs, sub[s].status = "past_due", sub'[s].status = "past_due",
         overlaps' = 0
  PROVE  sub'[s].graceEnd = sub[s].graceEnd
<1>1. overlaps = 0
  BY SoloStep
<1>2. InGrace(sub[s])
  <2>1. PICK f \in declined : f.id = s /\ sub[s].graceEnd = f.at + Grace
    BY DEF BlockInv, GraceDue
  <2>2. f.at \in Nat
    BY DEF TypeInv, TypeOK
  <2>3. sub[s].graceEnd # 0
    BY <2>1, <2>2, LifecycleAssumption
  <2> QED
    BY <2>3 DEF InGrace, NoGrace
<1>3. SUFFICES ASSUME sub'[s] # sub[s]
               PROVE  FALSE
  OBVIOUS
<1>4. PICK t \in Procs :
        task[t].pc = "save" /\ task[t].id = s /\ sub'[s] = task[t].doc
  BY <1>3, SubWrites
<1> QED
  BY <1>1, <1>2, <1>4 DEF DueInv, Due

\* Handlers that do not overlap never move the end of a running grace period,
\* whatever fails or dies: _handle_payment_failed_webhook keeps the grace period
\* it finds, and what it found is what is stored when it saves.
THEOREM GraceNeverExtended == Spec => GraceIsNotExtended
<1> DEFINE IInv == TypeInv /\ BlockInv /\ IdleInv /\ SoloInv /\ DueInv
<1>1. Init => IInv
  <2>1. Init => DueInv
    BY IdleType DEF Init, DueInv, Due
  <2> QED
    BY <2>1, TypeInit, BlockInit, SoloInit
<1>2. IInv /\ [Next]_vars => IInv'
  BY TypeStep, BlockStep, SoloStep, DueStep
<1>3. IInv /\ [Next]_vars =>
        [\A s \in Subs :
           sub[s].status = "past_due" /\ sub'[s].status = "past_due"
             /\ overlaps' = 0
           => sub'[s].graceEnd = sub[s].graceEnd]_vars
  BY GraceStays
<1> QED
  BY <1>1, <1>2, <1>3, PTL DEF Spec, GraceIsNotExtended

-------------------------------------------------------------------------------
(* What holds between the handlers, when none overlaps and nothing fails *)

\* The User document says what the entitlement says.
Agree == ent.exists => user.plan = ent.grant.plan /\ user.status = ent.grant.status

\* What a grant asks of the subscription it comes from.
Fits(g, s, st) ==
  /\ g.status = "active" => st \in {"active", "cancel_at_period_end"}
  /\ g.status = "past_due" => st \in {"past_due", "cancel_at_period_end"}
  /\ g.status \in {"active", "past_due"} => g.plan = OfferOf[s]
  /\ g.status = "canceled" => st = "canceled"
  /\ g.status = "expired" => st = "expired" /\ g.plan = Free /\ ~g.upload

PayerFits == payer \in Subs => Fits(ent.grant, payer, sub[payer].status)

SoleActive == \A r, s \in WithStatus({"active"}) : r = s
OneActive == polled \/ SoleActive

\* An abandoned mandate is charged only if its payment is still to be heard of.
Paying(s) == \E e \in events : e.kind = "paid" /\ e.id = s
Heard(s) == sub[s].status = "cancelled" /\ gateway[s] = "ACTIVE" => Paying(s)

\* A handler about to insert the document of the mandate it has made.
Inserts(k, s) == k.pc = "insert" /\ k.new = s
Recorded(k) ==
  \A s \in Subs : gateway[s] # "none" => sub[s].status # "none" \/ Inserts(k, s)

(* What a handler's record promises on the way *)

\* The purpose of a handler tells the steps it takes.
Shape(k) ==
  /\ k.pc = "save" => k.act \in {"paid", "failed", "cancelled", "cancel", "abandon",
                                 "close", "poll", "grace", "ending"}
  /\ k.pc \in {"entFind", "entSave", "mirror"} =>
       k.act \in {"paid", "failed", "cancelled", "order", "poll", "current",
                  "verify", "grace", "ending"}
  /\ k.pc \in {"prior", "supersede"} => k.act = "paid"
  /\ k.pc = "stop" => k.act \in {"paid", "cancel"}
  /\ k.pc = "pick" => k.act \in {"grace", "ending"}
  /\ k.pc = "poll" => k.act \in {"create", "resume"}
  /\ k.pc \in {"provider", "insert", "customer"} => k.act \in {"create", "abandon"}
  /\ k.pc = "userSave" => k.act = "verify"
  /\ k.act \in {"create", "abandon"} => k.new \in Subs
  /\ k.act = "cancel" => k.todo = {}
  /\ k.act = "paid" => k.id \in Subs
  /\ k.act \in {"verify", "order", "current"} => k.id \notin Subs

\* The entitlement and the User document agree, but for the one being written.
Mirrors(k) ==
  /\ k.pc = "entSave" => k.found = ent.exists
  /\ k.pc = "mirror" => ent.grant = k.grant
  /\ k.act \in {"create", "abandon"} =>
       k.usr.plan = user.plan /\ k.usr.status = user.status
  /\ \/ k.pc = "mirror"
     \/ k.act = "verify" /\ k.pc \in {"entFind", "entSave"}
     \/ Agree

\* A document about to be saved fits the grant that comes after it.
Saves(k) ==
  /\ k.act = "cancel" =>
       /\ k.doc.status = "cancel_at_period_end"
       /\ sub[k.id].status \in {"active", "past_due", "pending_authorization"}
  /\ k.act \in {"abandon", "close"} =>
       k.doc.status = "cancelled" /\ sub[k.id].status = "pending_authorization"
  /\ k.act \notin {"cancel", "abandon", "close"} =>
       Fits(k.grant, k.id, k.doc.status)
  /\ k.doc.status = "active" <=> k.act \in {"paid", "poll"}
  /\ k.doc.status # "none"
  /\ k.doc.status = "cancelled" =>
       k.act \in {"abandon", "close"} /\ (gateway[k.id] = "ACTIVE" => Paying(k.id))

Follows(k) ==
  /\ k.pc = "save" => Saves(k)
  /\ k.pc = "poll" => sub[k.id].status = "pending_authorization"
  /\ k.act \in {"create", "abandon"} /\ k.pc # "customer" => sub[k.new].status = "none"
  /\ k.pc \in {"mirror", "prior"} => payer = k.id
  /\ k.pc \in {"supersede", "stop"} => \A x \in k.todo : x.id # payer
  /\ IF k.pc \in {"entFind", "entSave"}
     THEN k.id \in Subs => Fits(k.grant, k.id, sub[k.id].status)
     ELSE PayerFits

\* Until a payment has superseded the others, there may be two of them.
Single(k) ==
  \/ OneActive
  \/ k.act = "paid" /\ k.pc \in {"entFind", "entSave", "mirror", "prior"}
  \/ /\ k.act = "paid" /\ k.pc \in {"supersede", "stop"}
     /\ \A s \in WithStatus({"active"}) : s = payer \/ \E x \in k.todo : x.id = s

\* The payment of a subscription, until it is answered: from its save on, the
\* subscription is active, and is not among those superseded.
PaidSub(e) == e # Unset /\ e.kind = "paid" /\ e.id \in Subs
Pays(k) ==
  k.pc # "idle" /\ PaidSub(k.ev) =>
    /\ k.act = "paid" /\ \A x \in k.todo : x.id # k.ev.id
    /\ k.pc \in {"save", "entFind", "entSave", "mirror", "prior"} => k.ev.id = k.id
    /\ k.pc # "save" => sub[k.ev.id].status = "active"
    /\ k.pc = "stop" => k.id # k.ev.id

Charges(k) == Recorded(k) /\ (\A s \in Subs : Heard(s)) /\ Pays(k)

Holds(k) == Shape(k) /\ Mirrors(k) /\ Follows(k) /\ Single(k) /\ Charges(k)

\* Of the one handler at work, or of all the idle ones.
SerialInv ==
  overlaps = 0 /\ faults = 0 =>
    \A t \in Procs : Alone(t) => \A k \in {task[t]} : Holds(k)

\* Between two handlers.
Rests ==
  Agree /\ PayerFits /\ OneActive /\ Recorded(Idle) /\ \A s \in Subs : Heard(s)

LEMMA IdleFields ==
  Idle.pc = "idle" /\ Idle.act = "none" /\ Idle.todo = {} /\ Idle.ev = Unset
  BY DEF Idle, Handler

LEMMA IdleRests == Holds(Idle) => Rests
  BY IdleFields DEF Holds, Rests, Mirrors, Follows, Single, Charges

LEMMA RestsIdle == Rests => Holds(Idle)
  BY IdleFields
     DEF Holds, Rests, Shape, Mirrors, Follows, Single, Charges, Pays

\* The same of the next state.
LEMMA RestsNext == Rests' => Holds(Idle)'
  BY IdleFields
     DEF Holds, Rests, Shape, Mirrors, Follows, Single, Charges, Pays

\* The handler at work goes on, and the others remain idle.
LEMMA Advance ==
  ASSUME TypeInv, IdleInv, IdleInv', NEW t \in Procs, Alone(t),
         NEW k, Continue(t, k), Holds(k)'
  PROVE  SerialInv'
<1> SUFFICES ASSUME NEW u \in Procs, Alone(u)', NEW x, x = task'[u]
             PROVE  Holds(x)'
  BY DEF SerialInv
<1>0. \A v \in Procs : task'[v] = IF v = t THEN k ELSE task[v]
  BY DEF TypeInv, TypeOK, Continue
<1>1. x = k
  BY <1>0, IdleFields DEF Alone, IdleInv, Busy
<1> QED
  BY <1>1

-------------------------------------------------------------------------------
(* The first step of a handler *)

LEMMA RestsStay ==
  ASSUME Rests, UNCHANGED <<sub, ent, user, gateway, events, payer, polled>>
  PROVE  Rests'
BY DEF Rests, Agree, PayerFits, OneActive, SoleActive, Recorded, Heard, Paying,
       WithStatus, Inserts

\* What a record has to promise when its handler begins.
LEMMA Begins ==
  ASSUME TypeInv, Rests,
         UNCHANGED <<sub, ent, user, gateway, events, payer, polled>>,
         NEW k, Shape(k), k.pc \in {"save", "entFind", "poll", "provider",
                                    "userSave", "pick"},
         k.act \in {"create", "abandon"} =>
           k.usr = user /\ sub[k.new].status = "none",
         k.pc = "save" => Saves(k),
         k.pc = "poll" => sub[k.id].status = "pending_authorization",
         k.pc = "entFind" /\ k.id \in Subs => Fits(k.grant, k.id, sub[k.id].status),
         PaidSub(k.ev) =>
           k.pc = "save" /\ k.act = "paid" /\ k.todo = {} /\ k.ev.id = k.id
  PROVE  Holds(k)'
<1>0. Rests'
  BY RestsStay
<1>1. Mirrors(k)'
  BY <1>0 DEF Rests, Mirrors, Agree
<1>2. Follows(k)'
  BY <1>0 DEF Rests, Follows, PayerFits, Saves, Paying
<1>3. Single(k)'
  BY <1>0 DEF Rests, Single
<1>4. Charges(k)'
  <2>1. Recorded(k)'
    BY <1>0, IdleFields DEF Rests, Recorded, Inserts
  <2>2. Pays(k)'
    BY DEF Pays
  <2> QED
    BY <1>0, <2>1, <2>2 DEF Rests, Charges
<1> QED
  BY <1>1, <1>2, <1>3, <1>4 DEF Holds, Shape

LEMMA StartWebhookHolds ==
  ASSUME TypeInv, Rests, NEW t \in Procs, NEW e \in events,
         StartPaid(t, e) \/ StartFailed(t, e) \/ StartCancelled(t, e)
           \/ StartOrderPaid(t, e)
  PROVE  \E k : Continue(t, k) /\ Holds(k)'
<1>0. UNCHANGED <<sub, ent, user, gateway, events, payer, polled>>
  BY DEF StartPaid, StartFailed, StartCancelled, StartOrderPaid, outside, history
<1>e. e \in Event
  BY DEF TypeInv, TypeOK
<1>1. CASE StartPaid(t, e)
  <2> DEFINE d == Activated(sub[e.id], e.at)
             g == Grant(OfferOf[e.id], "active", TRUE)
  <2>k. PICK k : k = Handler("save", "paid", e.id, e, d, g)
    OBVIOUS
  <2>1. Continue(t, k)
    BY <1>1, <2>k DEF StartPaid, Enter, Continue
  <2>2. d.status = "active"
    BY DEF Activated
  <2>3. g.status = "active" /\ g.plan = OfferOf[e.id]
    BY DEF Grant
  <2> HIDE DEF d, g
  <2>4. /\ k.pc = "save" /\ k.act = "paid" /\ k.id = e.id /\ k.ev = e /\ k.doc = d
        /\ k.grant = g /\ k.todo = {}
    BY <2>k DEF Handler
  <2>5. e.id \in Subs
    BY <1>1 DEF StartPaid
  <2>6. Shape(k) /\ Saves(k)
    BY <2>2, <2>3, <2>4, <2>5 DEF Shape, Saves, Fits
  <2>7. Holds(k)'
    BY <1>0, <2>4, <2>6, Begins
  <2> QED
    BY <2>1, <2>7
<1>2. CASE StartFailed(t, e)
  <2> DEFINE g == Grant(OfferOf[e.id], "past_due", TRUE)
             d == PastDue(sub[e.id], e.at)
  <2>1. d.status = "past_due" /\ g.status = "past_due" /\ g.plan = OfferOf[e.id]
    BY DEF PastDue, Grant
  <2>2. e.id \in Subs /\ ~PaidSub(e)
    BY <1>2, <1>e DEF StartFailed, Event, PaidSub
  <2>3. CASE ~InGrace(sub[e.id])
    <3>k. PICK k : k = Handler("save", "failed", e.id, e, d, g)
      OBVIOUS
    <3>1. Continue(t, k)
      BY <1>2, <2>3, <3>k DEF StartFailed, Enter, Continue
    <3> HIDE DEF d, g
    <3>2. /\ k.pc = "save" /\ k.act = "failed" /\ k.id = e.id /\ k.ev = e
          /\ k.doc = d /\ k.grant = g /\ k.todo = {}
      BY <3>k DEF Handler
    <3>3. Shape(k) /\ Saves(k)
      BY <2>1, <3>2 DEF Shape, Saves, Fits
    <3>4. Holds(k)'
      BY <1>0, <2>2, <3>2, <3>3, Begins
    <3> QED
      BY <3>1, <3>4
  <2>4. CASE InGrace(sub[e.id])
    <3>k. PICK k : k = Handler("entFind", "failed", e.id, e, sub[e.id], g)
      OBVIOUS
    <3>1. Continue(t, k)
      BY <1>2, <2>4, <3>k DEF StartFailed, Enter, Continue
    <3> HIDE DEF d, g
    <3>2. /\ k.pc = "entFind" /\ k.act = "failed" /\ k.id = e.id /\ k.ev = e
          /\ k.grant = g /\ k.todo = {}
      BY <3>k DEF Handler
    <3>3. Shape(k) /\ Fits(g, e.id, sub[e.id].status)
      BY <2>1, <2>4, <3>2 DEF Shape, Fits, InGrace
    <3>4. Holds(k)'
      BY <1>0, <2>2, <3>2, <3>3, Begins
    <3> QED
      BY <3>1, <3>4
  <2> QED
    BY <2>3, <2>4
<1>3. CASE StartCancelled(t, e)
  <2> DEFINE g == Grant(OfferOf[e.id], "canceled", TRUE)
             d == [sub[e.id] EXCEPT !.status = "canceled"]
  <2>k. PICK k : k = Handler("save", "cancelled", e.id, e, d, g)
    OBVIOUS
  <2>1. e.id \in Subs /\ ~PaidSub(e)
    BY <1>3, <1>e DEF StartCancelled, Event, PaidSub
  <2>2. d.status = "canceled" /\ g.status = "canceled"
    BY <2>1, DocTypes DEF SubDoc, Grant
  <2>3. Continue(t, k)
    BY <1>3, <2>k DEF StartCancelled, Enter, Continue
  <2> HIDE DEF d, g
  <2>4. /\ k.pc = "save" /\ k.act = "cancelled" /\ k.id = e.id /\ k.ev = e
        /\ k.doc = d /\ k.grant = g /\ k.todo = {}
    BY <2>k DEF Handler
  <2>5. Shape(k) /\ Saves(k)
    BY <2>2, <2>4 DEF Shape, Saves, Fits
  <2>6. Holds(k)'
    BY <1>0, <2>1, <2>4, <2>5, Begins
  <2> QED
    BY <2>3, <2>6
<1>4. CASE StartOrderPaid(t, e)
  <2> DEFINE g == Grant(OfferOf[e.id], "active", TRUE)
  <2>k. PICK k : k = Handler("entFind", "order", e.id, e, NoDoc, g)
    OBVIOUS
  <2>1. e.id \notin Subs
    BY <1>4, LifecycleAssumption DEF StartOrderPaid
  <2>2. Continue(t, k)
    BY <1>4, <2>k DEF StartOrderPaid, Enter, Continue
  <2> HIDE DEF g
  <2>3. /\ k.pc = "entFind" /\ k.act = "order" /\ k.id = e.id /\ k.ev = e
        /\ k.todo = {}
    BY <2>k DEF Handler
  <2>4. Shape(k) /\ ~PaidSub(e)
    BY <2>1, <2>3 DEF Shape, PaidSub
  <2>5. Holds(k)'
    BY <1>0, <2>1, <2>3, <2>4, Begins
  <2> QED
    BY <2>2, <2>5
<1> QED
  BY <1>1, <1>2, <1>3, <1>4

LEMMA StartRequestHolds ==
  ASSUME TypeInv, Rests, NEW t \in Procs,
         \/ StartCancel(t) \/ StartResume(t) \/ StartCurrent(t)
         \/ \E o \in Orders : StartVerify(t, o)
  PROVE  \E k : Continue(t, k) /\ Holds(k)'
<1>0. /\ UNCHANGED <<sub, ent, user, gateway, events, payer, polled>>
      /\ ~PaidSub(Unset)
  BY DEF StartCancel, StartResume, StartCurrent, StartVerify, outside, history,
         PaidSub
<1>1. CASE StartCancel(t)
  <2>1. PICK s \in WithStatus({"active", "past_due", "pending_authorization"}) :
          Enter(t, Handler("save", "cancel", s, Unset,
                           [sub[s] EXCEPT !.status = "cancel_at_period_end"],
                           NoGrant))
    BY <1>1 DEF StartCancel
  <2> DEFINE d == [sub[s] EXCEPT !.status = "cancel_at_period_end"]
  <2>2. PICK k : k = Handler("save", "cancel", s, Unset, d, NoGrant)
    OBVIOUS
  <2>3. d.status = "cancel_at_period_end"
    BY DocTypes DEF SubDoc, WithStatus
  <2>4. Continue(t, k)
    BY <2>1, <2>2 DEF Enter, Continue
  <2> HIDE DEF d
  <2>5. /\ k.pc = "save" /\ k.act = "cancel" /\ k.id = s /\ k.ev = Unset
        /\ k.doc = d /\ k.todo = {}
    BY <2>2 DEF Handler
  <2>6. Shape(k) /\ Saves(k)
    BY <2>3, <2>5 DEF Shape, Saves, WithStatus
  <2>7. Holds(k)'
    BY <1>0, <2>5, <2>6, Begins
  <2> QED
    BY <2>4, <2>7
<1>2. CASE StartResume(t)
  <2>1. PICK s \in WithStatus({"pending_authorization"}) :
          Enter(t, Handler("poll", "resume", s, Unset, sub[s], NoGrant))
    BY <1>2 DEF StartResume
  <2>2. PICK k : k = Handler("poll", "resume", s, Unset, sub[s], NoGrant)
    OBVIOUS
  <2>3. Continue(t, k)
    BY <2>1, <2>2 DEF Enter, Continue
  <2>4. k.pc = "poll" /\ k.act = "resume" /\ k.id = s /\ k.ev = Unset /\ k.todo = {}
    BY <2>2 DEF Handler
  <2>5. Shape(k) /\ sub[k.id].status = "pending_authorization"
    BY <2>4 DEF Shape, WithStatus
  <2>6. Holds(k)'
    BY <1>0, <2>4, <2>5, Begins
  <2> QED
    BY <2>3, <2>6
<1>3. CASE StartCurrent(t)
  <2> DEFINE g == Grant(user.plan, user.status, TRUE)
  <2>1. PICK k : k = Handler("entFind", "current", Unset, Unset, NoDoc, g)
    OBVIOUS
  <2>2. Continue(t, k)
    BY <1>3, <2>1 DEF StartCurrent, Enter, Continue
  <2> HIDE DEF g
  <2>3. /\ k.pc = "entFind" /\ k.act = "current" /\ k.id = Unset /\ k.ev = Unset
        /\ k.todo = {}
    BY <2>1 DEF Handler
  <2>4. Unset \notin Subs
    BY LifecycleAssumption DEF Items
  <2>5. Shape(k)
    BY <2>3, <2>4 DEF Shape
  <2>6. Holds(k)'
    BY <1>0, <2>3, <2>4, <2>5, Begins
  <2> QED
    BY <2>2, <2>6
<1>4. ASSUME NEW o \in Orders, StartVerify(t, o)
      PROVE  \E k : Continue(t, k) /\ Holds(k)'
  <2> DEFINE g == Grant(OfferOf[o], "active", TRUE)
  <2>1. PICK k : k = Handler("userSave", "verify", o, Unset, NoDoc, g)
    OBVIOUS
  <2>2. Continue(t, k)
    BY <1>4, <2>1 DEF StartVerify, Enter, Continue
  <2> HIDE DEF g
  <2>3. /\ k.pc = "userSave" /\ k.act = "verify" /\ k.id = o /\ k.ev = Unset
        /\ k.todo = {}
    BY <2>1 DEF Handler
  <2>4. Shape(k)
    BY <2>3, LifecycleAssumption DEF Shape
  <2>5. Holds(k)'
    BY <1>0, <2>3, <2>4, Begins
  <2> QED
    BY <2>2, <2>5
<1> QED
  BY <1>1, <1>2, <1>3, <1>4

LEMMA StartCreateHolds ==
  ASSUME TypeInv, Rests, NEW t \in Procs, NEW n \in Subs, StartCreate(t, n)
  PROVE  \E k : Continue(t, k) /\ Holds(k)'
<1>0. /\ UNCHANGED <<sub, ent, user, gateway, events, payer, polled>>
      /\ ~PaidSub(Unset) /\ sub[n].status = "none"
  BY DEF StartCreate, Unused, outside, history, PaidSub
<1>1. PICK pc \in {"poll", "provider"}, id \in Subs \cup {Unset}, d \in SubDoc :
        /\ Enter(t, [Handler(pc, "create", id, Unset, d, NoGrant)
                     EXCEPT !.new = n, !.usr = user])
        /\ pc = "poll" => sub[id].status = "pending_authorization"
  BY NothingType, DocTypes DEF StartCreate, WithStatus
<1> DEFINE h == Handler(pc, "create", id, Unset, d, NoGrant)
<1>2. PICK k : k = [h EXCEPT !.new = n, !.usr = user]
  OBVIOUS
<1>3. Continue(t, k)
  BY <1>1, <1>2 DEF Enter, Continue
<1>4. /\ k.pc = pc /\ k.act = "create" /\ k.id = id /\ k.ev = Unset /\ k.todo = {}
      /\ k.new = n /\ k.usr = user
  BY <1>2 DEF Handler
<1>5. Shape(k)
  BY <1>4 DEF Shape
<1>6. Holds(k)'
  BY <1>0, <1>1, <1>4, <1>5, Begins
<1> QED
  BY <1>3, <1>6

LEMMA StartExpiryHolds ==
  ASSUME TypeInv, Rests, StartExpiry
  PROVE  \E k : Continue(Worker, k) /\ Holds(k)'
<1>0. /\ UNCHANGED <<sub, ent, user, gateway, events, payer, polled>>
      /\ ~PaidSub(Unset)
  BY DEF StartExpiry, outside, history, PaidSub
<1> DEFINE S == Snapshots({s \in Subs : GraceOver(sub[s])})
           h == Handler("pick", "grace", Unset, Unset, NoDoc, NoGrant)
<1>1. PICK k : k = [h EXCEPT !.todo = S]
  OBVIOUS
<1>2. Continue(Worker, k)
  BY <1>1 DEF StartExpiry, Enter, Continue
<1> HIDE DEF S
<1>3. k.pc = "pick" /\ k.act = "grace" /\ k.ev = Unset
  BY <1>1 DEF Handler
<1>4. Shape(k)
  BY <1>3 DEF Shape
<1>5. Holds(k)'
  BY <1>0, <1>3, <1>4, Begins
<1> QED
  BY <1>2, <1>5

-------------------------------------------------------------------------------
(* The steps of the worker *)

LEMMA RecordedStays ==
  ASSUME NEW j, Recorded(j), j.pc # "insert", UNCHANGED <<sub, gateway>>, NEW k
  PROVE  Recorded(k)'
BY DEF Recorded, Inserts

\* Answering a payment that has been saved leaves no abandoned mandate unheard.
LEMMA HeardStays ==
  ASSUME TypeInv, NEW j, \A s \in Subs : Heard(s), UNCHANGED <<sub, gateway>>,
         \/ UNCHANGED events
         \/ events' = events \ {j.ev} /\ (PaidSub(j.ev) => sub[j.ev.id].status = "active")
  PROVE  \A s \in Subs : Heard(s)'
<1>1. ASSUME NEW s \in Subs, Heard(s), sub[s].status = "cancelled", Paying(s)
      PROVE  Paying(s)'
  <2>1. PICK e \in events : e.kind = "paid" /\ e.id = s
    BY <1>1 DEF Paying
  <2>2. e # Unset
    BY UnsetAssumption DEF TypeInv, TypeOK
  <2>3. e \in events'
    BY <1>1, <2>1, <2>2 DEF PaidSub
  <2> QED
    BY <2>1, <2>3 DEF Paying
<1> QED
  BY <1>1 DEF Heard

LEMMA PickExpiredHolds ==
  ASSUME TypeInv, NEW j, j = task[Worker], Holds(j), PickExpired
  PROVE  \E k : Continue(Worker, k) /\ Holds(k)'
<1>0. /\ j \in Task /\ j.pc = "pick"
      /\ UNCHANGED <<sub, ent, user, gateway, events, payer, polled>>
  BY DocTypes DEF PickExpired, outside, history, Procs
<1>1. PICK x \in j.todo :
        Continue(Worker,
          [j EXCEPT !.pc = "save", !.id = x.id, !.todo = j.todo \ {x},
                    !.doc = [x.doc EXCEPT !.status = ExpiryOutcome(j.act).status],
                    !.grant = ExpiryOutcome(j.act)])
  BY DEF PickExpired
<1> DEFINE g == ExpiryOutcome(j.act)
           d == [x.doc EXCEPT !.status = g.status]
           S == j.todo \ {x}
<1>2. PICK k : k = [j EXCEPT !.pc = "save", !.id = x.id, !.todo = S, !.doc = d,
                             !.grant = g]
  OBVIOUS
<1>3. Continue(Worker, k)
  BY <1>1, <1>2
<1>4. \/ g.status = "expired" /\ g.plan = Free /\ ~g.upload
      \/ g.status = "canceled"
  BY DEF ExpiryOutcome, Grant
<1> HIDE DEF g, S
<1>5. d.status = g.status
  BY <1>0 DEF Task, Snapshot, SubDoc
<1> HIDE DEF d
<1>6. /\ k.pc = "save" /\ k.act = j.act /\ k.id = x.id /\ k.doc = d /\ k.grant = g
      /\ k.ev = j.ev
  BY <1>0, <1>2 DEF Task
<1>7. j.act \in {"grace", "ending"} /\ ~PaidSub(j.ev)
  BY <1>0 DEF Holds, Shape, Charges, Pays
<1>8. Shape(k) /\ Mirrors(k)'
  BY <1>0, <1>6, <1>7 DEF Shape, Holds, Mirrors, Agree
<1>9. Saves(k)
  BY <1>4, <1>5, <1>6, <1>7 DEF Saves, Fits
<1>10. Follows(k)'
  BY <1>0, <1>6, <1>7, <1>9 DEF Holds, Follows, Saves, PayerFits, Paying
<1>11. Single(k)'
  BY <1>0, <1>7 DEF Holds, Single, OneActive, SoleActive, WithStatus
<1>12. Charges(k)'
  BY <1>0, <1>6, <1>7, RecordedStays, HeardStays DEF Holds, Charges, Pays, PaidSub
<1> QED
  BY <1>3, <1>8, <1>10, <1>11, <1>12 DEF Holds, Shape

LEMMA ListEndingHolds ==
  ASSUME TypeInv, NEW j, j = task[Worker], Holds(j), ListEnding
  PROVE  \E k : Continue(Worker, k) /\ Holds(k)'
<1>0. /\ j \in Task /\ j.pc = "pick" /\ j.act = "grace"
      /\ UNCHANGED <<sub, ent, user, gateway, events, payer, polled>>
  BY DocTypes DEF ListEnding, outside, history, Procs
<1> DEFINE S == Snapshots({s \in Subs : PeriodOver(sub[s])})
<1>1. PICK k : k = [j EXCEPT !.act = "ending", !.todo = S]
  OBVIOUS
<1>2. Continue(Worker, k)
  BY <1>1 DEF ListEnding
<1> HIDE DEF S
<1>3. k.pc = "pick" /\ k.act = "ending" /\ k.ev = j.ev
  BY <1>0, <1>1 DEF Task
<1>4. Shape(k) /\ Mirrors(k)'
  BY <1>0, <1>3 DEF Shape, Holds, Mirrors, Agree
<1>5. Follows(k)'
  BY <1>0, <1>3 DEF Holds, Follows, PayerFits
<1>6. Single(k)'
  BY <1>0 DEF Holds, Single, OneActive, SoleActive, WithStatus
<1>7. Charges(k)'
  BY <1>0, <1>3, RecordedStays, HeardStays DEF Holds, Charges, Pays, PaidSub
<1> QED
  BY <1>2, <1>4, <1>5, <1>6, <1>7 DEF Holds, Shape

\* A handler that returns leaves the documents as the next one expects them.
LEMMA ReturnHolds ==
  ASSUME TypeInv, NEW t \in Procs, NEW j, j = task[t], Holds(j), Return(t),
         j.pc \notin {"idle", "save", "insert"}, UNCHANGED <<sub, gateway>>,
         Agree', PayerFits', OneActive'
  PROVE  \E k : Continue(t, k) /\ Holds(k)'
<1>1. Continue(t, Idle) /\ events' = events \ {j.ev}
  BY DEF Return, Continue
<1>2. PaidSub(j.ev) => sub[j.ev.id].status = "active"
  BY DEF Holds, Charges, Pays
<1>3. Recorded(Idle)' /\ \A s \in Subs : Heard(s)'
  BY <1>1, <1>2, RecordedStays, HeardStays DEF Holds, Charges
<1>4. Holds(Idle)'
  BY <1>3, RestsNext DEF Rests
<1> QED
  BY <1>1, <1>4

LEMMA EndExpiryHolds ==
  ASSUME TypeInv, NEW j, j = task[Worker], Holds(j), EndExpiry
  PROVE  \E k : Continue(Worker, k) /\ Holds(k)'
<1>0. /\ j.pc = "pick" /\ Return(Worker) /\ j.act = "ending" /\ Worker \in Procs
      /\ UNCHANGED <<sub, ent, user, gateway, payer, polled>>
  BY DEF EndExpiry, history, Procs
<1>1. Agree' /\ PayerFits' /\ OneActive'
  BY <1>0 DEF Holds, Mirrors, Follows, Single, Agree, PayerFits, OneActive,
              SoleActive, WithStatus
<1> QED
  BY <1>0, <1>1, ReturnHolds

-------------------------------------------------------------------------------
(* Synchronising the entitlement and the User document *)

\* The record is on its way, none of the documents moves.
LEMMA ChargesStay ==
  ASSUME TypeInv, NEW j, Holds(j), j.pc \notin {"idle", "save", "insert"},
         UNCHANGED <<sub, gateway, events>>, NEW k, k.ev = j.ev, k.act = j.act,
         k.id = j.id, k.todo = j.todo, k.pc \notin {"save", "stop", "idle"},
         k.pc \in {"entFind", "entSave", "mirror", "prior"} =>
           j.pc \in {"entFind", "entSave", "mirror", "prior"}
  PROVE  Charges(k)'
<1>1. Recorded(k)' /\ \A s \in Subs : Heard(s)'
  BY RecordedStays, HeardStays DEF Holds, Charges
<1>2. Pays(k)'
  BY DEF Holds, Charges, Pays
<1> QED
  BY <1>1, <1>2 DEF Charges

LEMMA FindEntHolds ==
  ASSUME TypeInv, NEW t \in Procs, NEW j, j = task[t], Holds(j), FindEnt(t)
  PROVE  \E k : Continue(t, k) /\ Holds(k)'
<1>0. /\ j \in Task /\ j.pc = "entFind"
      /\ UNCHANGED <<sub, ent, user, gateway, events, payer, polled>>
  BY DocTypes DEF FindEnt, outside, history
<1>1. PICK k : k = [j EXCEPT !.pc = "entSave", !.found = ent.exists]
  OBVIOUS
<1>2. Continue(t, k)
  BY <1>1 DEF FindEnt
<1>3. /\ k.pc = "entSave" /\ k.found = ent.exists /\ k.act = j.act /\ k.id = j.id
      /\ k.grant = j.grant /\ k.todo = j.todo /\ k.ev = j.ev /\ k.new = j.new
      /\ k.usr = j.usr
  BY <1>0, <1>1 DEF Task
<1>4. Shape(k) /\ Mirrors(k)'
  BY <1>0, <1>3 DEF Shape, Holds, Mirrors, Agree
<1>5. Follows(k)'
  BY <1>0, <1>3 DEF Holds, Follows
<1>6. Single(k)'
  BY <1>0, <1>3 DEF Holds, Single, OneActive, SoleActive, WithStatus
<1>7. Charges(k)'
  BY <1>0, <1>3, ChargesStay
<1> QED
  BY <1>2, <1>4, <1>5, <1>6, <1>7 DEF Holds, Shape

LEMMA SaveEntHolds ==
  ASSUME TypeInv, NEW t \in Procs, NEW j, j = task[t], Holds(j), SaveEnt(t)
  PROVE  \E k : Continue(t, k) /\ Holds(k)'
<1>0. /\ j.pc = "entSave" /\ Goto(t, "mirror") /\ payer' = j.id
      /\ ent' = [exists |-> TRUE, grant |-> j.grant]
      /\ UNCHANGED <<sub, user, gateway, events, polled>>
  BY DEF SaveEnt, outside
<1>1. PICK k : /\ Continue(t, k) /\ k.pc = "mirror" /\ k.act = j.act /\ k.id = j.id
               /\ k.new = j.new /\ k.usr = j.usr
               /\ k.grant = j.grant /\ k.todo = j.todo /\ k.ev = j.ev
  BY <1>0, GotoFields
<1>4. Shape(k) /\ Mirrors(k)'
  BY <1>0, <1>1 DEF Shape, Holds, Mirrors
<1>e. ent'.grant = j.grant
  BY <1>0
<1>5. Follows(k)'
  BY <1>0, <1>1, <1>e DEF Holds, Shape, Follows, PayerFits
<1>6. Single(k)'
  BY <1>0, <1>1 DEF Holds, Single, OneActive, SoleActive, WithStatus
<1>7. Charges(k)'
  BY <1>0, <1>1, ChargesStay
<1> QED
  BY <1>1, <1>4, <1>5, <1>6, <1>7 DEF Holds, Shape

LEMMA InsertsAreAccepted ==
  ASSUME NEW t, NEW j, j = task[t], Holds(j)
  PROVE  ~InsertEntRefused(t)
BY DEF InsertEntRefused, Holds, Mirrors

LEMMA MirrorUserHolds ==
  ASSUME TypeInv, NEW t \in Procs, NEW j, j = task[t], Holds(j), MirrorUser(t)
  PROVE  \E k : Continue(t, k) /\ Holds(k)'
<1>0. /\ j.pc = "mirror" /\ AfterMirror(t)
      /\ UNCHANGED <<sub, ent, gateway, payer, polled>>
  BY DEF MirrorUser, history
<1>1. user'.plan = j.grant.plan /\ user'.status = j.grant.status
  BY DocTypes DEF MirrorUser, UserDoc
<1>2. ent'.grant = j.grant /\ Agree' /\ PayerFits'
  BY <1>0, <1>1 DEF Holds, Mirrors, Agree, Follows, PayerFits
<1>3. CASE j.act = "paid"
  <2>1. PICK k : /\ Continue(t, k) /\ k.pc = "prior" /\ k.act = j.act /\ k.id = j.id
                 /\ k.todo = j.todo /\ k.ev = j.ev
    BY <1>0, <1>3, GotoFields DEF AfterMirror
  <2>2. Shape(k) /\ Mirrors(k)'
    BY <1>0, <1>2, <1>3, <2>1 DEF Shape, Holds, Mirrors
  <2>3. Follows(k)'
    BY <1>0, <1>2, <1>3, <2>1 DEF Holds, Follows
  <2>4. Single(k)'
    BY <1>3, <2>1 DEF Single
  <2>5. Charges(k)'
    BY <1>0, <1>3, <2>1, ChargesStay DEF AfterMirror
  <2> QED
    BY <2>1, <2>2, <2>3, <2>4, <2>5 DEF Holds, Shape
<1>4. CASE j.act # "paid"
  <2>0. OneActive'
    BY <1>0, <1>4 DEF Holds, Single, OneActive, SoleActive, WithStatus
  <2>1. CASE Return(t)
    BY <1>0, <1>2, <2>0, <2>1, ReturnHolds
  <2>2. CASE j.act \in {"grace", "ending"} /\ Goto(t, "pick") /\ UNCHANGED events
    <3>1. PICK k : /\ Continue(t, k) /\ k.pc = "pick" /\ k.act = j.act
                   /\ k.id = j.id /\ k.todo = j.todo /\ k.ev = j.ev
      BY <2>2, GotoFields
    <3>2. Shape(k) /\ Mirrors(k)'
      BY <1>0, <1>2, <2>2, <3>1 DEF Shape, Mirrors
    <3>3. Follows(k)'
      BY <1>2, <2>2, <3>1 DEF Follows
    <3>4. Single(k)'
      BY <2>0 DEF Single
    <3>5. Charges(k)'
      BY <1>0, <2>2, <3>1, ChargesStay
    <3> QED
      BY <3>1, <3>2, <3>3, <3>4, <3>5 DEF Holds, Shape
  <2> QED
    BY <1>0, <1>4, <2>1, <2>2 DEF AfterMirror
<1> QED
  BY <1>3, <1>4

LEMMA SaveCustomerHolds ==
  ASSUME TypeInv, NEW t \in Procs, NEW j, j = task[t], Holds(j), SaveCustomer(t)
  PROVE  \E k : Continue(t, k) /\ Holds(k)'
<1>0. /\ j.pc = "customer" /\ Return(t) /\ j \in Task
      /\ UNCHANGED <<sub, ent, gateway, payer, polled>>
  BY DocTypes DEF SaveCustomer, history
<1>1. user'.plan = j.usr.plan /\ user'.status = j.usr.status
  BY <1>0 DEF SaveCustomer, Task, UserDoc
<1>2. Agree' /\ PayerFits' /\ OneActive'
  BY <1>0, <1>1 DEF Holds, Shape, Mirrors, Follows, Single, Agree, PayerFits,
                    OneActive, SoleActive, WithStatus
<1> QED
  BY <1>0, <1>2, ReturnHolds

LEMMA SaveVerifiedUserHolds ==
  ASSUME TypeInv, NEW t \in Procs, NEW j, j = task[t], Holds(j), SaveVerifiedUser(t)
  PROVE  \E k : Continue(t, k) /\ Holds(k)'
<1>0. /\ j.pc = "userSave" /\ Goto(t, "entFind") /\ j.act = "verify"
      /\ UNCHANGED <<sub, ent, gateway, events, payer, polled>>
  BY DEF SaveVerifiedUser, outside, history, Holds, Shape
<1>1. PICK k : /\ Continue(t, k) /\ k.pc = "entFind" /\ k.act = j.act /\ k.id = j.id
               /\ k.grant = j.grant /\ k.todo = j.todo /\ k.ev = j.ev
  BY <1>0, GotoFields
<1>2. Shape(k) /\ Mirrors(k)'
  BY <1>0, <1>1 DEF Shape, Holds, Mirrors
<1>3. Follows(k)'
  BY <1>0, <1>1, <1>2 DEF Follows, Shape
<1>4. Single(k)'
  BY <1>0 DEF Holds, Single, OneActive, SoleActive, WithStatus
<1>5. ~PaidSub(j.ev)
  BY <1>0 DEF Holds, Charges, Pays
<1>6. Charges(k)'
  BY <1>0, <1>1, <1>5, RecordedStays, HeardStays
     DEF Holds, Charges, Pays, PaidSub
<1> QED
  BY <1>1, <1>2, <1>3, <1>4, <1>6 DEF Holds, Shape

-------------------------------------------------------------------------------
(* Saving, superseding and creating subscriptions *)

\* What the save of a handler leaves.
LEMMA SavedFacts ==
  ASSUME TypeInv, NEW t \in Procs, NEW j, j = task[t], Holds(j), SaveSub(t)
  PROVE  /\ j.pc = "save" /\ j.id \in Subs /\ Saves(j)
         /\ \A s \in Subs : sub'[s] = IF s = j.id THEN j.doc ELSE sub[s]
         /\ UNCHANGED <<ent, user, gateway, payer>>
         /\ polled' = (polled \/ j.act = "poll")
BY DEF SaveSub, TypeInv, TypeOK, TaskOK, Holds, Follows

\* A second active subscription comes of a payment or of a poll only.
LEMMA SavedSingle ==
  ASSUME TypeInv, NEW t \in Procs, NEW j, j = task[t], Holds(j), SaveSub(t),
         j.act # "paid"
  PROVE  OneActive'
<1>0. /\ j.pc = "save" /\ Saves(j)
      /\ \A s \in Subs : sub'[s] = IF s = j.id THEN j.doc ELSE sub[s]
      /\ polled' = (polled \/ j.act = "poll")
  BY SavedFacts
<1>1. CASE j.act = "poll" \/ polled
  BY <1>0, <1>1 DEF OneActive
<1>2. CASE j.act # "poll" /\ ~polled
  <2>1. SoleActive
    BY <1>0, <1>2 DEF Holds, Single, OneActive
  <2>2. \A s \in WithStatus({"active"})' : s \in WithStatus({"active"})
    BY <1>0, <1>2 DEF WithStatus, Saves
  <2> QED
    BY <2>1, <2>2 DEF OneActive, SoleActive
<1> QED
  BY <1>1, <1>2

LEMMA SavedCharges ==
  ASSUME TypeInv, NEW t \in Procs, NEW j, j = task[t], Holds(j), SaveSub(t)
  PROVE  Recorded(Idle)' /\ \A s \in Subs : Heard(s)'
<1>0. /\ j.pc = "save" /\ j.id \in Subs /\ Saves(j)
      /\ \A s \in Subs : sub'[s] = IF s = j.id THEN j.doc ELSE sub[s]
      /\ UNCHANGED gateway
  BY SavedFacts
<1>1. Recorded(Idle)'
  BY <1>0 DEF Holds, Charges, Recorded, Inserts, Saves
<1>2. ASSUME NEW s \in Subs, Paying(s), sub'[s].status = "cancelled"
      PROVE  Paying(s)'
  <2>1. PICK e \in events : e.kind = "paid" /\ e.id = s
    BY <1>2 DEF Paying
  <2>2. e # Unset
    BY UnsetAssumption DEF TypeInv, TypeOK
  <2>3. events' = events \/ (events' = events \ {j.ev} /\ j.act = "close")
    BY DEF SaveSub, Return
  <2>4. CASE events' = events
    BY <2>1, <2>4 DEF Paying
  <2>5. CASE events' = events \ {j.ev} /\ j.act = "close"
    <3>1. ~PaidSub(j.ev)
      BY <1>0, <2>5 DEF Holds, Charges, Pays
    <3>2. e # j.ev
      BY <2>1, <2>2, <3>1 DEF PaidSub
    <3> QED
      BY <2>1, <2>5, <3>2 DEF Paying
  <2> QED
    BY <2>3, <2>4, <2>5
<1>3. ASSUME NEW s \in Subs, sub'[s].status = "cancelled", gateway[s] = "ACTIVE"
      PROVE  Paying(s)
  BY <1>0, <1>3 DEF Holds, Charges, Heard, Saves
<1> QED
  BY <1>0, <1>1, <1>2, <1>3 DEF Heard

LEMMA SaveSubHolds ==
  ASSUME TypeInv, NEW t \in Procs, NEW j, j = task[t], Holds(j), SaveSub(t)
  PROVE  \E k : Continue(t, k) /\ Holds(k)'
<1>0. /\ j.pc = "save" /\ j.id \in Subs /\ Saves(j)
      /\ \A s \in Subs : sub'[s] = IF s = j.id THEN j.doc ELSE sub[s]
      /\ UNCHANGED <<ent, user, gateway, payer>>
      /\ Recorded(Idle)' /\ \A s \in Subs : Heard(s)'
      /\ j.act \in {"paid", "failed", "cancelled", "cancel", "abandon", "close",
                    "poll", "grace", "ending"}
  BY SavedFacts, SavedCharges DEF Holds, Shape
<1>1. Agree /\ Agree'
  BY <1>0 DEF Holds, Mirrors, Agree
<1>2. PayerFits /\ (j.act \in {"cancel", "abandon", "close"} => PayerFits')
  BY <1>0 DEF Holds, Follows, PayerFits, Saves, Fits
<1>3. ASSUME NEW k, k.act = j.act, k.ev = j.ev, k.id = j.id, k.todo = j.todo,
             k.pc \in {"entFind", "stop", "provider"}, k.pc = "stop" => k.act = "cancel"
      PROVE  Charges(k)'
  <2>1. Recorded(k)'
    BY <1>0, <1>3, IdleFields DEF Recorded, Inserts
  <2>2. Pays(k)'
    BY <1>0, <1>3 DEF Holds, Charges, Pays, PaidSub, Saves
  <2> QED
    BY <1>0, <2>1, <2>2 DEF Charges
<1>4. CASE j.act = "close"
  <2>1. Continue(t, Idle)
    BY <1>4 DEF SaveSub, Return, Continue
  <2>2. OneActive' /\ PayerFits'
    BY <1>2, <1>4, SavedSingle
  <2>3. Holds(Idle)'
    BY <1>0, <1>1, <2>2, RestsNext DEF Rests
  <2> QED
    BY <2>1, <2>3
<1>5. CASE j.act # "close"
  <2>0. Goto(t, AfterSave(j.act))
    BY <1>5 DEF SaveSub
  <2>1. PICK k : /\ Continue(t, k) /\ k.pc = AfterSave(j.act)
                 /\ k.act = j.act /\ k.id = j.id /\ k.new = j.new /\ k.ev = j.ev
                 /\ k.grant = j.grant /\ k.usr = j.usr /\ k.todo = j.todo
    BY <2>0, GotoFields
  <2>2. /\ k.act = "cancel" => k.pc = "stop"
        /\ k.act = "abandon" => k.pc = "provider"
        /\ k.act \notin {"cancel", "abandon"} => k.pc = "entFind"
    BY <2>1 DEF AfterSave
  <2>3. Shape(k) /\ Mirrors(k)'
    BY <1>0, <1>1, <1>5, <2>1, <2>2 DEF Shape, Holds, Mirrors
  <2>4. Follows(k)'
    <3>1. CASE k.pc = "entFind"
      BY <1>0, <1>5, <2>1, <2>2, <3>1 DEF Follows, Saves
    <3>2. CASE k.pc = "stop"
      BY <1>0, <1>2, <2>1, <2>2, <3>2 DEF Follows, Holds, Shape
    <3>3. CASE k.pc = "provider"
      <4>1. sub[j.new].status = "none" /\ j.new # j.id /\ j.new \in Subs
        BY <1>0, <2>1, <2>2, <3>3 DEF Holds, Follows, Saves, Shape
      <4> QED
        BY <1>0, <1>2, <2>1, <2>2, <3>3, <4>1 DEF Follows
    <3> QED
      BY <2>2, <3>1, <3>2, <3>3
  <2>5. Single(k)'
    BY <1>0, <2>1, <2>2, SavedSingle DEF Single
  <2>6. Charges(k)'
    BY <1>3, <2>1, <2>2
  <2> QED
    BY <2>1, <2>3, <2>4, <2>5, <2>6 DEF Holds, Shape
<1> QED
  BY <1>4, <1>5

LEMMA SnapshotIds ==
  ASSUME NEW P
  PROVE  /\ \A x \in Snapshots(P) : x.id \in P
         /\ \A s \in P : \E x \in Snapshots(P) : x.id = s
<1>1. \A x \in Snapshots(P) : x.id \in P
  BY DEF Snapshots
<1>2. ASSUME NEW s \in P
      PROVE  \E x \in Snapshots(P) : x.id = s
  <2>1. [id |-> s, doc |-> sub[s]] \in Snapshots(P)
    BY DEF Snapshots
  <2> QED
    BY <2>1
<1> QED
  BY <1>1, <1>2

LEMMA ListPriorHolds ==
  ASSUME TypeInv, NEW t \in Procs, NEW j, j = task[t], Holds(j), ListPrior(t)
  PROVE  \E k : Continue(t, k) /\ Holds(k)'
<1>0. /\ j \in Task /\ j.pc = "prior" /\ j.act = "paid" /\ j.id = payer
      /\ UNCHANGED <<sub, ent, user, gateway, payer, polled>>
  BY DocTypes DEF ListPrior, history, Holds, Shape, Follows
<1>1. Agree' /\ PayerFits'
  BY <1>0 DEF Holds, Mirrors, Follows, Agree, PayerFits
<1> DEFINE prior == WithStatus(Live) \ {j.id}
<1>2. \A s \in WithStatus({"active"}) : s = payer \/ s \in prior
  BY <1>0 DEF WithStatus, Live
<1>3. CASE prior = {}
  <2>1. SoleActive /\ Return(t)
    BY <1>2, <1>3 DEF SoleActive, ListPrior
  <2>2. OneActive'
    BY <1>0, <2>1 DEF OneActive, SoleActive, WithStatus
  <2> QED
    BY <1>0, <1>1, <2>1, <2>2, ReturnHolds
<1>4. CASE prior # {}
  <2> DEFINE S == Snapshots(prior)
  <2>1. PICK k : k = [j EXCEPT !.pc = "supersede", !.todo = S]
    OBVIOUS
  <2>2. Continue(t, k) /\ UNCHANGED events
    BY <1>4, <2>1 DEF ListPrior
  <2>3. /\ \A x \in S : x.id \in prior
        /\ \A s \in prior : \E x \in S : x.id = s
    BY SnapshotIds
  <2>4. prior \subseteq Subs /\ j.id \notin prior
    BY DEF WithStatus
  <2> HIDE DEF S, prior
  <2>5. /\ k.pc = "supersede" /\ k.act = j.act /\ k.id = j.id /\ k.todo = S
        /\ k.ev = j.ev
    BY <1>0, <2>1 DEF Task
  <2>6. Shape(k) /\ Mirrors(k)'
    BY <1>0, <1>1, <2>5 DEF Shape, Holds, Mirrors
  <2>7. Follows(k)'
    BY <1>0, <1>1, <2>3, <2>4, <2>5 DEF Follows
  <2>8. Single(k)'
    BY <1>0, <1>2, <2>3, <2>5 DEF Single, WithStatus
  <2>9. Charges(k)'
    <3>1. Pays(k)'
      BY <1>0, <2>3, <2>4, <2>5 DEF Holds, Charges, Pays
    <3> QED
      BY <1>0, <2>2, <3>1, RecordedStays, HeardStays DEF Holds, Charges
  <2> QED
    BY <2>2, <2>6, <2>7, <2>8, <2>9 DEF Holds, Shape
<1> QED
  BY <1>3, <1>4

LEMMA SupersedeHolds ==
  ASSUME TypeInv, NEW t \in Procs, NEW j, j = task[t], Holds(j), Supersede(t)
  PROVE  \E k : Continue(t, k) /\ Holds(k)'
<1>0. /\ j \in Task /\ j.pc = "supersede" /\ j.act = "paid"
      /\ UNCHANGED <<ent, user, gateway, events, payer, polled>>
      /\ sub \in [Subs -> SubDoc]
  BY DocTypes DEF Supersede, outside, history, Holds, Shape, TypeInv, TypeOK
<1>1. PICK x \in j.todo :
        /\ sub' = [sub EXCEPT ![x.id] = [x.doc EXCEPT !.status = "superseded"]]
        /\ Continue(t, [j EXCEPT !.pc = "stop", !.id = x.id, !.todo = j.todo \ {x}])
  BY DEF Supersede
<1> DEFINE S == j.todo \ {x}
<1>2. PICK k : k = [j EXCEPT !.pc = "stop", !.id = x.id, !.todo = S]
  OBVIOUS
<1>3. /\ Continue(t, k)
      /\ \A y \in S : y \in j.todo
      /\ \A y \in j.todo : y = x \/ y \in S
  BY <1>1, <1>2
<1>4. [x.doc EXCEPT !.status = "superseded"].status = "superseded" /\ x.id \in Subs
  BY <1>0 DEF Task, Snapshot, SubDoc
<1>5. /\ sub'[x.id].status = "superseded"
      /\ \A s \in Subs : s # x.id => sub'[s] = sub[s]
  BY <1>0, <1>1, <1>4
<1> HIDE DEF S
<1>6. /\ k.pc = "stop" /\ k.act = j.act /\ k.id = x.id /\ k.todo = S /\ k.ev = j.ev
  BY <1>0, <1>2 DEF Task
<1>7. x.id # payer
  BY <1>0 DEF Holds, Follows
<1>8. Shape(k) /\ Mirrors(k)'
  BY <1>0, <1>4, <1>6 DEF Shape, Holds, Mirrors, Agree
<1>9. Follows(k)'
  BY <1>0, <1>3, <1>5, <1>6, <1>7 DEF Holds, Follows, PayerFits
<1>10. Single(k)'
  <2>1. \A s \in WithStatus({"active"})' : s \in WithStatus({"active"}) /\ s # x.id
    BY <1>5 DEF WithStatus
  <2>2. CASE OneActive
    BY <1>0, <2>1, <2>2 DEF Single, OneActive, SoleActive
  <2>3. CASE \A s \in WithStatus({"active"}) : s = payer \/ \E y \in j.todo : y.id = s
    BY <1>0, <1>3, <1>6, <2>1, <2>3 DEF Single
  <2> QED
    BY <1>0, <2>2, <2>3 DEF Holds, Single
<1>11. Charges(k)'
  <2>1. Recorded(k)'
    BY <1>0, <1>5 DEF Holds, Charges, Recorded, Inserts
  <2>2. \A s \in Subs : Heard(s)'
    BY <1>0, <1>5 DEF Holds, Charges, Heard, Paying
  <2>3. Pays(k)'
    BY <1>0, <1>3, <1>5, <1>6 DEF Holds, Charges, Pays, PaidSub
  <2> QED
    BY <2>1, <2>2, <2>3 DEF Charges
<1> QED
  BY <1>3, <1>8, <1>9, <1>10, <1>11 DEF Holds, Shape

\* The call to the gateway ends a mandate at most, and may add its notice.
LEMMA StopMandateHolds ==
  ASSUME TypeInv, NEW t \in Procs, NEW j, j = task[t], Holds(j), StopMandate(t)
  PROVE  \E k : Continue(t, k) /\ Holds(k)'
<1>0. /\ j \in Task /\ j.pc = "stop" /\ j.act \in {"paid", "cancel"}
      /\ UNCHANGED <<sub, ent, user, payer, polled>>
      /\ j.id \in Subs
  BY DocTypes DEF StopMandate, history, Holds, Shape, TypeInv, TaskOK
<1>1. Agree' /\ PayerFits'
  BY <1>0 DEF Holds, Mirrors, Follows, Agree, PayerFits
<1>2. PICK sent : AfterStop(t, sent)
  BY DEF StopMandate
<1>3. \A s \in Subs : /\ gateway'[s] # "none" => gateway[s] # "none"
                      /\ gateway'[s] = "ACTIVE" => gateway[s] = "ACTIVE"
  BY DEF StopMandate, TypeInv, TypeOK, Items
<1>4. Recorded(Idle)' /\ \A s \in Subs : Heard(s)'
  <2>1. \A s \in Subs : Heard(s) /\ (Paying(s) /\ sub[s].status = "cancelled" => Paying(s)')
    <3> SUFFICES ASSUME NEW s \in Subs, Heard(s), Paying(s),
                        sub[s].status = "cancelled"
                 PROVE  Paying(s)'
      BY DEF Holds, Charges
    <3>1. PICK e \in events : e.kind = "paid" /\ e.id = s
      BY DEF Paying
    <3>2. e # Unset
      BY UnsetAssumption DEF TypeInv, TypeOK
    <3>3. e # j.ev
      BY <1>0, <3>1, <3>2 DEF Holds, Charges, Pays, PaidSub
    <3>4. e \in events'
      BY <1>2, <3>3 DEF AfterStop
    <3> QED
      BY <3>1, <3>4 DEF Paying
  <2>2. \A s \in Subs : Heard(s)'
    BY <1>0, <1>3, <2>1 DEF Heard
  <2>3. Recorded(Idle)'
    BY <1>0, <1>3, IdleFields DEF Holds, Charges, Recorded, Inserts
  <2> QED
    BY <2>2, <2>3
<1>5. CASE j.todo # {}
  <2>0. j.act = "paid" /\ Goto(t, "supersede")
    BY <1>0, <1>2, <1>5 DEF AfterStop, Holds, Shape
  <2>1. PICK k : /\ Continue(t, k) /\ k.pc = "supersede" /\ k.act = j.act
                 /\ k.id = j.id /\ k.todo = j.todo /\ k.ev = j.ev
    BY <2>0, GotoFields
  <2>2. Shape(k) /\ Mirrors(k)'
    BY <1>0, <1>1, <2>0, <2>1 DEF Shape, Holds, Mirrors
  <2>3. Follows(k)'
    BY <1>0, <1>1, <2>0, <2>1 DEF Holds, Follows
  <2>4. Single(k)'
    BY <1>0, <2>0, <2>1 DEF Holds, Single, OneActive, SoleActive, WithStatus
  <2>5. Pays(k)'
    BY <1>0, <2>0, <2>1 DEF Holds, Charges, Pays
  <2>6. Recorded(k)'
    BY <1>4, IdleFields DEF Recorded, Inserts
  <2> QED
    BY <1>4, <2>1, <2>2, <2>3, <2>4, <2>5, <2>6 DEF Holds, Shape, Charges
<1>6. CASE j.todo = {}
  <2>1. Continue(t, Idle)
    BY <1>2, <1>6 DEF AfterStop
  <2>2. OneActive \/ \A s \in WithStatus({"active"}) : s = payer
    BY <1>0, <1>6 DEF Holds, Single
  <2>3. OneActive'
    BY <1>0, <2>2 DEF OneActive, SoleActive, WithStatus
  <2>4. Holds(Idle)'
    BY <1>1, <1>4, <2>3, RestsNext DEF Rests
  <2> QED
    BY <2>1, <2>4
<1> QED
  BY <1>5, <1>6

LEMMA PollActiveHolds ==
  ASSUME TypeInv, NEW t \in Procs, NEW j, j = task[t], Holds(j), PollActive(t)
  PROVE  \E k : Continue(t, k) /\ Holds(k)'
<1>0. /\ j \in Task /\ j.pc = "poll" /\ j.act \in {"create", "resume"}
      /\ UNCHANGED <<sub, ent, user, gateway, events, payer, polled>>
      /\ ~PaidSub(j.ev)
  BY DocTypes DEF PollActive, outside, history, Holds, Shape, Charges, Pays
<1> DEFINE d == [j.doc EXCEPT !.status = "active"]
           g == Grant(OfferOf[j.id], "active", TRUE)
<1>1. PICK k : k = [j EXCEPT !.pc = "save", !.act = "poll", !.doc = d, !.grant = g]
  OBVIOUS
<1>2. Continue(t, k)
  BY <1>1 DEF PollActive
<1>3. d.status = "active"
  BY <1>0 DEF Task, SubDoc
<1>4. g.status = "active" /\ g.plan = OfferOf[j.id]
  BY DEF Grant
<1> HIDE DEF d, g
<1>5. /\ k.pc = "save" /\ k.act = "poll" /\ k.id = j.id /\ k.doc = d /\ k.grant = g
      /\ k.ev = j.ev
  BY <1>0, <1>1 DEF Task
<1>6. Shape(k) /\ Mirrors(k)'
  BY <1>0, <1>5 DEF Shape, Holds, Mirrors, Agree
<1>7. Saves(k)
  BY <1>3, <1>4, <1>5 DEF Saves, Fits
<1>8. Follows(k)'
  BY <1>0, <1>5, <1>7 DEF Holds, Follows, PayerFits, Saves, Paying
<1>9. Single(k)'
  BY <1>0 DEF Holds, Single, OneActive, SoleActive, WithStatus
<1>10. Charges(k)'
  BY <1>0, <1>5, RecordedStays, HeardStays DEF Holds, Charges, Pays, PaidSub
<1> QED
  BY <1>2, <1>6, <1>8, <1>9, <1>10 DEF Holds, Shape

LEMMA PollWaitingHolds ==
  ASSUME TypeInv, NEW t \in Procs, NEW j, j = task[t], Holds(j), PollWaiting(t)
  PROVE  \E k : Continue(t, k) /\ Holds(k)'
<1>0. /\ j.pc = "poll" /\ j.act \in {"create", "resume"} /\ Return(t)
      /\ UNCHANGED <<sub, ent, user, gateway, payer, polled>>
  BY DEF PollWaiting, history, Holds, Shape
<1>1. Agree' /\ PayerFits' /\ OneActive'
  BY <1>0 DEF Holds, Mirrors, Follows, Single, Agree, PayerFits, OneActive,
              SoleActive, WithStatus
<1> QED
  BY <1>0, <1>1, ReturnHolds

\* The mandate a handler closes is not one that is being charged.
LEMMA PollClosingHolds ==
  ASSUME TypeInv, NEW t \in Procs, NEW j, j = task[t], Holds(j), PollClosing(t)
  PROVE  \E k : Continue(t, k) /\ Holds(k)'
<1>0. /\ j \in Task /\ j.pc = "poll" /\ j.act \in {"create", "resume"}
      /\ UNCHANGED <<sub, ent, user, gateway, events, payer, polled>>
      /\ ~PaidSub(j.ev) /\ gateway[j.id] # "ACTIVE"
  BY DocTypes DEF PollClosing, outside, history, Holds, Shape, Charges, Pays
<1> DEFINE d == [j.doc EXCEPT !.status = "cancelled"]
           a == IF j.act = "create" THEN "abandon" ELSE "close"
<1>1. PICK k : k = [j EXCEPT !.pc = "save", !.act = a, !.doc = d]
  OBVIOUS
<1>2. Continue(t, k)
  BY <1>1 DEF PollClosing
<1>3. d.status = "cancelled"
  BY <1>0 DEF Task, SubDoc
<1>4. a \in {"abandon", "close"} /\ (a = "abandon" => j.act = "create")
  OBVIOUS
<1> HIDE DEF d, a
<1>5. /\ k.pc = "save" /\ k.act = a /\ k.id = j.id /\ k.new = j.new /\ k.doc = d
      /\ k.ev = j.ev /\ k.usr = j.usr
  BY <1>0, <1>1 DEF Task
<1>6. Shape(k) /\ Mirrors(k)'
  BY <1>0, <1>4, <1>5 DEF Shape, Holds, Mirrors, Agree
<1>7. Saves(k)
  BY <1>0, <1>3, <1>4, <1>5 DEF Saves, Holds, Follows
<1>8. Follows(k)'
  BY <1>0, <1>4, <1>5, <1>7 DEF Holds, Follows, PayerFits, Saves, Paying
<1>9. Single(k)'
  BY <1>0 DEF Holds, Single, OneActive, SoleActive, WithStatus
<1>10. Charges(k)'
  BY <1>0, <1>5, RecordedStays, HeardStays DEF Holds, Charges, Pays, PaidSub
<1> QED
  BY <1>2, <1>6, <1>8, <1>9, <1>10 DEF Holds, Shape

LEMMA CreateMandateHolds ==
  ASSUME TypeInv, NEW t \in Procs, NEW j, j = task[t], Holds(j), CreateMandate(t)
  PROVE  \E k : Continue(t, k) /\ Holds(k)'
<1>0. /\ j.pc = "provider" /\ j.act \in {"create", "abandon"} /\ j.new \in Subs
      /\ UNCHANGED <<sub, ent, user, events, payer, polled>>
      /\ \A s \in Subs : gateway'[s] = IF s = j.new THEN "INITIALIZED" ELSE gateway[s]
      /\ Goto(t, "insert") /\ sub[j.new].status = "none" /\ ~PaidSub(j.ev)
  BY DEF CreateMandate, history, Holds, Shape, Follows, Charges, Pays, TypeInv,
         TypeOK, Items
<1>1. PICK k : /\ Continue(t, k) /\ k.pc = "insert" /\ k.act = j.act /\ k.id = j.id
               /\ k.new = j.new /\ k.ev = j.ev /\ k.usr = j.usr
  BY <1>0, GotoFields
<1>2. Shape(k) /\ Mirrors(k)'
  BY <1>0, <1>1 DEF Shape, Holds, Mirrors, Agree
<1>3. Follows(k)'
  BY <1>0, <1>1 DEF Holds, Follows, PayerFits
<1>4. Single(k)'
  BY <1>0 DEF Holds, Single, OneActive, SoleActive, WithStatus
<1>5. Charges(k)'
  <2>1. Recorded(k)'
    BY <1>0, <1>1 DEF Holds, Charges, Recorded, Inserts
  <2>2. \A s \in Subs : Heard(s)'
    BY <1>0 DEF Holds, Charges, Heard, Paying
  <2>3. Pays(k)'
    BY <1>0, <1>1 DEF Pays, PaidSub
  <2> QED
    BY <2>1, <2>2, <2>3 DEF Charges
<1> QED
  BY <1>1, <1>2, <1>3, <1>4, <1>5 DEF Holds, Shape

LEMMA InsertSubHolds ==
  ASSUME TypeInv, NEW t \in Procs, NEW j, j = task[t], Holds(j), InsertSub(t)
  PROVE  \E k : Continue(t, k) /\ Holds(k)'
<1>0. /\ j.pc = "insert" /\ j.act \in {"create", "abandon"} /\ j.new \in Subs
      /\ UNCHANGED <<ent, user, gateway, payer, polled>>
      /\ sub[j.new].status = "none" /\ ~PaidSub(j.ev)
      /\ \A s \in Subs : sub'[s] = IF s = j.new THEN Pending(now) ELSE sub[s]
  BY DEF InsertSub, history, Holds, Shape, Follows, Charges, Pays, TypeInv, TypeOK
<1>1. Pending(now).status = "pending_authorization"
  BY DEF Pending
<1>2. Agree' /\ PayerFits'
  BY <1>0, <1>1 DEF Holds, Mirrors, Follows, Agree, PayerFits, Fits
<1>3. OneActive'
  <2>1. \A s \in WithStatus({"active"})' : s \in WithStatus({"active"})
    BY <1>0, <1>1 DEF WithStatus
  <2> QED
    BY <1>0, <2>1 DEF Holds, Single, OneActive, SoleActive
<1>4. Recorded(Idle)'
  BY <1>0, <1>1 DEF Holds, Charges, Recorded, Inserts
<1>5. \A s \in Subs : Heard(s)'
  <2> SUFFICES ASSUME NEW s \in Subs, sub'[s].status = "cancelled",
                      gateway[s] = "ACTIVE"
               PROVE  Paying(s)'
    BY <1>0 DEF Heard
  <2>1. sub[s].status = "cancelled"
    BY <1>0, <1>1
  <2>2. PICK e \in events : e.kind = "paid" /\ e.id = s
    BY <2>1 DEF Holds, Charges, Heard, Paying
  <2>3. e # Unset
    BY UnsetAssumption DEF TypeInv, TypeOK
  <2>4. e # j.ev
    BY <1>0, <2>2, <2>3 DEF PaidSub
  <2>5. e \in events'
    BY <2>4 DEF InsertSub, Return
  <2> QED
    BY <2>2, <2>5 DEF Paying
<1>6. CASE Return(t)
  <2>1. Continue(t, Idle)
    BY <1>6 DEF Return, Continue
  <2>2. Holds(Idle)'
    BY <1>2, <1>3, <1>4, <1>5, RestsNext DEF Rests
  <2> QED
    BY <2>1, <2>2
<1>7. CASE Goto(t, "customer")
  <2>1. PICK k : /\ Continue(t, k) /\ k.pc = "customer" /\ k.act = j.act
                 /\ k.id = j.id /\ k.new = j.new /\ k.ev = j.ev /\ k.usr = j.usr
    BY <1>7, GotoFields
  <2>2. Shape(k) /\ Mirrors(k)'
    BY <1>0, <1>2, <2>1 DEF Shape, Holds, Mirrors
  <2>3. Follows(k)'
    BY <1>2, <2>1 DEF Follows
  <2>4. Single(k)' /\ Pays(k)'
    BY <1>0, <1>3, <2>1 DEF Single, Pays, PaidSub
  <2>5. Recorded(k)'
    BY <1>4, IdleFields DEF Recorded, Inserts
  <2> QED
    BY <1>5, <2>1, <2>2, <2>3, <2>4, <2>5 DEF Holds, Shape, Charges
<1> QED
  BY <1>6, <1>7 DEF InsertSub

-------------------------------------------------------------------------------
(* Every step *)

\* The gateway and the clock do not touch the documents; a mandate that becomes
\* chargeable sends its first payment.
LEMMA EnvironmentHolds ==
  ASSUME TypeInv, Environment \/ Tick, NEW k, Holds(k),
         k.pc = "save" => k.id \in Subs
  PROVE  Holds(k)'
<1>0. UNCHANGED <<sub, ent, user, payer, polled>>
  BY DEF Environment, Authorise, Charge, Revoke, PayOrder, IgnoreOrphan, Tick,
         history
<1>1. \A s \in Subs : gateway'[s] # "none" => gateway[s] # "none"
  BY LifecycleAssumption
     DEF Environment, Authorise, Charge, Revoke, PayOrder, IgnoreOrphan, Tick,
         TypeInv, TypeOK, Items
<1>2. ASSUME NEW s \in Subs, gateway[s] = "ACTIVE" => Paying(s),
             sub[s].status # "none", gateway'[s] = "ACTIVE"
      PROVE  Paying(s)'
  <2>1. ASSUME Authorise(s)
        PROVE  Paying(s)'
    <3> DEFINE e == [kind |-> "paid", id |-> s, at |-> now]
    <3>1. e \in events' /\ e.kind = "paid" /\ e.id = s
      BY <2>1 DEF Authorise, Send
    <3> HIDE DEF e
    <3> QED
      BY <3>1 DEF Paying
  <2>2. CASE ~Authorise(s)
    <3>1. gateway[s] = "ACTIVE"
      BY <1>2, <2>2, LifecycleAssumption
         DEF Environment, Authorise, Charge, Revoke, PayOrder, IgnoreOrphan, Tick,
             TypeInv, TypeOK, Items
    <3>2. PICK e \in events : e.kind = "paid" /\ e.id = s
      BY <1>2, <3>1 DEF Paying
    <3>3. e \in events'
      BY <1>2, <3>2 DEF Environment, Authorise, Charge, Revoke, PayOrder,
                        IgnoreOrphan, Tick, Send
    <3> QED
      BY <3>2, <3>3 DEF Paying
  <2> QED
    BY <2>1, <2>2
<1>3. Mirrors(k)' /\ Single(k)'
  BY <1>0 DEF Holds, Mirrors, Agree, Single, OneActive, SoleActive, WithStatus
<1>4. Follows(k)'
  <2>1. k.pc = "save" => Saves(k)'
    BY <1>0, <1>2 DEF Holds, Follows, Saves
  <2> QED
    BY <1>0, <2>1 DEF Holds, Follows, PayerFits
<1>5. Charges(k)'
  <2>1. Recorded(k)'
    BY <1>0, <1>1 DEF Holds, Charges, Recorded, Inserts
  <2>2. \A s \in Subs : Heard(s)'
    BY <1>0, <1>2 DEF Holds, Charges, Heard
  <2>3. Pays(k)'
    BY <1>0 DEF Holds, Charges, Pays
  <2> QED
    BY <2>1, <2>2, <2>3 DEF Charges
<1> QED
  BY <1>3, <1>4, <1>5 DEF Holds, Shape

LEMMA StepHolds ==
  ASSUME TypeInv, NEW t \in Procs, NEW j, j = task[t], Holds(j), Step(t),
         faults = 0, faults' = 0
  PROVE  \E k : Continue(t, k) /\ Holds(k)'
<1>1. ~MirrorFails(t) /\ ~StopFails(t) /\ ~PollFails(t)
  BY DEF MirrorFails, StopFails, PollFails, Fault
<1> QED
  BY <1>1, SaveSubHolds, FindEntHolds, SaveEntHolds, InsertsAreAccepted,
     MirrorUserHolds, ListPriorHolds, SupersedeHolds, StopMandateHolds,
     PollActiveHolds, PollWaitingHolds, PollClosingHolds, CreateMandateHolds,
     InsertSubHolds, SaveCustomerHolds, SaveVerifiedUserHolds DEF Step

LEMMA StartHolds ==
  ASSUME TypeInv, Rests, NEW t \in Tasks, Start(t)
  PROVE  \E k : Continue(t, k) /\ Holds(k)'
BY StartWebhookHolds, StartRequestHolds, StartCreateHolds DEF Start, Procs

LEMMA StartsQuiet ==
  ASSUME TypeInv, overlaps = 0, overlaps' = 0, NEW t, NEW k, Enter(t, k)
  PROVE  Quiet
BY DEF Enter

LEMMA StartEnters ==
  ASSUME NEW t, Start(t)
  PROVE  \E k : Enter(t, k)
BY DEF Start, StartPaid, StartFailed, StartCancelled, StartOrderPaid, StartCreate,
       StartVerify, StartCancel, StartResume, StartCurrent

LEMMA SerialStep ==
  ASSUME TypeInv, IdleInv, SoloInv, SerialInv, [Next]_vars
  PROVE  SerialInv'
<1> SUFFICES ASSUME overlaps' = 0, faults' = 0
             PROVE  SerialInv'
  BY DEF SerialInv
<1>0. overlaps = 0 /\ faults = 0 /\ IdleInv'
  BY SoloStep, FaultsStay
<1>1. ASSUME NEW t \in Procs, Alone(t), \E k : Continue(t, k) /\ Holds(k)'
      PROVE  SerialInv'
  BY <1>0, <1>1, Advance
<1>2. \A t \in Procs : Alone(t) => \A j \in {task[t]} : Holds(j)
  BY <1>0 DEF SerialInv
<1>3. ASSUME NEW t \in Procs, Busy(t)
      PROVE  Alone(t) /\ \A j \in {task[t]} : Holds(j)
  BY <1>0, <1>2, <1>3 DEF SoloInv
<1>4. ASSUME NEW t \in Procs, Quiet
      PROVE  Alone(t) /\ Rests
  <2>1. Alone(t) /\ task[t] = Idle
    BY <1>4 DEF Quiet, Alone, IdleInv
  <2> QED
    BY <1>2, <2>1, IdleRests
<1>5. ASSUME NEW t \in Tasks, Start(t)
      PROVE  SerialInv'
  <2>1. t \in Procs /\ Quiet
    BY <1>0, <1>5, StartEnters, StartsQuiet DEF Procs
  <2> QED
    BY <1>1, <1>4, <1>5, <2>1, StartHolds
<1>6. ASSUME NEW t \in Procs, Step(t)
      PROVE  SerialInv'
  <2>1. Busy(t)
    BY <1>6 DEF Step, Busy, SaveSub, FindEnt, SaveEnt, InsertEntRefused, MirrorUser,
         MirrorFails, ListPrior, Supersede, StopMandate, StopFails, PollActive,
         PollWaiting, PollClosing, PollFails, CreateMandate, InsertSub,
         SaveCustomer, SaveVerifiedUser
  <2>2. PICK j : j = task[t]
    OBVIOUS
  <2>3. Alone(t) /\ Holds(j)
    BY <1>3, <2>1, <2>2
  <2> QED
    BY <1>0, <1>1, <1>6, <2>2, <2>3, StepHolds
<1>7. CASE StartExpiry
  <2>1. Quiet /\ Worker \in Procs
    BY <1>0, <1>7, StartsQuiet DEF StartExpiry, Procs
  <2> QED
    BY <1>1, <1>4, <1>7, <2>1, StartExpiryHolds
<1>8. CASE PickExpired \/ ListEnding \/ EndExpiry
  <2>1. Busy(Worker) /\ Worker \in Procs
    BY <1>8 DEF PickExpired, ListEnding, EndExpiry, Busy, Procs
  <2>2. PICK j : j = task[Worker]
    OBVIOUS
  <2>3. Alone(Worker) /\ Holds(j)
    BY <1>3, <2>1, <2>2
  <2> QED
    BY <1>1, <1>8, <2>1, <2>2, <2>3, PickExpiredHolds, ListEndingHolds,
       EndExpiryHolds
<1>9. ASSUME NEW t \in Procs, Abort(t)
      PROVE  FALSE
  BY <1>0, <1>9 DEF Abort, Fault
<1>10. CASE Environment \/ Tick
  <2>1. UNCHANGED task
    BY <1>10 DEF Environment, Authorise, Charge, Revoke, PayOrder, IgnoreOrphan, Tick
  <2>2. ASSUME NEW t \in Procs, Alone(t), NEW k, k = task[t]
        PROVE  Holds(k)'
    <3>1. k.pc = "save" => k.id \in Subs
      BY <2>2 DEF TypeInv, TaskOK
    <3> QED
      BY <1>2, <1>10, <2>2, <3>1, EnvironmentHolds
  <2> QED
    BY <2>1, <2>2 DEF SerialInv, Alone, Busy
<1>11. CASE UNCHANGED vars
  <2>1. ASSUME NEW k, Holds(k)
        PROVE  Holds(k)'
    BY <1>11, <2>1
       DEF vars, outside, history, Holds, Shape, Mirrors, Agree, Follows, PayerFits,
           Saves, Single, OneActive, SoleActive, WithStatus, Charges, Recorded,
           Inserts, Heard, Paying, Pays
  <2> QED
    BY <1>2, <1>11, <2>1 DEF SerialInv, Alone, Busy, vars
<1> QED
  BY <1>5, <1>6, <1>7, <1>8, <1>9, <1>10, <1>11 DEF Next, WorkerStep, Procs

LEMMA SerialInit == Init => SerialInv
<1> SUFFICES ASSUME Init PROVE SerialInv
  OBVIOUS
<1>1. Rests
  BY LifecycleAssumption
     DEF Init, Rests, Agree, PayerFits, OneActive, SoleActive, WithStatus, NoDoc,
         Recorded, Heard, Items
<1>2. \A t \in Procs : task[t] = Idle
  BY DEF Init
<1> QED
  BY <1>1, <1>2, RestsIdle DEF SerialInv

-------------------------------------------------------------------------------
(* What the documents say when the handlers are done *)

OneAtATime == TypeInv /\ IdleInv /\ SoloInv /\ SerialInv

LEMMA OneAtATimeHolds == Spec => []OneAtATime
<1>1. Init => OneAtATime
  BY TypeInit, SoloInit, SerialInit DEF OneAtATime
<1>2. OneAtATime /\ [Next]_vars => OneAtATime'
  BY TypeStep, SoloStep, SerialStep DEF OneAtATime
<1> QED
  BY <1>1, <1>2, PTL DEF Spec

LEMMA OrderlyRests ==
  ASSUME OneAtATime, Orderly
  PROVE  Rests
<1>1. Worker \in Procs /\ task[Worker] = Idle /\ Alone(Worker)
  BY DEF OneAtATime, Orderly, Quiet, IdleInv, Alone, Procs
<1>2. Holds(Idle)
  BY <1>1 DEF OneAtATime, SerialInv, Orderly
<1> QED
  BY <1>2, IdleRests

\* When handlers have neither overlapped nor failed, the entitlement that
\* sync_user_entitlement wrote is what its subscription has come to: a paid plan
\* ends with the subscription it was bought by, and a block with the lapse.
THEOREM PayerDecidesEntitlement == Spec => []EntitlementFollowsPayer
<1>1. OneAtATime => EntitlementFollowsPayer
  BY OrderlyRests DEF EntitlementFollowsPayer, Rests, PayerFits, Fits
<1> QED
  BY <1>1, OneAtATimeHolds, PTL

\* When handlers have neither overlapped nor failed, the dual write leaves the
\* plan and the status of the User document as the entitlement has them.
THEOREM UserFollowsEntitlement == Spec => []UserMirrorsEntitlement
<1>1. OneAtATime => UserMirrorsEntitlement
  BY OrderlyRests DEF UserMirrorsEntitlement, Rests, Agree
<1> QED
  BY <1>1, OneAtATimeHolds, PTL

\* When handlers have neither overlapped nor failed and no poll has activated a
\* subscription, a payment has superseded every other that was active.
THEOREM OnlyOneIsActive == Spec => []OneActiveSubscription
<1>1. OneAtATime => OneActiveSubscription
  <2> SUFFICES ASSUME OneAtATime, Orderly, ~polled
               PROVE  Cardinality(WithStatus({"active"})) <= 1
    BY DEF OneActiveSubscription
  <2> DEFINE A == WithStatus({"active"})
  <2>1. \A r, s \in A : r = s
    BY OrderlyRests DEF Rests, OneActive, SoleActive
  <2> HIDE DEF A
  <2>2. CASE A = {}
    BY <2>2, FS_EmptySet DEF A
  <2>3. CASE A # {}
    <3>1. PICK s : A = {s}
      BY <2>1, <2>3
    <3> QED
      BY <3>1, FS_Singleton DEF A
  <2> QED
    BY <2>2, <2>3
<1> QED
  BY <1>1, OneAtATimeHolds, PTL

\* When handlers have neither overlapped nor failed and every webhook has been
\* answered, a mandate that can be charged is one the application shows as
\* running, or has blocked for want of payment: create_user_subscription inserts
\* what it has ordered, and abandons only what the gateway has not activated.
THEOREM NoChargeIsUnknown == Spec => []ChargedMandateIsKnown
<1>1. Init => OneAtATime /\ MandateInv
  BY TypeInit, SoloInit, SerialInit, MandateInit DEF OneAtATime
<1>2. OneAtATime /\ MandateInv /\ [Next]_vars => (OneAtATime /\ MandateInv)'
  BY TypeStep, SoloStep, SerialStep, KnownStep, EndStep DEF OneAtATime, MandateInv
<1>3. OneAtATime /\ MandateInv => ChargedMandateIsKnown
  <2> SUFFICES ASSUME OneAtATime, MandateInv, Orderly, events = {},
                      NEW s \in Subs, gateway[s] = "ACTIVE"
               PROVE  sub[s].status \in Live \cup {"expired"}
    BY DEF ChargedMandateIsKnown
  <2>1. sub[s].status # "none" /\ sub[s].status # "cancelled"
    BY OrderlyRests, IdleFields DEF Rests, Recorded, Inserts, Heard, Paying
  <2>2. sub[s].status \notin Ended
    BY DEF MandateInv, EndInv, Ending, Stopping, Orderly, Quiet, Busy
  <2>3. sub[s].status \in SubStatus
    BY DocTypes DEF OneAtATime, SubDoc
  <2> QED
    BY <2>1, <2>2, <2>3 DEF SubStatus, Live, Ended
<1> QED
  BY <1>1, <1>2, <1>3, PTL DEF Spec

===============================================================================
