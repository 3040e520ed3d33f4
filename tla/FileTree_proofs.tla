---------------------------- MODULE FileTree_proofs ----------------------------
(***************************************************************************)
(* Proofs about FileTree, for any ids, names and partitions.  Of any number *)
(* of requests in flight: the types, that no walk queries a folder twice,   *)
(* and that an undisturbed walk collects a folder with everything below it. *)
(* Of one request at a time: that the folders are a tree, the bin and       *)
(* partitions keep whole folders, nothing is orphaned, names in a folder    *)
(* differ, and a duplication either makes a complete copy or goes on for    *)
(* ever.                                                                    *)
(***************************************************************************)
EXTENDS FileTree, FiniteSetTheorems, TLAPS

-------------------------------------------------------------------------------
(* Types *)

\* The documents that stand for an id not given out, or given out and gone.
LEMMA BlankType == Blank \in Doc /\ Purged \in Doc
<1>1. (CHOOSE b \in Bases : TRUE) \in Bases
  BY TreeAssumption
<1>2. Blank \in Doc
  BY <1>1 DEF Blank, Doc, Name, Places, Parts
<1>3. QED
  BY <1>2 DEF Purged, Doc

\* A document whose fields are replaced one at a time.
LEMMA DocUpdates ==
  ASSUME NEW d \in Doc
  PROVE  /\ \A n \in Name : [d EXCEPT !.name = n] \in Doc
         /\ \A p \in Places : [d EXCEPT !.parent = p] \in Doc
         /\ \A p \in Parts : [d EXCEPT !.part = p] \in Doc
         /\ [d EXCEPT !.status = "live"] \in Doc
         /\ [d EXCEPT !.status = "bin"] \in Doc
BY DEF Doc

\* A handler as it begins.
LEMMA HandlerType ==
  ASSUME NEW kind \in Kinds, NEW pc \in PC, NEW i \in Places, NEW p \in Places,
         NEW d \in Doc
  PROVE  Handler(kind, pc, i, p, d) \in Request
<1>1. NoWalk \in Walk
  BY DEF NoWalk, Walk
<1>2. Root \in Places /\ d.part \in Parts
  BY DEF Places, Doc
<1>3. QED
  BY <1>1, <1>2 DEF Handler, Request

LEMMA IdleType == Idle \in Request
<1>1. Root \in Places /\ "none" \in Kinds /\ "idle" \in PC
  BY DEF Places, Kinds, PC
<1>2. QED
  BY <1>1, BlankType, HandlerType DEF Idle

\* The local record of a handler, whose fields are replaced one at a time.
LEMMA RequestUpdates ==
  ASSUME NEW q \in Request
  PROVE  /\ \A pc \in PC : At(q, pc) \in Request
         /\ \A d \in Doc : Holding(q, d) \in Request
         /\ \A w \in Walk : [q EXCEPT !.walk = w] \in Request
         /\ \A p \in Parts : [q EXCEPT !.part = p] \in Request
         /\ \A p \in Places : [q EXCEPT !.to = p] \in Request
         /\ \A p \in Places : [q EXCEPT !.from = p] \in Request
         /\ \A b \in BOOLEAN : [q EXCEPT !.inPlace = b] \in Request
         /\ \A J \in SUBSET Job : [q EXCEPT !.jobs = J] \in Request
         /\ \A M \in SUBSET (Places \X Items) : [q EXCEPT !.made = M] \in Request
BY DEF Request, At, Holding

LEMMA RequestFields ==
  ASSUME NEW q \in Request
  PROVE  /\ q.kind \in Kinds /\ q.pc \in PC /\ q.id \in Places /\ q.to \in Places
         /\ q.part \in Parts /\ q.copy \in Doc /\ q.walk \in Walk
         /\ q.walk.seen \in SUBSET Items /\ q.walk.queue \in SUBSET Items
         /\ q.inPlace \in BOOLEAN /\ q.from \in Places
         /\ q.jobs \in SUBSET Job /\ q.made \in SUBSET (Places \X Items)
BY DEF Request, Walk

\* A walk as it begins and as it goes on.
LEMMA WalkerType ==
  ASSUME NEW q \in Request, q.id \in Items
  PROVE  Walker(q) \in Request
<1> DEFINE w == [seen |-> {q.id}, queue |-> {q.id}, calm |-> TRUE]
<1>1. w \in Walk
  BY DEF Walk
<1>2. At(q, "walk") \in Request
  BY RequestUpdates DEF PC
<1>3. [At(q, "walk") EXCEPT !.walk = w] \in Request
  BY <1>1, <1>2, RequestUpdates
<1>4. QED
  BY <1>3 DEF Walker

LEMMA FoundType ==
  ASSUME NEW q \in Request, NEW found \in SUBSET Items, NEW left \in SUBSET Items
  PROVE  Found(q, found, left) \in Request
<1> DEFINE w == [seen |-> q.walk.seen \cup found, queue |-> left, calm |-> q.walk.calm]
           pc == IF left = {} THEN "update" ELSE "walk"
<1>1. w \in Walk
  BY DEF Request, Walk
<1>2. pc \in PC
  BY DEF PC
<1> HIDE DEF w, pc
<1>3. [At(q, pc) EXCEPT !.walk = w] \in Request
  BY <1>1, <1>2, RequestUpdates
<1>4. QED
  BY <1>3 DEF Found, w, pc

LEMMA DisturbedType ==
  ASSUME NEW q \in Request, NEW d
  PROVE  Disturbed(q, d) \in Request
<1> DEFINE w == [q.walk EXCEPT !.calm = @ /\ Shape(d) = Shape(doc)]
<1>1. w \in Walk
  <2>1. q.walk \in Walk
    BY RequestFields
  <2>2. (q.walk.calm /\ Shape(d) = Shape(doc)) \in BOOLEAN
    OBVIOUS
  <2>3. QED
    BY <2>1, <2>2 DEF Walk
<1> HIDE DEF w
<1>2. [q EXCEPT !.walk = w] \in Request
  BY <1>1, RequestUpdates
<1>3. QED
  BY <1>2 DEF Disturbed, w

\* The three ways of taking a step.
LEMMA ContinueType ==
  ASSUME TypeOK, NEW r \in Reqs, NEW q \in Request, Continue(r, q)
  PROVE  TypeOK'
BY DEF TypeOK, Continue

LEMMA BeginType ==
  ASSUME TypeOK, NEW r \in Reqs, NEW q \in Request, Begin(r, q)
  PROVE  TypeOK'
BY TreeAssumption DEF TypeOK, Begin

LEMMA WriteType ==
  ASSUME TypeOK, NEW r \in Reqs, NEW q \in Request, NEW d \in [Items -> Doc],
         Write(r, q, d), lapses' \subseteq Lapses
  PROVE  TypeOK'
<1>1. \A s \in Reqs : Disturbed(req[s], d) \in Request
  BY DisturbedType DEF TypeOK
<1>2. req' \in [Reqs -> Request]
  BY <1>1 DEF Write
<1>3. QED
  BY <1>2 DEF TypeOK, Write

\* The document of an id of Items is a document.
LEMMA DocType ==
  ASSUME TypeOK
  PROVE  /\ \A i \in Items : doc[i] \in Doc
         /\ \A i : Stored(i) \/ Live(i) \/ Binned(i) \/ Fresh(i) => i \in Items
         /\ \A i \in Items, d \in Doc : [doc EXCEPT ![i] = d] \in [Items -> Doc]
         /\ \A i, d : i \notin Items => [doc EXCEPT ![i] = d] \in [Items -> Doc]
BY DEF TypeOK, Stored, Live, Binned, Fresh

LEMMA LapseType ==
  ASSUME NEW name \in Lapses, NEW happens
  PROVE  Lapse(name, happens) \subseteq Lapses
BY DEF Lapse

LEMMA CreateType ==
  ASSUME TypeOK, NEW r \in Reqs,
         \/ \E kind \in Creates, p \in Places, name \in Given, part \in Parts :
              BeginCreate(r, kind, p, name, part)
         \/ CheckCreate(r)
         \/ \E i \in Items : Insert(r, i)
  PROVE  TypeOK'
<1>0. req[r] \in Request
  BY DEF TypeOK
<1>1. ASSUME NEW kind \in Creates, NEW p \in Places, NEW name \in Given,
             NEW part \in Parts, BeginCreate(r, kind, p, name, part)
      PROVE  TypeOK'
  <2> DEFINE d == [status |-> "live", name |-> name, parent |-> p, part |-> part]
             pc == IF kind = "upload" THEN "insert" ELSE "check"
  <2>1. d \in Doc
    BY TreeAssumption DEF Doc
  <2>2. kind \in Kinds /\ pc \in PC /\ Root \in Places
    BY DEF Kinds, PC, Places
  <2>3. Begin(r, Handler(kind, pc, Root, p, d))
    BY <1>1 DEF BeginCreate
  <2> HIDE DEF d, pc
  <2>4. Handler(kind, pc, Root, p, d) \in Request
    BY <2>1, <2>2, HandlerType
  <2>5. QED
    BY <2>3, <2>4, BeginType
<1>2. CASE CheckCreate(r)
  <2>1. At(req[r], "insert") \in Request
    BY <1>0, RequestUpdates DEF PC
  <2>2. PICK q \in Request : Continue(r, q)
    BY <1>2, <2>1, IdleType DEF CheckCreate
  <2>3. QED
    BY <2>2, ContinueType
<1>3. ASSUME NEW i \in Items, Insert(r, i)
      PROVE  TypeOK'
  <2>1. req[r].copy \in Doc
    BY <1>0, RequestFields
  <2>2. [doc EXCEPT ![i] = req[r].copy] \in [Items -> Doc]
    BY <2>1, DocType
  <2>3. lapses' \subseteq Lapses
    BY <1>3 DEF Insert, Lapse, Lapses, TypeOK
  <2>4. Write(r, Idle, [doc EXCEPT ![i] = req[r].copy])
    BY <1>3 DEF Insert
  <2>5. QED
    BY <2>2, <2>3, <2>4, IdleType, WriteType
<1>4. QED
  BY <1>1, <1>2, <1>3

LEMMA RenameType ==
  ASSUME TypeOK, NEW r \in Reqs,
         \/ \E kind \in {"rename", "workspaceRename"}, i \in Items, name \in Given :
              BeginRename(r, kind, i, name)
         \/ CheckRename(r)
         \/ \E i \in Items : BeginTouch(r, i)
         \/ Save(r)
  PROVE  TypeOK'
<1>0. req[r] \in Request
  BY DEF TypeOK
<1>1. ASSUME NEW kind \in {"rename", "workspaceRename"}, NEW i \in Items,
             NEW name \in Given, BeginRename(r, kind, i, name)
      PROVE  TypeOK'
  <2> DEFINE d == [doc[i] EXCEPT !.name = name]
  <2>1. d \in Doc
    BY TreeAssumption, DocType, DocUpdates
  <2>2. kind \in Kinds /\ "check" \in PC /\ i \in Places /\ Root \in Places
    BY DEF Kinds, PC, Places
  <2>3. Begin(r, Handler(kind, "check", i, Root, d))
    BY <1>1 DEF BeginRename
  <2> HIDE DEF d
  <2>4. QED
    BY <2>1, <2>2, <2>3, HandlerType, BeginType
<1>2. CASE CheckRename(r)
  <2>1. At(req[r], "save") \in Request
    BY <1>0, RequestUpdates DEF PC
  <2>2. PICK q \in Request : Continue(r, q)
    BY <1>2, <2>1, IdleType DEF CheckRename
  <2>3. QED
    BY <2>2, ContinueType
<1>3. ASSUME NEW i \in Items, BeginTouch(r, i)
      PROVE  TypeOK'
  <2>1. doc[i] \in Doc /\ "touch" \in Kinds /\ "save" \in PC /\ i \in Places /\ Root \in Places
    BY DocType DEF Kinds, PC, Places
  <2>2. QED
    BY <1>3, <2>1, HandlerType, BeginType DEF BeginTouch
<1>4. CASE Save(r)
  <2> DEFINE d == [doc EXCEPT ![req[r].id] = req[r].copy]
             q == IF req[r].kind = "move" /\ req[r].id \in Folders
                    THEN Walker(req[r]) ELSE Idle
  <2>1. d \in [Items -> Doc]
    BY <1>0, RequestFields, DocType
  <2>2. q \in Request
    BY <1>0, IdleType, WalkerType, TreeAssumption
  <2>3. Write(r, q, d) /\ lapses' \subseteq Lapses
    BY <1>4 DEF Save, Lapse, Lapses, TypeOK
  <2> HIDE DEF d, q
  <2>4. QED
    BY <2>1, <2>2, <2>3, WriteType
<1>5. QED
  BY <1>1, <1>2, <1>3, <1>4

LEMMA MoveType ==
  ASSUME TypeOK, NEW r \in Reqs,
         \/ \E i \in Items, p \in Places : BeginMove(r, i, p)
         \/ CheckTarget(r)
         \/ Place(r)
  PROVE  TypeOK'
<1>0. req[r] \in Request
  BY DEF TypeOK
<1>1. ASSUME NEW i \in Items, NEW p \in Places, BeginMove(r, i, p)
      PROVE  TypeOK'
  <2>1. doc[i] \in Doc /\ "move" \in Kinds /\ "target" \in PC /\ i \in Places
    BY DocType DEF Kinds, Walks, PC, Places
  <2>2. QED
    BY <1>1, <2>1, HandlerType, BeginType DEF BeginMove
<1>2. CASE CheckTarget(r)
  <2>1. At(req[r], "place") \in Request
    BY <1>0, RequestUpdates DEF PC
  <2>2. PICK q \in Request : Continue(r, q)
    BY <1>2, <2>1, IdleType DEF CheckTarget
  <2>3. QED
    BY <2>2, ContinueType
<1>3. CASE Place(r)
  <2> DEFINE part == IF Stored(req[r].to) THEN doc[req[r].to].part ELSE NoPart
             d == [[req[r].copy EXCEPT !.parent = req[r].to] EXCEPT !.part = part]
  <2>1. part \in Parts
    BY DocType DEF Doc, Parts
  <2> HIDE DEF part
  <2>2. [req[r].copy EXCEPT !.parent = req[r].to] \in Doc
    BY <1>0, RequestFields, DocUpdates
  <2>3. d \in Doc
    BY <2>1, <2>2, DocUpdates
  <2>4. Continue(r, Holding(At(req[r], "save"), d))
    BY <1>3 DEF Place, part
  <2> HIDE DEF d
  <2>5. Holding(At(req[r], "save"), d) \in Request
    <3>1. At(req[r], "save") \in Request
      BY <1>0, RequestUpdates DEF PC
    <3>2. QED
      BY <2>3, <3>1, RequestUpdates
  <2>6. QED
    BY <2>4, <2>5, ContinueType
<1>4. QED
  BY <1>1, <1>2, <1>3

LEMMA WalkType ==
  ASSUME TypeOK, NEW r \in Reqs,
         \/ \E i \in Items, permanent \in BOOLEAN : BeginDelete(r, i, permanent)
         \/ \E i \in Items : BeginRestore(r, i)
         \/ \E x \in Items : Expand(r, x)
         \/ Update(r)
  PROVE  TypeOK'
<1>0. req[r] \in Request
  BY DEF TypeOK
<1>1. ASSUME NEW i \in Items, NEW kind \in Walks,
             Begin(r, Walker(Handler(kind, "walk", i, Root, doc[i])))
      PROVE  TypeOK'
  <2> DEFINE h == Handler(kind, "walk", i, Root, doc[i])
  <2>1. doc[i] \in Doc /\ kind \in Kinds /\ "walk" \in PC /\ i \in Places /\ Root \in Places
    BY DocType DEF Kinds, PC, Places
  <2>2. h \in Request /\ h.id = i
    BY <2>1, HandlerType DEF Handler
  <2> HIDE DEF h
  <2>3. Walker(h) \in Request
    BY <2>2, WalkerType
  <2>4. QED
    BY <1>1, <2>3, BeginType DEF h
<1>2. ASSUME NEW i \in Items, NEW permanent \in BOOLEAN, BeginDelete(r, i, permanent)
      PROVE  TypeOK'
  <2> DEFINE kind == IF permanent \/ Binned(i) THEN "purge" ELSE "bin"
  <2>1. kind \in Walks /\ Begin(r, Walker(Handler(kind, "walk", i, Root, doc[i])))
    BY <1>2 DEF BeginDelete, Walks
  <2> HIDE DEF kind
  <2>2. QED
    BY <1>1, <2>1
<1>3. ASSUME NEW i \in Items, BeginRestore(r, i)
      PROVE  TypeOK'
  BY <1>1, <1>3 DEF BeginRestore, Walks
<1>4. ASSUME NEW x \in Items, Expand(r, x)
      PROVE  TypeOK'
  <2> DEFINE found == ChildrenOf(x) \ req[r].walk.seen
             left == (req[r].walk.queue \ {x}) \cup (found \cap Folders)
  <2>1. found \in SUBSET Items /\ left \in SUBSET Items
    BY <1>0, RequestFields, TreeAssumption DEF ChildrenOf
  <2>2. Continue(r, Found(req[r], found, left))
    BY <1>4 DEF Expand
  <2> HIDE DEF found, left
  <2>3. QED
    BY <1>0, <2>1, <2>2, FoundType, ContinueType
<1>5. CASE Update(r)
  <2> DEFINE d == [i \in Items |-> IF Stored(i) /\ i \in req[r].walk.seen
                                    THEN Updated(req[r], doc[i]) ELSE doc[i]]
  <2>1. ASSUME NEW i \in Items
        PROVE  Updated(req[r], doc[i]) \in Doc
    <3>1. doc[i] \in Doc /\ req[r].copy.part \in Parts
      BY <1>0, RequestFields, DocType DEF Doc
    <3>2. QED
      BY <3>1, DocUpdates, BlankType DEF Updated
  <2>2. d \in [Items -> Doc]
    BY <2>1, DocType
  <2>3. Write(r, Idle, d) /\ lapses' \subseteq Lapses
    BY <1>5 DEF Update, Lapse, Lapses, TypeOK
  <2> HIDE DEF d
  <2>4. QED
    BY <2>2, <2>3, IdleType, WriteType
<1>6. QED
  BY <1>2, <1>3, <1>4, <1>5

LEMMA BinType ==
  ASSUME TypeOK, NEW r \in Reqs,
         \/ \E i \in Items : BeginWorkspaceDelete(r, i)
         \/ Reread(r)
         \/ BeginEmptyBin(r)
         \/ EmptyBin(r)
         \/ \E p \in Partitions : BeginFormat(r, p)
         \/ Format(r)
  PROVE  TypeOK'
<1>0. req[r] \in Request
  BY DEF TypeOK
<1>1. ASSUME NEW i \in Items, BeginWorkspaceDelete(r, i)
      PROVE  TypeOK'
  <2>1. /\ doc[i] \in Doc /\ "workspaceBin" \in Kinds /\ "reread" \in PC
        /\ i \in Places /\ Root \in Places
    BY DocType DEF Kinds, PC, Places
  <2>2. QED
    BY <1>1, <2>1, HandlerType, BeginType DEF BeginWorkspaceDelete
<1>2. CASE Reread(r)
  <2> DEFINE q == Holding(At(req[r], "save"), [doc[req[r].id] EXCEPT !.status = "bin"])
  <2>1. CASE Stored(req[r].id)
    <3>1. [doc[req[r].id] EXCEPT !.status = "bin"] \in Doc
      BY <2>1, DocType, DocUpdates
    <3>2. At(req[r], "save") \in Request
      BY <1>0, RequestUpdates DEF PC
    <3>3. q \in Request
      BY <3>1, <3>2, RequestUpdates
    <3>4. Continue(r, q)
      BY <1>2, <2>1 DEF Reread
    <3> HIDE DEF q
    <3>5. QED
      BY <3>3, <3>4, ContinueType
  <2>2. CASE ~Stored(req[r].id)
    BY <1>2, <2>2, IdleType, ContinueType DEF Reread
  <2>3. QED
    BY <2>1, <2>2
<1>3. CASE BeginEmptyBin(r)
  <2>1. "emptyBin" \in Kinds /\ "empty" \in PC /\ Root \in Places
    BY DEF Kinds, PC, Places
  <2>2. QED
    BY <1>3, <2>1, BlankType, HandlerType, BeginType DEF BeginEmptyBin
<1>4. ASSUME NEW p \in Partitions, BeginFormat(r, p)
      PROVE  TypeOK'
  <2>1. "format" \in Kinds /\ "format" \in PC /\ Root \in Places /\ p \in Parts
    BY DEF Kinds, PC, Places, Parts
  <2>2. [Blank EXCEPT !.part = p] \in Doc
    BY <2>1, BlankType, DocUpdates
  <2>3. QED
    BY <1>4, <2>1, <2>2, HandlerType, BeginType DEF BeginFormat
<1>5. ASSUME NEW S, PurgeAll(r, S)
      PROVE  TypeOK'
  <2> DEFINE d == [i \in Items |-> IF i \in S THEN Purged ELSE doc[i]]
  <2>1. d \in [Items -> Doc]
    BY DocType, BlankType
  <2>2. Write(r, Idle, d) /\ lapses' \subseteq Lapses
    BY <1>5 DEF PurgeAll, TypeOK
  <2> HIDE DEF d
  <2>3. QED
    BY <2>1, <2>2, IdleType, WriteType
<1>6. QED
  BY <1>1, <1>2, <1>3, <1>4, <1>5 DEF EmptyBin, Format

LEMMA DuplicateType ==
  ASSUME TypeOK, NEW r \in Reqs,
         \/ \E i \in Items, inPlace \in BOOLEAN, p \in Places :
              BeginDuplicate(r, i, inPlace, p)
         \/ DuplicateTarget(r)
         \/ CountCopies(r)
         \/ \E j \in req[r].jobs, i \in Items : Put(r, j, i)
         \/ ListChildren(r)
         \/ Respond(r)
         \/ Refuse(r)
  PROVE  TypeOK'
<1>0. req[r] \in Request
  BY DEF TypeOK
<1>1. ASSUME NEW i \in Items, NEW inPlace \in BOOLEAN, NEW p \in Places,
             BeginDuplicate(r, i, inPlace, p)
      PROVE  TypeOK'
  <2>1. doc[i] \in Doc /\ "duplicate" \in Kinds /\ "target" \in PC /\ i \in Places
    BY DocType DEF Kinds, PC, Places
  <2>2. Handler("duplicate", "target", i, p, doc[i]) \in Request
    BY <2>1, HandlerType
  <2>3. [Handler("duplicate", "target", i, p, doc[i]) EXCEPT !.inPlace = inPlace] \in Request
    BY <2>2, RequestUpdates
  <2>4. QED
    BY <1>1, <2>3, BeginType DEF BeginDuplicate
<1>2. CASE DuplicateTarget(r)
  <2>1. DuplicatePart(req[r]) \in Parts
    BY <1>0, RequestFields, DocType DEF DuplicatePart, Doc, Parts
  <2>2. At(req[r], "count") \in Request
    BY <1>0, RequestUpdates DEF PC
  <2>3. [At(req[r], "count") EXCEPT !.part = DuplicatePart(req[r])] \in Request
    BY <2>1, <2>2, RequestUpdates
  <2>4. PICK q \in Request : Continue(r, q)
    BY <1>2, <2>3, IdleType DEF DuplicateTarget
  <2>5. QED
    BY <2>4, ContinueType
<1>3. CASE CountCopies(r)
  <2> DEFINE copies == {i \in Items : /\ Live(i) /\ doc[i].parent = req[r].to
                                      /\ doc[i].name.base = req[r].copy.name.base
                                      /\ doc[i].name.copy > 0}
             name == [req[r].copy.name EXCEPT !.copy = Cardinality(copies) + 1]
             job == [src |-> req[r].id, name |-> name, own |-> req[r].copy.part,
                     into |-> req[r].to, part |-> req[r].part]
  <2>1. Cardinality(copies) + 1 \in Nat
    <3>1. IsFiniteSet(copies)
      BY TreeAssumption, FS_Subset
    <3> HIDE DEF copies
    <3>2. QED
      BY <3>1, FS_CardinalityType
  <2> HIDE DEF copies
  <2>2. name \in Name
    BY <1>0, <2>1, RequestFields DEF Doc, Name
  <2> HIDE DEF name
  <2>3. job \in Job
    BY <1>0, <2>2, RequestFields DEF Job, Doc
  <2> HIDE DEF job
  <2>4. At(req[r], "put") \in Request
    BY <1>0, RequestUpdates DEF PC
  <2>5. [At(req[r], "put") EXCEPT !.jobs = {job}] \in Request
    BY <2>3, <2>4, RequestUpdates
  <2>6. Continue(r, [At(req[r], "put") EXCEPT !.jobs = {job}])
    BY <1>3 DEF CountCopies, copies, name, job
  <2>7. QED
    BY <2>5, <2>6, ContinueType
<1>4. ASSUME NEW j \in req[r].jobs, NEW i \in Items, Put(r, j, i)
      PROVE  TypeOK'
  <2> DEFINE part == IF j.part # NoPart THEN j.part ELSE j.own
             left == req[r].jobs \ {j}
             rest == Copied(req[r], j, i, left)
             d == [status |-> "live", name |-> j.name, parent |-> j.into, part |-> part]
             lister == [[[At(rest, "list") EXCEPT !.from = j.src] EXCEPT !.to = i]
                          EXCEPT !.part = part]
             pc == IF left = {} THEN "respond" ELSE "put"
             q == IF i \in Folders THEN lister ELSE At(rest, pc)
  <2>1. j \in Job /\ left \in SUBSET Job
    BY <1>0, RequestFields
  <2>2. part \in Parts /\ j.src \in Places /\ j.name \in Name /\ j.into \in Places
    BY <2>1 DEF Job
  <2>3. d \in Doc
    BY <2>2 DEF Doc
  <2>4. rest \in Request
    <3>1. [req[r] EXCEPT !.jobs = left] \in Request
      BY <1>0, <2>1, RequestUpdates
    <3> DEFINE base == [req[r] EXCEPT !.jobs = left]
               more == base.made \cup {<<j.src, i>>}
    <3> HIDE DEF base
    <3>2. more \in SUBSET (Places \X Items)
      <4>1. base.made \in SUBSET (Places \X Items)
        BY <3>1, RequestFields DEF base
      <4>2. <<j.src, i>> \in Places \X Items
        BY <2>2
      <4>3. QED
        BY <4>1, <4>2
    <3> HIDE DEF more
    <3>3. [base EXCEPT !.made = more] \in Request
      BY <3>1, <3>2, RequestUpdates DEF base
    <3>4. QED
      BY <3>3 DEF Copied, base, more
  <2> HIDE DEF rest, left
  <2>5. lister \in Request
    <3>1. At(rest, "list") \in Request
      BY <2>4, RequestUpdates DEF PC
    <3>2. [At(rest, "list") EXCEPT !.from = j.src] \in Request
      BY <2>2, <3>1, RequestUpdates
    <3>3. [[At(rest, "list") EXCEPT !.from = j.src] EXCEPT !.to = i] \in Request
      BY <3>2, RequestUpdates DEF Places
    <3>4. QED
      BY <2>2, <3>3, RequestUpdates
  <2>6. At(rest, pc) \in Request
    BY <2>4, RequestUpdates DEF PC
  <2>7. Write(r, q, [doc EXCEPT ![i] = d])
    BY <1>4 DEF Put, rest, left
  <2>8. lapses' \subseteq Lapses
    BY <1>4 DEF Put, Lapse, Lapses, TypeOK
  <2>9. [doc EXCEPT ![i] = d] \in [Items -> Doc]
    BY <2>3, DocType
  <2>10. q \in Request
    BY <2>5, <2>6
  <2> HIDE DEF q, d
  <2>11. QED
    BY <2>7, <2>8, <2>9, <2>10, WriteType
<1>5. CASE ListChildren(r)
  <2> DEFINE kids == {k \in ChildrenOf(req[r].from) : Live(k)}
             jobs == req[r].jobs \cup
                {[src |-> c, name |-> doc[c].name, own |-> doc[c].part,
                  into |-> req[r].to, part |-> req[r].part] : c \in kids}
             pc == IF jobs = {} THEN "respond" ELSE "put"
  <2>1. \A c \in kids : c \in Items /\ c \in Places /\ doc[c].name \in Name /\ doc[c].part \in Parts
    BY DocType DEF ChildrenOf, Places, Doc, TypeOK
  <2> HIDE DEF kids
  <2>2. \A c \in kids : [src |-> c, name |-> doc[c].name, own |-> doc[c].part,
                        into |-> req[r].to, part |-> req[r].part] \in Job
    BY <1>0, <2>1, RequestFields DEF Job
  <2>3. jobs \in SUBSET Job
    BY <1>0, <2>2, RequestFields
  <2>4. Continue(r, [At(req[r], pc) EXCEPT !.jobs = jobs])
    BY <1>5 DEF ListChildren, kids
  <2> HIDE DEF jobs
  <2>5. At(req[r], pc) \in Request
    BY <1>0, RequestUpdates DEF PC
  <2>6. [At(req[r], pc) EXCEPT !.jobs = jobs] \in Request
    BY <2>3, <2>5, RequestUpdates
  <2>7. QED
    BY <2>4, <2>6, ContinueType
<1>6. CASE Respond(r) \/ Refuse(r)
  BY <1>6, IdleType, ContinueType DEF Respond, Refuse
<1>7. QED
  BY <1>1, <1>2, <1>3, <1>4, <1>5, <1>6

LEMMA InitType == Init => TypeOK
<1> SUFFICES ASSUME Init PROVE TypeOK
  OBVIOUS
<1>1. doc \in [Items -> Doc]
  <2>1. doc \in InitialDocs
    BY DEF Init
  <2>2. PICK d \in [Old -> OldDoc \cup {Blank}] :
          doc = [i \in Items |-> IF i \in Old /\ d[i] # Blank
                                   THEN [d[i] EXCEPT !.name = OldName[i]] ELSE Blank]
    BY <2>1 DEF InitialDocs
  <2>3. \A i \in Old : d[i] \in Doc
    BY BlankType, TreeAssumption DEF OldDoc, Doc, Places
  <2>4. \A i \in Old : [d[i] EXCEPT !.name = OldName[i]] \in Doc
    BY <2>3, DocUpdates, TreeAssumption
  <2>5. QED
    BY <2>2, <2>4, BlankType
<1>2. QED
  BY <1>1, IdleType, TreeAssumption DEF Init, TypeOK

LEMMA NextType == TypeOK /\ [Next]_vars => TypeOK'
<1> SUFFICES ASSUME TypeOK, [Next]_vars PROVE TypeOK'
  OBVIOUS
<1>1. CASE UNCHANGED vars
  BY <1>1 DEF vars, TypeOK
<1>2. CASE Next
  <2>1. PICK r \in Reqs : BeginSome(r) \/ Step(r)
    BY <1>2 DEF Next
  <2>2. CASE BeginSome(r)
    BY <2>2, CreateType, RenameType, MoveType, WalkType, BinType, DuplicateType
    DEF BeginSome
  <2>3. CASE Step(r)
    BY <2>3, CreateType, RenameType, MoveType, WalkType, BinType, DuplicateType
    DEF Step
  <2>4. QED
    BY <2>1, <2>2, <2>3
<1>3. QED
  BY <1>1, <1>2

\* Type correctness: whatever the handlers do and however they interleave,
\* every document and the local state of every handler keep their shape.
THEOREM TypeCorrect == Spec => []TypeOK
BY InitType, NextType, PTL DEF Spec

-------------------------------------------------------------------------------
(* Walks.  The invariant says what a walk that nobody has disturbed knows at *)
(* any time: it has collected only what lies below the item, and everything  *)
(* below the folders it has queried.                                         *)

LEMMA BelowRoot ==
  ASSUME NEW E, NEW r \in Items
  PROVE  r \in Below(E, r)
BY DEF Below

LEMMA BelowClosed ==
  ASSUME NEW E, NEW r, NEW e \in E, e[1] \in Items, e[2] \in Below(E, r)
  PROVE  e[1] \in Below(E, r)
BY DEF Below, Closed

LEMMA BelowLeast ==
  ASSUME NEW E, NEW r, NEW S \in SUBSET Items, r \in S, Closed(E, S)
  PROVE  Below(E, r) \subseteq S
BY DEF Below

\* An edge of the tree is a stored item with its parent.
LEMMA ShapeEdges ==
  ASSUME NEW d
  PROVE  /\ \A e \in Shape(d) : e[1] \in Items /\ e[2] = d[e[1]].parent
         /\ \A i \in Items : d[i].status \in {"live", "bin"} => <<i, d[i].parent>> \in Shape(d)
BY DEF Shape

WalkSound(q, d) ==
  /\ q.id \in q.walk.seen
  /\ q.walk.queue \subseteq q.walk.seen
  /\ q.walk.queue \subseteq Folders \cup {q.id}
  /\ q.walk.seen \subseteq Subtree(d, q.id)
  /\ \A e \in WalkEdges(d, q.id) :
       e[2] \in q.walk.seen /\ e[2] \notin q.walk.queue => e[1] \in q.walk.seen
  /\ q.pc = "update" => q.walk.queue = {}

Fine(q, d) == q.pc \in {"walk", "update"} /\ q.walk.calm => WalkSound(q, d)

WalkInv == \A r \in Reqs : Fine(req[r], doc)

\* What the invariant is for.
LEMMA WalkInvSuffices == TypeOK /\ WalkInv => WalkCollectsSubtree
<1> SUFFICES ASSUME TypeOK, WalkInv, NEW r \in Reqs, req[r].pc = "update", req[r].walk.calm
             PROVE  req[r].walk.seen = Subtree(doc, req[r].id)
  BY DEF WalkCollectsSubtree
<1>1. WalkSound(req[r], doc)
  BY DEF WalkInv, Fine
<1>2. req[r].walk.seen \in SUBSET Items
  BY RequestFields DEF TypeOK
<1>3. Closed(WalkEdges(doc, req[r].id), req[r].walk.seen)
  BY <1>1 DEF WalkSound, Closed
<1>4. Subtree(doc, req[r].id) \subseteq req[r].walk.seen
  BY <1>1, <1>2, <1>3, BelowLeast DEF WalkSound, Subtree
<1>5. QED
  BY <1>1, <1>4 DEF WalkSound

\* A walk that begins is sound in any tree.
LEMMA WalkerSound ==
  ASSUME NEW q \in Request, q.id \in Items, NEW d
  PROVE  WalkSound(Walker(q), d)
<1>1. /\ Walker(q).id = q.id /\ Walker(q).pc = "walk"
      /\ Walker(q).walk = [seen |-> {q.id}, queue |-> {q.id}, calm |-> TRUE]
  BY DEF Walker, At, Request
<1>2. q.id \in Subtree(d, q.id)
  BY BelowRoot DEF Subtree
<1>3. QED
  BY <1>1, <1>2 DEF WalkSound

\* A query for the children of one more folder keeps a walk sound.
LEMMA FoundSound ==
  ASSUME TypeOK, NEW q \in Request, WalkSound(q, doc), NEW x \in q.walk.queue
  PROVE  LET found == ChildrenOf(x) \ q.walk.seen
         IN  WalkSound(Found(q, found, (q.walk.queue \ {x}) \cup (found \cap Folders)), doc)
<1> DEFINE found == ChildrenOf(x) \ q.walk.seen
           left == (q.walk.queue \ {x}) \cup (found \cap Folders)
           n == Found(q, found, left)
<1>1. /\ n.id = q.id /\ n.walk.seen = q.walk.seen \cup found /\ n.walk.queue = left
      /\ n.pc = "update" => left = {}
  BY DEF Found, At, Request
<1>2. found \subseteq Subtree(doc, q.id)
  <2> SUFFICES ASSUME NEW i \in found PROVE i \in Subtree(doc, q.id)
    OBVIOUS
  <2>1. i \in Items /\ doc[i].parent = x /\ doc[i].status \in {"live", "bin"}
    BY DEF ChildrenOf, Stored
  <2>2. <<i, x>> \in WalkEdges(doc, q.id)
    BY <2>1, ShapeEdges DEF WalkEdges, WalkSound
  <2>3. x \in Subtree(doc, q.id)
    BY DEF WalkSound
  <2>4. QED
    BY <2>1, <2>2, <2>3, BelowClosed DEF Subtree
<1>3. ASSUME NEW e \in WalkEdges(doc, q.id), e[2] \in n.walk.seen, e[2] \notin n.walk.queue
      PROVE  e[1] \in n.walk.seen
  <2>1. e[1] \in Items /\ e[2] = doc[e[1]].parent
    BY ShapeEdges DEF WalkEdges
  <2>2. Stored(e[1])
    BY <2>1 DEF WalkEdges, Shape, Stored
  <2>3. CASE e[2] = x
    BY <1>1, <2>1, <2>2, <2>3 DEF ChildrenOf
  <2>4. CASE e[2] # x /\ e[2] \in q.walk.seen
    BY <1>1, <1>3, <2>4 DEF WalkSound
  <2>5. CASE e[2] \notin q.walk.seen
    <3>1. e[2] \in found /\ e[2] \notin Folders /\ e[2] # q.id
      BY <1>1, <1>3, <2>5 DEF WalkSound
    <3>2. QED
      BY <3>1 DEF WalkEdges
  <2>6. QED
    BY <2>3, <2>4, <2>5
<1>4. left \subseteq Folders \cup {q.id} /\ left \subseteq q.walk.seen \cup found
  BY DEF WalkSound
<1> HIDE DEF n, left, found
<1>5. WalkSound(n, doc)
  BY <1>1, <1>2, <1>3, <1>4 DEF WalkSound
<1>6. QED
  BY <1>5 DEF n, left, found

\* The three ways of taking a step, for the handler r that takes it and for
\* the others: a write that changes the tree ends their calm.
LEMMA ContinueFine ==
  ASSUME TypeOK, WalkInv, NEW r \in Reqs, NEW q, Continue(r, q), Fine(q, doc)
  PROVE  WalkInv'
<1>1. doc' = doc /\ \A s \in Reqs : req'[s] = IF s = r THEN q ELSE req[s]
  BY DEF Continue, TypeOK
<1>2. \A s \in Reqs : Fine(req'[s], doc)
  BY <1>1 DEF WalkInv
<1>3. QED
  BY <1>1, <1>2 DEF WalkInv

LEMMA BeginFine ==
  ASSUME TypeOK, WalkInv, NEW r \in Reqs, NEW q, Begin(r, q), Fine(q, doc)
  PROVE  WalkInv'
<1>1. doc' = doc /\ \A s \in Reqs : req'[s] = IF s = r THEN q ELSE req[s]
  BY DEF Begin, TypeOK
<1>2. \A s \in Reqs : Fine(req'[s], doc)
  BY <1>1 DEF WalkInv
<1>3. QED
  BY <1>1, <1>2 DEF WalkInv

LEMMA WriteFine ==
  ASSUME TypeOK, WalkInv, NEW r \in Reqs, NEW q, NEW d, Write(r, q, d), Fine(q, d)
  PROVE  WalkInv'
<1>1. doc' = d /\ req' = [s \in Reqs |-> IF s = r THEN q ELSE Disturbed(req[s], d)]
  BY DEF Write
<1>2. ASSUME NEW s \in Reqs
      PROVE  Fine(Disturbed(req[s], d), d)
  <2> DEFINE n == Disturbed(req[s], d)
  <2>1. req[s] \in Request /\ Fine(req[s], doc)
    BY DEF TypeOK, WalkInv
  <2>2. /\ n.id = req[s].id /\ n.pc = req[s].pc
        /\ n.walk = [req[s].walk EXCEPT !.calm = req[s].walk.calm /\ Shape(d) = Shape(doc)]
    BY <2>1 DEF Disturbed, Request
  <2>3. /\ n.walk.seen = req[s].walk.seen /\ n.walk.queue = req[s].walk.queue
        /\ n.walk.calm => req[s].walk.calm /\ Shape(d) = Shape(doc)
    BY <2>1, <2>2 DEF Request, Walk
  <2> HIDE DEF n
  <2>4. ASSUME n.pc \in {"walk", "update"}, n.walk.calm
        PROVE  WalkSound(n, d)
    <3>1. WalkSound(req[s], doc)
      BY <2>1, <2>2, <2>3, <2>4 DEF Fine
    <3>2. /\ WalkEdges(d, n.id) = WalkEdges(doc, req[s].id)
          /\ Subtree(d, n.id) = Subtree(doc, req[s].id)
      BY <2>2, <2>3, <2>4 DEF WalkEdges, Subtree
    <3>3. QED
      BY <2>2, <2>3, <3>1, <3>2 DEF WalkSound
  <2>5. QED
    BY <2>4 DEF Fine, n
<1>3. \A s \in Reqs : Fine(req'[s], d)
  BY <1>1, <1>2
<1>4. QED
  BY <1>1, <1>3 DEF WalkInv

\* Handlers that are not walking.
LEMMA IdleFine == \A d : Fine(Idle, d)
BY DEF Idle, Handler, Fine

LEMMA HandlerFine ==
  ASSUME NEW kind, NEW pc, pc \notin {"walk", "update"}, NEW i, NEW p, NEW h, NEW d
  PROVE  Fine(Handler(kind, pc, i, p, h), d)
BY DEF Handler, Fine

LEMMA AtFine ==
  ASSUME NEW q \in Request, NEW pc \in PC \ {"walk", "update"}, NEW h, NEW d
  PROVE  Fine(At(q, pc), d) /\ Fine(Holding(At(q, pc), h), d)
<1>1. At(q, pc) \in Request /\ At(q, pc).pc = pc
  BY DEF At, Request
<1>2. Holding(At(q, pc), h).pc = pc
  BY <1>1 DEF Holding, Request
<1>3. QED
  BY <1>1, <1>2 DEF Fine

\* Fields that have nothing to do with the walk.
LEMMA OtherFields ==
  ASSUME NEW q \in Request, q.pc \notin {"walk", "update"}, NEW v, NEW d
  PROVE  /\ Fine([q EXCEPT !.part = v], d) /\ [q EXCEPT !.part = v].pc = q.pc
         /\ Fine([q EXCEPT !.jobs = v], d)
         /\ Fine([q EXCEPT !.inPlace = v], d)
BY DEF Request, Fine

LEMMA InitWalks == Init => WalkInv
BY IdleFine DEF Init, WalkInv

LEMMA BeginWalks ==
  ASSUME TypeOK, WalkInv, NEW r \in Reqs, BeginSome(r)
  PROVE  WalkInv'
<1>0. \A pc \in {"check", "insert", "save", "target", "reread", "empty", "format"} :
        pc \notin {"walk", "update"}
  OBVIOUS
<1>1. ASSUME NEW i \in Items, NEW kind \in Walks,
             Begin(r, Walker(Handler(kind, "walk", i, Root, doc[i])))
      PROVE  WalkInv'
  <2>1. doc[i] \in Doc /\ kind \in Kinds /\ "walk" \in PC /\ i \in Places /\ Root \in Places
    BY DocType DEF Kinds, PC, Places
  <2>2. Handler(kind, "walk", i, Root, doc[i]) \in Request
    BY <2>1, HandlerType
  <2>3. Handler(kind, "walk", i, Root, doc[i]).id = i
    BY DEF Handler
  <2>4. WalkSound(Walker(Handler(kind, "walk", i, Root, doc[i])), doc)
    BY <2>2, <2>3, WalkerSound
  <2>5. QED
    BY <1>1, <2>4, BeginFine DEF Fine
<1>2. ASSUME NEW kind, NEW pc \in PC \ {"walk", "update"}, NEW i, NEW p, NEW d,
             Begin(r, Handler(kind, pc, i, p, d))
      PROVE  WalkInv'
  BY <1>2, HandlerFine, BeginFine
<1>3. CASE \E i \in Items, inPlace \in BOOLEAN, p \in Places :
             BeginDuplicate(r, i, inPlace, p)
  <2>1. PICK i \in Items, inPlace \in BOOLEAN, p \in Places :
          BeginDuplicate(r, i, inPlace, p)
    BY <1>3
  <2> DEFINE h == Handler("duplicate", "target", i, p, doc[i])
  <2>2. h \in Request /\ h.pc = "target"
    <3>1. doc[i] \in Doc /\ "duplicate" \in Kinds /\ "target" \in PC /\ i \in Places
      BY DocType DEF Kinds, PC, Places
    <3>2. QED
      BY <3>1, HandlerType DEF Handler
  <2>3. Begin(r, [h EXCEPT !.inPlace = inPlace])
    BY <2>1 DEF BeginDuplicate
  <2> HIDE DEF h
  <2>4. QED
    BY <2>2, <2>3, OtherFields, BeginFine
<1>4. CASE \E i \in Items, permanent \in BOOLEAN : BeginDelete(r, i, permanent)
  <2>1. PICK i \in Items, permanent \in BOOLEAN : BeginDelete(r, i, permanent)
    BY <1>4
  <2> DEFINE kind == IF permanent \/ Binned(i) THEN "purge" ELSE "bin"
  <2>2. kind \in Walks /\ Begin(r, Walker(Handler(kind, "walk", i, Root, doc[i])))
    BY <2>1 DEF BeginDelete, Walks
  <2> HIDE DEF kind
  <2>3. QED
    BY <1>1, <2>2
<1>5. CASE \E i \in Items : BeginRestore(r, i)
  BY <1>1, <1>5 DEF BeginRestore, Walks
<1>6. CASE \E kind \in Creates, p \in Places, name \in Given, part \in Parts :
             BeginCreate(r, kind, p, name, part)
  <2>1. PICK kind \in Creates, p \in Places, name \in Given, part \in Parts :
          BeginCreate(r, kind, p, name, part)
    BY <1>6
  <2>2. (IF kind = "upload" THEN "insert" ELSE "check") \in PC \ {"walk", "update"}
    BY DEF PC
  <2>3. QED
    BY <1>2, <2>1, <2>2 DEF BeginCreate
<1>7. CASE \/ \E kind \in {"rename", "workspaceRename"}, i \in Items, name \in Given :
                BeginRename(r, kind, i, name)
           \/ \E i \in Items : BeginTouch(r, i)
           \/ \E i \in Items, p \in Places : BeginMove(r, i, p)
           \/ \E i \in Items : BeginWorkspaceDelete(r, i)
           \/ BeginEmptyBin(r)
           \/ \E p \in Partitions : BeginFormat(r, p)
  <2>1. {"check", "save", "target", "reread", "empty", "format"} \subseteq PC \ {"walk", "update"}
    BY DEF PC
  <2>2. QED
    BY <1>2, <1>7, <2>1
    DEF BeginRename, BeginTouch, BeginMove, BeginWorkspaceDelete, BeginEmptyBin, BeginFormat
<1>8. QED
  BY <1>3, <1>4, <1>5, <1>6, <1>7 DEF BeginSome

LEMMA WriteWalks ==
  ASSUME TypeOK, WalkInv, NEW r \in Reqs,
         \/ \E i \in Items : Insert(r, i)
         \/ Save(r)
         \/ Update(r)
         \/ EmptyBin(r)
         \/ Format(r)
         \/ \E j \in req[r].jobs, i \in Items : Put(r, j, i)
  PROVE  WalkInv'
<1>0. req[r] \in Request
  BY DEF TypeOK
<1>1. ASSUME NEW d, Write(r, Idle, d)
      PROVE  WalkInv'
  BY <1>1, IdleFine, WriteFine
<1>2. CASE Save(r)
  <2> DEFINE d == [doc EXCEPT ![req[r].id] = req[r].copy]
  <2>1. CASE req[r].kind = "move" /\ req[r].id \in Folders
    <3>1. Write(r, Walker(req[r]), d)
      BY <1>2, <2>1 DEF Save
    <3>2. WalkSound(Walker(req[r]), d)
      BY <1>0, <2>1, WalkerSound, TreeAssumption
    <3> HIDE DEF d
    <3>3. QED
      BY <3>1, <3>2, WriteFine DEF Fine
  <2>2. CASE ~(req[r].kind = "move" /\ req[r].id \in Folders)
    <3>1. Write(r, Idle, d)
      BY <1>2, <2>2 DEF Save
    <3>2. QED
      BY <1>1, <3>1
  <2>3. QED
    BY <2>1, <2>2
<1>3. CASE \E j \in req[r].jobs, i \in Items : Put(r, j, i)
  <2>1. PICK j \in req[r].jobs, i \in Items : Put(r, j, i)
    BY <1>3
  <2> DEFINE part == IF j.part # NoPart THEN j.part ELSE j.own
             left == req[r].jobs \ {j}
             rest == Copied(req[r], j, i, left)
             lister == [[[At(rest, "list") EXCEPT !.from = j.src] EXCEPT !.to = i]
                          EXCEPT !.part = part]
             pc == IF left = {} THEN "respond" ELSE "put"
             q == IF i \in Folders THEN lister ELSE At(rest, pc)
             d == [doc EXCEPT ![i] = [status |-> "live", name |-> j.name,
                                      parent |-> j.into, part |-> part]]
  <2>2. Write(r, q, d)
    BY <2>1 DEF Put
  <2>3. DOMAIN rest = DOMAIN req[r]
    BY DEF Copied
  <2>4. "pc" \in DOMAIN rest
    BY <1>0, <2>3 DEF Request
  <2> HIDE DEF rest
  <2>5. lister.pc = "list" /\ At(rest, pc).pc = pc
    BY <2>4 DEF At
  <2>6. q.pc \notin {"walk", "update"}
    BY <2>5
  <2> HIDE DEF q, d
  <2>7. QED
    BY <2>2, <2>6, WriteFine DEF Fine
<1>4. QED
  BY <1>1, <1>2, <1>3 DEF Insert, Update, EmptyBin, Format, PurgeAll

LEMMA ContinueWalks ==
  ASSUME TypeOK, WalkInv, NEW r \in Reqs,
         \/ CheckCreate(r)
         \/ CheckRename(r)
         \/ CheckTarget(r)
         \/ Place(r)
         \/ \E x \in Items : Expand(r, x)
         \/ Reread(r)
         \/ DuplicateTarget(r)
         \/ CountCopies(r)
         \/ ListChildren(r)
         \/ Respond(r)
         \/ Refuse(r)
  PROVE  WalkInv'
<1>0. req[r] \in Request
  BY DEF TypeOK
<1>1. CASE Continue(r, Idle)
  BY <1>1, IdleFine, ContinueFine
<1>2. ASSUME NEW pc \in PC \ {"walk", "update"}, NEW h,
             Continue(r, At(req[r], pc)) \/ Continue(r, Holding(At(req[r], pc), h))
      PROVE  WalkInv'
  BY <1>0, <1>2, AtFine, ContinueFine
<1>3. ASSUME NEW pc \in PC \ {"walk", "update"}, NEW v,
             \/ Continue(r, [At(req[r], pc) EXCEPT !.part = v])
             \/ Continue(r, [At(req[r], pc) EXCEPT !.jobs = v])
      PROVE  WalkInv'
  <2>1. At(req[r], pc) \in Request /\ At(req[r], pc).pc = pc
    BY <1>0 DEF At, Request
  <2>2. QED
    BY <1>3, <2>1, OtherFields, ContinueFine
<1>4. {"insert", "save", "place", "count", "put", "respond"} \subseteq PC \ {"walk", "update"}
  BY DEF PC
<1>5. CASE \E x \in Items : Expand(r, x)
  <2>1. PICK x \in Items : Expand(r, x)
    BY <1>5
  <2> DEFINE found == ChildrenOf(x) \ req[r].walk.seen
             n == Found(req[r], found, (req[r].walk.queue \ {x}) \cup (found \cap Folders))
  <2>2. Continue(r, n) /\ x \in req[r].walk.queue /\ req[r].pc = "walk"
    BY <2>1 DEF Expand
  <2>3. n.walk.calm => req[r].walk.calm
    BY <1>0 DEF Found, At, Request
  <2>4. req[r].walk.calm => WalkSound(n, doc)
    BY <1>0, <2>2, FoundSound DEF WalkInv, Fine
  <2> HIDE DEF n
  <2>5. QED
    BY <2>2, <2>3, <2>4, ContinueFine DEF Fine
<1>6. CASE CheckCreate(r) \/ CheckRename(r) \/ CheckTarget(r) \/ Respond(r) \/ Refuse(r)
  BY <1>1, <1>2, <1>4, <1>6 DEF CheckCreate, CheckRename, CheckTarget, Respond, Refuse
<1>7. CASE Place(r)
  BY <1>2, <1>4, <1>7 DEF Place
<1>8. CASE Reread(r)
  BY <1>1, <1>2, <1>4, <1>8 DEF Reread
<1>9. CASE DuplicateTarget(r)
  BY <1>1, <1>3, <1>4, <1>9 DEF DuplicateTarget
<1>10. CASE CountCopies(r)
  BY <1>3, <1>4, <1>10 DEF CountCopies
<1>11. CASE ListChildren(r)
  <2>1. PICK jobs : Continue(r, [At(req[r], IF jobs = {} THEN "respond" ELSE "put")
                                   EXCEPT !.jobs = jobs])
    BY <1>11 DEF ListChildren
  <2>2. QED
    BY <1>3, <1>4, <2>1
<1>12. QED
  BY <1>5, <1>6, <1>7, <1>8, <1>9, <1>10, <1>11

LEMMA NextWalks == TypeOK /\ WalkInv /\ [Next]_vars => WalkInv'
<1> SUFFICES ASSUME TypeOK, WalkInv, [Next]_vars PROVE WalkInv'
  OBVIOUS
<1>1. CASE UNCHANGED vars
  BY <1>1 DEF vars, WalkInv
<1>2. CASE Next
  <2>1. PICK r \in Reqs : BeginSome(r) \/ Step(r)
    BY <1>2 DEF Next
  <2>2. QED
    BY <2>1, BeginWalks, WriteWalks, ContinueWalks DEF Step
<1>3. QED
  BY <1>1, <1>2

\* A walk that nobody disturbs collects exactly the item and all that lies
\* below it, on any tree, with or without cycles: what delete, restore and
\* move then do to the list they do to the whole folder and to nothing else.
THEOREM WalksCollectSubtrees == Spec => []WalkCollectsSubtree
<1>1. TypeOK /\ WalkInv => WalkCollectsSubtree
  BY WalkInvSuffices
<1>2. QED
  BY <1>1, InitType, NextType, InitWalks, NextWalks, PTL DEF Spec

-------------------------------------------------------------------------------
(* One request at a time.  What holds of the tree, by the lapses there were: *)

\* No item lies under an id that was never given out, and but for a lapse none
\* under a file.
ParentsGiven == \A i \in Items : Stored(i) => ~Fresh(doc[i].parent)
ParentsFolders ==
  "underFile" \notin lapses =>
    \A i \in Items : Stored(i) => doc[i].parent \in Folders \cup {Root}

\* No cycle: in every set of items somebody's parent is outside.
Rooted ==
  lapses \cap {"belowItself", "underFile"} = {} =>
    \A S \in SUBSET Items : S # {} => \E i \in S : ~Stored(i) \/ doc[i].parent \notin S

\* The bin holds whole folders, and every folder is there.
Tidy == lapses \cap {"intoBin", "outOfBin", "aboveLive", "underFile"} = {}
HasPlace(i) ==
  \/ doc[i].parent = Root
  \/ Stored(doc[i].parent) /\ (Live(i) => Live(doc[i].parent))
Whole == Tidy => \A i \in Items : Stored(i) => HasPlace(i)

Distinct == "unchecked" \notin lapses => NamesDiffer(doc)

\* The partition of an item is that of its folder.  Where a duplication mixed
\* them, the folder has none, so that formatting a partition takes no folder
\* from an item it leaves.
PartFits(i) ==
  Stored(doc[i].parent) =>
    \/ doc[i].part = doc[doc[i].parent].part
    \/ "mixedParts" \in lapses /\ doc[doc[i].parent].part = NoPart

Tree == ParentsGiven /\ ParentsFolders /\ Rooted /\ Whole /\ Distinct

(* and of the handler at work, which finds the tree as it has read it: *)

Stages(q) ==
  /\ q.pc = "check" => q.kind \in Creates \cup {"rename", "workspaceRename"}
  /\ q.pc = "insert" => q.kind \in Creates
  /\ q.pc = "save" =>
       q.kind \in {"rename", "workspaceRename", "touch", "move", "workspaceBin"}
  /\ q.pc = "target" => q.kind \in {"move", "duplicate"}
  /\ q.pc = "place" => q.kind = "move"
  /\ q.pc = "reread" => q.kind = "workspaceBin"
  /\ q.pc \in {"walk", "update"} => q.kind \in Walks /\ q.walk.calm /\ Stored(q.id)
  /\ q.pc = "format" => q.part \in Partitions

\* The document of a creation, which is going to be accepted where it is put.
Creating(q) ==
  q.pc \in {"check", "insert"} /\ q.kind \in Creates =>
    /\ q.copy.status = "live" /\ q.copy.parent = q.to
    /\ q.to = Root \/ (Stored(q.to) /\ q.copy.part = doc[q.to].part)
    /\ q.pc = "insert" /\ q.kind # "upload" =>
         ~NameTaken(q.copy.name, q.to, MakesFolder(q.kind), {})

\* The document of a handler that is going to write it back.
Alike(d, e) == d.status = e.status /\ d.parent = e.parent /\ d.part = e.part
Changing(q) ==
  /\ q.pc \in {"check", "save"} /\ q.kind \in {"rename", "workspaceRename"} =>
       /\ Stored(q.id) /\ Alike(q.copy, doc[q.id])
       /\ q.pc = "save" =>
            ~NameTaken(q.copy.name, q.copy.parent, q.id \in Folders, {q.id})
  /\ q.pc = "save" /\ q.kind = "touch" => Stored(q.id) /\ q.copy = doc[q.id]
  /\ q.pc = "save" /\ q.kind = "workspaceBin" =>
       Stored(q.id) /\ q.copy = [doc[q.id] EXCEPT !.status = "bin"]
Moving(q) ==
  /\ q.pc \in {"target", "place", "save"} /\ q.kind = "move" =>
       /\ Stored(q.id) /\ q.id # q.to
       /\ q.pc # "target" => q.to = Root \/ (Stored(q.to) /\ q.to \in Folders)
       /\ q.pc # "save" => q.copy = doc[q.id]
       /\ q.pc = "save" =>
            /\ q.copy.status = doc[q.id].status /\ q.copy.parent = q.to
            /\ Stored(q.to) => q.copy.part = doc[q.to].part
  /\ q.pc \in {"walk", "update"} /\ q.kind = "move" =>
       /\ doc[q.id].part = q.copy.part
       /\ \/ ~Stored(doc[q.id].parent) \/ doc[q.id].parent \in Subtree(doc, q.id)
          \/ doc[doc[q.id].parent].part = q.copy.part

\* Where a duplication puts its copies.
Into(p, part) ==
  /\ ~Fresh(p)
  /\ Stored(p) => part = doc[p].part
  /\ "underFile" \notin lapses => p \in Folders \cup {Root}
  /\ Tidy => p = Root \/ Stored(p)
Copying(q) ==
  /\ q.pc = "target" /\ q.kind = "duplicate" =>
       Stored(q.id) /\ (q.inPlace => q.to = doc[q.id].parent)
  /\ q.pc \in {"count", "list"} => Into(q.to, q.part)
  /\ q.pc \in {"put", "list"} => \A j \in q.jobs : Into(j.into, j.part)

\* While a move walks, what lies below the folder is still to be accounted.
Walked(q, i) ==
  q.kind = "move" /\ q.pc \in {"walk", "update"} /\ i \in Subtree(doc, q.id)
PartsKept(q) ==
  "underFile" \notin lapses =>
    \A i \in Items : Stored(i) /\ ~Walked(q, i) => PartFits(i)

Serial(q) ==
  Stages(q) /\ Creating(q) /\ Changing(q) /\ Moving(q) /\ Copying(q) /\ PartsKept(q)
SerialInv == Tree /\ \A r \in Reqs : \A q \in {req[r]} : Serial(q)

-------------------------------------------------------------------------------
(* What lies below an item *)

Edge(d, i) == d[i].status \in {"live", "bin"}

LEMMA WalkEdge ==
  ASSUME NEW d, NEW r
  PROVE  /\ \A i \in Items : Edge(d, i) /\ d[i].parent \in Folders \cup {r} =>
              <<i, d[i].parent>> \in WalkEdges(d, r)
         /\ \A e \in WalkEdges(d, r) :
              e[1] \in Items /\ Edge(d, e[1]) /\ e[2] = d[e[1]].parent
BY DEF WalkEdges, Shape, Edge

LEMMA SubtreeFacts ==
  ASSUME NEW d, NEW r \in Items, NEW S, S = Subtree(d, r)
  PROVE  /\ S \subseteq Items /\ r \in S
         /\ \A i \in Items :
              Edge(d, i) /\ d[i].parent \in S /\ d[i].parent \in Folders \cup {r} => i \in S
         /\ \A i \in S : i # r => Edge(d, i) /\ d[i].parent \in S
<1>1. S \subseteq Items /\ r \in S
  BY BelowRoot DEF Subtree, Below
<1>2. ASSUME NEW i \in Items, Edge(d, i), d[i].parent \in S,
             d[i].parent \in Folders \cup {r}
      PROVE  i \in S
  <2>1. <<i, d[i].parent>> \in WalkEdges(d, r)
    BY <1>2, WalkEdge
  <2> QED
    BY <1>2, <2>1, BelowClosed DEF Subtree
<1>3. ASSUME NEW i \in S, i # r, ~(Edge(d, i) /\ d[i].parent \in S)
      PROVE  FALSE
  <2> DEFINE T == S \ {i}
  <2>1. T \in SUBSET Items /\ r \in T
    BY <1>1, <1>3
  <2>2. Closed(WalkEdges(d, r), T)
    <3> SUFFICES ASSUME NEW e \in WalkEdges(d, r), e[2] \in T
                 PROVE  e[1] \in T
      BY DEF Closed
    <3>1. e[1] \in S
      BY WalkEdge, BelowClosed DEF Subtree
    <3>2. e[1] # i
      BY <1>3, WalkEdge
    <3> QED
      BY <3>1, <3>2
  <2> HIDE DEF T
  <2>3. S \subseteq T
    BY <2>1, <2>2, BelowLeast DEF Subtree
  <2> QED
    BY <2>3 DEF T
<1> QED
  BY <1>1, <1>2, <1>3

LEMMA SubtreeLeast ==
  ASSUME NEW d, NEW r \in Items, NEW T \in SUBSET Items, r \in T,
         \A i \in Items : Edge(d, i) /\ d[i].parent \in T
                            /\ d[i].parent \in Folders \cup {r} => i \in T
  PROVE  Subtree(d, r) \subseteq T
<1>1. Closed(WalkEdges(d, r), T)
  <2> SUFFICES ASSUME NEW e \in WalkEdges(d, r), e[2] \in T
               PROVE  e[1] \in T
    BY DEF Closed
  <2>1. e[2] \in Folders \cup {r}
    BY DEF WalkEdges
  <2> QED
    BY <2>1, WalkEdge
<1> QED
  BY <1>1, BelowLeast DEF Subtree

LEMMA NoCycleMeans ==
  ASSUME NEW d
  PROVE  NoCycle(d) <=>
           \A S \in SUBSET Items : S # {} => \E i \in S : ~Edge(d, i) \/ d[i].parent \notin S
<1>1. ASSUME NEW i \in Items
      PROVE  <<i, d[i].parent>> \in Shape(d) <=> Edge(d, i)
  BY DEF Shape, Edge
<1> DEFINE In(S) == \E i \in S : <<i, d[i].parent>> \notin Shape(d) \/ d[i].parent \notin S
           Out(S) == \E i \in S : ~Edge(d, i) \/ d[i].parent \notin S
<1>2. NoCycle(d) <=> \A S \in (SUBSET Items) \ {{}} : In(S)
  BY DEF NoCycle
<1>3. \A S \in SUBSET Items : In(S) <=> Out(S)
  BY <1>1
<1>4. \A S : S \in (SUBSET Items) \ {{}} <=> S \in SUBSET Items /\ S # {}
  OBVIOUS
<1> HIDE DEF In, Out
<1>5. NoCycle(d) <=> \A S \in SUBSET Items : S # {} => Out(S)
  BY <1>2, <1>3, <1>4
<1> QED
  BY <1>5 DEF Out

LEMMA StoredEdge == \A i \in Items : Stored(i) <=> Edge(doc, i)
  BY DEF Stored, Edge

-------------------------------------------------------------------------------
(* A handler goes on, and the tree is as it was *)

LEMMA Goes ==
  ASSUME TypeOK, NEW r, Reqs = {r}, Tree, NEW k, Serial(k),
         req' = [req EXCEPT ![r] = k], UNCHANGED <<doc, lapses>>
  PROVE  SerialInv'
<1>1. req'[r] = k
  BY DEF TypeOK
<1>2. Tree'
  BY DEF Tree, ParentsGiven, ParentsFolders, Rooted, Whole, Tidy, HasPlace, Distinct,
         Stored, Live, Fresh
<1>3. Stages(k)' /\ Creating(k)' /\ Changing(k)' /\ Moving(k)'
  BY DEF Serial, Stages, Creating, Changing, Moving, NameTaken, Stored, Live
<1>4. Copying(k)' /\ PartsKept(k)'
  BY DEF Serial, Copying, Into, Tidy, PartsKept, PartFits, Walked, Stored, Fresh
<1> QED
  BY <1>1, <1>2, <1>3, <1>4 DEF SerialInv, Serial

LEMMA Wrote ==
  ASSUME NEW r, Reqs = {r}, NEW k, NEW d, Write(r, k, d), Tree', Serial(k)'
  PROVE  SerialInv'
<1>1. req'[r] = k
  BY DEF Write
<1> QED
  BY <1>1 DEF SerialInv

\* A handler that does not walk for a move: the partitions are as they should be.
Kept == "underFile" \notin lapses => \A i \in Items : Stored(i) => PartFits(i)

LEMMA KeptMeans ==
  ASSUME NEW q, ~(q.kind = "move" /\ q.pc \in {"walk", "update"})
  PROVE  PartsKept(q) <=> Kept
BY DEF PartsKept, Kept, Walked

LEMMA IdleFields == Idle.pc = "idle" /\ Idle.kind = "none"
  BY DEF Idle, Handler

LEMMA IdleSerial == Kept => Serial(Idle)
  BY IdleFields, KeptMeans
     DEF Serial, Stages, Creating, Changing, Moving, Copying, Creates

LEMMA IdleSerialNext == Kept' => Serial(Idle)'
  BY IdleFields
     DEF Serial, Stages, Creating, Changing, Moving, Copying, Creates, PartsKept, Walked,
         Kept

-------------------------------------------------------------------------------
(* A handler begins *)

LEMMA Begins ==
  ASSUME TypeOK, SerialInv, NEW r, Reqs = {r}, NEW k, Begin(r, k), Kept => Serial(k)
  PROVE  SerialInv'
<1>1. req[r].pc = "idle" /\ Serial(req[r]) /\ Tree
  BY DEF SerialInv, Begin
<1>2. PartsKept(req[r]) => Kept
  BY <1>1, KeptMeans
<1>3. Serial(k)
  BY <1>1, <1>2 DEF Serial
<1> QED
  BY <1>1, <1>3, Goes DEF Begin

LEMMA BeginCreateSerial ==
  ASSUME TypeOK, SerialInv, NEW r, Reqs = {r}, NEW kind \in Creates, NEW p \in Places,
         NEW name \in Given, NEW part \in Parts, BeginCreate(r, kind, p, name, part)
  PROVE  SerialInv'
<1>1. PICK d : d = [status |-> "live", name |-> name, parent |-> p, part |-> part]
  OBVIOUS
<1>2. PICK k : k = Handler(kind, IF kind = "upload" THEN "insert" ELSE "check", Root, p, d)
  OBVIOUS
<1>3. Begin(r, k)
  BY <1>1, <1>2 DEF BeginCreate
<1>4. k.kind = kind /\ k.pc = (IF kind = "upload" THEN "insert" ELSE "check")
        /\ k.to = p /\ k.copy = d
  BY <1>2 DEF Handler
<1>5. p = Root \/ (Stored(p) /\ part = doc[p].part)
  BY DEF BeginCreate, ParentAccepted
<1>6. d.status = "live" /\ d.parent = p /\ d.part = part
  BY <1>1
<1>7. Creating(k)
  BY <1>4, <1>5, <1>6 DEF Creating
<1>8. Stages(k) /\ Changing(k) /\ Moving(k) /\ Copying(k)
  BY <1>4 DEF Stages, Changing, Moving, Copying, Creates
<1>9. Kept => PartsKept(k)
  BY <1>4, KeptMeans
<1> QED
  BY <1>3, <1>7, <1>8, <1>9, Begins DEF Serial

LEMMA BeginChangeSerial ==
  ASSUME TypeOK, SerialInv, NEW r, Reqs = {r}, NEW i \in Items,
         \/ \E kind \in {"rename", "workspaceRename"}, name \in Given :
              BeginRename(r, kind, i, name)
         \/ BeginTouch(r, i)
         \/ BeginWorkspaceDelete(r, i)
  PROVE  SerialInv'
<1>1. doc[i] \in Doc
  BY DEF TypeOK
<1>2. CASE \E kind \in {"rename", "workspaceRename"}, name \in Given :
             BeginRename(r, kind, i, name)
  <2>1. PICK kind \in {"rename", "workspaceRename"}, name \in Given :
          BeginRename(r, kind, i, name)
    BY <1>2
  <2>2. PICK d : d = [doc[i] EXCEPT !.name = name]
    OBVIOUS
  <2>3. PICK k : k = Handler(kind, "check", i, Root, d)
    OBVIOUS
  <2>4. Begin(r, k) /\ Stored(i)
    BY <2>1, <2>2, <2>3 DEF BeginRename, Live, Stored
  <2>5. k.kind = kind /\ k.pc = "check" /\ k.id = i /\ k.copy = d
    BY <2>3 DEF Handler
  <2>6. Alike(d, doc[i])
    BY <1>1, <2>2 DEF Alike, Doc
  <2>7. Stages(k) /\ Creating(k) /\ Changing(k) /\ Moving(k) /\ Copying(k)
    BY <2>4, <2>5, <2>6 DEF Stages, Creating, Changing, Moving, Copying, Creates
  <2>8. Kept => PartsKept(k)
    BY <2>5, KeptMeans
  <2> QED
    BY <2>4, <2>7, <2>8, Begins DEF Serial
<1>3. CASE BeginTouch(r, i)
  <2>1. PICK k : k = Handler("touch", "save", i, Root, doc[i])
    OBVIOUS
  <2>2. Begin(r, k) /\ Stored(i)
    BY <1>3, <2>1 DEF BeginTouch
  <2>3. k.kind = "touch" /\ k.pc = "save" /\ k.id = i /\ k.copy = doc[i]
    BY <2>1 DEF Handler
  <2>4. Stages(k) /\ Creating(k) /\ Changing(k) /\ Moving(k) /\ Copying(k)
    BY <2>2, <2>3 DEF Stages, Creating, Changing, Moving, Copying, Creates
  <2>5. Kept => PartsKept(k)
    BY <2>3, KeptMeans
  <2> QED
    BY <2>2, <2>4, <2>5, Begins DEF Serial
<1>4. CASE BeginWorkspaceDelete(r, i)
  <2>1. PICK k : k = Handler("workspaceBin", "reread", i, Root, doc[i])
    OBVIOUS
  <2>2. Begin(r, k)
    BY <1>4, <2>1 DEF BeginWorkspaceDelete
  <2>3. k.kind = "workspaceBin" /\ k.pc = "reread"
    BY <2>1 DEF Handler
  <2>4. Stages(k) /\ Creating(k) /\ Changing(k) /\ Moving(k) /\ Copying(k)
    BY <2>3 DEF Stages, Creating, Changing, Moving, Copying, Creates
  <2>5. Kept => PartsKept(k)
    BY <2>3, KeptMeans
  <2> QED
    BY <2>2, <2>4, <2>5, Begins DEF Serial
<1> QED
  BY <1>2, <1>3, <1>4

LEMMA BeginPlaceSerial ==
  ASSUME TypeOK, SerialInv, NEW r, Reqs = {r}, NEW i \in Items, NEW p \in Places,
         BeginMove(r, i, p) \/ \E inPlace \in BOOLEAN : BeginDuplicate(r, i, inPlace, p)
  PROVE  SerialInv'
<1>1. CASE BeginMove(r, i, p)
  <2>1. PICK k : k = Handler("move", "target", i, p, doc[i])
    OBVIOUS
  <2>2. Begin(r, k) /\ Stored(i) /\ i # p
    BY <1>1, <2>1 DEF BeginMove
  <2>3. k.kind = "move" /\ k.pc = "target" /\ k.id = i /\ k.to = p /\ k.copy = doc[i]
    BY <2>1 DEF Handler
  <2>4. Stages(k) /\ Creating(k) /\ Changing(k) /\ Moving(k) /\ Copying(k)
    BY <2>2, <2>3 DEF Stages, Creating, Changing, Moving, Copying, Creates
  <2>5. Kept => PartsKept(k)
    BY <2>3, KeptMeans
  <2> QED
    BY <2>2, <2>4, <2>5, Begins DEF Serial
<1>2. CASE \E inPlace \in BOOLEAN : BeginDuplicate(r, i, inPlace, p)
  <2>1. PICK inPlace \in BOOLEAN : BeginDuplicate(r, i, inPlace, p)
    BY <1>2
  <2>2. PICK h : h = Handler("duplicate", "target", i, p, doc[i])
    OBVIOUS
  <2>3. PICK k : k = [h EXCEPT !.inPlace = inPlace]
    OBVIOUS
  <2>4. Begin(r, k) /\ Stored(i) /\ (inPlace => p = doc[i].parent)
    BY <2>1, <2>2, <2>3 DEF BeginDuplicate
  <2>5. k.kind = "duplicate" /\ k.pc = "target" /\ k.id = i /\ k.to = p
          /\ k.inPlace = inPlace
    BY <2>2, <2>3 DEF Handler
  <2>6. Stages(k) /\ Creating(k) /\ Changing(k) /\ Moving(k) /\ Copying(k)
    BY <2>4, <2>5 DEF Stages, Creating, Changing, Moving, Copying, Creates
  <2>7. Kept => PartsKept(k)
    BY <2>5, KeptMeans
  <2> QED
    BY <2>4, <2>6, <2>7, Begins DEF Serial
<1> QED
  BY <1>1, <1>2

LEMMA BeginWalkSerial ==
  ASSUME TypeOK, SerialInv, NEW r, Reqs = {r}, NEW i \in Items,
         (\E permanent \in BOOLEAN : BeginDelete(r, i, permanent)) \/ BeginRestore(r, i)
  PROVE  SerialInv'
<1>1. PICK kind \in {"purge", "bin", "restore"} :
        Stored(i) /\ Begin(r, Walker(Handler(kind, "walk", i, Root, doc[i])))
  BY DEF BeginDelete, BeginRestore, Binned, Stored
<1>2. PICK k : k = Walker(Handler(kind, "walk", i, Root, doc[i]))
  OBVIOUS
<1>3. k.kind = kind /\ k.pc = "walk" /\ k.id = i /\ k.walk.calm = TRUE
  BY <1>2 DEF Handler, Walker, At
<1>4. Stages(k) /\ Creating(k) /\ Changing(k) /\ Moving(k) /\ Copying(k)
  BY <1>1, <1>3 DEF Stages, Creating, Changing, Moving, Copying, Creates, Walks
<1>5. Kept => PartsKept(k)
  BY <1>1, <1>3, KeptMeans
<1> QED
  BY <1>1, <1>2, <1>4, <1>5, Begins DEF Serial

LEMMA BeginPurgeSerial ==
  ASSUME TypeOK, SerialInv, NEW r, Reqs = {r},
         BeginEmptyBin(r) \/ \E p \in Partitions : BeginFormat(r, p)
  PROVE  SerialInv'
<1>1. CASE BeginEmptyBin(r)
  <2>1. PICK k : k = Handler("emptyBin", "empty", Root, Root, Blank)
    OBVIOUS
  <2>2. Begin(r, k)
    BY <1>1, <2>1 DEF BeginEmptyBin
  <2>3. k.kind = "emptyBin" /\ k.pc = "empty"
    BY <2>1 DEF Handler
  <2>4. Stages(k) /\ Creating(k) /\ Changing(k) /\ Moving(k) /\ Copying(k)
    BY <2>3 DEF Stages, Creating, Changing, Moving, Copying, Creates
  <2>5. Kept => PartsKept(k)
    BY <2>3, KeptMeans
  <2> QED
    BY <2>2, <2>4, <2>5, Begins DEF Serial
<1>2. CASE \E p \in Partitions : BeginFormat(r, p)
  <2>1. PICK p \in Partitions : BeginFormat(r, p)
    BY <1>2
  <2>2. PICK d : d = [Blank EXCEPT !.part = p]
    OBVIOUS
  <2>3. PICK k : k = Handler("format", "format", Root, Root, d)
    OBVIOUS
  <2>4. Begin(r, k)
    BY <2>1, <2>2, <2>3 DEF BeginFormat
  <2>5. k.kind = "format" /\ k.pc = "format" /\ k.part = d.part
    BY <2>3 DEF Handler
  <2>6. d.part = p
    BY <2>2 DEF Blank
  <2>7. Stages(k) /\ Creating(k) /\ Changing(k) /\ Moving(k) /\ Copying(k)
    BY <2>5, <2>6 DEF Stages, Creating, Changing, Moving, Copying, Creates
  <2>8. Kept => PartsKept(k)
    BY <2>5, KeptMeans
  <2> QED
    BY <2>4, <2>7, <2>8, Begins DEF Serial
<1> QED
  BY <1>1, <1>2

LEMMA BeginSerial ==
  ASSUME TypeOK, SerialInv, NEW r, Reqs = {r}, BeginSome(r)
  PROVE  SerialInv'
BY BeginCreateSerial, BeginChangeSerial, BeginPlaceSerial, BeginWalkSerial,
   BeginPurgeSerial DEF BeginSome

-------------------------------------------------------------------------------
(* A handler reads *)

LEMMA Continues ==
  ASSUME TypeOK, SerialInv, NEW r, Reqs = {r}, NEW k, Continue(r, k), Serial(k)
  PROVE  SerialInv'
BY Goes DEF Continue, SerialInv

\* The local record as it is, and as it was left.
LEMMA AtWork ==
  ASSUME TypeOK, SerialInv, NEW r, Reqs = {r}
  PROVE  req[r] \in Request /\ Serial(req[r]) /\ Tree
BY DEF TypeOK, SerialInv

LEMMA EndSerial ==
  ASSUME TypeOK, SerialInv, NEW r, Reqs = {r}, Continue(r, Idle),
         req[r].pc \notin {"walk", "update"}
  PROVE  SerialInv'
<1>1. Kept
  BY AtWork, KeptMeans DEF Serial
<1> QED
  BY <1>1, IdleSerial, Continues

LEMMA CheckSerial ==
  ASSUME TypeOK, SerialInv, NEW r, Reqs = {r}, CheckCreate(r) \/ CheckRename(r)
  PROVE  SerialInv'
<1>1. PICK q : q = req[r]
  OBVIOUS
<1>2. q \in Request /\ Serial(q)
  BY <1>1, AtWork
<1>3. CASE CheckCreate(r)
  <2>1. q.pc = "check" /\ q.kind \in Creates
    BY <1>1, <1>3 DEF CheckCreate
  <2>2. CASE NameTaken(q.copy.name, q.to, MakesFolder(q.kind), {})
    BY <1>1, <1>3, <2>1, <2>2, EndSerial DEF CheckCreate
  <2>3. CASE ~NameTaken(q.copy.name, q.to, MakesFolder(q.kind), {})
    <3>1. PICK k : k = At(q, "insert")
      OBVIOUS
    <3>2. Continue(r, k)
      BY <1>1, <1>3, <2>3, <3>1 DEF CheckCreate
    <3>3. k.pc = "insert" /\ k.kind = q.kind /\ k.copy = q.copy /\ k.to = q.to
      BY <1>2, <3>1 DEF At, Request
    <3>4. Creating(k)
      BY <1>2, <2>1, <2>3, <3>3 DEF Serial, Creating
    <3>5. Stages(k) /\ Changing(k) /\ Moving(k) /\ Copying(k)
      BY <2>1, <3>3 DEF Stages, Changing, Moving, Copying, Creates
    <3>6. PartsKept(k)
      BY <1>2, <2>1, <3>3, KeptMeans DEF Serial
    <3> QED
      BY <3>2, <3>4, <3>5, <3>6, Continues DEF Serial
  <2> QED
    BY <2>2, <2>3
<1>4. CASE CheckRename(r)
  <2>1. q.pc = "check" /\ q.kind \in {"rename", "workspaceRename"}
    BY <1>1, <1>4 DEF CheckRename
  <2> DEFINE except == IF q.kind = "rename" THEN {q.id} ELSE {}
  <2>2. CASE NameTaken(q.copy.name, q.copy.parent, q.id \in Folders, except)
    BY <1>1, <1>4, <2>1, <2>2, EndSerial DEF CheckRename
  <2>3. CASE ~NameTaken(q.copy.name, q.copy.parent, q.id \in Folders, except)
    <3>1. PICK k : k = At(q, "save")
      OBVIOUS
    <3>2. Continue(r, k)
      BY <1>1, <1>4, <2>3, <3>1 DEF CheckRename
    <3>3. k.pc = "save" /\ k.kind = q.kind /\ k.copy = q.copy /\ k.id = q.id
      BY <1>2, <3>1 DEF At, Request
    <3>4. ~NameTaken(q.copy.name, q.copy.parent, q.id \in Folders, {q.id})
      BY <2>3 DEF NameTaken
    <3>5. Changing(k)
      BY <1>2, <2>1, <3>3, <3>4 DEF Serial, Changing
    <3>6. Stages(k) /\ Creating(k) /\ Moving(k) /\ Copying(k)
      BY <2>1, <3>3 DEF Stages, Creating, Moving, Copying, Creates
    <3>7. PartsKept(k)
      BY <1>2, <2>1, <3>3, KeptMeans DEF Serial
    <3> QED
      BY <3>2, <3>5, <3>6, <3>7, Continues DEF Serial
  <2> QED
    BY <2>2, <2>3
<1> QED
  BY <1>3, <1>4

LEMMA PlaceSerial ==
  ASSUME TypeOK, SerialInv, NEW r, Reqs = {r}, CheckTarget(r) \/ Place(r)
  PROVE  SerialInv'
<1>1. PICK q : q = req[r]
  OBVIOUS
<1>2. q \in Request /\ Serial(q)
  BY <1>1, AtWork
<1>3. CASE CheckTarget(r)
  <2>1. q.pc = "target" /\ q.kind = "move"
    BY <1>1, <1>3 DEF CheckTarget
  <2>2. CASE ~(q.to = Root \/ (Stored(q.to) /\ q.to \in Folders))
    BY <1>1, <1>3, <2>1, <2>2, EndSerial DEF CheckTarget
  <2>3. CASE q.to = Root \/ (Stored(q.to) /\ q.to \in Folders)
    <3>1. PICK k : k = At(q, "place")
      OBVIOUS
    <3>2. Continue(r, k)
      BY <1>1, <1>3, <2>3, <3>1 DEF CheckTarget
    <3>3. k.pc = "place" /\ k.kind = q.kind /\ k.copy = q.copy /\ k.to = q.to /\ k.id = q.id
      BY <1>2, <3>1 DEF At, Request
    <3>4. Moving(k)
      BY <1>2, <2>1, <2>3, <3>3 DEF Serial, Moving
    <3>5. Stages(k) /\ Creating(k) /\ Changing(k) /\ Copying(k)
      BY <2>1, <3>3 DEF Stages, Creating, Changing, Copying, Creates
    <3>6. PartsKept(k)
      BY <1>2, <2>1, <3>3, KeptMeans DEF Serial
    <3> QED
      BY <3>2, <3>4, <3>5, <3>6, Continues DEF Serial
  <2> QED
    BY <2>2, <2>3
<1>4. CASE Place(r)
  <2>1. q.pc = "place" /\ q.kind = "move"
    BY <1>1, <1>2, <1>4 DEF Place, Serial, Stages
  <2>2. PICK part : part = IF Stored(q.to) THEN doc[q.to].part ELSE NoPart
    OBVIOUS
  <2>3. PICK d : d = [[q.copy EXCEPT !.parent = q.to] EXCEPT !.part = part]
    OBVIOUS
  <2>4. PICK k : k = Holding(At(q, "save"), d)
    OBVIOUS
  <2>5. Continue(r, k)
    BY <1>1, <1>4, <2>2, <2>3, <2>4 DEF Place
  <2>6. k.pc = "save" /\ k.kind = q.kind /\ k.copy = d /\ k.to = q.to /\ k.id = q.id
    BY <1>2, <2>4 DEF At, Holding, Request
  <2>7. q.copy \in Doc
    BY <1>2 DEF Request
  <2>8. d.status = q.copy.status /\ d.parent = q.to /\ d.part = part
    BY <2>3, <2>7 DEF Doc
  <2>9. Moving(k)
    BY <1>2, <2>1, <2>2, <2>6, <2>8 DEF Serial, Moving
  <2>10. Stages(k) /\ Creating(k) /\ Changing(k) /\ Copying(k)
    BY <2>1, <2>6 DEF Stages, Creating, Changing, Copying, Creates
  <2>11. PartsKept(k)
    BY <1>2, <2>1, <2>6, KeptMeans DEF Serial
  <2> QED
    BY <2>5, <2>9, <2>10, <2>11, Continues DEF Serial
<1> QED
  BY <1>3, <1>4

LEMMA ExpandSerial ==
  ASSUME TypeOK, SerialInv, NEW r, Reqs = {r}, NEW x, Expand(r, x)
  PROVE  SerialInv'
<1>1. PICK q : q = req[r]
  OBVIOUS
<1>2. q \in Request /\ Serial(q)
  BY <1>1, AtWork
<1>3. PICK found, left : Continue(r, Found(q, found, left)) /\ q.pc = "walk"
  BY <1>1 DEF Expand
<1>4. PICK k : k = Found(q, found, left)
  OBVIOUS
<1>5. /\ k.pc \in {"walk", "update"} /\ k.kind = q.kind /\ k.copy = q.copy
      /\ k.id = q.id /\ k.walk.calm = q.walk.calm
  BY <1>2, <1>4 DEF Found, At, Request
<1>6. Stages(k) /\ Moving(k)
  BY <1>2, <1>3, <1>5 DEF Serial, Stages, Moving
<1>7. Creating(k) /\ Changing(k) /\ Copying(k)
  BY <1>2, <1>3, <1>5 DEF Serial, Stages, Creating, Changing, Copying, Creates, Walks
<1>8. PartsKept(k)
  BY <1>2, <1>3, <1>5 DEF Serial, PartsKept, Walked
<1> QED
  BY <1>3, <1>4, <1>6, <1>7, <1>8, Continues DEF Serial

LEMMA RereadSerial ==
  ASSUME TypeOK, SerialInv, NEW r, Reqs = {r}, Reread(r)
  PROVE  SerialInv'
<1>1. PICK q : q = req[r]
  OBVIOUS
<1>2. q \in Request /\ Serial(q) /\ q.pc = "reread" /\ q.kind = "workspaceBin"
  BY <1>1, AtWork DEF Reread, Serial, Stages
<1>3. CASE ~Stored(q.id)
  BY <1>1, <1>2, <1>3, EndSerial DEF Reread
<1>4. CASE Stored(q.id)
  <2>1. PICK d : d = [doc[q.id] EXCEPT !.status = "bin"]
    OBVIOUS
  <2>2. PICK k : k = Holding(At(q, "save"), d)
    OBVIOUS
  <2>3. Continue(r, k)
    BY <1>1, <1>4, <2>1, <2>2 DEF Reread
  <2>4. k.pc = "save" /\ k.kind = q.kind /\ k.copy = d /\ k.id = q.id
    BY <1>2, <2>2 DEF At, Holding, Request
  <2>5. Changing(k)
    BY <1>2, <1>4, <2>1, <2>4 DEF Changing
  <2>6. Stages(k) /\ Creating(k) /\ Moving(k) /\ Copying(k)
    BY <1>2, <2>4 DEF Stages, Creating, Moving, Copying, Creates
  <2>7. PartsKept(k)
    BY <1>2, <2>4, KeptMeans DEF Serial
  <2> QED
    BY <2>3, <2>5, <2>6, <2>7, Continues DEF Serial
<1> QED
  BY <1>3, <1>4

LEMMA DuplicateTargetSerial ==
  ASSUME TypeOK, SerialInv, NEW r, Reqs = {r}, DuplicateTarget(r)
  PROVE  SerialInv'
<1>1. PICK q : q = req[r]
  OBVIOUS
<1>2. q \in Request /\ Serial(q) /\ Tree /\ q.pc = "target" /\ q.kind = "duplicate"
  BY <1>1, AtWork DEF DuplicateTarget
<1>3. CASE ~(q.inPlace \/ q.to = Root \/ (Stored(q.to) /\ q.to \in Folders))
  BY <1>1, <1>2, <1>3, EndSerial DEF DuplicateTarget
<1>4. CASE q.inPlace \/ q.to = Root \/ (Stored(q.to) /\ q.to \in Folders)
  <2>1. PICK k : k = [At(q, "count") EXCEPT !.part = DuplicatePart(q)]
    OBVIOUS
  <2>2. Continue(r, k)
    BY <1>1, <1>4, <2>1 DEF DuplicateTarget
  <2>3. k.pc = "count" /\ k.kind = q.kind /\ k.to = q.to /\ k.part = DuplicatePart(q)
    BY <1>2, <2>1 DEF At, Request
  <2>4. q.inPlace => Stored(q.id) /\ q.to = doc[q.id].parent
    BY <1>2 DEF Serial, Copying
  <2>5. q.id \in Items \/ ~q.inPlace
    BY <2>4 DEF Stored
  <2>6. ~Fresh(q.to)
    BY <1>2, <1>4, <2>4, <2>5, TreeAssumption DEF Tree, ParentsGiven, Fresh, Stored
  <2>7. "underFile" \notin lapses => q.to \in Folders \cup {Root}
    BY <1>2, <1>4, <2>4, <2>5 DEF Tree, ParentsFolders
  <2>8. Tidy => q.to = Root \/ Stored(q.to)
    BY <1>2, <1>4, <2>4, <2>5 DEF Tree, Whole, HasPlace
  <2>9. Into(k.to, k.part)
    BY <2>3, <2>6, <2>7, <2>8 DEF Into, DuplicatePart
  <2>10. Copying(k)
    BY <2>3, <2>9 DEF Copying
  <2>11. Stages(k) /\ Creating(k) /\ Changing(k) /\ Moving(k)
    BY <1>2, <2>3 DEF Stages, Creating, Changing, Moving, Creates
  <2>12. PartsKept(k)
    BY <1>2, <2>3, KeptMeans DEF Serial
  <2> QED
    BY <2>2, <2>10, <2>11, <2>12, Continues DEF Serial
<1> QED
  BY <1>3, <1>4

LEMMA JobsSerial ==
  ASSUME TypeOK, SerialInv, NEW r, Reqs = {r}, CountCopies(r) \/ ListChildren(r)
  PROVE  SerialInv'
<1>1. PICK q : q = req[r]
  OBVIOUS
<1>2. q \in Request /\ Serial(q)
  BY <1>1, AtWork
<1>3. CASE CountCopies(r)
  <2>1. PICK src, name, own :
          Continue(r, [At(q, "put") EXCEPT !.jobs =
            {[src |-> src, name |-> name, own |-> own, into |-> q.to, part |-> q.part]}])
    BY <1>1, <1>3 DEF CountCopies
  <2>2. PICK j : j = [src |-> src, name |-> name, own |-> own, into |-> q.to, part |-> q.part]
    OBVIOUS
  <2>3. PICK k : k = [At(q, "put") EXCEPT !.jobs = {j}]
    OBVIOUS
  <2>4. q.pc = "count" /\ Into(q.to, q.part)
    BY <1>1, <1>2, <1>3 DEF CountCopies, Serial, Copying
  <2>5. k.pc = "put" /\ k.jobs = {j} /\ j.into = q.to /\ j.part = q.part
    BY <1>2, <2>2, <2>3 DEF At, Request
  <2>6. Copying(k)
    BY <2>4, <2>5 DEF Copying
  <2>7. Stages(k) /\ Creating(k) /\ Changing(k) /\ Moving(k)
    BY <2>5 DEF Stages, Creating, Changing, Moving
  <2>8. PartsKept(k)
    BY <1>2, <2>4, <2>5, KeptMeans DEF Serial
  <2> QED
    BY <2>1, <2>2, <2>3, <2>6, <2>7, <2>8, Continues DEF Serial
<1>4. CASE ListChildren(r)
  <2> DEFINE new(c) == [src |-> c, name |-> doc[c].name, own |-> doc[c].part,
                        into |-> q.to, part |-> q.part]
  <2>1. PICK jobs : /\ jobs = q.jobs \cup {new(c) : c \in {i \in ChildrenOf(q.from) : Live(i)}}
                    /\ Continue(r, [At(q, IF jobs = {} THEN "respond" ELSE "put")
                                      EXCEPT !.jobs = jobs])
    BY <1>1, <1>4 DEF ListChildren
  <2>2. PICK k : k = [At(q, IF jobs = {} THEN "respond" ELSE "put") EXCEPT !.jobs = jobs]
    OBVIOUS
  <2>3. q.pc = "list" /\ Into(q.to, q.part) /\ \A j \in q.jobs : Into(j.into, j.part)
    BY <1>1, <1>2, <1>4 DEF ListChildren, Serial, Copying
  <2>4. k.pc \in {"put", "respond"} /\ k.jobs = jobs
    BY <1>2, <2>2 DEF At, Request
  <2>5. \A c : new(c).into = q.to /\ new(c).part = q.part
    OBVIOUS
  <2> HIDE DEF new
  <2>6. \A j \in jobs : Into(j.into, j.part)
    BY <2>1, <2>3, <2>5
  <2>7. Copying(k)
    BY <2>4, <2>6 DEF Copying
  <2>8. Stages(k) /\ Creating(k) /\ Changing(k) /\ Moving(k)
    BY <2>4 DEF Stages, Creating, Changing, Moving
  <2>9. PartsKept(k)
    BY <1>2, <2>3, <2>4, KeptMeans DEF Serial
  <2> QED
    BY <2>1, <2>2, <2>7, <2>8, <2>9, Continues DEF Serial
<1> QED
  BY <1>3, <1>4

LEMMA ReadSerial ==
  ASSUME TypeOK, SerialInv, NEW r, Reqs = {r},
         \/ Refuse(r) \/ CheckCreate(r) \/ CheckRename(r) \/ CheckTarget(r) \/ Place(r)
         \/ (\E x \in Items : Expand(r, x))
         \/ Reread(r) \/ DuplicateTarget(r) \/ CountCopies(r) \/ ListChildren(r) \/ Respond(r)
  PROVE  SerialInv'
<1>1. CASE Refuse(r) \/ Respond(r)
  BY <1>1, EndSerial DEF Refuse, Respond
<1> QED
  BY <1>1, CheckSerial, PlaceSerial, ExpandSerial, RereadSerial, DuplicateTargetSerial,
     JobsSerial

-------------------------------------------------------------------------------
(* A handler writes *)

\* A write that moves nothing and neither adds nor removes an item.
LEMMA SameShape ==
  ASSUME Tree, lapses \subseteq lapses',
         \A k \in Items :
           /\ doc'[k].parent = doc[k].parent
           /\ Stored(k)' <=> Stored(k)
           /\ Fresh(k)' <=> Fresh(k)
  PROVE  ParentsGiven' /\ ParentsFolders' /\ Rooted'
<1>1. ParentsGiven'
  BY DEF Tree, ParentsGiven, Fresh
<1>2. ParentsFolders'
  BY DEF Tree, ParentsFolders
<1>3. Rooted'
  <2>1. SUFFICES ASSUME lapses' \cap {"belowItself", "underFile"} = {},
                        NEW S \in SUBSET Items, S # {}
                 PROVE  \E i \in S : ~Stored(i)' \/ doc'[i].parent \notin S
    BY DEF Rooted
  <2>2. PICK i \in S : ~Stored(i) \/ doc[i].parent \notin S
    BY <2>1 DEF Tree, Rooted
  <2> QED
    BY <2>2
<1> QED
  BY <1>1, <1>2, <1>3

\* A new document, put where its name is free.
LEMMA Added ==
  ASSUME TypeOK, Tree, Kept, NEW i \in Items, Fresh(i), NEW d, d.status = "live",
         doc' = [doc EXCEPT ![i] = d], lapses \subseteq lapses',
         ~Fresh(d.parent),
         "underFile" \notin lapses' => d.parent \in Folders \cup {Root},
         Tidy' => d.parent = Root \/ Live(d.parent),
         "unchecked" \notin lapses' => ~NameTaken(d.name, d.parent, i \in Folders, {}),
         Stored(d.parent) =>
           \/ d.part = doc[d.parent].part
           \/ "mixedParts" \in lapses' /\ doc[d.parent].part = NoPart
  PROVE  Tree' /\ Kept'
<1>1. \A k \in Items : doc'[k] = IF k = i THEN d ELSE doc[k]
  BY DEF TypeOK
<1>2. ~Stored(i) /\ Stored(i)' /\ Live(i)' /\ d.parent # i
  BY <1>1 DEF Stored, Live, Fresh
<1>3. \A k : k # i => (Stored(k)' <=> Stored(k)) /\ (Live(k)' <=> Live(k))
                        /\ (Fresh(k)' <=> Fresh(k))
  BY <1>1 DEF Stored, Live, Fresh
<1>4. \A k \in Items : Stored(k) => doc[k].parent # i /\ ~Fresh(doc[k].parent)
  BY DEF Tree, ParentsGiven
<1>5. ~Fresh(i)'
  BY <1>1 DEF Fresh
<1>6. ParentsGiven'
  <2>1. SUFFICES ASSUME NEW k \in Items, Stored(k)',
                        NEW p, p = doc'[k].parent
                 PROVE  ~Fresh(p)'
    BY DEF ParentsGiven, Fresh
  <2> QED
    BY <1>1, <1>2, <1>3, <1>4, <2>1
<1>7. ParentsFolders'
  BY <1>1, <1>2, <1>3 DEF Tree, ParentsFolders
<1>8. Rooted'
  <2>1. SUFFICES ASSUME lapses' \cap {"belowItself", "underFile"} = {},
                        NEW S \in SUBSET Items, S # {},
                        \A k \in S : Stored(k)' /\ doc'[k].parent \in S
                 PROVE  FALSE
    BY DEF Rooted
  <2>2. S \ {i} # {}
    BY <1>1, <1>2, <2>1
  <2>3. PICK k \in S \ {i} : ~Stored(k) \/ doc[k].parent \notin S \ {i}
    BY <2>1, <2>2 DEF Tree, Rooted
  <2> QED
    BY <1>1, <1>3, <1>4, <2>1, <2>3
<1>9. Whole'
  <2>1. SUFFICES ASSUME Tidy', NEW k \in Items, Stored(k)' PROVE HasPlace(k)'
    BY DEF Whole
  <2>2. CASE k = i
    BY <1>1, <1>2, <1>3, <2>1, <2>2 DEF HasPlace, Stored, Live
  <2>3. CASE k # i
    <3>1. HasPlace(k)
      BY <1>3, <2>1, <2>3 DEF Tree, Whole, Tidy
    <3> QED
      BY <1>1, <1>3, <1>4, <2>1, <2>3, <3>1 DEF HasPlace
  <2> QED
    BY <2>2, <2>3
<1>10. Distinct'
  <2>1. SUFFICES ASSUME "unchecked" \notin lapses',
                        NEW j \in Items, NEW k \in Items, j # k,
                        doc'[j].status = "live", doc'[k].status = "live",
                        doc'[j].parent = doc'[k].parent, doc'[j].name = doc'[k].name
                 PROVE  ~SameType(j, k)
    BY DEF Distinct, NamesDiffer
  <2>2. NamesDiffer(doc) /\ ~NameTaken(d.name, d.parent, i \in Folders, {})
    BY <2>1 DEF Tree, Distinct
  <2>3. CASE j # i /\ k # i
    BY <1>1, <2>1, <2>2, <2>3 DEF NamesDiffer
  <2>4. CASE j = i \/ k = i
    BY <1>1, <2>1, <2>2, <2>4 DEF NameTaken, Live, SameType
  <2> QED
    BY <2>3, <2>4
<1>11. Kept'
  <2>1. SUFFICES ASSUME "underFile" \notin lapses', NEW k \in Items, Stored(k)'
                 PROVE  PartFits(k)'
    BY DEF Kept
  <2>2. CASE k = i
    BY <1>1, <1>2, <1>3, <2>2 DEF PartFits, Stored
  <2>3. CASE k # i
    <3>1. PartFits(k)
      BY <1>3, <2>1, <2>3 DEF Kept
    <3> QED
      BY <1>1, <1>3, <1>4, <2>1, <2>3, <3>1 DEF PartFits, Stored
  <2> QED
    BY <2>2, <2>3
<1> QED
  BY <1>6, <1>7, <1>8, <1>9, <1>10, <1>11 DEF Tree

\* Documents that are deleted for good, with what lies in a folder deleted.
LEMMA Removed ==
  ASSUME TypeOK, Tree, Kept, NEW S, lapses \subseteq lapses',
         doc' = [k \in Items |-> IF k \in S THEN Purged ELSE doc[k]],
         Tidy => \A k \in Items \ S : Stored(k) => doc[k].parent \notin S
  PROVE  Tree' /\ Kept'
<1>1. Purged.status = "purged"
  BY DEF Purged, Blank
<1>2. \A k \in Items : doc'[k] = IF k \in S THEN Purged ELSE doc[k]
  OBVIOUS
<1>3. \A k : /\ Stored(k)' => k \notin S /\ Stored(k)
             /\ k \notin S => (Stored(k)' <=> Stored(k)) /\ (Live(k)' <=> Live(k))
             /\ Fresh(k)' => Fresh(k)
  BY <1>1, <1>2 DEF Stored, Live, Fresh
<1>4. ParentsGiven' /\ ParentsFolders'
  BY <1>2, <1>3 DEF Tree, ParentsGiven, ParentsFolders
<1>5. Rooted'
  <2>1. SUFFICES ASSUME lapses' \cap {"belowItself", "underFile"} = {},
                        NEW T \in SUBSET Items, T # {}
                 PROVE  \E i \in T : ~Stored(i)' \/ doc'[i].parent \notin T
    BY DEF Rooted
  <2>2. PICK i \in T : ~Stored(i) \/ doc[i].parent \notin T
    BY <2>1 DEF Tree, Rooted
  <2> QED
    BY <1>2, <1>3, <2>2
<1>6. Whole'
  <2>1. SUFFICES ASSUME Tidy', NEW k \in Items, Stored(k)' PROVE HasPlace(k)'
    BY DEF Whole
  <2>2. HasPlace(k) /\ doc[k].parent \notin S
    BY <1>3, <2>1 DEF Tree, Whole, Tidy
  <2> QED
    BY <1>2, <1>3, <2>1, <2>2 DEF HasPlace
<1>7. Distinct'
  <2>1. SUFFICES ASSUME "unchecked" \notin lapses',
                        NEW j \in Items, NEW k \in Items, j # k,
                        doc'[j].status = "live", doc'[k].status = "live",
                        doc'[j].parent = doc'[k].parent, doc'[j].name = doc'[k].name
                 PROVE  ~SameType(j, k)
    BY DEF Distinct, NamesDiffer
  <2>2. doc'[j] = doc[j] /\ doc'[k] = doc[k]
    BY <1>1, <1>2, <2>1
  <2>3. NamesDiffer(doc)
    BY <2>1 DEF Tree, Distinct
  <2> QED
    BY <2>1, <2>2, <2>3 DEF NamesDiffer
<1>8. Kept'
  <2>1. SUFFICES ASSUME "underFile" \notin lapses', NEW k \in Items, Stored(k)'
                 PROVE  PartFits(k)'
    BY DEF Kept
  <2>2. PartFits(k) /\ doc'[k] = doc[k]
    BY <1>2, <1>3, <2>1 DEF Kept
  <2> QED
    BY <1>2, <1>3, <2>1, <2>2 DEF PartFits, Stored
<1> QED
  BY <1>4, <1>5, <1>6, <1>7, <1>8 DEF Tree

LEMMA InsertSerial ==
  ASSUME TypeOK, SerialInv, NEW r, Reqs = {r}, NEW i \in Items, Insert(r, i)
  PROVE  SerialInv'
<1>1. PICK q : q = req[r]
  OBVIOUS
<1>2. q \in Request /\ Serial(q) /\ Tree
  BY <1>1, AtWork
<1>3. PICK d : d = q.copy
  OBVIOUS
<1>4. /\ q.pc = "insert" /\ Fresh(i) /\ (i \in Folders) = MakesFolder(q.kind)
      /\ Write(r, Idle, [doc EXCEPT ![i] = d])
      /\ lapses' = lapses \cup Lapse("intoBin", Binned(q.to))
                     \cup Lapse("underFile", q.to \in Items \ Folders)
                     \cup Lapse("unchecked", q.kind = "upload")
  BY <1>1, <1>3 DEF Insert
<1>5. /\ d.status = "live" /\ d.parent = q.to
      /\ q.to = Root \/ (Stored(q.to) /\ d.part = doc[q.to].part)
      /\ q.kind # "upload" => ~NameTaken(d.name, q.to, MakesFolder(q.kind), {})
  BY <1>2, <1>3, <1>4 DEF Serial, Stages, Creating
<1>6. Kept
  BY <1>2, <1>4, KeptMeans DEF Serial
<1>7. ~Fresh(d.parent)
  BY <1>5, TreeAssumption DEF Fresh, Stored
<1>8. "underFile" \notin lapses' => d.parent \in Folders \cup {Root}
  BY <1>4, <1>5 DEF Lapse, Stored
<1>9. Tidy' => d.parent = Root \/ Live(d.parent)
  BY <1>4, <1>5 DEF Lapse, Tidy, Stored, Binned, Live
<1>10. "unchecked" \notin lapses' => ~NameTaken(d.name, d.parent, i \in Folders, {})
  BY <1>4, <1>5 DEF Lapse
<1>11. Stored(d.parent) => d.part = doc[d.parent].part
  BY <1>5, TreeAssumption DEF Stored
<1>12. doc' = [doc EXCEPT ![i] = d] /\ lapses \subseteq lapses'
  BY <1>4 DEF Write
<1>13. Tree' /\ Kept'
  BY <1>2, <1>4, <1>5, <1>6, <1>7, <1>8, <1>9, <1>10, <1>11, <1>12, Added
<1> QED
  BY <1>4, <1>13, IdleSerialNext, Wrote

LEMMA IntoStays ==
  ASSUME TypeOK, NEW i \in Items, Fresh(i), NEW d, d.status = "live",
         doc' = [doc EXCEPT ![i] = d], lapses \subseteq lapses',
         NEW p, NEW part, Into(p, part)
  PROVE  Into(p, part)'
<1>1. p # i
  BY DEF Into
<1>2. \A k \in Items : doc'[k] = IF k = i THEN d ELSE doc[k]
  BY DEF TypeOK
<1>3. (Stored(p)' <=> Stored(p)) /\ (Fresh(p)' <=> Fresh(p)) /\ (Stored(p) => doc'[p] = doc[p])
  BY <1>1, <1>2 DEF Stored, Fresh
<1>4. Tidy' => Tidy
  BY DEF Tidy
<1> QED
  BY <1>3, <1>4 DEF Into

LEMMA PutSerial ==
  ASSUME TypeOK, SerialInv, NEW r, Reqs = {r}, NEW j \in req[r].jobs, NEW i \in Items,
         Put(r, j, i)
  PROVE  SerialInv'
<1>1. PICK q : q = req[r]
  OBVIOUS
<1>2. q \in Request /\ Serial(q) /\ Tree
  BY <1>1, AtWork
<1>3. PICK part : part = IF j.part # NoPart THEN j.part ELSE j.own
  OBVIOUS
<1>4. PICK left : left = q.jobs \ {j}
  OBVIOUS
<1>5. PICK rest : rest = Copied(q, j, i, left)
  OBVIOUS
<1>6. PICK d : d = [status |-> "live", name |-> j.name, parent |-> j.into, part |-> part]
  OBVIOUS
<1>7. PICK k : k = IF i \in Folders
                     THEN [[[At(rest, "list") EXCEPT !.from = j.src] EXCEPT !.to = i]
                             EXCEPT !.part = part]
                     ELSE At(rest, IF left = {} THEN "respond" ELSE "put")
  OBVIOUS
<1>8. /\ q.pc = "put" /\ Fresh(i) /\ Write(r, k, [doc EXCEPT ![i] = d])
      /\ lapses' = lapses \cup {"unchecked"} \cup Lapse("intoBin", Binned(j.into))
                     \cup Lapse("mixedParts", Stored(j.into) /\ doc[j.into].part # part)
  BY <1>1, <1>3, <1>4, <1>5, <1>6, <1>7 DEF Put
<1>9. d.status = "live" /\ d.parent = j.into /\ d.part = part
  BY <1>6
<1>10. Into(j.into, j.part)
  BY <1>1, <1>2, <1>8 DEF Serial, Copying
<1>11. Kept
  BY <1>2, <1>8, KeptMeans DEF Serial
<1>12. doc' = [doc EXCEPT ![i] = d] /\ lapses \subseteq lapses'
  BY <1>8 DEF Write
<1>13. "underFile" \notin lapses' => d.parent \in Folders \cup {Root}
  BY <1>9, <1>10, <1>12 DEF Into
<1>14. Tidy' => d.parent = Root \/ Live(d.parent)
  BY <1>8, <1>9, <1>10 DEF Into, Lapse, Tidy, Stored, Binned, Live
<1>15. Stored(d.parent) =>
         \/ d.part = doc[d.parent].part
         \/ "mixedParts" \in lapses' /\ doc[d.parent].part = NoPart
  BY <1>3, <1>8, <1>9, <1>10 DEF Into, Lapse
<1>16. Tree' /\ Kept'
  <2>1. ~Fresh(d.parent) /\ "unchecked" \in lapses'
    BY <1>8, <1>9, <1>10 DEF Into
  <2> QED
    BY <1>2, <1>8, <1>9, <1>11, <1>12, <1>13, <1>14, <1>15, <2>1, Added
<1>17. rest.pc = q.pc /\ rest.jobs = left /\ rest.kind = q.kind
  BY <1>2, <1>5 DEF Copied, Request
<1>18. /\ k.pc = IF i \in Folders THEN "list" ELSE IF left = {} THEN "respond" ELSE "put"
       /\ k.jobs = left
       /\ i \in Folders => k.to = i /\ k.part = part
  BY <1>2, <1>5, <1>7 DEF At, Copied, Request
<1>19. \A m \in left : Into(m.into, m.part)'
  <2>1. SUFFICES ASSUME NEW m \in left PROVE Into(m.into, m.part)'
    OBVIOUS
  <2>2. Into(m.into, m.part)
    BY <1>2, <1>4, <1>8 DEF Serial, Copying
  <2> QED
    BY <1>8, <1>9, <1>12, <2>2, IntoStays
<1>20. i \in Folders => Into(i, part)'
  <2>1. Stored(i)' /\ ~Fresh(i)' /\ doc'[i].part = part
    BY <1>9, <1>12 DEF Stored, Fresh, TypeOK
  <2> QED
    BY <2>1 DEF Into
<1>21. Copying(k)'
  BY <1>18, <1>19, <1>20 DEF Copying
<1>22. Stages(k)' /\ Creating(k)' /\ Changing(k)' /\ Moving(k)'
  BY <1>18 DEF Stages, Creating, Changing, Moving
<1>23. PartsKept(k)'
  BY <1>16, <1>18 DEF PartsKept, Kept, Walked
<1> QED
  BY <1>8, <1>16, <1>21, <1>22, <1>23, Wrote DEF Serial

LEMMA BinSerial ==
  ASSUME TypeOK, SerialInv, NEW r, Reqs = {r}, EmptyBin(r) \/ Format(r)
  PROVE  SerialInv'
<1>1. PICK q : q = req[r]
  OBVIOUS
<1>2. q \in Request /\ Serial(q) /\ Tree /\ q.pc \in {"empty", "format"}
  BY <1>1, AtWork DEF EmptyBin, Format
<1>3. Kept
  BY <1>2, KeptMeans DEF Serial
<1>4. PICK S : /\ PurgeAll(r, S)
               /\ \/ EmptyBin(r) /\ S = {i \in Items : Binned(i)}
                  \/ Format(r) /\ S = {i \in Items : Stored(i) /\ doc[i].part = q.part}
  BY <1>1 DEF EmptyBin, Format
<1>5. ASSUME Tidy, NEW k \in Items \ S, Stored(k), doc[k].parent \in S
      PROVE  FALSE
  <2>1. HasPlace(k)
    BY <1>2, <1>5 DEF Tree, Whole
  <2>2. CASE EmptyBin(r) /\ S = {i \in Items : Binned(i)}
    BY <1>5, <2>1, <2>2, TreeAssumption DEF HasPlace, Stored, Live, Binned
  <2>3. CASE Format(r) /\ S = {i \in Items : Stored(i) /\ doc[i].part = q.part}
    <3>1. q.part \in Partitions
      BY <1>1, <1>2, <2>3 DEF Format, Serial, Stages
    <3>2. PartFits(k)
      BY <1>3, <1>5 DEF Kept, Tidy
    <3> QED
      BY <1>5, <2>3, <3>1, <3>2, TreeAssumption DEF PartFits
  <2> QED
    BY <1>4, <2>2, <2>3
<1>6. /\ doc' = [k \in Items |-> IF k \in S THEN Purged ELSE doc[k]]
      /\ lapses' = lapses
  BY <1>4 DEF PurgeAll, Write
<1>7. Tree' /\ Kept'
  BY <1>2, <1>3, <1>5, <1>6, Removed
<1> QED
  BY <1>4, <1>7, IdleSerialNext, Wrote DEF PurgeAll

\* The handlers that write back the document under its own folder.
LEMMA SaveChangeSerial ==
  ASSUME TypeOK, SerialInv, NEW r, Reqs = {r}, Save(r), req[r].kind # "move"
  PROVE  SerialInv'
<1>1. PICK q : q = req[r]
  OBVIOUS
<1>2. /\ q \in Request /\ Serial(q) /\ Tree /\ q.pc = "save"
      /\ q.kind \in {"rename", "workspaceRename", "touch", "workspaceBin"}
  BY <1>1, AtWork DEF Save, Serial, Stages
<1>3. PICK i : i = q.id
  OBVIOUS
<1>4. PICK d : d = q.copy
  OBVIOUS
<1>5. /\ Write(r, Idle, [doc EXCEPT ![i] = d])
      /\ doc' = [doc EXCEPT ![i] = d] /\ lapses \subseteq lapses'
      /\ q.kind = "workspaceBin" /\ "aboveLive" \notin lapses' =>
           \A k \in ChildrenOf(i) : ~Live(k)
  <2>1. lapses' = lapses
          \cup Lapse("belowItself", q.kind = "move" /\ q.to \in Subtree(doc, q.id) \ {q.id})
          \cup Lapse("intoBin", q.kind = "move" /\ Binned(q.to))
          \cup Lapse("unchecked", q.kind = "move")
          \cup Lapse("aboveLive", q.kind = "workspaceBin" /\ \E k \in ChildrenOf(q.id) : Live(k))
    BY <1>1 DEF Save
  <2>2. Write(r, Idle, [doc EXCEPT ![i] = d])
    BY <1>1, <1>2, <1>3, <1>4 DEF Save
  <2> QED
    BY <1>3, <2>1, <2>2 DEF Write, Lapse
<1>6. /\ Stored(i) /\ i \in Items /\ doc[i] \in Doc
      /\ d.parent = doc[i].parent /\ d.part = doc[i].part
      /\ q.kind # "workspaceBin" => d.status = doc[i].status
      /\ q.kind = "workspaceBin" => d = [doc[i] EXCEPT !.status = "bin"]
  <2>1. Stored(i) /\ i \in Items /\ doc[i] \in Doc
    BY <1>2, <1>3 DEF Serial, Changing, Stored, TypeOK
  <2>2. CASE q.kind = "workspaceBin"
    <3>1. d = [doc[i] EXCEPT !.status = "bin"]
      BY <1>2, <1>3, <1>4, <2>2 DEF Serial, Changing
    <3> QED
      BY <2>1, <2>2, <3>1 DEF Doc
  <2>3. CASE q.kind # "workspaceBin"
    BY <1>2, <1>3, <1>4, <2>1, <2>3 DEF Serial, Changing, Alike
  <2> QED
    BY <2>2, <2>3
<1>7. \A k \in Items : doc'[k] = IF k = i THEN d ELSE doc[k]
  BY <1>5 DEF TypeOK
<1>8. q.kind = "workspaceBin" => d.status = "bin" /\ d.name = doc[i].name
  BY <1>6 DEF Doc
<1>9. \A k \in Items : doc'[k].parent = doc[k].parent /\ doc'[k].part = doc[k].part
  BY <1>6, <1>7
<1>10. \A k : (Stored(k)' <=> Stored(k)) /\ (Fresh(k)' <=> Fresh(k))
  BY <1>2, <1>6, <1>7, <1>8 DEF Stored, Fresh
<1>11. \A k : Live(k)' <=> Live(k) /\ ~(k = i /\ q.kind = "workspaceBin")
  BY <1>2, <1>6, <1>7, <1>8 DEF Live
<1>12. ParentsGiven' /\ ParentsFolders' /\ Rooted'
  BY <1>2, <1>5, <1>9, <1>10, SameShape
<1>13. Whole'
  <2>1. SUFFICES ASSUME Tidy', NEW k \in Items, Stored(k)' PROVE HasPlace(k)'
    BY DEF Whole
  <2>2. HasPlace(k) /\ Stored(k)
    BY <1>2, <1>5, <1>10, <2>1 DEF Tree, Whole, Tidy
  <2>3. Live(k) /\ q.kind = "workspaceBin" => doc[k].parent # i
    BY <1>5, <2>1, <2>2 DEF ChildrenOf, Tidy
  <2>4. PICK p : p = doc[k].parent /\ p = doc'[k].parent
    BY <1>9
  <2>5. p = Root \/ (Stored(p)' /\ (Live(k)' => Live(p)'))
    BY <1>10, <1>11, <2>2, <2>3, <2>4 DEF HasPlace
  <2> QED
    BY <2>4, <2>5 DEF HasPlace, Stored, Live
<1>14. Distinct'
  <2>1. SUFFICES ASSUME "unchecked" \notin lapses',
                        NEW j \in Items, NEW k \in Items, j # k,
                        doc'[j].status = "live", doc'[k].status = "live",
                        doc'[j].parent = doc'[k].parent, doc'[j].name = doc'[k].name
                 PROVE  ~SameType(j, k)
    BY DEF Distinct, NamesDiffer
  <2>2. /\ Live(j) /\ Live(k) /\ ~(j = i /\ q.kind = "workspaceBin")
        /\ ~(k = i /\ q.kind = "workspaceBin") /\ doc[j].parent = doc[k].parent
    BY <1>9, <1>11, <2>1 DEF Live
  <2>3. NamesDiffer(doc)
    BY <1>2, <1>5, <2>1 DEF Tree, Distinct
  <2>4. CASE doc'[j].name = doc[j].name /\ doc'[k].name = doc[k].name
    BY <2>1, <2>2, <2>3, <2>4 DEF NamesDiffer, Live
  <2>5. CASE (j = i \/ k = i) /\ q.kind \in {"rename", "workspaceRename"}
    <3>1. ~NameTaken(d.name, d.parent, i \in Folders, {i})
      BY <1>2, <1>3, <1>4, <2>5 DEF Serial, Changing
    <3> QED
      BY <1>6, <1>7, <2>1, <2>2, <2>5, <3>1 DEF NameTaken, SameType
  <2>6. q.kind = "touch" => d = doc[i]
    BY <1>2, <1>3, <1>4 DEF Serial, Changing
  <2> QED
    BY <1>2, <1>7, <2>2, <2>4, <2>5, <2>6
<1>15. Kept'
  <2>1. SUFFICES ASSUME "underFile" \notin lapses', NEW k \in Items, Stored(k)'
                 PROVE  PartFits(k)'
    BY DEF Kept
  <2>2. Kept /\ Stored(k)
    BY <1>2, <1>10, <2>1, KeptMeans DEF Serial
  <2>3. PartFits(k)
    BY <1>5, <2>1, <2>2 DEF Kept
  <2>4. PICK p : p = doc[k].parent /\ p = doc'[k].parent
    BY <1>9
  <2>5. Stored(p)' =>
          \/ doc'[k].part = doc'[p].part
          \/ "mixedParts" \in lapses' /\ doc'[p].part = NoPart
    BY <1>5, <1>9, <1>10, <2>3, <2>4 DEF PartFits, Stored
  <2> QED
    BY <2>4, <2>5 DEF PartFits, Stored
<1> QED
  BY <1>5, <1>12, <1>13, <1>14, <1>15, IdleSerialNext, Wrote DEF Tree

\* The move of an item that stays outside of what lies below it.
LEMMA SaveMoveSerial ==
  ASSUME TypeOK, SerialInv, NEW r, Reqs = {r}, Save(r), req[r].kind = "move"
  PROVE  SerialInv'
<1>1. PICK q : q = req[r]
  OBVIOUS
<1>2. q \in Request /\ Serial(q) /\ Tree /\ q.pc = "save" /\ q.kind = "move"
  BY <1>1, AtWork DEF Save
<1>3. PICK i : i = q.id
  OBVIOUS
<1>4. PICK d : d = q.copy
  OBVIOUS
<1>5. PICK to : to = q.to
  OBVIOUS
<1>6. PICK k : k = IF i \in Folders THEN Walker(q) ELSE Idle
  OBVIOUS
<1>7. /\ Write(r, k, [doc EXCEPT ![i] = d])
      /\ doc' = [doc EXCEPT ![i] = d] /\ lapses \subseteq lapses'
      /\ "belowItself" \notin lapses' => to \notin Subtree(doc, i) \ {i}
      /\ "intoBin" \notin lapses' => ~Binned(to)
      /\ "unchecked" \in lapses'
  <2>1. lapses' = lapses
          \cup Lapse("belowItself", q.kind = "move" /\ q.to \in Subtree(doc, q.id) \ {q.id})
          \cup Lapse("intoBin", q.kind = "move" /\ Binned(q.to))
          \cup Lapse("unchecked", q.kind = "move")
          \cup Lapse("aboveLive", q.kind = "workspaceBin" /\ \E c \in ChildrenOf(q.id) : Live(c))
    BY <1>1 DEF Save
  <2>2. Write(r, k, [doc EXCEPT ![i] = d])
    BY <1>1, <1>2, <1>3, <1>4, <1>6 DEF Save
  <2> QED
    BY <1>2, <1>3, <1>5, <2>1, <2>2 DEF Write, Lapse
<1>8. /\ Stored(i) /\ i \in Items /\ i # to
      /\ to = Root \/ (Stored(to) /\ to \in Folders)
      /\ d.status = doc[i].status /\ d.parent = to
      /\ Stored(to) => d.part = doc[to].part
  BY <1>2, <1>3, <1>4, <1>5 DEF Serial, Moving, Stored
<1>9. \A j \in Items : doc'[j] = IF j = i THEN d ELSE doc[j]
  BY <1>7 DEF TypeOK
<1>10. \A j : (Stored(j)' <=> Stored(j)) /\ (Live(j)' <=> Live(j)) /\ (Fresh(j)' <=> Fresh(j))
  BY <1>8, <1>9 DEF Stored, Live, Fresh
<1>11. ParentsGiven'
  <2>1. SUFFICES ASSUME NEW j \in Items, Stored(j)', NEW p, p = doc'[j].parent
                 PROVE  ~Fresh(p)'
    BY DEF ParentsGiven, Fresh
  <2>2. ~Fresh(to)
    BY <1>8, TreeAssumption DEF Fresh, Stored
  <2> QED
    BY <1>2, <1>8, <1>9, <1>10, <2>1, <2>2 DEF Tree, ParentsGiven
<1>12. ParentsFolders'
  BY <1>2, <1>7, <1>8, <1>9, <1>10 DEF Tree, ParentsFolders
<1>13. Rooted'
  <2>1. SUFFICES ASSUME lapses' \cap {"belowItself", "underFile"} = {},
                        NEW S \in SUBSET Items, S # {},
                        \A j \in S : Stored(j)' /\ doc'[j].parent \in S
                 PROVE  FALSE
    BY DEF Rooted
  <2>2. /\ \A T \in SUBSET Items :
             T # {} => \E j \in T : ~Stored(j) \/ doc[j].parent \notin T
        /\ \A j \in Items : Stored(j) => doc[j].parent \in Folders \cup {Root}
    BY <1>2, <1>7, <2>1 DEF Tree, Rooted, ParentsFolders
  <2>3. i \in S
    BY <1>9, <1>10, <2>1, <2>2
  <2>4. to \in S
    BY <1>8, <1>9, <2>1, <2>3
  <2>5. PICK B : B = Subtree(doc, i)
    OBVIOUS
  <2>6. /\ B \subseteq Items /\ i \in B
        /\ \A j \in Items :
             Edge(doc, j) /\ doc[j].parent \in B /\ doc[j].parent \in Folders \cup {i} => j \in B
    BY <1>8, <2>5, SubtreeFacts
  <2>7. to \in S \ B
    BY <1>7, <1>8, <2>1, <2>4, <2>5
  <2>8. PICK j \in S \ B : ~Stored(j) \/ doc[j].parent \notin S \ B
    BY <2>1, <2>2, <2>7
  <2>9. Stored(j) /\ doc[j].parent \in B
    BY <1>9, <1>10, <2>1, <2>6, <2>8
  <2>10. doc[j].parent \in Folders
    BY <2>1, <2>2, <2>6, <2>9, TreeAssumption
  <2> QED
    BY <2>1, <2>6, <2>8, <2>9, <2>10, StoredEdge
<1>14. Whole'
  <2>1. SUFFICES ASSUME Tidy', NEW j \in Items, Stored(j)' PROVE HasPlace(j)'
    BY DEF Whole
  <2>2. Stored(j) /\ HasPlace(j)
    BY <1>2, <1>7, <1>10, <2>1 DEF Tree, Whole, Tidy
  <2>3. to = Root \/ Live(to)
    BY <1>7, <1>8, <2>1 DEF Tidy, Stored, Live, Binned
  <2>4. PICK p : p = doc'[j].parent
    OBVIOUS
  <2>5. p = Root \/ (Stored(p)' /\ (Live(j)' => Live(p)'))
    BY <1>8, <1>9, <1>10, <2>2, <2>3, <2>4 DEF HasPlace
  <2> QED
    BY <2>4, <2>5 DEF HasPlace, Stored, Live
<1>15. Distinct'
  BY <1>7 DEF Distinct
<1>16. Tree'
  BY <1>11, <1>12, <1>13, <1>14, <1>15 DEF Tree
<1>17. Kept
  BY <1>2, KeptMeans DEF Serial
\* Every item but those the moved folder holds is accounted as it should be.
<1>18. ASSUME "underFile" \notin lapses', NEW j \in Items, Stored(j)', doc'[j].parent # i
       PROVE  PartFits(j)'
  <2>1. PICK p : p = doc'[j].parent
    OBVIOUS
  <2>2. Stored(p)' =>
          \/ doc'[j].part = doc'[p].part
          \/ "mixedParts" \in lapses' /\ doc'[p].part = NoPart
    <3>1. CASE j = i
      BY <1>8, <1>9, <1>10, <2>1, <3>1 DEF Stored
    <3>2. CASE j # i
      <4>1. PartFits(j)
        BY <1>7, <1>10, <1>17, <1>18 DEF Kept
      <4> QED
        BY <1>7, <1>9, <1>10, <1>18, <2>1, <3>2, <4>1 DEF PartFits, Stored
    <3> QED
      BY <3>1, <3>2
  <2> QED
    BY <2>1, <2>2 DEF PartFits, Stored
<1>19. CASE i \notin Folders
  <2>1. Kept'
    <3>1. SUFFICES ASSUME "underFile" \notin lapses', NEW j \in Items, Stored(j)'
                   PROVE  PartFits(j)'
      BY DEF Kept
    <3>2. doc'[j].parent \in Folders \cup {Root}
      BY <1>12, <3>1 DEF ParentsFolders
    <3> QED
      BY <1>8, <1>18, <1>19, <3>1, <3>2, TreeAssumption
  <2> QED
    BY <1>6, <1>7, <1>16, <1>19, <2>1, IdleSerialNext, Wrote
<1>20. CASE i \in Folders
  <2>1. /\ k.pc = "walk" /\ k.kind = "move" /\ k.id = i /\ k.copy = d
        /\ k.walk.calm = TRUE
    BY <1>2, <1>3, <1>4, <1>6, <1>20 DEF Walker, At, Request
  <2>2. Stages(k)'
    BY <1>8, <1>10, <2>1 DEF Stages, Walks
  <2>3. Moving(k)'
    <3>1. doc'[i].part = d.part /\ doc'[i].parent = to
      BY <1>8, <1>9
    <3>2. Stored(to)' => doc'[to].part = d.part
      BY <1>8, <1>9, <1>10 DEF Stored
    <3> QED
      BY <2>1, <3>1, <3>2 DEF Moving, Stored
  <2>4. PartsKept(k)'
    <3>1. SUFFICES ASSUME "underFile" \notin lapses', NEW j \in Items, Stored(j)',
                          ~Walked(k, j)'
                   PROVE  PartFits(j)'
      BY DEF PartsKept
    <3>2. j \notin Subtree(doc', i)
      BY <2>1, <3>1 DEF Walked
    <3>3. PICK e : e = doc'
      OBVIOUS
    <3>4. Edge(e, j)
      BY <3>1, <3>3 DEF Stored, Edge
    <3>5. e[j].parent # i
      BY <1>8, <3>2, <3>3, <3>4, SubtreeFacts
    <3> QED
      BY <1>18, <3>1, <3>3, <3>5
  <2>5. Creating(k)' /\ Changing(k)' /\ Copying(k)'
    BY <2>1 DEF Creating, Changing, Copying
  <2> QED
    BY <1>7, <1>16, <2>2, <2>3, <2>4, <2>5, Wrote DEF Serial
<1> QED
  BY <1>19, <1>20

\* The list of a walk, when it is used: all that lies below the item.
LEMMA Collected ==
  ASSUME TypeOK, WalkInv, SerialInv, NEW r, Reqs = {r}, req[r].pc = "update"
  PROVE  req[r].walk.seen = Subtree(doc, req[r].id)
<1>1. req[r].walk.calm
  BY AtWork DEF Serial, Stages
<1> QED
  BY <1>1, WalkInvSuffices DEF WalkCollectsSubtree

\* Nothing below a folder is left out, as no item lies below a file.
LEMMA NothingLeftOut ==
  ASSUME Tree, "underFile" \notin lapses, NEW i \in Items, NEW B, B = Subtree(doc, i),
         NEW k \in Items, Stored(k), doc[k].parent \in B
  PROVE  k \in B
<1>1. doc[k].parent \in Folders
  BY SubtreeFacts, TreeAssumption DEF Tree, ParentsFolders
<1> QED
  BY <1>1, SubtreeFacts, StoredEdge

LEMMA UpdateSerial ==
  ASSUME TypeOK, WalkInv, SerialInv, NEW r, Reqs = {r}, Update(r)
  PROVE  SerialInv'
<1>1. PICK q : q = req[r]
  OBVIOUS
<1>2. /\ q \in Request /\ Serial(q) /\ Tree /\ q.pc = "update" /\ q.kind \in Walks
      /\ Stored(q.id)
  BY <1>1, AtWork DEF Update, Serial, Stages
<1>3. PICK i : i = q.id
  OBVIOUS
<1>4. PICK B : B = Subtree(doc, i)
  OBVIOUS
<1>5. /\ Write(r, Idle, [k \in Items |-> IF Stored(k) /\ k \in B THEN Updated(q, doc[k])
                                                                ELSE doc[k]])
      /\ lapses \subseteq lapses'
      /\ q.kind = "restore" => "unchecked" \in lapses'
      /\ q.kind = "restore" /\ "outOfBin" \notin lapses' =>
           ~(Stored(i) /\ Binned(doc[i].parent))
  <2>1. q.walk.seen = B
    BY <1>1, <1>2, <1>3, <1>4, Collected
  <2>2. lapses' = lapses
          \cup Lapse("unchecked", q.kind = "restore")
          \cup Lapse("outOfBin", q.kind = "restore" /\ Stored(q.id) /\ Binned(doc[q.id].parent))
    BY <1>1 DEF Update
  <2>3. Write(r, Idle, [k \in Items |-> IF Stored(k) /\ k \in B THEN Updated(q, doc[k])
                                                               ELSE doc[k]])
    BY <1>1, <2>1 DEF Update
  <2> QED
    BY <1>3, <2>2, <2>3 DEF Lapse
<1>6. \A k \in Items : doc'[k] = IF Stored(k) /\ k \in B THEN Updated(q, doc[k]) ELSE doc[k]
  BY <1>5 DEF Write
<1>7. i \in Items /\ i \in B /\ Stored(i)
  BY <1>2, <1>3, <1>4, SubtreeFacts DEF Stored
<1>8. \A k \in B : k # i => Stored(k) /\ doc[k].parent \in B
  BY <1>4, <1>7, SubtreeFacts, StoredEdge
<1>9. "underFile" \notin lapses =>
        \A k \in Items : Stored(k) /\ doc[k].parent \in B => k \in B
  BY <1>2, <1>4, <1>7, NothingLeftOut
<1>10. q.kind # "move" => Kept
  BY <1>2, KeptMeans DEF Serial
<1>11. CASE q.kind = "purge"
  <2>1. PICK S : S = {k \in Items : Stored(k) /\ k \in B}
    OBVIOUS
  <2>2. doc' = [k \in Items |-> IF k \in S THEN Purged ELSE doc[k]]
    <3>1. \A d : Updated(q, d) = Purged
      BY <1>11 DEF Updated
    <3> QED
      BY <1>5, <2>1, <3>1 DEF Write
  <2>3. Tidy => \A k \in Items \ S : Stored(k) => doc[k].parent \notin S
    BY <1>9, <2>1 DEF Tidy
  <2>4. Tree' /\ Kept'
    BY <1>2, <1>5, <1>10, <1>11, <2>2, <2>3, Removed
  <2> QED
    BY <1>5, <2>4, IdleSerialNext, Wrote
<1>12. CASE q.kind # "purge"
  <2>1. ASSUME NEW k \in Items, Stored(k), k \in B
        PROVE  /\ doc'[k].parent = doc[k].parent /\ doc'[k].name = doc[k].name
               /\ doc'[k].status = CASE q.kind = "bin" -> "bin"
                                     [] q.kind = "restore" -> "live"
                                     [] OTHER -> doc[k].status
               /\ doc'[k].part = IF q.kind = "move" THEN q.copy.part ELSE doc[k].part
    <3>1. doc[k] \in Doc
      BY DEF TypeOK
    <3> QED
      BY <1>2, <1>6, <1>12, <2>1, <3>1 DEF Updated, Walks, Doc
  <2>2. \A k \in Items : ~(Stored(k) /\ k \in B) => doc'[k] = doc[k]
    BY <1>6
  <2>3. \A k \in Items : doc'[k].parent = doc[k].parent /\ doc'[k].name = doc[k].name
    BY <2>1, <2>2
  <2>4. \A k : (Stored(k)' <=> Stored(k)) /\ (Fresh(k)' <=> Fresh(k))
    BY <1>2, <1>12, <2>1, <2>2 DEF Stored, Fresh, Walks
  <2>5. \A k : Live(k)' <=> \/ Live(k) /\ ~(q.kind = "bin" /\ k \in B)
                            \/ q.kind = "restore" /\ Stored(k) /\ k \in B
    BY <1>2, <1>12, <2>1, <2>2 DEF Live, Stored, Walks
  <2>6. ParentsGiven' /\ ParentsFolders' /\ Rooted'
    BY <1>2, <1>5, <2>3, <2>4, SameShape
  <2>7. Whole'
    <3>1. SUFFICES ASSUME Tidy', NEW k \in Items, Stored(k)' PROVE HasPlace(k)'
      BY DEF Whole
    <3>2. /\ HasPlace(k) /\ Stored(k)
          /\ \A j \in Items : Stored(j) /\ doc[j].parent \in B => j \in B
      BY <1>2, <1>5, <1>9, <2>4, <3>1 DEF Tree, Whole, Tidy
    <3>3. PICK p : p = doc[k].parent /\ p = doc'[k].parent
      BY <2>3
    <3>4. CASE q.kind # "restore"
      BY <2>4, <2>5, <3>2, <3>3, <3>4 DEF HasPlace, Stored, Live
    <3>5. CASE q.kind = "restore"
      <4>1. k = i => p = Root \/ Live(p)
        BY <1>5, <1>7, <3>1, <3>2, <3>3, <3>5 DEF HasPlace, Tidy, Stored, Binned, Live
      <4>2. k \in B /\ k # i => p \in B
        BY <1>8, <3>3
      <4> QED
        BY <2>4, <2>5, <3>2, <3>3, <3>5, <4>1, <4>2 DEF HasPlace, Stored, Live
    <3> QED
      BY <3>4, <3>5
  <2>8. Distinct'
    <3>1. SUFFICES ASSUME "unchecked" \notin lapses',
                          NEW j \in Items, NEW k \in Items, j # k,
                          doc'[j].status = "live", doc'[k].status = "live",
                          doc'[j].parent = doc'[k].parent, doc'[j].name = doc'[k].name
                   PROVE  ~SameType(j, k)
      BY DEF Distinct, NamesDiffer
    <3>2. Live(j) /\ Live(k)
      BY <1>5, <2>5, <3>1 DEF Live
    <3>3. NamesDiffer(doc)
      BY <1>2, <1>5, <3>1 DEF Tree, Distinct
    <3> QED
      BY <2>3, <3>1, <3>2, <3>3 DEF NamesDiffer, Live
  <2>9. Kept'
    <3>1. SUFFICES ASSUME "underFile" \notin lapses', NEW k \in Items, Stored(k)'
                   PROVE  PartFits(k)'
      BY DEF Kept
    <3>2. Stored(k) /\ "underFile" \notin lapses
      BY <1>5, <2>4, <3>1
    <3>3. PICK p : p = doc[k].parent /\ p = doc'[k].parent
      BY <2>3
    <3>4. Stored(p) =>
            \/ doc'[k].part = doc'[p].part
            \/ "mixedParts" \in lapses' /\ doc'[p].part = NoPart
      <4>1. CASE q.kind # "move"
        <5>1. PartFits(k)
          BY <1>10, <3>2, <4>1 DEF Kept
        <5>2. \A j \in Items : doc'[j].part = doc[j].part
          BY <2>1, <2>2, <4>1
        <5> QED
          BY <1>5, <3>3, <5>1, <5>2 DEF PartFits, Stored
      <4>2. CASE q.kind = "move" /\ k \notin B
        <5>1. PartFits(k)
          BY <1>2, <1>3, <1>4, <3>2, <4>2 DEF Serial, PartsKept, Walked
        <5>2. p \notin B
          BY <1>9, <3>2, <3>3, <4>2
        <5> QED
          BY <1>5, <2>2, <3>3, <4>2, <5>1, <5>2 DEF PartFits, Stored
      <4>3. CASE q.kind = "move" /\ k \in B
        <5>1. doc'[k].part = q.copy.part
          BY <2>1, <3>2, <4>3
        <5>2. CASE p \in B /\ Stored(p)
          BY <2>1, <4>3, <5>1, <5>2 DEF Stored
        <5>3. CASE p \notin B /\ Stored(p)
          <6>1. k = i
            BY <1>8, <3>3, <4>3, <5>3
          <6>2. doc[p].part = q.copy.part
            BY <1>2, <1>3, <1>4, <3>3, <4>3, <5>3, <6>1 DEF Serial, Moving
          <6> QED
            BY <2>2, <5>1, <5>3, <6>2 DEF Stored
        <5> QED
          BY <5>2, <5>3
      <4> QED
        BY <4>1, <4>2, <4>3
    <3> QED
      BY <2>4, <3>3, <3>4 DEF PartFits, Stored
  <2> QED
    BY <1>5, <2>6, <2>7, <2>8, <2>9, IdleSerialNext, Wrote DEF Tree
<1> QED
  BY <1>11, <1>12

-------------------------------------------------------------------------------
(* The theorems *)

LEMMA InitSerial == Init => SerialInv
<1> SUFFICES ASSUME Init PROVE SerialInv
  OBVIOUS
<1>1. InitialTree(doc) /\ doc \in InitialDocs
  BY DEF Init
<1>2. PICK d \in [Old -> OldDoc \cup {Blank}] :
        doc = [i \in Items |-> IF i \in Old /\ d[i] # Blank
                                 THEN [d[i] EXCEPT !.name = OldName[i]] ELSE Blank]
  BY <1>1 DEF InitialDocs
<1>3. ASSUME NEW i \in Items, Stored(i)
      PROVE  doc[i] # Blank /\ doc[i].parent \in Folders \cup {Root}
  <2>1. Blank.status = "fresh"
    BY DEF Blank
  <2>2. doc[i] # Blank
    BY <1>3, <2>1 DEF Stored
  <2>3. i \in Old /\ d[i] \in OldDoc /\ doc[i] = [d[i] EXCEPT !.name = OldName[i]]
    BY <1>2, <2>2
  <2> QED
    BY <2>2, <2>3 DEF OldDoc
<1>4. ASSUME NEW i \in Items, Stored(i), doc[i].parent # Root
      PROVE  /\ doc[i].parent \in Folders
             /\ Stored(doc[i].parent) /\ (Live(i) => Live(doc[i].parent))
             /\ doc[doc[i].parent].part = doc[i].part
  <2>1. doc[i].parent \in Folders /\ doc[i].parent \in Items
    BY <1>3, <1>4, TreeAssumption
  <2>2. LET p == doc[doc[i].parent] IN
        /\ p.status = "live" \/ (p.status = "bin" /\ doc[i].status = "bin")
        /\ p.part = doc[i].part
    BY <1>1, <1>3, <1>4 DEF InitialTree
  <2> QED
    BY <2>1, <2>2 DEF Stored, Live
<1>5. ParentsGiven
  BY <1>4, TreeAssumption DEF ParentsGiven, Fresh, Stored
<1>6. ParentsFolders /\ Whole
  BY <1>3, <1>4 DEF ParentsFolders, Whole, HasPlace
<1>7. Rooted
  <2>1. \A S \in SUBSET Items : S # {} => \E i \in S : ~Edge(doc, i) \/ doc[i].parent \notin S
    BY <1>1, NoCycleMeans DEF InitialTree
  <2> QED
    BY <2>1, StoredEdge DEF Rooted
<1>8. Distinct
  BY <1>1 DEF Distinct, InitialTree
<1>9. Kept
  BY <1>4, TreeAssumption DEF Kept, PartFits, Stored
<1>10. \A r \in Reqs : req[r] = Idle
  BY DEF Init
<1> QED
  BY <1>5, <1>6, <1>7, <1>8, <1>9, <1>10, IdleSerial DEF SerialInv, Tree

LEMMA NextSerial ==
  ASSUME TypeOK, WalkInv, SerialInv, NEW r, Reqs = {r}, [Next]_vars
  PROVE  SerialInv'
<1>1. CASE UNCHANGED vars
  <2>1. PICK k : k = req[r]
    OBVIOUS
  <2>2. req' = [req EXCEPT ![r] = k]
    BY <1>1, <2>1 DEF vars, TypeOK
  <2> QED
    BY <1>1, <2>1, <2>2, AtWork, Goes DEF vars
<1>2. CASE BeginSome(r)
  BY <1>2, BeginSerial
<1>3. CASE Step(r)
  BY <1>3, ReadSerial, InsertSerial, PutSerial, SaveChangeSerial, SaveMoveSerial,
     UpdateSerial, BinSerial DEF Step
<1> QED
  BY <1>1, <1>2, <1>3 DEF Next

OneAtATime == \E r : Reqs = {r}

LEMMA SerialStays ==
  ASSUME OneAtATime
  PROVE  TypeOK /\ WalkInv /\ SerialInv /\ [Next]_vars => SerialInv'
BY NextSerial DEF OneAtATime

LEMMA SerialMeans ==
  ASSUME OneAtATime, TypeOK, SerialInv
  PROVE  /\ FoldersFormATree /\ BinHoldsWholeFolders /\ NothingIsOrphaned
         /\ FolderKeepsPartition /\ SiblingNamesDiffer
<1>1. PICK r : Reqs = {r}
  BY DEF OneAtATime
<1>2. Serial(req[r]) /\ Tree
  BY <1>1, AtWork
<1>3. FoldersFormATree
  <2>1. SUFFICES ASSUME lapses \cap {"belowItself", "underFile"} = {} PROVE NoCycle(doc)
    BY DEF FoldersFormATree
  <2>2. \A S \in SUBSET Items : S # {} => \E i \in S : ~Edge(doc, i) \/ doc[i].parent \notin S
    BY <1>2, <2>1, StoredEdge DEF Tree, Rooted
  <2> QED
    BY <2>2, NoCycleMeans
<1>4. BinHoldsWholeFolders
  BY <1>2 DEF Tree, Whole, Tidy, HasPlace, BinHoldsWholeFolders, Live, Stored
<1>5. NothingIsOrphaned
  BY <1>2 DEF Tree, Whole, Tidy, HasPlace, NothingIsOrphaned
<1>6. FolderKeepsPartition
  <2>1. AtRest => Kept
    BY <1>1, <1>2, KeptMeans DEF AtRest, Serial
  <2> QED
    BY <2>1 DEF FolderKeepsPartition, Kept, PartFits
<1>7. SiblingNamesDiffer
  BY <1>2 DEF Tree, Distinct, SiblingNamesDiffer
<1> QED
  BY <1>3, <1>4, <1>5, <1>6, <1>7

LEMMA SerialAlways ==
  ASSUME OneAtATime
  PROVE  Spec => [](/\ FoldersFormATree /\ BinHoldsWholeFolders /\ NothingIsOrphaned
                    /\ FolderKeepsPartition /\ SiblingNamesDiffer)
<1>1. TypeOK /\ SerialInv =>
        /\ FoldersFormATree /\ BinHoldsWholeFolders /\ NothingIsOrphaned
        /\ FolderKeepsPartition /\ SiblingNamesDiffer
  BY SerialMeans
<1>2. TypeOK /\ WalkInv /\ SerialInv /\ [Next]_vars => SerialInv'
  BY SerialStays
<1> QED
  BY <1>1, <1>2, InitType, NextType, InitWalks, NextWalks, InitSerial, PTL DEF Spec

\* With one request at a time the folders stay a tree until move_item accepts
\* to move a folder below itself or create_folder takes a file for a parent:
\* no other handler, and no sequence of them, closes a cycle.
THEOREM FoldersStayATree == ASSUME OneAtATime PROVE Spec => []FoldersFormATree
BY SerialAlways, PTL

\* With one request at a time no item outside the bin lies in a folder inside
\* it, but for the requests the handlers accept without looking at the bin.
THEOREM BinStaysWhole == ASSUME OneAtATime PROVE Spec => []BinHoldsWholeFolders
BY SerialAlways, PTL

\* With one request at a time deleting for good, emptying the bin and
\* formatting a partition take every item along with its folder.
THEOREM NoOrphans == ASSUME OneAtATime PROVE Spec => []NothingIsOrphaned
BY SerialAlways, PTL

\* With one request at a time an item is accounted to the partition of its
\* folder, also after a move, which accounts the whole folder anew.
THEOREM PartitionFollowsFolder == ASSUME OneAtATime PROVE Spec => []FolderKeepsPartition
BY SerialAlways, PTL

\* With one request at a time the name check of creations and renames keeps
\* the names in a folder apart, until a handler that checks no name is used.
THEOREM SiblingsDiffer == ASSUME OneAtATime PROVE Spec => []SiblingNamesDiffer
BY SerialAlways, PTL

-------------------------------------------------------------------------------
(* Duplicating, one request at a time.  A copy is either on its way to be     *)
(* complete, or it runs away: it copies what it has made, or goes round a     *)
(* cycle, and never answers.                                                  *)

Sources(q) == {j.src : j \in q.jobs}
Originals(q) == {m[1] : m \in q.made}
Copies(q) == {m[2] : m \in q.made}

\* What a duplication at work holds, complete or not.
Underway(q) ==
  /\ Stored(q.id) /\ \A j \in q.jobs : Stored(j.src)
  /\ q.pc = "put" => q.jobs # {}
  /\ q.pc = "list" => /\ Stored(q.from) /\ q.from \in Folders /\ q.to \in Folders
                      /\ q.from # q.to

\* No copy lies in what is copied, nor will one.
Apart(q) ==
  LET L == LiveSubtree(doc, q.id) IN
  /\ ~InRing(doc, q.id)
  /\ Originals(q) \cup Sources(q) \subseteq L
  /\ \A i \in Copies(q) : i \notin L /\ ~Fresh(i)
  /\ \A j \in q.jobs : j.into \notin L \cap Folders

\* Every item is copied once: what is left are the calls, each of them once.
Once(q) ==
  /\ \A j, k \in q.jobs : j.src = k.src => j = k
  /\ Originals(q) \cap Sources(q) = {}
  /\ \A m, n \in q.made : m[1] = n[1] <=> m[2] = n[2]

\* The item, and the children of the folders that have been listed.
Listed(q) ==
  /\ q.id \in Originals(q) \cup Sources(q)
  /\ \A p \in Originals(q), k \in Items :
       LiveChild(doc, k, p) /\ ~(q.pc = "list" /\ p = q.from) => k \in Originals(q) \cup Sources(q)
  /\ q.pc = "list" =>
       /\ <<q.from, q.to>> \in q.made
       /\ \A k \in Originals(q) \cup Sources(q) : k # q.id => doc[k].parent # q.from

\* Each copy lies, or will lie, in the copy of its folder under its own name.
Parallel(q) ==
  /\ \A m \in q.made : m[1] # q.id =>
       /\ <<doc[m[1]].parent, doc[m[2]].parent>> \in q.made
       /\ doc[m[1]].name = doc[m[2]].name /\ SameType(m[1], m[2])
  /\ \A j \in q.jobs : j.src # q.id =>
       <<doc[j.src].parent, j.into>> \in q.made /\ j.name = doc[j.src].name

Clean(q) == Apart(q) /\ Once(q) /\ Listed(q) /\ Parallel(q)

Duplicates(q) ==
  /\ (q.pc = "target" /\ q.kind = "duplicate") \/ q.pc = "count" =>
       Stored(q.id) /\ q.jobs = {} /\ q.made = {}
  /\ q.pc \in {"put", "list"} => Underway(q) /\ (Endless(doc, q) \/ Clean(q))
  /\ q.pc = "respond" => Underway(q) /\ q.jobs = {} /\ Clean(q)

-------------------------------------------------------------------------------
(* What a duplication finds below an item *)

LEMMA LiveFacts ==
  ASSUME NEW d, NEW s \in Items, NEW L, L = LiveSubtree(d, s)
  PROVE  /\ L \subseteq Items /\ s \in L
         /\ \A k, p : LiveChild(d, k, p) /\ p \in L => k \in L
         /\ \A k \in L : k # s => LiveChild(d, k, d[k].parent) /\ d[k].parent \in L
<1> DEFINE E == {e \in Shape(d) : e[2] \in Folders /\ d[e[1]].status = "live"}
<1>1. L = Below(E, s)
  BY DEF LiveSubtree
<1>2. \A e \in E : LiveChild(d, e[1], e[2])
  BY ShapeEdges DEF LiveChild
<1>3. ASSUME NEW k, NEW p, LiveChild(d, k, p)
      PROVE  <<k, p>> \in E
  BY <1>3, ShapeEdges DEF LiveChild
<1> HIDE DEF E
<1>4. L \subseteq Items /\ s \in L
  BY <1>1, BelowRoot DEF Below
<1>5. ASSUME NEW k, NEW p, LiveChild(d, k, p), p \in L
      PROVE  k \in L
  <2>1. PICK e \in E : e = <<k, p>>
    BY <1>3, <1>5
  <2> QED
    BY <1>1, <1>5, <2>1, BelowClosed DEF LiveChild
<1>6. ASSUME NEW k \in L, k # s, ~(LiveChild(d, k, d[k].parent) /\ d[k].parent \in L)
      PROVE  FALSE
  <2>1. PICK T : T = L \ {k}
    OBVIOUS
  <2>2. T \in SUBSET Items /\ s \in T
    BY <1>4, <1>6, <2>1
  <2>3. ASSUME NEW e \in E, e[2] \in T
        PROVE  e[1] \in T
    <3>1. LiveChild(d, e[1], e[2]) /\ e[1] \in L
      BY <1>2, <1>5, <2>1, <2>3
    <3> QED
      BY <1>6, <2>1, <2>3, <3>1 DEF LiveChild
  <2>4. L \subseteq T
    BY <1>1, <2>2, <2>3, BelowLeast DEF Closed
  <2> QED
    BY <2>1, <2>4
<1> QED
  BY <1>4, <1>5, <1>6

\* It is the least set that holds the item and the children of its folders.
LEMMA LiveLeast ==
  ASSUME NEW d, NEW s \in Items, NEW T \in SUBSET Items, s \in T,
         \A k, p : LiveChild(d, k, p) /\ p \in T => k \in T
  PROVE  LiveSubtree(d, s) \subseteq T
<1>1. Closed({e \in Shape(d) : e[2] \in Folders /\ d[e[1]].status = "live"}, T)
  BY ShapeEdges DEF Closed, LiveChild
<1> QED
  BY <1>1, BelowLeast DEF LiveSubtree

\* Nothing lies below a file.
LEMMA LiveLeaf ==
  ASSUME NEW d, NEW s \in Items, s \notin Folders
  PROVE  LiveSubtree(d, s) = {s} /\ ~InRing(d, s)
<1>1. LiveSubtree(d, s) \subseteq {s}
  BY LiveLeast DEF LiveChild
<1>2. LiveSubtree(d, s) = {s}
  BY <1>1, LiveFacts
<1> QED
  BY <1>2 DEF InRing, LiveChild

\* What lies below an item lies below a child of it.
LEMMA LiveLead ==
  ASSUME NEW d, NEW s \in Items, NEW t \in LiveSubtree(d, s), t # s
  PROVE  \E k \in Items : LiveChild(d, k, s) /\ t \in LiveSubtree(d, k)
<1>1. PICK T : T = {s} \cup {m \in Items : \E k \in Items :
                              LiveChild(d, k, s) /\ m \in LiveSubtree(d, k)}
  OBVIOUS
<1>2. ASSUME NEW m, NEW p, LiveChild(d, m, p), p \in T
      PROVE  m \in T
  <2>1. m \in Items
    BY <1>2 DEF LiveChild
  <2>2. CASE p = s
    BY <1>1, <1>2, <2>1, <2>2, LiveFacts
  <2>3. CASE p # s
    <3>1. PICK k \in Items : LiveChild(d, k, s) /\ p \in LiveSubtree(d, k)
      BY <1>1, <1>2, <2>3
    <3>2. m \in LiveSubtree(d, k)
      BY <1>2, <3>1, LiveFacts
    <3> QED
      BY <1>1, <2>1, <3>1, <3>2
  <2> QED
    BY <2>2, <2>3
<1>3. LiveSubtree(d, s) \subseteq T
  BY <1>1, <1>2, LiveLeast
<1> QED
  BY <1>1, <1>3

\* A folder whose copy does not end has a child whose copy does not.
LEMMA RunsOn ==
  ASSUME NEW d, NEW s \in Items, NEW p, p # s, RunsAway(d, s, p)
  PROVE  \E k \in Items : LiveChild(d, k, s) /\ RunsAway(d, k, p)
<1>1. \A k \in Items : \A t : t \in LiveSubtree(d, k) /\ t \in Folders /\ t # k => k \in Folders
  BY LiveLeaf
<1>2. s \in Folders
  BY DEF RunsAway
<1>3. CASE InRing(d, s)
  <2>1. PICK t \in LiveSubtree(d, s) : LiveChild(d, s, t)
    BY <1>3 DEF InRing
  <2>2. CASE t = s
    BY <1>2, <1>3, <2>1, <2>2 DEF RunsAway
  <2>3. CASE t # s
    <3>1. PICK k \in Items : LiveChild(d, k, s) /\ t \in LiveSubtree(d, k)
      BY <2>3, LiveLead
    <3>2. s \in LiveSubtree(d, k)
      BY <2>1, <3>1, LiveFacts
    <3>3. k \in Folders
      BY <1>1, <2>1, <3>1 DEF LiveChild
    <3> QED
      BY <3>1, <3>2, <3>3 DEF InRing, RunsAway
  <2> QED
    BY <2>2, <2>3
<1>4. CASE p \in LiveSubtree(d, s) \cap Folders
  <2>1. PICK k \in Items : LiveChild(d, k, s) /\ p \in LiveSubtree(d, k)
    BY <1>4, LiveLead
  <2>2. k \in Folders
    BY <1>1, <1>4, <2>1
  <2> QED
    BY <1>4, <2>1, <2>2 DEF RunsAway
<1> QED
  BY <1>3, <1>4 DEF RunsAway

\* A copy, put into d as item i, which gives e.
CopiedTo(d, e, i) ==
  i \in Items /\ d[i].status = "fresh" /\ \A k \in Items \ {i} : e[k] = d[k]

\* It ends no copy that did not end.
LEMMA RunsFurther ==
  ASSUME NEW d, NEW e, NEW i, CopiedTo(d, e, i), NEW s \in Items
  PROVE  /\ LiveSubtree(d, s) \subseteq LiveSubtree(e, s)
         /\ \A p : RunsAway(d, s, p) => RunsAway(e, s, p)
<1>1. \A k, p : LiveChild(d, k, p) => LiveChild(e, k, p)
  BY DEF CopiedTo, LiveChild
<1>2. LiveSubtree(e, s) \in SUBSET Items
  BY LiveFacts
<1>3. LiveSubtree(d, s) \subseteq LiveSubtree(e, s)
  BY <1>1, <1>2, LiveFacts, LiveLeast
<1>4. InRing(d, s) => InRing(e, s)
  BY <1>1, <1>3 DEF InRing
<1> QED
  BY <1>3, <1>4 DEF RunsAway

\* A copy that is put elsewhere changes nothing below an item.
LEMMA StaysBelow ==
  ASSUME NEW d, NEW e, NEW i, CopiedTo(d, e, i), NEW s \in Items, s # i,
         e[i].parent \notin LiveSubtree(d, s) \cap Folders
  PROVE  /\ LiveSubtree(e, s) = LiveSubtree(d, s) /\ i \notin LiveSubtree(d, s)
         /\ InRing(e, s) <=> InRing(d, s)
<1>1. PICK L : L = LiveSubtree(d, s)
  OBVIOUS
<1>2. i \notin L /\ L \in SUBSET Items /\ s \in L
  BY <1>1, LiveFacts DEF CopiedTo, LiveChild
<1>3. ASSUME NEW k, NEW p, p \in L
      PROVE  LiveChild(e, k, p) <=> LiveChild(d, k, p)
  BY <1>1, <1>3 DEF LiveChild, CopiedTo
<1>4. LiveSubtree(e, s) \subseteq L
  BY <1>1, <1>2, <1>3, LiveFacts, LiveLeast
<1>5. L = LiveSubtree(e, s)
  BY <1>1, <1>4, RunsFurther
<1> QED
  BY <1>1, <1>2, <1>3, <1>5 DEF InRing

-------------------------------------------------------------------------------
(* Steps of other handlers *)

\* A handler that is not duplicating.
Quiet(q) ==
  q.pc \notin {"count", "put", "list", "respond"} /\ ~(q.pc = "target" /\ q.kind = "duplicate")

LEMMA QuietDuplicates ==
  ASSUME NEW q, Quiet(q)
  PROVE  Duplicates(q)
BY DEF Quiet, Duplicates

LEMMA QuietRuns ==
  ASSUME NEW q, Quiet(q), NEW d
  PROVE  ~Endless(d, q)
BY DEF Quiet, Endless

\* The handler that takes a step, and its local record after it.
LEMMA Takes ==
  ASSUME TypeOK, NEW r \in Reqs, NEW k,
         \/ Continue(r, k) \/ Begin(r, k)
         \/ \E d : Write(r, k, d)
  PROVE  req'[r] = k
BY DEF TypeOK, Continue, Begin, Write

LEMMA QuietRecords ==
  /\ Quiet(Idle)
  /\ \A q \in Request, pc \in PC :
       pc \notin {"count", "put", "list", "respond", "target"} =>
         Quiet(At(q, pc)) /\ \A d : Quiet(Holding(At(q, pc), d))
  /\ \A q \in Request : Quiet(Walker(q)) /\ \A S, T : Quiet(Found(q, S, T))
  /\ \A kind, pc, i, p, d :
       pc \in {"insert", "check", "save", "walk", "reread", "empty", "format"} =>
         Quiet(Handler(kind, pc, i, p, d))
<1>1. Quiet(Idle)
  BY IdleFields DEF Quiet
<1>2. ASSUME NEW q \in Request, NEW pc \in PC
      PROVE  /\ At(q, pc).pc = pc /\ \A d : Holding(At(q, pc), d).pc = pc
  BY DEF At, Holding, Request
<1>3. ASSUME NEW q \in Request
      PROVE  Walker(q).pc = "walk" /\ \A S, T : Found(q, S, T).pc \in {"update", "walk"}
  BY DEF Walker, Found, At, Request
<1>4. \A kind, pc, i, p, d : Handler(kind, pc, i, p, d).pc = pc
  BY DEF Handler
<1> QED
  BY <1>1, <1>2, <1>3, <1>4 DEF Quiet

LEMMA QuietBegins ==
  ASSUME TypeOK, NEW r \in Reqs, BeginSome(r),
         ~ \E i \in Items, inPlace \in BOOLEAN, p \in Places : BeginDuplicate(r, i, inPlace, p)
  PROVE  Quiet(req'[r])
<1>1. CASE \E i \in Items, p \in Places : BeginMove(r, i, p)
  <2>1. PICK i \in Items, p \in Places : BeginMove(r, i, p)
    BY <1>1
  <2>2. req'[r] = Handler("move", "target", i, p, doc[i])
    BY <2>1, Takes DEF BeginMove
  <2> QED
    BY <2>2 DEF Handler, Quiet
<1>2. CASE \E i \in Items, permanent \in BOOLEAN : BeginDelete(r, i, permanent)
  <2>1. PICK i \in Items, permanent \in BOOLEAN : BeginDelete(r, i, permanent)
    BY <1>2
  <2>2. PICK h : h = Handler(IF permanent \/ Binned(i) THEN "purge" ELSE "bin",
                             "walk", i, Root, doc[i])
    OBVIOUS
  <2>3. req'[r] = Walker(h)
    BY <2>1, <2>2, Takes DEF BeginDelete
  <2>4. Walker(h).pc = "walk"
    BY <2>2 DEF Walker, At, Handler
  <2> QED
    BY <2>3, <2>4 DEF Quiet
<1>3. CASE \E i \in Items : BeginRestore(r, i)
  <2>1. PICK i \in Items : BeginRestore(r, i)
    BY <1>3
  <2>2. req'[r] = Walker(Handler("restore", "walk", i, Root, doc[i]))
    BY <2>1, Takes DEF BeginRestore
  <2> QED
    BY <2>2 DEF Walker, At, Handler, Quiet
<1>4. CASE \E kind \in Creates, p \in Places, name \in Given, part \in Parts :
             BeginCreate(r, kind, p, name, part)
  <2>1. PICK kind, pc, p, d : /\ pc \in {"insert", "check"}
                              /\ Begin(r, Handler(kind, pc, Root, p, d))
    BY <1>4 DEF BeginCreate
  <2> QED
    BY <2>1, Takes, QuietRecords
<1>5. CASE \E kind \in {"rename", "workspaceRename"}, i \in Items, name \in Given :
             BeginRename(r, kind, i, name)
  <2>1. PICK kind, i, d : Begin(r, Handler(kind, "check", i, Root, d))
    BY <1>5 DEF BeginRename
  <2> QED
    BY <2>1, Takes, QuietRecords
<1>6. CASE \E i \in Items : BeginTouch(r, i) \/ BeginWorkspaceDelete(r, i)
  <2>1. PICK i \in Items : \/ Begin(r, Handler("touch", "save", i, Root, doc[i]))
                          \/ Begin(r, Handler("workspaceBin", "reread", i, Root, doc[i]))
    BY <1>6 DEF BeginTouch, BeginWorkspaceDelete
  <2> QED
    BY <2>1, Takes, QuietRecords
<1>7. CASE BeginEmptyBin(r)
  BY <1>7, Takes, QuietRecords DEF BeginEmptyBin
<1>8. CASE \E p \in Partitions : BeginFormat(r, p)
  BY <1>8, Takes, QuietRecords DEF BeginFormat
<1> QED
  BY <1>1, <1>2, <1>3, <1>4, <1>5, <1>6, <1>7, <1>8 DEF BeginSome

LEMMA QuietSteps ==
  ASSUME TypeOK, NEW r \in Reqs, Step(r),
         ~DuplicateTarget(r), ~CountCopies(r), ~ListChildren(r),
         ~ \E j \in req[r].jobs, i \in Items : Put(r, j, i)
  PROVE  Quiet(req'[r])
<1>1. req[r] \in Request /\ {"insert", "save", "place"} \subseteq PC
  BY DEF TypeOK, PC
<1>2. CASE Refuse(r) \/ Respond(r)
  BY <1>2, Takes, QuietRecords DEF Refuse, Respond
<1>3. CASE CheckCreate(r) \/ CheckRename(r) \/ CheckTarget(r)
  <2>1. PICK pc \in {"insert", "save", "place"} :
          Continue(r, Idle) \/ Continue(r, At(req[r], pc))
    BY <1>3 DEF CheckCreate, CheckRename, CheckTarget
  <2> QED
    BY <1>1, <2>1, Takes, QuietRecords
<1>4. CASE Place(r) \/ Reread(r)
  <2>1. PICK d : Continue(r, Idle) \/ Continue(r, Holding(At(req[r], "save"), d))
    BY <1>4 DEF Place, Reread
  <2> QED
    BY <1>1, <2>1, Takes, QuietRecords
<1>5. CASE \E x \in Items : Expand(r, x)
  <2>1. PICK S, T : Continue(r, Found(req[r], S, T))
    BY <1>5 DEF Expand
  <2> QED
    BY <1>1, <2>1, Takes, QuietRecords
<1>6. CASE Save(r)
  <2>1. PICK d : Write(r, Idle, d) \/ Write(r, Walker(req[r]), d)
    BY <1>6 DEF Save
  <2> QED
    BY <1>1, <2>1, Takes, QuietRecords
<1>7. CASE Update(r) \/ EmptyBin(r) \/ Format(r) \/ \E i \in Items : Insert(r, i)
  <2>1. PICK d : Write(r, Idle, d)
    BY <1>7 DEF Update, EmptyBin, Format, PurgeAll, Insert
  <2> QED
    BY <2>1, Takes, QuietRecords
<1> QED
  BY <1>2, <1>3, <1>4, <1>5, <1>6, <1>7 DEF Step

-------------------------------------------------------------------------------
(* A duplication reads *)

LEMMA DuplicatesStays ==
  ASSUME NEW q, Duplicates(q), UNCHANGED doc
  PROVE  Duplicates(q)'
BY DEF Duplicates, Underway, Clean, Apart, Once, Listed, Parallel, Stored, Fresh

LEMMA BeginDuplicates ==
  ASSUME TypeOK, NEW r \in Reqs, NEW i \in Items, NEW inPlace \in BOOLEAN, NEW p \in Places,
         BeginDuplicate(r, i, inPlace, p), NEW k, k = req'[r]
  PROVE  Duplicates(k) /\ UNCHANGED doc
<1>1. Stored(i) /\ UNCHANGED doc
  BY DEF BeginDuplicate, Begin
<1>2. k = [Handler("duplicate", "target", i, p, doc[i]) EXCEPT !.inPlace = inPlace]
  BY Takes DEF BeginDuplicate
<1>3. k.pc = "target" /\ k.id = i /\ k.jobs = {} /\ k.made = {}
  BY <1>2 DEF Handler
<1> QED
  BY <1>1, <1>3 DEF Duplicates

LEMMA TargetDuplicates ==
  ASSUME TypeOK, NEW r \in Reqs, Duplicates(req[r]), DuplicateTarget(r), NEW k, k = req'[r]
  PROVE  Duplicates(k) /\ UNCHANGED doc
<1>1. PICK q : q = req[r]
  OBVIOUS
<1>2. q \in Request /\ q.pc = "target" /\ q.kind = "duplicate" /\ Duplicates(q) /\ UNCHANGED doc
  BY <1>1 DEF DuplicateTarget, TypeOK, Continue
<1>3. CASE k = Idle
  BY <1>2, <1>3, QuietRecords, QuietDuplicates
<1>4. CASE k # Idle
  <2>1. k = [At(q, "count") EXCEPT !.part = DuplicatePart(q)]
    BY <1>1, <1>4, Takes DEF DuplicateTarget
  <2>2. k.pc = "count" /\ k.id = q.id /\ k.jobs = q.jobs /\ k.made = q.made
    BY <1>2, <2>1 DEF At, Request
  <2> QED
    BY <1>2, <2>2 DEF Duplicates
<1> QED
  BY <1>3, <1>4

\* The first call: it is to copy the item.
LEMMA CountDuplicates ==
  ASSUME TypeOK, NEW r \in Reqs, Duplicates(req[r]), CountCopies(r), NEW k, k = req'[r]
  PROVE  Duplicates(k) /\ UNCHANGED doc
<1>1. PICK q : q = req[r]
  OBVIOUS
<1>2. /\ q \in Request /\ q.pc = "count" /\ UNCHANGED doc
      /\ Stored(q.id) /\ q.made = {}
  BY <1>1 DEF CountCopies, TypeOK, Continue, Duplicates
<1>3. PICK name, own :
        Continue(r, [At(q, "put") EXCEPT !.jobs =
          {[src |-> q.id, name |-> name, own |-> own, into |-> q.to, part |-> q.part]}])
  BY <1>1 DEF CountCopies
<1>4. PICK j : j = [src |-> q.id, name |-> name, own |-> own, into |-> q.to, part |-> q.part]
  OBVIOUS
<1>5. k = [At(q, "put") EXCEPT !.jobs = {j}]
  BY <1>3, <1>4, Takes
<1>6. /\ k.pc = "put" /\ k.id = q.id /\ k.jobs = {j} /\ k.made = {}
      /\ j.src = q.id
  BY <1>2, <1>4, <1>5 DEF At, Request
<1>7. Sources(k) = {q.id} /\ Originals(k) = {} /\ Copies(k) = {} /\ q.id \in Items
  BY <1>2, <1>6 DEF Sources, Originals, Copies, Stored
<1>8. Underway(k)
  BY <1>2, <1>6 DEF Underway
<1>9. CASE RunsAway(doc, q.id, j.into)
  <2>1. Endless(doc, k)
    BY <1>6, <1>9 DEF Endless
  <2> QED
    BY <1>2, <1>6, <1>8, <2>1 DEF Duplicates
<1>10. CASE ~RunsAway(doc, q.id, j.into)
  <2>1. ~InRing(doc, q.id) /\ j.into \notin LiveSubtree(doc, q.id) \cap Folders
    BY <1>7, <1>10, LiveLeaf DEF RunsAway
  <2>2. Apart(k)
    BY <1>6, <1>7, <2>1, LiveFacts DEF Apart
  <2>3. Once(k) /\ Parallel(k) /\ Listed(k)
    BY <1>6, <1>7 DEF Once, Parallel, Listed
  <2> QED
    BY <1>2, <1>6, <1>8, <2>2, <2>3 DEF Duplicates, Clean
<1> QED
  BY <1>2, <1>9, <1>10

\* A listing: the calls for the children of the folder that was copied last.
NewJob(q, c) ==
  [src |-> c, name |-> doc[c].name, own |-> doc[c].part, into |-> q.to, part |-> q.part]

LEMMA Lists ==
  ASSUME TypeOK, NEW r \in Reqs, ListChildren(r), NEW q, q = req[r], NEW k, k = req'[r]
  PROVE  /\ q \in Request /\ q.pc = "list" /\ UNCHANGED doc
         /\ k.pc = (IF k.jobs = {} THEN "respond" ELSE "put")
         /\ k.id = q.id /\ k.made = q.made
         /\ q.jobs \subseteq k.jobs
         /\ \A c : LiveChild(doc, c, q.from) => NewJob(q, c) \in k.jobs
         /\ \A j \in k.jobs \ q.jobs : LiveChild(doc, j.src, q.from) \/ q.from \notin Folders
         /\ \A j \in k.jobs \ q.jobs : Stored(j.src) /\ j = NewJob(q, j.src)
<1>1. q \in Request /\ q.pc = "list" /\ UNCHANGED doc
  BY DEF ListChildren, TypeOK, Continue
<1>2. PICK jobs : /\ jobs = q.jobs \cup {NewJob(q, c) : c \in {i \in ChildrenOf(q.from) : Live(i)}}
                  /\ Continue(r, [At(q, IF jobs = {} THEN "respond" ELSE "put")
                                    EXCEPT !.jobs = jobs])
  BY DEF ListChildren, NewJob
<1>3. k = [At(q, IF jobs = {} THEN "respond" ELSE "put") EXCEPT !.jobs = jobs]
  BY <1>2, Takes
<1>4. /\ k.pc = (IF jobs = {} THEN "respond" ELSE "put") /\ k.jobs = jobs
      /\ k.id = q.id /\ k.made = q.made
  BY <1>1, <1>3 DEF At, Request
<1>5. \A c : LiveChild(doc, c, q.from) => c \in ChildrenOf(q.from) /\ Live(c)
  BY DEF LiveChild, ChildrenOf, Live, Stored
<1>6. \A c : c \in ChildrenOf(q.from) /\ Live(c) =>
        Stored(c) /\ (LiveChild(doc, c, q.from) \/ q.from \notin Folders)
  BY DEF LiveChild, ChildrenOf, Live
<1>7. \A c : NewJob(q, c).src = c
  BY DEF NewJob
<1> QED
  BY <1>1, <1>2, <1>4, <1>5, <1>6, <1>7

LEMMA ListRuns ==
  ASSUME TypeOK, NEW r \in Reqs, ListChildren(r), NEW q, q = req[r], NEW k, k = req'[r],
         Underway(q), Endless(doc, q)
  PROVE  Endless(doc, k)
<1>1. CASE \E j \in q.jobs : RunsAway(doc, j.src, j.into)
  BY <1>1, Lists DEF Endless
<1>2. CASE RunsAway(doc, q.from, q.to)
  <2>1. q.from \in Items /\ q.to # q.from
    BY Lists DEF Underway, Stored
  <2>2. PICK c \in Items : LiveChild(doc, c, q.from) /\ RunsAway(doc, c, q.to)
    BY <1>2, <2>1, RunsOn
  <2>3. PICK j \in k.jobs : j = NewJob(q, c)
    BY <2>2, Lists
  <2>4. k.pc = "put" /\ j.src = c /\ j.into = q.to
    BY <2>3, Lists DEF NewJob
  <2> QED
    BY <2>2, <2>4 DEF Endless
<1> QED
  BY <1>1, <1>2 DEF Endless

LEMMA ListUnderway ==
  ASSUME TypeOK, NEW r \in Reqs, ListChildren(r), NEW q, q = req[r], NEW k, k = req'[r],
         Underway(q)
  PROVE  Underway(k)
BY Lists DEF Underway

LEMMA ListClean ==
  ASSUME TypeOK, NEW r \in Reqs, ListChildren(r), NEW q, q = req[r], NEW k, k = req'[r],
         Underway(q), Clean(q)
  PROVE  Clean(k)
<1>1. /\ q.pc = "list" /\ k.pc \in {"respond", "put"} /\ k.id = q.id /\ k.made = q.made
      /\ q.jobs \subseteq k.jobs
      /\ \A c : LiveChild(doc, c, q.from) => NewJob(q, c) \in k.jobs
  BY Lists
<1>2. \A j \in k.jobs \ q.jobs :
        LiveChild(doc, j.src, q.from) /\ j.into = q.to /\ j = NewJob(q, j.src)
          /\ j.name = doc[j.src].name
  BY Lists DEF Underway, NewJob
<1>3. Originals(k) = Originals(q) /\ Copies(k) = Copies(q)
  BY <1>1 DEF Originals, Copies
<1>4. PICK L : L = LiveSubtree(doc, q.id)
  OBVIOUS
<1>5. q.id \in Items /\ <<q.from, q.to>> \in q.made
  BY <1>1 DEF Underway, Stored, Clean, Listed
<1>6. q.from \in Originals(q) /\ q.to \in Copies(q)
  BY <1>5 DEF Originals, Copies
<1>7. q.from \in L /\ q.to \notin L
  BY <1>4, <1>6 DEF Clean, Apart
<1>8. \A c : LiveChild(doc, c, q.from) =>
        c \in L /\ c # q.id /\ c \notin Originals(q) \cup Sources(q)
  <2>1. SUFFICES ASSUME NEW c, LiveChild(doc, c, q.from)
                 PROVE  c \in L /\ c # q.id /\ c \notin Originals(q) \cup Sources(q)
    OBVIOUS
  <2>2. c \in L
    BY <1>4, <1>5, <1>7, <2>1, LiveFacts
  <2>3. c # q.id
    BY <1>4, <1>7, <2>1 DEF Clean, Apart, InRing
  <2> QED
    BY <1>1, <2>1, <2>2, <2>3 DEF Clean, Listed, LiveChild
<1>9. Sources(q) \subseteq Sources(k)
  BY <1>1 DEF Sources
<1>10. \A c \in Sources(k) : c \in Sources(q) \/ LiveChild(doc, c, q.from)
  BY <1>2 DEF Sources
<1>11. \A c : LiveChild(doc, c, q.from) => c \in Sources(k)
  <2>1. \A c : NewJob(q, c).src = c
    BY DEF NewJob
  <2> QED
    BY <1>1, <2>1 DEF Sources
<1>12. Apart(k)
  <2>1. Originals(k) \cup Sources(k) \subseteq L
    BY <1>3, <1>4, <1>8, <1>10 DEF Clean, Apart
  <2>2. \A j \in k.jobs : j.into \notin L \cap Folders
    BY <1>2, <1>4, <1>7 DEF Clean, Apart
  <2> QED
    BY <1>1, <1>3, <1>4, <2>1, <2>2 DEF Clean, Apart
<1>13. Once(k)
  <2>1. ASSUME NEW j \in k.jobs, NEW m \in k.jobs, j.src = m.src
        PROVE  j = m
    <3>1. \A n \in q.jobs : n.src \in Sources(q)
      BY DEF Sources
    <3>2. j \in q.jobs <=> m \in q.jobs
      BY <1>2, <1>8, <2>1, <3>1
    <3> QED
      BY <1>2, <2>1, <3>2 DEF Clean, Once
  <2>2. Originals(k) \cap Sources(k) = {}
    BY <1>3, <1>8, <1>10 DEF Clean, Once
  <2> QED
    BY <1>1, <2>1, <2>2 DEF Clean, Once
<1>14. Listed(k)
  <2>1. ASSUME NEW p \in Originals(k), NEW c \in Items, LiveChild(doc, c, p)
        PROVE  c \in Originals(k) \cup Sources(k)
    BY <1>1, <1>3, <1>9, <1>11, <2>1 DEF Clean, Listed
  <2> QED
    BY <1>1, <1>3, <1>9, <2>1 DEF Clean, Listed
<1>15. Parallel(k)
  <2>1. ASSUME NEW j \in k.jobs, j.src # q.id
        PROVE  <<doc[j.src].parent, j.into>> \in q.made /\ j.name = doc[j.src].name
    BY <1>2, <1>5, <2>1 DEF Clean, Parallel, LiveChild
  <2> QED
    BY <1>1, <2>1 DEF Clean, Parallel
<1> QED
  BY <1>12, <1>13, <1>14, <1>15 DEF Clean

LEMMA ListDuplicates ==
  ASSUME TypeOK, NEW r \in Reqs, Duplicates(req[r]), ListChildren(r), NEW k, k = req'[r]
  PROVE  Duplicates(k) /\ UNCHANGED doc
<1>1. PICK q : q = req[r]
  OBVIOUS
<1>2. /\ q.pc = "list" /\ UNCHANGED doc
      /\ k.pc = (IF k.jobs = {} THEN "respond" ELSE "put")
  BY <1>1, Lists
<1>3. Underway(q) /\ (Endless(doc, q) \/ Clean(q))
  BY <1>1, <1>2 DEF Duplicates
<1>4. Underway(k)
  BY <1>1, <1>3, ListUnderway
<1>5. CASE Endless(doc, q)
  <2>1. Endless(doc, k)
    BY <1>1, <1>3, <1>5, ListRuns
  <2> QED
    BY <1>2, <1>4, <2>1 DEF Duplicates, Endless
<1>6. CASE Clean(q)
  <2>1. Clean(k)
    BY <1>1, <1>3, <1>6, ListClean
  <2> QED
    BY <1>2, <1>4, <2>1 DEF Duplicates
<1> QED
  BY <1>3, <1>5, <1>6

-------------------------------------------------------------------------------
(* A duplication puts a copy *)

LEMMA Puts ==
  ASSUME TypeOK, NEW r \in Reqs, NEW j \in req[r].jobs, NEW i \in Items, Put(r, j, i),
         NEW q, q = req[r], NEW k, k = req'[r]
  PROVE  /\ q \in Request /\ q.pc = "put" /\ SameType(i, j.src) /\ CopiedTo(doc, doc', i)
         /\ doc'[i].status = "live" /\ doc'[i].name = j.name /\ doc'[i].parent = j.into
         /\ k.pc = (IF i \in Folders THEN "list" ELSE IF k.jobs = {} THEN "respond" ELSE "put")
         /\ i \in Folders => k.from = j.src /\ k.to = i
         /\ k.id = q.id /\ k.jobs = q.jobs \ {j} /\ k.made = q.made \cup {<<j.src, i>>}
<1>1. q \in Request /\ q.pc = "put" /\ Fresh(i) /\ SameType(i, j.src)
  BY DEF Put, TypeOK
<1>2. PICK part, left, rest, d, n :
        /\ left = q.jobs \ {j} /\ rest = Copied(q, j, i, left)
        /\ d = [status |-> "live", name |-> j.name, parent |-> j.into, part |-> part]
        /\ n = IF i \in Folders
                 THEN [[[At(rest, "list") EXCEPT !.from = j.src] EXCEPT !.to = i] EXCEPT !.part = part]
                 ELSE At(rest, IF left = {} THEN "respond" ELSE "put")
        /\ Write(r, n, [doc EXCEPT ![i] = d])
  BY DEF Put
<1>3. k = n
  BY <1>2, Takes
<1>4. CopiedTo(doc, doc', i) /\ doc'[i] = d
  BY <1>1, <1>2 DEF CopiedTo, Write, Fresh, TypeOK
<1>5. /\ rest = Copied(q, j, i, left)
      /\ k = IF i \in Folders
              THEN [[[At(rest, "list") EXCEPT !.from = j.src] EXCEPT !.to = i] EXCEPT !.part = part]
              ELSE At(rest, IF left = {} THEN "respond" ELSE "put")
  BY <1>2, <1>3
<1>6. /\ k.pc = (IF i \in Folders THEN "list" ELSE IF left = {} THEN "respond" ELSE "put")
      /\ i \in Folders => k.from = j.src /\ k.to = i
      /\ k.id = q.id /\ k.jobs = left /\ k.made = q.made \cup {<<j.src, i>>}
  BY <1>1, <1>5 DEF At, Copied, Request
<1> QED
  BY <1>1, <1>2, <1>4, <1>6

\* What is stored, or no longer fresh, stays so.
LEMMA PutKeeps ==
  ASSUME NEW i, CopiedTo(doc, doc', i), doc'[i].status = "live"
  PROVE  /\ \A k : Stored(k) => Stored(k)' /\ k # i
         /\ \A k : ~Fresh(k) => ~Fresh(k)' /\ k # i
         /\ Stored(i)' /\ ~Fresh(i)'
BY DEF CopiedTo, Stored, Fresh

LEMMA PutRuns ==
  ASSUME TypeOK, NEW r \in Reqs, NEW j \in req[r].jobs, NEW i \in Items, Put(r, j, i),
         NEW q, q = req[r], NEW k, k = req'[r], Underway(q), Endless(doc, q)
  PROVE  Endless(doc', k)
<1>1. PICK m \in q.jobs : RunsAway(doc, m.src, m.into)
  BY Puts DEF Endless
<1>2. CopiedTo(doc, doc', i) /\ m.src \in Items
  BY Puts DEF Underway, Stored
<1>3. RunsAway(doc', m.src, m.into)
  BY <1>1, <1>2, RunsFurther
<1>4. CASE m # j
  <2>1. m \in k.jobs /\ k.pc \in {"put", "list"}
    BY <1>4, Puts
  <2> QED
    BY <1>3, <2>1 DEF Endless
<1>5. CASE m = j
  <2>1. j.src \in Folders
    BY <1>1, <1>5 DEF RunsAway
  <2>2. i \in Folders /\ k.pc = "list" /\ k.from = j.src /\ k.to = i
    BY <2>1, Puts DEF SameType
  <2>3. j.into \in Folders => LiveChild(doc', i, j.into)
    BY Puts DEF LiveChild
  <2>4. j.into \in LiveSubtree(doc', j.src) \cap Folders => i \in LiveSubtree(doc', j.src)
    BY <1>2, <1>5, <2>3, LiveFacts
  <2>5. RunsAway(doc', j.src, i)
    BY <1>3, <1>5, <2>2, <2>4 DEF RunsAway
  <2> QED
    BY <2>2, <2>5 DEF Endless
<1> QED
  BY <1>4, <1>5

LEMMA PutUnderway ==
  ASSUME TypeOK, NEW r \in Reqs, NEW j \in req[r].jobs, NEW i \in Items, Put(r, j, i),
         NEW q, q = req[r], NEW k, k = req'[r], Underway(q)
  PROVE  Underway(k)'
<1>1. \A s : Stored(s) => Stored(s)' /\ s # i
  BY Puts, PutKeeps
<1>2. Stored(q.id) /\ \A m \in q.jobs : Stored(m.src)
  BY DEF Underway
<1>3. Stored(k.id)' /\ \A m \in k.jobs : Stored(m.src)'
  BY <1>1, <1>2, Puts
<1>4. k.pc = "put" => k.jobs # {}
  BY Puts
<1>5. ASSUME k.pc = "list"
      PROVE  Stored(k.from)' /\ k.from \in Folders /\ k.to \in Folders /\ k.from # k.to
  <2>1. i \in Folders /\ k.from = j.src /\ k.to = i
    BY <1>5, Puts
  <2> QED
    BY <1>1, <1>2, <2>1, Puts DEF SameType
<1> QED
  BY <1>3, <1>4, <1>5 DEF Underway

LEMMA PutClean ==
  ASSUME TypeOK, NEW r \in Reqs, NEW j \in req[r].jobs, NEW i \in Items, Put(r, j, i),
         NEW q, q = req[r], NEW k, k = req'[r], Underway(q), Clean(q)
  PROVE  Clean(k)'
<1>1. /\ q.pc = "put" /\ k.id = q.id /\ k.jobs = q.jobs \ {j}
      /\ k.made = q.made \cup {<<j.src, i>>}
      /\ q \in Request /\ j \in q.jobs
  BY Puts
<1>2. CopiedTo(doc, doc', i) /\ SameType(i, j.src) /\ doc'[i].name = j.name
      /\ doc'[i].parent = j.into
  BY Puts
<1>3. PICK L : L = LiveSubtree(doc, q.id)
  OBVIOUS
<1>4. q.id \in Items /\ q.id # i
  BY Puts, PutKeeps DEF Underway, Stored
<1>5. j.into \notin L \cap Folders
  BY <1>1, <1>3 DEF Clean, Apart
<1>6. /\ L = LiveSubtree(doc', q.id) /\ i \notin L
      /\ InRing(doc', q.id) <=> InRing(doc, q.id)
  BY <1>2, <1>3, <1>4, <1>5, StaysBelow
<1>7. j.src \in Sources(q) /\ Sources(k) \subseteq Sources(q)
      /\ Sources(q) \subseteq Sources(k) \cup {j.src}
  BY <1>1 DEF Sources
<1>8. Originals(k) = Originals(q) \cup {j.src} /\ Copies(k) = Copies(q) \cup {i}
  <2> DEFINE m == <<j.src, i>>
  <2>1. m[1] = j.src /\ m[2] = i
    OBVIOUS
  <2>2. k.made = q.made \cup {m}
    BY <1>1
  <2> HIDE DEF m
  <2> QED
    BY <2>1, <2>2 DEF Originals, Copies
<1>9. Originals(q) \cup Sources(q) \subseteq L /\ L \subseteq Items
  BY <1>3, <1>4, LiveFacts DEF Clean, Apart
<1>10. \A c \in Copies(q) : c \notin L /\ ~Fresh(c)
  BY <1>3 DEF Clean, Apart
<1>11. i \notin Copies(q) /\ \A c \in Copies(q) : ~Fresh(c)' /\ c # i
  <2>1. \A c : ~Fresh(c) => ~Fresh(c)' /\ c # i
    BY Puts, PutKeeps
  <2> QED
    BY <1>10, <2>1
<1>12. ~Fresh(i)'
  BY Puts, PutKeeps
<1>13. \A c \in L : doc'[c] = doc[c]
  BY <1>2, <1>6, <1>9 DEF CopiedTo
<1>14. Apart(k)'
  <2>1. \A c \in Copies(k) : c \notin L /\ ~Fresh(c)'
    BY <1>6, <1>8, <1>10, <1>11, <1>12
  <2>2. \A m \in k.jobs : m.into \notin L \cap Folders
    BY <1>1, <1>3 DEF Clean, Apart
  <2>3. ~InRing(doc', k.id)
    BY <1>1, <1>6 DEF Clean, Apart
  <2>4. L = LiveSubtree(doc', k.id) /\ Originals(k) \cup Sources(k) \subseteq L
    BY <1>1, <1>6, <1>7, <1>8, <1>9
  <2> QED
    BY <2>1, <2>2, <2>3, <2>4 DEF Apart
<1>15. Once(k)
  <2>1. \A m, n \in k.jobs : m.src = n.src => m = n
    BY <1>1 DEF Clean, Once
  <2>2. j.src \notin Sources(k)
    BY <1>1 DEF Clean, Once, Sources
  <2>3. Originals(k) \cap Sources(k) = {}
    BY <1>7, <1>8, <2>2 DEF Clean, Once
  <2>4. \A m \in q.made : m[1] # j.src /\ m[2] # i
    <3>1. \A m \in q.made : m[1] \in Originals(q) /\ m[2] \in Copies(q)
      BY DEF Originals, Copies
    <3> QED
      BY <1>7, <1>11, <3>1 DEF Clean, Once
  <2>5. \A m, n \in k.made : m[1] = n[1] <=> m[2] = n[2]
    <3>1. SUFFICES ASSUME NEW m \in k.made, NEW n \in k.made
                   PROVE  m[1] = n[1] <=> m[2] = n[2]
      OBVIOUS
    <3>2. CASE m \in q.made /\ n \in q.made
      BY <3>2 DEF Clean, Once
    <3>3. CASE m = <<j.src, i>> \/ n = <<j.src, i>>
      BY <1>1, <2>4, <3>3
    <3> QED
      BY <1>1, <3>2, <3>3
  <2> QED
    BY <2>1, <2>3, <2>5 DEF Once
<1>16. Originals(k) \cup Sources(k) = Originals(q) \cup Sources(q)
  BY <1>7, <1>8
<1>17. Listed(k)'
  <2>1. ASSUME NEW p \in Originals(k), NEW c \in Items, LiveChild(doc', c, p),
               ~(k.pc = "list" /\ p = k.from)
        PROVE  c \in Originals(k) \cup Sources(k)
    <3>1. p \in L /\ p \in Folders
      BY <1>7, <1>8, <1>9, <2>1 DEF LiveChild
    <3>2. c # i
      BY <1>2, <1>5, <2>1, <3>1 DEF LiveChild
    <3>3. LiveChild(doc, c, p)
      BY <1>2, <2>1, <3>2 DEF LiveChild, CopiedTo
    <3>4. p # j.src
      BY <2>1, <3>1, Puts DEF SameType
    <3> QED
      BY <1>1, <1>8, <1>16, <2>1, <3>3, <3>4 DEF Clean, Listed
  <2>2. ASSUME k.pc = "list"
        PROVE  /\ <<k.from, k.to>> \in k.made
               /\ \A c \in Originals(k) \cup Sources(k) : c # k.id => doc'[c].parent # k.from
    <3>1. k.from = j.src /\ k.to = i
      BY <2>2, Puts
    <3>2. \A c \in Originals(q) \cup Sources(q) : c # q.id => doc[c].parent \in Originals(q)
      <4>1. \A p, c : <<p, c>> \in q.made => p \in Originals(q)
        BY DEF Originals
      <4>2. \A m \in q.made : m[1] # q.id => doc[m[1]].parent \in Originals(q)
        BY <4>1 DEF Clean, Parallel
      <4>3. \A m \in q.jobs : m.src # q.id => doc[m.src].parent \in Originals(q)
        BY <4>1 DEF Clean, Parallel
      <4> QED
        BY <4>2, <4>3 DEF Originals, Sources
    <3>3. j.src \notin Originals(q)
      BY <1>7 DEF Clean, Once
    <3> QED
      BY <1>1, <1>9, <1>13, <1>16, <3>1, <3>2, <3>3
  <2>3. k.id \in Originals(k) \cup Sources(k)
    BY <1>1, <1>16 DEF Clean, Listed
  <2> QED
    BY <2>1, <2>2, <2>3 DEF Listed
<1>18. Parallel(k)'
  <2>1. ASSUME NEW m \in q.made, m[1] # q.id
        PROVE  /\ <<doc'[m[1]].parent, doc'[m[2]].parent>> \in q.made
               /\ doc'[m[1]].name = doc'[m[2]].name /\ SameType(m[1], m[2])
    <3>1. m[1] \in Originals(q) /\ m[2] \in Copies(q) /\ m[2] \in Items
      BY <1>1 DEF Originals, Copies, Request
    <3>2. doc'[m[1]] = doc[m[1]] /\ doc'[m[2]] = doc[m[2]]
      BY <1>2, <1>9, <1>11, <1>13, <3>1 DEF CopiedTo
    <3> QED
      BY <2>1, <3>2 DEF Clean, Parallel
  <2>2. ASSUME NEW m \in q.jobs, m.src # q.id
        PROVE  <<doc'[m.src].parent, m.into>> \in q.made /\ m.name = doc'[m.src].name
    <3>1. doc'[m.src] = doc[m.src]
      BY <1>9, <1>13 DEF Sources
    <3> QED
      BY <2>2, <3>1 DEF Clean, Parallel
  <2>3. j.src # q.id => /\ <<doc'[j.src].parent, doc'[i].parent>> \in q.made
                        /\ doc'[j.src].name = doc'[i].name /\ SameType(j.src, i)
    BY <1>1, <1>2, <2>2 DEF SameType
  <2>4. \A m \in k.made : m[1] # k.id =>
          /\ <<doc'[m[1]].parent, doc'[m[2]].parent>> \in k.made
          /\ doc'[m[1]].name = doc'[m[2]].name /\ SameType(m[1], m[2])
    <3>1. SUFFICES ASSUME NEW m \in k.made, m[1] # k.id
                   PROVE  /\ <<doc'[m[1]].parent, doc'[m[2]].parent>> \in k.made
                          /\ doc'[m[1]].name = doc'[m[2]].name /\ SameType(m[1], m[2])
      OBVIOUS
    <3>2. CASE m \in q.made
      BY <1>1, <2>1, <3>1, <3>2
    <3>3. CASE m = <<j.src, i>>
      BY <1>1, <2>3, <3>1, <3>3
    <3> QED
      BY <1>1, <3>2, <3>3
  <2>5. \A m \in k.jobs : m.src # k.id =>
          <<doc'[m.src].parent, m.into>> \in k.made /\ m.name = doc'[m.src].name
    BY <1>1, <2>2
  <2> QED
    BY <2>4, <2>5 DEF Parallel
<1> QED
  BY <1>14, <1>15, <1>17, <1>18 DEF Clean, Once

LEMMA PutDuplicates ==
  ASSUME TypeOK, NEW r \in Reqs, NEW j \in req[r].jobs, NEW i \in Items, Put(r, j, i),
         Duplicates(req[r]), NEW k, k = req'[r]
  PROVE  Duplicates(k)'
<1>1. PICK q : q = req[r]
  OBVIOUS
<1>2. /\ q.pc = "put" /\ k.pc \in {"list", "put", "respond"}
      /\ k.pc = "respond" => k.jobs = {}
  BY <1>1, Puts
<1>3. Underway(q) /\ (Endless(doc, q) \/ Clean(q))
  BY <1>1, <1>2 DEF Duplicates
<1>4. Underway(k)'
  BY <1>1, <1>3, PutUnderway
<1>5. CASE Endless(doc, q)
  <2>1. Endless(doc', k)
    BY <1>1, <1>3, <1>5, PutRuns
  <2> QED
    BY <1>2, <1>4, <2>1 DEF Duplicates, Endless
<1>6. CASE Clean(q)
  <2>1. Clean(k)'
    BY <1>1, <1>3, <1>6, PutClean
  <2> QED
    BY <1>2, <1>4, <2>1 DEF Duplicates
<1> QED
  BY <1>3, <1>5, <1>6

-------------------------------------------------------------------------------
(* A duplication that answers is complete, one that runs away goes on *)

Duplicating == \A r \in Reqs : Duplicates(req[r])

LEMMA InitDuplicates == Init => Duplicating
<1> SUFFICES ASSUME Init, NEW r \in Reqs PROVE Duplicates(req[r])
  BY DEF Duplicating
<1>1. req[r] = Idle
  BY DEF Init
<1> QED
  BY <1>1, QuietRecords, QuietDuplicates

\* A step is one of a duplication, or leaves the handler quiet.
LEMMA NextDuplicates ==
  ASSUME TypeOK, Duplicating, NEW r, Reqs = {r}, [Next]_vars
  PROVE  Duplicating' /\ (Endless(doc, req[r]) => Endless(doc', req'[r]))
<1>1. PICK k : k = req'[r]
  OBVIOUS
<1>2. PICK q : q = req[r]
  OBVIOUS
<1>3. Duplicates(q) /\ (Duplicates(k)' => Duplicating')
  BY <1>1, <1>2 DEF Duplicating
<1>4. CASE UNCHANGED vars
  <2>1. k = q /\ doc' = doc
    BY <1>1, <1>2, <1>4 DEF vars
  <2> QED
    BY <1>1, <1>2, <1>3, <2>1, DuplicatesStays
<1>5. CASE \E i \in Items, inPlace \in BOOLEAN, p \in Places : BeginDuplicate(r, i, inPlace, p)
  <2>1. PICK i \in Items, inPlace \in BOOLEAN, p \in Places : BeginDuplicate(r, i, inPlace, p)
    BY <1>5
  <2>2. Duplicates(k) /\ UNCHANGED doc
    BY <1>1, <2>1, BeginDuplicates
  <2>3. q.pc = "idle"
    BY <1>2, <2>1 DEF BeginDuplicate, Begin
  <2> QED
    BY <1>2, <1>3, <2>2, <2>3, DuplicatesStays DEF Endless
<1>6. CASE DuplicateTarget(r) \/ CountCopies(r)
  <2>1. Duplicates(k) /\ UNCHANGED doc
    BY <1>1, <1>2, <1>3, <1>6, TargetDuplicates, CountDuplicates
  <2>2. q.pc \in {"target", "count"}
    BY <1>2, <1>6 DEF DuplicateTarget, CountCopies
  <2> QED
    BY <1>2, <1>3, <2>1, <2>2, DuplicatesStays DEF Endless
<1>7. CASE ListChildren(r)
  <2>1. Duplicates(k) /\ UNCHANGED doc
    BY <1>1, <1>2, <1>3, <1>7, ListDuplicates
  <2>2. Underway(q)
    BY <1>2, <1>3, <1>7 DEF ListChildren, Duplicates
  <2>3. Endless(doc, q) => Endless(doc', k)
    BY <1>1, <1>2, <1>7, <2>1, <2>2, ListRuns
  <2> QED
    BY <1>1, <1>2, <1>3, <2>1, <2>3, DuplicatesStays
<1>8. CASE \E j \in req[r].jobs, i \in Items : Put(r, j, i)
  <2>1. PICK j \in req[r].jobs, i \in Items : Put(r, j, i)
    BY <1>8
  <2>2. Duplicates(k)'
    BY <1>1, <1>2, <1>3, <2>1, PutDuplicates
  <2>3. Underway(q)
    BY <1>2, <1>3, <2>1 DEF Put, Duplicates
  <2>4. Endless(doc, q) => Endless(doc', k)
    BY <1>1, <1>2, <2>1, <2>3, PutRuns
  <2> QED
    BY <1>1, <1>2, <1>3, <2>2, <2>4
<1>9. CASE /\ BeginSome(r)
           /\ ~ \E i \in Items, inPlace \in BOOLEAN, p \in Places : BeginDuplicate(r, i, inPlace, p)
  <2>1. Quiet(k)
    BY <1>1, <1>9, QuietBegins
  <2>2. q.pc = "idle"
    BY <1>2, <1>9 DEF BeginSome, Begin, BeginCreate, BeginRename, BeginTouch, BeginMove,
       BeginDelete, BeginRestore, BeginWorkspaceDelete, BeginEmptyBin, BeginFormat
  <2>3. Duplicates(k)'
    BY <2>1 DEF Quiet, Duplicates
  <2> QED
    BY <1>2, <1>3, <2>2, <2>3 DEF Endless
<1>10. CASE /\ Step(r) /\ ~DuplicateTarget(r) /\ ~CountCopies(r) /\ ~ListChildren(r)
            /\ ~ \E j \in req[r].jobs, i \in Items : Put(r, j, i)
  <2>1. Quiet(k)
    BY <1>1, <1>10, QuietSteps
  <2>2. Duplicates(k)'
    BY <2>1 DEF Quiet, Duplicates
  <2>3. q.pc \notin {"put", "list"}
    BY <1>2, <1>10 DEF Step, Refuse, CheckCreate, Insert, CheckRename, Save, CheckTarget,
       Place, Expand, Update, Reread, EmptyBin, Format, Respond
  <2> QED
    BY <1>2, <1>3, <2>2, <2>3 DEF Endless
<1> QED
  BY <1>4, <1>5, <1>6, <1>7, <1>8, <1>9, <1>10 DEF Next

LEMMA CompleteMeans ==
  ASSUME Duplicating
  PROVE  CopyIsComplete
<1>1. SUFFICES ASSUME NEW r \in Reqs, req[r].pc = "respond", NEW q, q = req[r]
               PROVE  /\ Originals(q) = LiveSubtree(doc, q.id)
                      /\ Once(q) /\ Parallel(q)
  BY DEF CopyIsComplete, Originals, Once, Parallel
<1>2. Underway(q) /\ q.jobs = {} /\ Clean(q)
  BY <1>1 DEF Duplicating, Duplicates
<1>3. Sources(q) = {} /\ q.id \in Items
  BY <1>2 DEF Sources, Underway, Stored
<1>4. Originals(q) \subseteq LiveSubtree(doc, q.id)
  BY <1>2 DEF Clean, Apart
<1>5. Originals(q) \in SUBSET Items
  BY <1>3, <1>4, LiveFacts
<1>6. q.id \in Originals(q)
      /\ \A k, p : LiveChild(doc, k, p) /\ p \in Originals(q) => k \in Originals(q)
  BY <1>1, <1>2, <1>3 DEF Clean, Listed, LiveChild
<1>7. LiveSubtree(doc, q.id) \subseteq Originals(q)
  BY <1>3, <1>5, <1>6, LiveLeast
<1> QED
  BY <1>2, <1>4, <1>7 DEF Clean

LEMMA DuplicatingAlways ==
  ASSUME OneAtATime
  PROVE  /\ Spec => []CopyIsComplete
         /\ Spec => RunawayCopyGoesOn
<1>1. TypeOK /\ Duplicating /\ [Next]_vars =>
        Duplicating' /\ \A r \in Reqs : Endless(doc, req[r]) => Endless(doc, req[r])'
  <2> SUFFICES ASSUME TypeOK, Duplicating, [Next]_vars
               PROVE  Duplicating' /\ \A r \in Reqs : Endless(doc, req[r]) => Endless(doc, req[r])'
    OBVIOUS
  <2>1. PICK r : Reqs = {r}
    BY DEF OneAtATime
  <2>2. Duplicating' /\ (Endless(doc, req[r]) => Endless(doc', req'[r]))
    BY <2>1, NextDuplicates
  <2> QED
    BY <2>1, <2>2
<1>2. Duplicating => CopyIsComplete
  BY CompleteMeans
<1> QED
  BY <1>1, <1>2, InitType, NextType, InitDuplicates, PTL DEF Spec, RunawayCopyGoesOn

\* With one request at a time a duplication that answers has copied the item
\* and everything below it outside the bin, each of them once and into the copy
\* of its folder, whatever the tree: the copies it inserts while it lists are
\* never among what it lists, or it does not answer.
THEOREM CopiesAreComplete == ASSUME OneAtATime PROVE Spec => []CopyIsComplete
BY DuplicatingAlways

\* With one request at a time a duplication into the folder that is copied, or
\* below it, always has another copy to make.
THEOREM RunawayCopyNeverAnswers == ASSUME OneAtATime PROVE Spec => RunawayCopyGoesOn
BY DuplicatingAlways

-------------------------------------------------------------------------------
(* No folder is queried twice, with any number of requests in flight: what a  *)
(* walk has still to query, it has found.                                     *)

QueueFound == \A r \in Reqs : req[r].pc = "walk" => req[r].walk.queue \subseteq req[r].walk.seen

\* Where a handler is, when it is not walking.
LEMMA PlainRecords ==
  /\ Idle.pc = "idle"
  /\ \A q \in Request, pc \in PC :
       /\ At(q, pc).pc = pc /\ \A d : Holding(At(q, pc), d).pc = pc
  /\ \A kind, pc, i, p, d :
       /\ Handler(kind, pc, i, p, d).pc = pc
       /\ \A b : [Handler(kind, pc, i, p, d) EXCEPT !.inPlace = b].pc = pc
<1>1. ASSUME NEW q \in Request, NEW pc \in PC
      PROVE  /\ At(q, pc).pc = pc /\ \A d : Holding(At(q, pc), d).pc = pc
  BY DEF At, Holding, Request
<1>2. ASSUME NEW kind, NEW pc, NEW i, NEW p, NEW d
      PROVE  /\ Handler(kind, pc, i, p, d).pc = pc
             /\ \A b : [Handler(kind, pc, i, p, d) EXCEPT !.inPlace = b].pc = pc
  BY DEF Handler
<1> QED
  BY <1>1, <1>2 DEF Idle

\* A walk begins with the folder it has found.
LEMMA WalkBegins ==
  ASSUME TypeOK, NEW r \in Reqs, BeginSome(r)
  PROVE  /\ req[r].pc = "idle"
         /\ req'[r].pc = "walk" => req'[r].walk.queue = req'[r].walk.seen
<1>1. CASE \E i \in Items, permanent \in BOOLEAN : BeginDelete(r, i, permanent)
  <2>1. PICK i, kind, d : Begin(r, Walker(Handler(kind, "walk", i, Root, d)))
    BY <1>1 DEF BeginDelete
  <2>2. req'[r] = Walker(Handler(kind, "walk", i, Root, d))
    BY <2>1, Takes
  <2> QED
    BY <2>1, <2>2 DEF Begin, Walker, At, Handler
<1>2. CASE \E i \in Items : BeginRestore(r, i)
  <2>1. PICK i \in Items : Begin(r, Walker(Handler("restore", "walk", i, Root, doc[i])))
    BY <1>2 DEF BeginRestore
  <2>2. req'[r] = Walker(Handler("restore", "walk", i, Root, doc[i]))
    BY <2>1, Takes
  <2> QED
    BY <2>1, <2>2 DEF Begin, Walker, At, Handler
<1>3. CASE \E i \in Items, inPlace \in BOOLEAN, p \in Places : BeginDuplicate(r, i, inPlace, p)
  BY <1>3, Takes, PlainRecords DEF BeginDuplicate, Begin
<1>4. CASE \E i \in Items, p \in Places : BeginMove(r, i, p)
  BY <1>4, Takes, PlainRecords DEF BeginMove, Begin
<1>5. CASE \E kind \in Creates, p \in Places, name \in Given, part \in Parts :
             BeginCreate(r, kind, p, name, part)
  <2>1. PICK kind, pc, p, d : /\ pc \in {"insert", "check"}
                              /\ Begin(r, Handler(kind, pc, Root, p, d))
    BY <1>5 DEF BeginCreate
  <2> QED
    BY <2>1, Takes, PlainRecords DEF Begin
<1>6. CASE \E kind \in {"rename", "workspaceRename"}, i \in Items, name \in Given :
             BeginRename(r, kind, i, name)
  <2>1. PICK kind, i, d : Begin(r, Handler(kind, "check", i, Root, d))
    BY <1>6 DEF BeginRename
  <2> QED
    BY <2>1, Takes, PlainRecords DEF Begin
<1>7. CASE \E i \in Items : BeginTouch(r, i) \/ BeginWorkspaceDelete(r, i)
  <2>1. PICK i \in Items : BeginTouch(r, i) \/ BeginWorkspaceDelete(r, i)
    BY <1>7
  <2>2. CASE BeginTouch(r, i)
    BY <2>2, Takes, PlainRecords DEF BeginTouch, Begin
  <2>3. CASE BeginWorkspaceDelete(r, i)
    BY <2>3, Takes, PlainRecords DEF BeginWorkspaceDelete, Begin
  <2> QED
    BY <2>1, <2>2, <2>3
<1>8. CASE BeginEmptyBin(r)
  BY <1>8, Takes, PlainRecords DEF BeginEmptyBin, Begin
<1>9. CASE \E p \in Partitions : BeginFormat(r, p)
  BY <1>9, Takes, PlainRecords DEF BeginFormat, Begin
<1> QED
  BY <1>1, <1>2, <1>3, <1>4, <1>5, <1>6, <1>7, <1>8, <1>9 DEF BeginSome

\* No step but a query is one of a walk, and only the save of a move begins one.
LEMMA WalkStarts ==
  ASSUME TypeOK, NEW r \in Reqs, Step(r), ~ \E x \in Items : Expand(r, x),
         req'[r].pc = "walk"
  PROVE  req[r].pc # "walk" /\ req'[r].walk.queue = req'[r].walk.seen
<1>1. req[r] \in Request
      /\ {"insert", "save", "place", "count", "put", "respond"} \subseteq PC
  BY DEF TypeOK, PC
<1>2. CASE Save(r)
  <2>1. PICK d : Write(r, Idle, d) \/ Write(r, Walker(req[r]), d)
    BY <1>2 DEF Save
  <2>2. req'[r] = Walker(req[r])
    BY <2>1, Takes, PlainRecords
  <2>3. Walker(req[r]).walk = [seen |-> {req[r].id}, queue |-> {req[r].id}, calm |-> TRUE]
    BY <1>1 DEF Walker, At, Request
  <2> QED
    BY <1>2, <2>2, <2>3 DEF Save
<1>3. CASE Refuse(r) \/ Respond(r)
  BY <1>3, Takes, PlainRecords DEF Refuse, Respond
<1>4. CASE CheckCreate(r) \/ CheckRename(r) \/ CheckTarget(r)
  <2>1. PICK pc \in {"insert", "save", "place"} :
          Continue(r, Idle) \/ Continue(r, At(req[r], pc))
    BY <1>4 DEF CheckCreate, CheckRename, CheckTarget
  <2> QED
    BY <1>1, <2>1, Takes, PlainRecords
<1>5. CASE Place(r) \/ Reread(r)
  <2>1. PICK d : Continue(r, Idle) \/ Continue(r, Holding(At(req[r], "save"), d))
    BY <1>5 DEF Place, Reread
  <2> QED
    BY <1>1, <2>1, Takes, PlainRecords
<1>6. CASE Update(r) \/ EmptyBin(r) \/ Format(r) \/ \E i \in Items : Insert(r, i)
  <2>1. PICK d : Write(r, Idle, d)
    BY <1>6 DEF Update, EmptyBin, Format, PurgeAll, Insert
  <2> QED
    BY <2>1, Takes, PlainRecords
<1>7. CASE DuplicateTarget(r)
  <2>1. PICK k, p : /\ k = Idle \/ k = [At(req[r], "count") EXCEPT !.part = p]
                    /\ Continue(r, k)
    BY <1>7 DEF DuplicateTarget
  <2>2. k.pc \in {"idle", "count"}
    BY <1>1, <2>1, PlainRecords DEF At, Request
  <2> QED
    BY <2>1, <2>2, Takes
<1>8. CASE CountCopies(r)
  <2>1. PICK k, J : k = [At(req[r], "put") EXCEPT !.jobs = J] /\ Continue(r, k)
    BY <1>8 DEF CountCopies
  <2>2. k.pc = "put"
    BY <1>1, <2>1 DEF At, Request
  <2> QED
    BY <2>1, <2>2, Takes
<1>9. CASE ListChildren(r)
  BY <1>9, Lists
<1>10. CASE \E j \in req[r].jobs, i \in Items : Put(r, j, i)
  <2>1. PICK j \in req[r].jobs, i \in Items : Put(r, j, i)
    BY <1>10
  <2>2. req'[r].pc \in {"list", "respond", "put"}
    BY <2>1, Puts
  <2> QED
    BY <2>2
<1> QED
  BY <1>2, <1>3, <1>4, <1>5, <1>6, <1>7, <1>8, <1>9, <1>10 DEF Step

\* What the step of another handler leaves of a walk.
LEMMA WalkOfOthers ==
  ASSUME TypeOK, NEW r \in Reqs, BeginSome(r) \/ Step(r), NEW s \in Reqs \ {r}
  PROVE  /\ req'[s].pc = req[s].pc
         /\ req'[s].walk.seen = req[s].walk.seen /\ req'[s].walk.queue = req[s].walk.queue
<1>1. PICK k : Continue(r, k) \/ Begin(r, k) \/ \E d : Write(r, k, d)
  BY DEF BeginSome, BeginCreate, BeginRename, BeginTouch, BeginMove, BeginDelete, BeginRestore,
     BeginWorkspaceDelete, BeginEmptyBin, BeginFormat, BeginDuplicate, Step, Refuse,
     CheckCreate, Insert, CheckRename, Save, CheckTarget, Place, Expand, Update, Reread,
     EmptyBin, Format, PurgeAll, DuplicateTarget, CountCopies, Put, ListChildren, Respond
<1>2. CASE Continue(r, k) \/ Begin(r, k)
  BY <1>2 DEF Continue, Begin, TypeOK
<1>3. CASE \E d : Write(r, k, d)
  <2>1. PICK d : req'[s] = Disturbed(req[s], d)
    BY <1>3 DEF Write
  <2>2. req[s] \in Request
    BY DEF TypeOK
  <2> QED
    BY <2>1, <2>2 DEF Disturbed, Request, Walk
<1> QED
  BY <1>1, <1>2, <1>3

\* A query: the folder is done with, and stays so.
LEMMA WalkQueries ==
  ASSUME TypeOK, NEW r \in Reqs, NEW x \in Items, Expand(r, x),
         req[r].walk.queue \subseteq req[r].walk.seen
  PROVE  /\ x \in req[r].walk.queue
         /\ req'[r].walk.queue \subseteq req'[r].walk.seen
         /\ Finished(req[r]) \cup {x} \subseteq Finished(req'[r])
<1>1. PICK q : q = req[r]
  OBVIOUS
<1>2. PICK found : found = ChildrenOf(x) \ q.walk.seen
  OBVIOUS
<1>3. PICK left : left = (q.walk.queue \ {x}) \cup (found \cap Folders)
  OBVIOUS
<1>4. q \in Request /\ x \in q.walk.queue
  BY <1>1 DEF Expand, TypeOK
<1>5. req'[r] = Found(q, found, left)
  BY <1>1, <1>2, <1>3, Takes DEF Expand
<1>6. req'[r].walk.seen = q.walk.seen \cup found /\ req'[r].walk.queue = left
  BY <1>4, <1>5 DEF Found, At, Request
<1> QED
  BY <1>1, <1>2, <1>3, <1>4, <1>6 DEF Finished

LEMMA NextQueries ==
  ASSUME TypeOK, QueueFound, NEW r \in Reqs, BeginSome(r) \/ Step(r), NEW s \in Reqs
  PROVE  /\ req'[s].pc = "walk" => req'[s].walk.queue \subseteq req'[s].walk.seen
         /\ req[s].pc = "walk" /\ req'[s].pc = "walk" =>
              \/ /\ req'[s].walk.seen = req[s].walk.seen
                 /\ req'[s].walk.queue = req[s].walk.queue
              \/ \E x \in req[s].walk.queue : Finished(req[s]) \cup {x} \subseteq Finished(req'[s])
<1>1. CASE s # r
  BY <1>1, WalkOfOthers DEF QueueFound
<1>2. CASE s = r /\ BeginSome(r)
  BY <1>2, WalkBegins
<1>3. CASE s = r /\ Step(r) /\ ~ \E x \in Items : Expand(r, x)
  BY <1>3, WalkStarts
<1>4. CASE s = r /\ \E x \in Items : Expand(r, x)
  <2>1. PICK x \in Items : Expand(r, x)
    BY <1>4
  <2>2. req[r].walk.queue \subseteq req[r].walk.seen
    BY <2>1 DEF Expand, QueueFound
  <2> QED
    BY <1>4, <2>1, <2>2, WalkQueries
<1> QED
  BY <1>1, <1>2, <1>3, <1>4

LEMMA InitQueues == Init => QueueFound
BY PlainRecords DEF Init, QueueFound

\* However handlers interleave, a walk never queries a folder twice, also on a
\* tree with a cycle: what _collect_descendant_ids has seen keeps it from going
\* back.  As a drive has finitely many items, this is why the walk ends.
THEOREM WalksNeverGoBack == Spec => NoFolderQueriedTwice
<1>1. TypeOK /\ QueueFound /\ [Next]_vars =>
        /\ QueueFound'
        /\ \A r \in Reqs : req[r].pc = "walk" /\ req[r]'.pc = "walk" =>
             \/ /\ req[r]'.walk.seen = req[r].walk.seen
                /\ req[r]'.walk.queue = req[r].walk.queue
             \/ \E x \in req[r].walk.queue :
                  Finished(req[r]) \cup {x} \subseteq Finished(req[r])'
  <2> SUFFICES ASSUME TypeOK, QueueFound, [Next]_vars, NEW s \in Reqs
               PROVE  /\ req'[s].pc = "walk" => req'[s].walk.queue \subseteq req'[s].walk.seen
                      /\ req[s].pc = "walk" /\ req'[s].pc = "walk" =>
                           \/ /\ req'[s].walk.seen = req[s].walk.seen
                              /\ req'[s].walk.queue = req[s].walk.queue
                           \/ \E x \in req[s].walk.queue :
                                Finished(req[s]) \cup {x} \subseteq Finished(req'[s])
    BY DEF QueueFound
  <2>1. CASE UNCHANGED vars
    BY <2>1 DEF vars, QueueFound
  <2>2. CASE Next
    <3>1. PICK r \in Reqs : BeginSome(r) \/ Step(r)
      BY <2>2 DEF Next
    <3> QED
      BY <3>1, NextQueries
  <2> QED
    BY <2>1, <2>2
<1> QED
  BY <1>1, InitType, NextType, InitQueues, PTL DEF Spec, NoFolderQueriedTwice

===============================================================================
