------------------------------- MODULE FileTree -------------------------------
(***************************************************************************)
(* The files and folders of one user: the FileSystemItem documents and the *)
(* HTTP handlers that create, rename, move, delete, restore and duplicate  *)
(* them (app/routes.py, app/crud.py, app/workspace_routes.py and the       *)
(* format operation of app/partition_routes.py).                           *)
(*                                                                         *)
(* Every handler is cut at its database awaits.  It reads documents into   *)
(* its local record, writes a whole document back with Beanie's save(),    *)
(* which inserts the document if it is no longer there, or updates all     *)
(* documents of a list of ids at once with update_many.                    *)
(*                                                                         *)
(* The objects in Backblaze B2 are not here: what becomes of a B2 call     *)
(* decides about a document only when new content is saved (see Refuse).   *)
(***************************************************************************)
EXTENDS Naturals, FiniteSets

CONSTANTS
  Items,       \* document ids; MongoDB never gives an id twice
  Old,         \* the ids given out before the requests begin
  OldName,     \* the names they were given
  Folders,     \* the ids that folders get, the others go to files
  Bases,       \* names without a " copy" suffix, case folded
  Given,       \* the names clients ask for
  Partitions,  \* storage partitions of the user
  Reqs,        \* requests in flight at once
  Root,        \* parent_id None: the top level of the drive
  NoPart,      \* partition_id None
  MaxRequests  \* bound: requests that begin

Name == [base: Bases, copy: Nat]

ASSUME TreeAssumption ==
  /\ IsFiniteSet(Items)
  /\ Folders \subseteq Items /\ Old \subseteq Items /\ Root \notin Items
  /\ NoPart \notin Partitions
  /\ Bases # {} /\ Given \subseteq Name /\ OldName \in [Old -> Name]
  /\ MaxRequests \in Nat

VARIABLES
  doc,       \* the FileSystemItem document of each id
  req,       \* local state of each handler in flight
  requests,  \* requests begun so far
  lapses     \* history: the ways accepted requests have bent the tree

vars == <<doc, req, requests, lapses>>

-------------------------------------------------------------------------------
(* Documents *)

Places == Items \cup {Root}
Parts == Partitions \cup {NoPart}

\* "live" and "bin" are is_deleted FALSE and TRUE, "fresh" an id not given
\* out yet and "purged" the id of a document that was deleted for good.
Doc == [status: {"fresh", "live", "bin", "purged"}, name: Name,
        parent: Places, part: Parts]

Blank == [status |-> "fresh", name |-> [base |-> CHOOSE b \in Bases : TRUE, copy |-> 0],
          parent |-> Root, part |-> NoPart]
Purged == [Blank EXCEPT !.status = "purged"]

Stored(i) == i \in Items /\ doc[i].status \in {"live", "bin"}
Live(i) == i \in Items /\ doc[i].status = "live"
Binned(i) == i \in Items /\ doc[i].status = "bin"
Fresh(i) == i \in Items /\ doc[i].status = "fresh"
SameType(i, j) == i \in Folders <=> j \in Folders

\* Faulty: the query leaves out what is in the bin.
ChildrenOfLive(p) == {i \in Items : Live(i) /\ doc[i].parent = p}

ChildrenOf(p) == {i \in Items : Stored(i) /\ doc[i].parent = p}

\* What the walks below a folder depend on: who is stored under whom.
Shape(d) ==
  {<<i, d[i].parent>> : i \in {j \in Items : d[j].status \in {"live", "bin"}}}

\* What lies below r along the edges <<child, parent>> of E: the least set that
\* holds r and the children of everything in it.
Closed(E, S) == \A e \in E : e[2] \in S => e[1] \in S
Below(E, r) == {i \in Items : \A S \in SUBSET Items : r \in S /\ Closed(E, S) => i \in S}

\* The item r with everything below it: a walk looks into r itself and into
\* every folder that it finds.
WalkEdges(d, r) == {e \in Shape(d) : e[2] \in Folders \cup {r}}
Subtree(d, r) == Below(WalkEdges(d, r), r)

\* The item r with what a duplication copies: it looks into folders only and
\* leaves out what is in the bin.
LiveSubtree(d, r) ==
  Below({e \in Shape(d) : e[2] \in Folders /\ d[e[1]].status = "live"}, r)

-------------------------------------------------------------------------------
(* Handlers *)

Creates == {"folder", "upload", "chunks", "workspaceFile", "workspaceFolder"}
Walks == {"bin", "purge", "restore", "move"}
Kinds == Creates \cup Walks \cup
         {"none", "rename", "workspaceRename", "touch", "workspaceBin",
          "emptyBin", "format", "duplicate"}
PC == {"idle", "check", "insert", "save", "target", "place", "walk", "update",
       "reread", "empty", "format", "count", "put", "list", "respond"}

\* One call of duplicate_item: copy src, called name, under into.
Job == [src: Places, name: Name, own: Parts, into: Places, part: Parts]

\* The ids a walk has collected, the folders it has still to query, and
\* whether no other handler has changed the tree under it.
Walk == [seen: SUBSET Items, queue: SUBSET Items, calm: BOOLEAN]
NoWalk == [seen |-> {}, queue |-> {}, calm |-> FALSE]

\* id is the item, to the target folder, copy the document as the handler
\* holds it; made is history: the pairs of an item and its copy.
Request ==
  [kind: Kinds, pc: PC, id: Places, to: Places, part: Parts, copy: Doc,
   walk: Walk, inPlace: BOOLEAN, from: Places, jobs: SUBSET Job,
   made: SUBSET (Places \X Items)]

Handler(kind, pc, i, p, d) ==
  [kind |-> kind, pc |-> pc, id |-> i, to |-> p, part |-> d.part, copy |-> d,
   walk |-> NoWalk, inPlace |-> FALSE, from |-> Root, jobs |-> {}, made |-> {}]

Idle == Handler("none", "idle", Root, Root, Blank)

At(q, pc) == [q EXCEPT !.pc = pc]
Holding(q, d) == [q EXCEPT !.copy = d]

\* _collect_descendant_ids as it starts.
Walker(q) ==
  [At(q, "walk") EXCEPT !.walk = [seen |-> {q.id}, queue |-> {q.id}, calm |-> TRUE]]

Continue(r, q) ==
  /\ req' = [req EXCEPT ![r] = q]
  /\ UNCHANGED <<doc, requests, lapses>>

\* A database write.  A walk stays calm while no other handler changes who is
\* stored under whom.
Disturbed(q, d) ==
  [q EXCEPT !.walk = [q.walk EXCEPT !.calm = q.walk.calm /\ Shape(d) = Shape(doc)]]
Write(r, q, d) ==
  /\ doc' = d
  /\ req' = [s \in Reqs |-> IF s = r THEN q ELSE Disturbed(req[s], d)]
  /\ UNCHANGED requests

Begin(r, q) ==
  /\ req[r].pc = "idle"
  /\ requests < MaxRequests
  /\ requests' = requests + 1
  /\ req' = [req EXCEPT ![r] = q]
  /\ UNCHANGED <<doc, lapses>>

\* What is checked here without being modelled may end a request before its
\* first write: locks, shares, quota and entitlement, the store of new content.
Refuse(r) ==
  /\ req[r].pc \in {"check", "target", "insert", "reread"}
       \/ (req[r].pc = "save" /\ req[r].kind = "touch")
  /\ Continue(r, Idle)

Lapses == {"intoBin", "outOfBin", "underFile", "belowItself", "aboveLive",
           "mixedParts", "unchecked"}
Lapse(name, happens) == IF happens THEN {name} ELSE {}

-------------------------------------------------------------------------------
(* Creating: folders, uploads, the merge of an upload in chunks, and the     *)
(* files and folders of the workspace routes.  Only the workspace routes ask *)
(* for a parent that is a folder, none asks for one outside the bin.         *)

MakesFolder(kind) == kind \in {"folder", "workspaceFolder"}
ParentAccepted(kind, p) ==
  IF kind \in {"workspaceFile", "workspaceFolder"}
    THEN Stored(p) /\ p \in Folders
    ELSE p = Root \/ Stored(p)

BeginCreate(r, kind, p, name, part) ==
  /\ ParentAccepted(kind, p)
  /\ p # Root => part = doc[p].part
  /\ Begin(r, Handler(kind, IF kind = "upload" THEN "insert" ELSE "check", Root, p,
                      [status |-> "live", name |-> name, parent |-> p, part |-> part]))

\* Faulty: the top level is looked up as a folder and nothing is found there.
NameTakenBelowRoot(name, p, folder, except) ==
  \E i \in Items \ except :
    /\ Live(i) /\ doc[i].name = name /\ doc[i].parent = p /\ p # Root
    /\ (i \in Folders) = folder

\* check_duplicate_name, where folder is the type asked for.
NameTaken(name, p, folder, except) ==
  \E i \in Items \ except :
    /\ Live(i) /\ doc[i].name = name /\ doc[i].parent = p
    /\ (i \in Folders) = folder

CheckCreate(r) ==
  LET q == req[r] IN
  /\ q.pc = "check" /\ q.kind \in Creates
  /\ Continue(r, IF NameTaken(q.copy.name, q.to, MakesFolder(q.kind), {})
                   THEN Idle ELSE At(q, "insert"))

Insert(r, i) ==
  LET q == req[r] IN
  /\ q.pc = "insert"
  /\ Fresh(i) /\ (i \in Folders) = MakesFolder(q.kind)
  /\ Write(r, Idle, [doc EXCEPT ![i] = q.copy])
  /\ lapses' = lapses \cup Lapse("intoBin", Binned(q.to))
                 \cup Lapse("underFile", q.to \in Items \ Folders)
                 \cup Lapse("unchecked", q.kind = "upload")

-------------------------------------------------------------------------------
(* Renaming, and the handlers that change a field that is not modelled: star,*)
(* lock, hide, share and file content.  They write back all they have read.  *)

BeginRename(r, kind, i, name) ==
  /\ IF kind = "workspaceRename" THEN Live(i) ELSE Stored(i)
  /\ Begin(r, Handler(kind, "check", i, Root, [doc[i] EXCEPT !.name = name]))

\* The workspace route does not leave the item itself out of the check.
CheckRename(r) ==
  LET q == req[r] IN
  /\ q.pc = "check" /\ q.kind \in {"rename", "workspaceRename"}
  /\ Continue(r, IF NameTaken(q.copy.name, q.copy.parent, q.id \in Folders,
                              IF q.kind = "rename" THEN {q.id} ELSE {})
                   THEN Idle ELSE At(q, "save"))

BeginTouch(r, i) == Stored(i) /\ Begin(r, Handler("touch", "save", i, Root, doc[i]))

\* Faulty: a move does not go on to what lies below the folder.
SaveAlone(r) ==
  LET q == req[r] IN
  /\ q.pc = "save"
  /\ Write(r, Idle, [doc EXCEPT ![q.id] = q.copy])
  /\ lapses' = lapses
       \cup Lapse("belowItself", q.kind = "move" /\ q.to \in Subtree(doc, q.id) \ {q.id})
       \cup Lapse("intoBin", q.kind = "move" /\ Binned(q.to))
       \cup Lapse("unchecked", q.kind = "move")
       \cup Lapse("aboveLive", q.kind = "workspaceBin" /\ \E i \in ChildrenOf(q.id) : Live(i))

\* save() of the document the handler holds.
Save(r) ==
  LET q == req[r] IN
  /\ q.pc = "save"
  /\ Write(r, IF q.kind = "move" /\ q.id \in Folders THEN Walker(q) ELSE Idle,
           [doc EXCEPT ![q.id] = q.copy])
  /\ lapses' = lapses
       \cup Lapse("belowItself", q.kind = "move" /\ q.to \in Subtree(doc, q.id) \ {q.id})
       \cup Lapse("intoBin", q.kind = "move" /\ Binned(q.to))
       \cup Lapse("unchecked", q.kind = "move")
       \cup Lapse("aboveLive", q.kind = "workspaceBin" /\ \E i \in ChildrenOf(q.id) : Live(i))

-------------------------------------------------------------------------------
(* Moving *)

\* Faulty: nothing keeps an item from being its own parent.
BeginMoveAnywhere(r, i, p) ==
  Stored(i) /\ Begin(r, Handler("move", "target", i, p, doc[i]))

BeginMove(r, i, p) ==
  /\ Stored(i) /\ i # p
  /\ Begin(r, Handler("move", "target", i, p, doc[i]))

\* The target only has to be there and to be a folder.
CheckTarget(r) ==
  LET q == req[r] IN
  /\ q.pc = "target" /\ q.kind = "move"
  /\ Continue(r, IF q.to = Root \/ (Stored(q.to) /\ q.to \in Folders)
                   THEN At(q, "place") ELSE Idle)

\* Faulty: the item is accounted to its folder instead of the partition.
PlaceUnderFolder(r) ==
  LET q == req[r] IN
  /\ q.pc = "place"
  /\ Continue(r, Holding(At(q, "save"), [[q.copy EXCEPT !.parent = q.to] EXCEPT !.part = q.to]))

\* crud.move_item reads the target again, for its partition.
Place(r) ==
  LET q == req[r]
      part == IF Stored(q.to) THEN doc[q.to].part ELSE NoPart
  IN
  /\ q.pc = "place"
  /\ Continue(r, Holding(At(q, "save"), [[q.copy EXCEPT !.parent = q.to] EXCEPT !.part = part]))

-------------------------------------------------------------------------------
(* Walking: _collect_descendant_ids sends one query for each folder, and the *)
(* caller then updates or deletes all the ids at once.  The code works its   *)
(* queue first in, first out; any order is allowed here.                     *)

\* The walk has found the children of one more folder.
Found(q, found, left) ==
  [At(q, IF left = {} THEN "update" ELSE "walk") EXCEPT
     !.walk = [seen |-> q.walk.seen \cup found, queue |-> left, calm |-> q.walk.calm]]

\* Faulty: the walk looks at the children of the item only.
ExpandOnce(r, x) ==
  /\ req[r].pc = "walk" /\ x \in req[r].walk.queue
  /\ Continue(r, Found(req[r], ChildrenOf(x), {}))

\* Faulty: the walk does not remember the folders it has queried.
ExpandAgain(r, x) ==
  LET q == req[r] IN
  /\ q.pc = "walk" /\ x \in q.walk.queue
  /\ Continue(r, Found(q, ChildrenOf(x),
                       (q.walk.queue \ {x}) \cup (ChildrenOf(x) \cap Folders)))

Expand(r, x) ==
  LET q == req[r]
      found == ChildrenOf(x) \ q.walk.seen
  IN
  /\ q.pc = "walk" /\ x \in q.walk.queue
  /\ Continue(r, Found(q, found, (q.walk.queue \ {x}) \cup (found \cap Folders)))

Updated(q, d) ==
  CASE q.kind = "bin" -> [d EXCEPT !.status = "bin"]
    [] q.kind = "restore" -> [d EXCEPT !.status = "live"]
    [] q.kind = "move" -> [d EXCEPT !.part = q.copy.part]
    [] OTHER -> Purged

Update(r) ==
  LET q == req[r] IN
  /\ q.pc = "update"
  /\ Write(r, Idle, [i \in Items |-> IF Stored(i) /\ i \in q.walk.seen
                                       THEN Updated(q, doc[i]) ELSE doc[i]])
  /\ lapses' = lapses
       \cup Lapse("unchecked", q.kind = "restore")
       \cup Lapse("outOfBin", q.kind = "restore" /\ Stored(q.id) /\ Binned(doc[q.id].parent))

BeginDelete(r, i, permanent) ==
  /\ Stored(i)
  /\ Begin(r, Walker(Handler(IF permanent \/ Binned(i) THEN "purge" ELSE "bin",
                             "walk", i, Root, doc[i])))

BeginRestore(r, i) ==
  /\ Binned(i)
  /\ Begin(r, Walker(Handler("restore", "walk", i, Root, doc[i])))

-------------------------------------------------------------------------------
(* The delete of the workspace routes: the item, read twice, and nothing     *)
(* below it.                                                                 *)

BeginWorkspaceDelete(r, i) ==
  Stored(i) /\ Begin(r, Handler("workspaceBin", "reread", i, Root, doc[i]))

Reread(r) ==
  LET q == req[r] IN
  /\ q.pc = "reread"
  /\ Continue(r, IF Stored(q.id)
                   THEN Holding(At(q, "save"), [doc[q.id] EXCEPT !.status = "bin"])
                   ELSE Idle)

-------------------------------------------------------------------------------
(* Emptying the bin, formatting a partition: one query lists the objects to  *)
(* delete from B2, a second one deletes the documents.                       *)

PurgeAll(r, S) ==
  /\ Write(r, Idle, [i \in Items |-> IF i \in S THEN Purged ELSE doc[i]])
  /\ UNCHANGED lapses

BeginEmptyBin(r) ==
  /\ \E i \in Items : Binned(i)
  /\ Begin(r, Handler("emptyBin", "empty", Root, Root, Blank))
EmptyBin(r) ==
  req[r].pc = "empty" /\ PurgeAll(r, {i \in Items : Binned(i)})

BeginFormat(r, p) ==
  Begin(r, Handler("format", "format", Root, Root, [Blank EXCEPT !.part = p]))
Format(r) ==
  /\ req[r].pc = "format"
  /\ PurgeAll(r, {i \in Items : Stored(i) /\ doc[i].part = req[r].part})

-------------------------------------------------------------------------------
(* Duplicating: the item gets a name with a suffix, and each item below it a *)
(* copy of its own, listed folder by folder while the copies are inserted.   *)
(* The code descends into a child before it copies the next one; here the    *)
(* calls that are left are taken in any order.                               *)

BeginDuplicate(r, i, inPlace, p) ==
  /\ Stored(i)
  /\ inPlace => p = doc[i].parent
  /\ Begin(r, [Handler("duplicate", "target", i, p, doc[i]) EXCEPT !.inPlace = inPlace])

DuplicatePart(q) ==
  IF Stored(q.to) THEN doc[q.to].part
  ELSE IF q.inPlace /\ q.to = Root THEN q.copy.part ELSE NoPart

DuplicateTarget(r) ==
  LET q == req[r] IN
  /\ q.pc = "target" /\ q.kind = "duplicate"
  /\ Continue(r, IF q.inPlace \/ q.to = Root \/ (Stored(q.to) /\ q.to \in Folders)
                   THEN [At(q, "count") EXCEPT !.part = DuplicatePart(q)]
                   ELSE Idle)

\* The suffix is " copy", or " copy k" when k - 1 items are called a copy.
CountCopies(r) ==
  LET q == req[r]
      copies == {i \in Items : /\ Live(i) /\ doc[i].parent = q.to
                               /\ doc[i].name.base = q.copy.name.base
                               /\ doc[i].name.copy > 0}
  IN
  /\ q.pc = "count"
  /\ Continue(r, [At(q, "put") EXCEPT !.jobs =
       {[src |-> q.id, name |-> [q.copy.name EXCEPT !.copy = Cardinality(copies) + 1],
         own |-> q.copy.part, into |-> q.to, part |-> q.part]}])

\* One copy more, and the calls that are left.
Copied(q, j, i, left) ==
  [[q EXCEPT !.jobs = left] EXCEPT !.made = @ \cup {<<j.src, i>>}]

Put(r, j, i) ==
  LET q == req[r]
      part == IF j.part # NoPart THEN j.part ELSE j.own
      left == q.jobs \ {j}
      rest == Copied(q, j, i, left)
  IN
  /\ q.pc = "put" /\ j \in q.jobs
  /\ Fresh(i) /\ SameType(i, j.src)
  /\ Write(r, IF i \in Folders
                THEN [[[At(rest, "list") EXCEPT !.from = j.src] EXCEPT !.to = i] EXCEPT !.part = part]
                ELSE At(rest, IF left = {} THEN "respond" ELSE "put"),
           [doc EXCEPT ![i] =
              [status |-> "live", name |-> j.name, parent |-> j.into, part |-> part]])
  /\ lapses' = lapses \cup {"unchecked"} \cup Lapse("intoBin", Binned(j.into))
                 \cup Lapse("mixedParts", Stored(j.into) /\ doc[j.into].part # part)

\* Faulty: what is in the bin is copied too.
ListWithBin(r) ==
  LET q == req[r]
      jobs == q.jobs \cup
        {[src |-> c, name |-> doc[c].name, own |-> doc[c].part, into |-> q.to,
          part |-> q.part] : c \in ChildrenOf(q.from)}
  IN
  /\ q.pc = "list"
  /\ Continue(r, [At(q, IF jobs = {} THEN "respond" ELSE "put") EXCEPT !.jobs = jobs])

\* Faulty: the folders in the folder are left out.
ListFiles(r) ==
  LET q == req[r]
      jobs == q.jobs \cup
        {[src |-> c, name |-> doc[c].name, own |-> doc[c].part, into |-> q.to,
          part |-> q.part] : c \in {k \in ChildrenOf(q.from) : Live(k) /\ k \notin Folders}}
  IN
  /\ q.pc = "list"
  /\ Continue(r, [At(q, IF jobs = {} THEN "respond" ELSE "put") EXCEPT !.jobs = jobs])

ListChildren(r) ==
  LET q == req[r]
      jobs == q.jobs \cup
        {[src |-> c, name |-> doc[c].name, own |-> doc[c].part, into |-> q.to,
          part |-> q.part] : c \in {k \in ChildrenOf(q.from) : Live(k)}}
  IN
  /\ q.pc = "list"
  /\ Continue(r, [At(q, IF jobs = {} THEN "respond" ELSE "put") EXCEPT !.jobs = jobs])

Respond(r) == req[r].pc = "respond" /\ Continue(r, Idle)

-------------------------------------------------------------------------------
(* The program *)

\* Any tree that creates and deletes can leave, bin included.
NoCycle(d) ==
  \A S \in (SUBSET Items) \ {{}} :
    \E i \in S : <<i, d[i].parent>> \notin Shape(d) \/ d[i].parent \notin S

\* What check_duplicate_name is for.
NamesDiffer(d) ==
  \A i, j \in {k \in Items : d[k].status = "live"} :
    i # j /\ d[i].parent = d[j].parent /\ d[i].name = d[j].name => ~SameType(i, j)

InitialTree(d) ==
  /\ NoCycle(d)
  /\ \A i \in Items : d[i] # Blank /\ d[i].parent # Root =>
       LET p == d[d[i].parent] IN
       /\ p.status = "live" \/ (p.status = "bin" /\ d[i].status = "bin")
       /\ p.part = d[i].part
  /\ NamesDiffer(d)

OldDoc == [status: {"live", "bin"}, name: {Blank.name},
           parent: (Old \cap Folders) \cup {Root}, part: Parts]
InitialDocs ==
  {[i \in Items |-> IF i \in Old /\ d[i] # Blank
                      THEN [d[i] EXCEPT !.name = OldName[i]] ELSE Blank] :
     d \in [Old -> OldDoc \cup {Blank}]}

Init ==
  /\ doc \in {d \in InitialDocs : InitialTree(d)}
  /\ req = [r \in Reqs |-> Idle]
  /\ requests = 0
  /\ lapses = {}

BeginSome(r) ==
  \/ \E kind \in Creates, p \in Places, name \in Given, part \in Parts :
       BeginCreate(r, kind, p, name, part)
  \/ \E kind \in {"rename", "workspaceRename"}, i \in Items, name \in Given :
       BeginRename(r, kind, i, name)
  \/ \E i \in Items : BeginTouch(r, i)
  \/ \E i \in Items, p \in Places : BeginMove(r, i, p)
  \/ \E i \in Items, permanent \in BOOLEAN : BeginDelete(r, i, permanent)
  \/ \E i \in Items : BeginRestore(r, i)
  \/ \E i \in Items : BeginWorkspaceDelete(r, i)
  \/ BeginEmptyBin(r)
  \/ \E p \in Partitions : BeginFormat(r, p)
  \/ \E i \in Items, inPlace \in BOOLEAN, p \in Places :
       BeginDuplicate(r, i, inPlace, p)

Step(r) ==
  \/ Refuse(r)
  \/ CheckCreate(r)
  \/ \E i \in Items : Insert(r, i)
  \/ CheckRename(r)
  \/ Save(r)
  \/ CheckTarget(r)
  \/ Place(r)
  \/ \E x \in Items : Expand(r, x)
  \/ Update(r)
  \/ Reread(r)
  \/ EmptyBin(r)
  \/ Format(r)
  \/ DuplicateTarget(r)
  \/ CountCopies(r)
  \/ \E j \in req[r].jobs, i \in Items : Put(r, j, i)
  \/ ListChildren(r)
  \/ Respond(r)

Next == \E r \in Reqs : BeginSome(r) \/ Step(r)

\* The event loop resumes every handler whose database call has returned.
Fairness == \A r \in Reqs : WF_vars(Step(r))

Spec == Init /\ [][Next]_vars /\ Fairness

-------------------------------------------------------------------------------
(* Properties *)

\* The documents and the local state of every handler keep their shape.
TypeOK ==
  /\ doc \in [Items -> Doc]
  /\ req \in [Reqs -> Request]
  /\ requests \in 0..MaxRequests
  /\ lapses \subseteq Lapses

\* A walk that no other handler disturbed has collected exactly the item and
\* everything below it when delete, restore or move come to use its list:
\* nothing of a folder is left behind and nothing outside it is touched.
WalkCollectsSubtree ==
  \A r \in Reqs :
    req[r].pc = "update" /\ req[r].walk.calm => req[r].walk.seen = Subtree(doc, req[r].id)

\* Every request that creates nothing ends, also on a tree with a cycle: no
\* walk queries the same folder for ever.  (A creation may wait for an id, of
\* which the model has only so many, and the duplication of a folder into a
\* folder below it goes on copying its own copies.)
RequestsEnd ==
  \A r \in Reqs :
    req[r].pc # "idle" /\ req[r].kind \notin Creates \cup {"duplicate"}
      ~> req[r].pc = "idle"

\* What makes a walk end, however handlers interleave and on a tree with a
\* cycle too: no folder is queried twice.  What the walk has found and need not
\* query any more never shrinks, and each query adds its folder.
Finished(q) == q.walk.seen \ q.walk.queue
NoFolderQueriedTwice ==
  [][\A r \in Reqs : req[r].pc = "walk" /\ req[r]'.pc = "walk" =>
       \/ /\ req[r]'.walk.seen = req[r].walk.seen
          /\ req[r]'.walk.queue = req[r].walk.queue
       \/ \E x \in req[r].walk.queue : Finished(req[r]) \cup {x} \subseteq Finished(req[r])']_vars

AtRest == \A r \in Reqs : req[r].pc = "idle"

\* With one request at a time, the only way to a cycle of folders is the move
\* of a folder below itself, which move_item does not refuse, or below a file
\* that create_folder took for a parent.
FoldersFormATree == lapses \cap {"belowItself", "underFile"} = {} => NoCycle(doc)

\* With one request at a time, every item outside the bin lies in a folder
\* outside the bin, unless a request was accepted that put an item into a
\* binned folder, restored one out of it, or binned a folder on its own.
BinHoldsWholeFolders ==
  AtRest /\ lapses \cap {"intoBin", "outOfBin", "aboveLive", "underFile"} = {} =>
    \A i \in Items : Live(i) => doc[i].parent = Root \/ Live(doc[i].parent)

\* With one request at a time, deleting for good, emptying the bin and
\* formatting a partition leave no item without its parent folder, unless one
\* of the same requests had pulled them apart before.
NothingIsOrphaned ==
  AtRest /\ lapses \subseteq {"belowItself"} =>
    \A i \in Items : Stored(i) => doc[i].parent = Root \/ Stored(doc[i].parent)

\* With one request at a time, an item is accounted to the partition of its
\* folder, whatever was moved, unless a duplication mixed them or an item lies
\* below a file, where the walk of a move does not look.
FolderKeepsPartition ==
  AtRest /\ lapses \cap {"mixedParts", "underFile"} = {} =>
    \A i \in Items :
      Stored(i) /\ Stored(doc[i].parent) => doc[i].part = doc[doc[i].parent].part

\* With one request at a time, the items of one type in a folder that are not
\* in the bin have different names, unless a request that checks no name has
\* been accepted: an upload in one piece, a move, a restore or a duplication.
SiblingNamesDiffer == "unchecked" \notin lapses => NamesDiffer(doc)

\* With one request at a time, a duplication that answers has made one copy of
\* the item and of every item below it outside the bin, each in the copy of
\* its own folder and, below the top, under its own name.
CopyIsComplete ==
  \A r \in Reqs : req[r].pc = "respond" =>
    LET made == req[r].made IN
    /\ {m[1] : m \in made} = LiveSubtree(doc, req[r].id)
    /\ \A m, n \in made : m[1] = n[1] <=> m[2] = n[2]
    /\ \A m \in made : m[1] # req[r].id =>
         /\ <<doc[m[1]].parent, doc[m[2]].parent>> \in made
         /\ doc[m[1]].name = doc[m[2]].name /\ SameType(m[1], m[2])

\* Copying src to a place in the folder into does not end: into lies in the
\* folder src or below it, so that what is copied is found and copied again,
\* or src lies below itself.
LiveChild(d, k, p) == k \in Items /\ d[k].status = "live" /\ d[k].parent = p /\ p \in Folders
InRing(d, s) == \E p \in LiveSubtree(d, s) : LiveChild(d, s, p)
RunsAway(d, src, into) ==
  src \in Folders /\ (InRing(d, src) \/ into \in LiveSubtree(d, src) \cap Folders)

Endless(d, q) ==
  \/ q.pc \in {"put", "list"} /\ \E j \in q.jobs : RunsAway(d, j.src, j.into)
  \/ q.pc = "list" /\ RunsAway(d, q.from, q.to)

\* With one request at a time, a duplication with such a copy to make has one
\* to make after its every step: it never answers.  (The handler asks for a
\* target that is a folder, no more; what ends it in the end, and is not
\* modelled, is the limit Python sets to recursion.)
RunawayCopyGoesOn ==
  [][\A r \in Reqs : Endless(doc, req[r]) => Endless(doc, req[r])']_vars

\* The comment of delete_workspace_item: "Soft delete item and its
\* descendants".  When the handler is done, nothing below the item is live.
WorkspaceDeleteTakesDescendants ==
  [][\A r \in Reqs :
       req[r].kind = "workspaceBin" /\ req[r].pc = "save" /\ req'[r].pc = "idle" =>
         \A i \in Subtree(doc, req[r].id) : doc'[i].status # "live"]_vars
===============================================================================
