----------------------------- MODULE StorageQuota -----------------------------
(***************************************************************************)
(* The storage of one user: what uploads, uploads in chunks, duplicates,   *)
(* copies back from a code space, saves of documents and partitions book   *)
(* against the storage limit of the user and the sizes of his partitions   *)
(* (app/routes.py, app/partition_routes.py, app/workspace_routes.py,       *)
(* app/codespace_sync.py, app/crud.py).                                    *)
(*                                                                         *)
(* Every check reads the database and the booking follows some awaits      *)
(* later.  The chunks of an upload are files of a directory on disk and a  *)
(* lock in memory, made on demand and dropped with the directory, decides  *)
(* who puts them together.                                                 *)
(***************************************************************************)
EXTENDS Naturals, FiniteSets, FiniteSetsExt

CONSTANTS
  Files,        \* ids of file documents
  Uploads,      \* upload ids of clients that send a file in chunks
  Total,        \* chunks of such a file, each of size 1
  Parts,        \* ids of storage partitions
  NoPart,       \* partition_id None
  TargetOf,     \* the partition each upload in chunks goes to
  Workers,      \* handlers in flight at once
  Limits,       \* the limits an administrator or a plan gives
  Sizes,        \* sizes of uploads in one piece, of contents, copies, partitions
  MaxJobs,      \* bound: handlers that begin
  MaxEvents     \* bound: restarts, changes of the limit, the block or the bin

QuotaAssumption ==
  /\ IsFiniteSet(Files) /\ IsFiniteSet(Workers) /\ IsFiniteSet(Parts) /\ IsFiniteSet(Sizes)
  /\ Total \in Nat \ {0} /\ MaxJobs \in Nat /\ MaxEvents \in Nat
  /\ Limits \subseteq Nat /\ Sizes \subseteq Nat
  /\ NoPart \notin Parts \cup Uploads /\ TargetOf \in [Uploads -> Parts \cup {NoPart}]
  /\ Workers # {} /\ Workers \cap {"none", "whole", "torn"} = {}
ASSUME QuotaAssumption

VARIABLES
  file,       \* the size, bin flag, partition and name of each file document
  part,       \* the allocated size of each partition
  limit,      \* storage_limit_bytes of the user
  canUpload,  \* can_upload of his entitlement
  dir,        \* the directory of each upload: made or not, and its chunks
  lockGen,    \* how often the lock of each upload was dropped: names the lock
  job,        \* local state of each handler in flight
  jobs,       \* handlers begun so far
  events,     \* events so far
  unchecked,  \* history: the size booked so far without any check
  slips       \* history: overlaps and accepted steps that check nothing

quotaVars ==
  <<file, part, limit, canUpload, dir, lockGen, job, jobs, events, unchecked, slips>>

-------------------------------------------------------------------------------
(* Documents and directories *)

Index == 0..(Total - 1)
Zones == Parts \cup {NoPart}
Source == Uploads \cup {NoPart}

\* name says whose name the file has, in the folder of that upload; NoPart is
\* any other name or folder.  of is history: the upload that it was made from.
File == [state: {"fresh", "live", "bin", "purged"}, size: Nat, part: Zones,
         name: Source, of: Source]
NewFile == [state |-> "fresh", size |-> 0, part |-> NoPart, name |-> NoPart, of |-> NoPart]
Partition == [state: {"fresh", "live", "gone"}, size: Nat]

Kept(f) == file[f].state \in {"live", "bin"}
SizeOf(f) == IF Kept(f) THEN file[f].size ELSE 0

\* get_user_storage_size: every file counts, the bin included.
Used == MapThenSumSet(SizeOf, Files)

\* get_all_partitions_used_sizes: the bin does not count.
UsedIn(p) ==
  MapThenSumSet(SizeOf, {f \in Files : file[f].state = "live" /\ file[f].part = p})

LiveParts == {p \in Parts : part[p].state = "live"}
Allocated(S) == LET size(p) == part[p].size IN MapThenSumSet(size, S)

\* A chunk on disk is there in full, is being written, or was left half
\* written by a write that failed or a process that died.
Chunk == {"none", "whole", "torn"} \cup Workers
Directory == [made: BOOLEAN, chunk: [Index -> Chunk]]
NoDirectory == [made |-> FALSE, chunk |-> [c \in Index |-> "none"]]

\* Faulty: the last chunk is left out.
AllButLastExist(u) == \A c \in 0..(Total - 2) : dir[u].chunk[c] # "none"

\* os.path.exists does not tell a whole chunk from one that is being written.
AllChunksExist(u) == \A c \in Index : dir[u].chunk[c] # "none"
WholeChunks(u) == {c \in Index : dir[u].chunk[c] = "whole"}
PutChunk(u, c, content) == dir' = [dir EXCEPT ![u].chunk = [dir[u].chunk EXCEPT ![c] = content]]

\* check_duplicate_name for the name and folder of an upload: it asks for the
\* name that a file has now, wherever the file came from.
NameOfUploadTaken(u) ==
  u \in Uploads /\ \E f \in Files : file[f].state = "live" /\ file[f].name = u

-------------------------------------------------------------------------------
(* Handlers *)

Bookings == {"upload", "workspaceFile", "chunk"}
Copies == {"duplicate", "copyBack"}
JobKinds == Bookings \cup Copies \cup {"none", "save", "create", "resize", "format", "delete"}
Critical == {"dup", "merge", "quota", "insert", "store"}
Places == {"idle", "early", "make", "open", "write", "wait", "copy", "save", "fit",
           "sum", "put", "purge", "drop"} \cup Critical

\* max is the limit of the user as he was authenticated.
Job == [kind: JobKinds, pc: Places, file: Files \cup {NoPart}, copy: File,
        part: Zones, size: Nat, name: Source, of: Source, chunk: Index, lock: Nat,
        max: Nat]
NoJob == [kind |-> "none", pc |-> "idle", file |-> NoPart, copy |-> NewFile,
          part |-> NoPart, size |-> 0, name |-> NoPart, of |-> NoPart, chunk |-> 0,
          lock |-> 0, max |-> 0]

Goes(w, pc) == job' = [job EXCEPT ![w].pc = pc]
Ends(w) == job' = [job EXCEPT ![w] = NoJob]
Idles(w) == job[w].pc = "idle"
Slip(name, happens) == IF happens THEN {name} ELSE {}

\* The folder a request goes to has a partition that there is, or was.
Targets(p) == p \in Parts => part[p].state # "fresh"

StartJob(w, q) ==
  /\ Idles(w) /\ jobs < MaxJobs
  /\ jobs' = jobs + 1
  /\ job' = [job EXCEPT ![w] = q]
  /\ slips' = slips \cup Slip("overlap", \E v \in Workers : ~Idles(v))
                    \cup Slip("parallelChunks", \E v \in Workers : q.of \in Uploads /\ job[v].of = q.of)
  /\ UNCHANGED <<file, part, limit, canUpload, dir, lockGen, events, unchecked>>

\* A step that only moves on the handler.
JobOnly ==
  UNCHANGED <<file, part, limit, canUpload, dir, lockGen, jobs, events, unchecked, slips>>

\* rmtree and clean_upload_lock.  Who waits for the lock goes on waiting for
\* it, who comes now makes a new one.
CleanUp(w) ==
  LET u == job[w].of IN
  /\ dir' = [dir EXCEPT ![u] = NoDirectory]
  /\ lockGen' = [lockGen EXCEPT ![u] = @ + 1]
  /\ slips' = slips \cup Slip("abandonedLock",
       \E v \in Workers \ {w} : job[v].pc \in {"wait"} \cup Critical /\ job[v].of = u)
  /\ Ends(w)

-------------------------------------------------------------------------------
(* Booking a file: an upload in one piece, a file created in a workspace     *)

\* Only the workspace asks whether the name is free.
BeginUpload(w, kind, size, p, name) ==
  /\ Targets(p)
  /\ kind = "workspaceFile" => ~NameOfUploadTaken(name)
  /\ StartJob(w, [NoJob EXCEPT !.kind = kind, !.pc = "quota", !.part = p,
                               !.size = size, !.name = name])

\* Faulty: the merge takes the checks of the first chunk for its own.
QuotaRefusesUnlessMerged(q) ==
  /\ q.kind # "chunk" \/ Used >= limit
  /\ \/ ~canUpload
     \/ Used + q.size > limit
     \/ q.part \in LiveParts /\ UsedIn(q.part) + q.size > part[q.part].size

\* Faulty: the bin does not count against the limit.
QuotaRefusesWithoutBin(q) ==
  \/ ~canUpload
  \/ MapThenSumSet(SizeOf, {f \in Files : file[f].state = "live"}) + q.size > limit
  \/ q.part \in LiveParts /\ UsedIn(q.part) + q.size > part[q.part].size

\* The checks of entitlement, limit and partition.  Their queries follow one
\* another; they are taken together, as all of them can only be out of date by
\* the time of the insert.
QuotaRefuses(q) ==
  \/ ~canUpload
  \/ Used + q.size > limit
  \/ q.part \in LiveParts /\ UsedIn(q.part) + q.size > part[q.part].size

CheckQuota(w) ==
  LET q == job[w] IN
  /\ q.pc = "quota"
  /\ IF ~QuotaRefuses(q)
       THEN Goes(w, "insert") /\ JobOnly
     ELSE IF q.kind = "chunk"
       THEN CleanUp(w) /\ UNCHANGED <<file, part, limit, canUpload, jobs, events, unchecked>>
     ELSE Ends(w) /\ JobOnly

Inserts(f, size, p, name, of) ==
  /\ file[f].state = "fresh"
  /\ file' = [file EXCEPT ![f] =
       [state |-> "live", size |-> size, part |-> p, name |-> name, of |-> of]]

\* create_item.  What becomes of the upload to B2 changes no document.
BookFile(w, f) ==
  LET q == job[w] IN
  /\ q.pc = "insert"
  /\ Inserts(f, q.size, q.part, q.name, q.of)
  /\ IF q.kind = "chunk" THEN Goes(w, "store") ELSE Ends(w)
  /\ UNCHANGED <<part, limit, canUpload, dir, lockGen, jobs, events, unchecked, slips>>

-------------------------------------------------------------------------------
(* Booking files without a check: duplicates, and what a code space has on   *)
(* its disk                                                                  *)

BeginCopy(w, kind, p) ==
  /\ Targets(p)
  /\ StartJob(w, [NoJob EXCEPT !.kind = kind, !.pc = "copy", !.part = p])

\* One more file, of the size of the original or of the file on disk, whatever
\* the entitlement, the limit, the partition and the names say.  Without a
\* partition of its own a duplicate takes that of its original.
CopyFile(w, f, size, p, name) ==
  LET q == job[w] IN
  /\ q.pc = "copy"
  /\ p = q.part \/ (q.kind = "duplicate" /\ q.part = NoPart /\ Targets(p))
  /\ Inserts(f, size, p, name, NoPart)
  /\ unchecked' = unchecked + size
  /\ UNCHANGED <<part, limit, canUpload, dir, lockGen, job, jobs, events, slips>>

EndCopy(w) == job[w].pc = "copy" /\ Ends(w) /\ JobOnly

-------------------------------------------------------------------------------
(* Uploading in chunks *)

BeginChunk(w, u, c) ==
  /\ Targets(TargetOf[u])
  /\ StartJob(w, [NoJob EXCEPT !.kind = "chunk", !.pc = IF c = 0 THEN "early" ELSE "make",
                               !.part = TargetOf[u], !.name = u, !.of = u, !.chunk = c])

\* The first chunk is refused when there is no room for anything.
CheckFirstChunk(w) ==
  LET q == job[w] IN
  /\ q.pc = "early"
  /\ IF \/ NameOfUploadTaken(q.name) \/ ~canUpload \/ Used >= limit
        \/ q.part \in LiveParts /\ UsedIn(q.part) >= part[q.part].size
       THEN Ends(w) ELSE Goes(w, "make")
  /\ JobOnly

MakeDirectory(w) ==
  /\ job[w].pc = "make"
  /\ dir' = [dir EXCEPT ![job[w].of].made = TRUE]
  /\ Goes(w, "open")
  /\ UNCHANGED <<file, part, limit, canUpload, lockGen, jobs, events, unchecked, slips>>

\* Opening the chunk for writing empties it.  The open fails when the directory
\* has been removed meanwhile, and it may fail, like the read of the request
\* before it, without that.
OpenChunk(w) ==
  LET q == job[w] IN
  /\ q.pc = "open"
  /\ \/ dir[q.of].made /\ PutChunk(q.of, q.chunk, w) /\ Goes(w, "write")
     \/ Ends(w) /\ UNCHANGED dir
  /\ UNCHANGED <<file, part, limit, canUpload, lockGen, jobs, events, unchecked, slips>>

\* The content is on disk, unless the chunk was removed or opened again, and
\* the handler takes the lock that the upload has now, or makes one; or the
\* write fails, the handler answers with an error and leaves what it has written.
WriteChunk(w) ==
  LET q == job[w] IN
  /\ q.pc = "write"
  /\ \E content \in {"whole", "torn"} :
       /\ IF dir[q.of].chunk[q.chunk] = w THEN PutChunk(q.of, q.chunk, content) ELSE UNCHANGED dir
       /\ IF content = "whole"
            THEN job' = [job EXCEPT ![w] = [q EXCEPT !.pc = "wait", !.lock = lockGen[q.of]]]
            ELSE Ends(w)
  /\ UNCHANGED <<file, part, limit, canUpload, lockGen, jobs, events, unchecked, slips>>

\* Faulty: nobody waits for the lock.
LockFreeAlways(w) == TRUE

LockFree(w) ==
  \A v \in Workers :
    job[v].kind = "chunk" /\ job[v].pc \in Critical =>
      job[v].of # job[w].of \/ job[v].lock # job[w].lock

\* Under the lock: go on when all chunks exist, else answer and leave.
EnterLock(w) ==
  /\ job[w].pc = "wait" /\ LockFree(w)
  /\ IF AllChunksExist(job[w].of) THEN Goes(w, "dup") ELSE Ends(w)
  /\ JobOnly

CheckMergedName(w) ==
  /\ job[w].pc = "dup"
  /\ IF NameOfUploadTaken(job[w].name)
       THEN CleanUp(w) /\ UNCHANGED <<file, part, limit, canUpload, jobs, events, unchecked>>
       ELSE Goes(w, "merge") /\ JobOnly

\* The chunks are read one after the other; a missing one raises, and so may
\* any of the reads and writes.
MergeChunks(w) ==
  LET q == job[w] IN
  /\ q.pc = "merge"
  /\ \/ /\ AllChunksExist(q.of)
        /\ job' = [job EXCEPT ![w] =
             [q EXCEPT !.pc = "quota", !.size = Cardinality(WholeChunks(q.of))]]
        /\ JobOnly
     \/ CleanUp(w) /\ UNCHANGED <<file, part, limit, canUpload, jobs, events, unchecked>>

\* The upload to B2 has ended, well or not: the finally clause.
FinishChunks(w) ==
  /\ job[w].pc = "store"
  /\ CleanUp(w)
  /\ UNCHANGED <<file, part, limit, canUpload, jobs, events, unchecked>>

-------------------------------------------------------------------------------
(* Saving a document as it was read: new content, rename, star, move         *)

BeginItemSave(w, f, copy) ==
  /\ Kept(f)
  /\ StartJob(w, [NoJob EXCEPT !.kind = "save", !.pc = "save", !.file = f, !.copy = copy])

BeginContent(w, f, size) == BeginItemSave(w, f, [file[f] EXCEPT !.size = size])

\* A new name is checked; a star keeps the name.
BeginRename(w, f, name) ==
  /\ name = file[f].name \/ ~NameOfUploadTaken(name)
  /\ BeginItemSave(w, f, [file[f] EXCEPT !.name = name])

\* A move looks neither at names nor at sizes.
BeginMove(w, f, p, name) ==
  /\ Targets(p)
  /\ BeginItemSave(w, f, [file[f] EXCEPT !.part = p, !.name = name])

Growth(q) == IF q.copy.size > SizeOf(q.file) THEN q.copy.size - SizeOf(q.file) ELSE 0

\* The whole document is saved as it was read, whatever has become of it and
\* whatever the limit.
SaveItem(w) ==
  LET q == job[w]
      f == q.file IN
  /\ q.pc = "save"
  /\ file' = [file EXCEPT ![f] = q.copy]
  /\ Ends(w)
  /\ unchecked' = unchecked + Growth(q)
  /\ slips' = slips \cup Slip("restored", q.copy.state = "live" /\ file[f].state # "live")
                    \cup Slip("moved", q.copy.part # file[f].part)
                    \cup Slip("renamed", q.copy.name # file[f].name)
  /\ UNCHANGED <<part, limit, canUpload, dir, lockGen, jobs, events>>

\* The upload of the content to B2 has failed, or the save itself.
FailSave(w) == job[w].pc = "save" /\ Ends(w) /\ JobOnly

-------------------------------------------------------------------------------
(* Partitions *)

BeginPart(w, kind, pc, p, size) ==
  StartJob(w, [NoJob EXCEPT !.kind = kind, !.pc = pc, !.part = p, !.size = size, !.max = limit])

BeginCreatePart(w, p, size) ==
  part[p].state = "fresh" /\ BeginPart(w, "create", "sum", p, size)

BeginResizePart(w, p, size) ==
  part[p].state = "live" /\ BeginPart(w, "resize", "fit", p, size)

\* A partition is not made smaller than what is in it.
CheckFit(w) ==
  /\ job[w].pc = "fit"
  /\ IF job[w].size < UsedIn(job[w].part) THEN Ends(w) ELSE Goes(w, "sum")
  /\ JobOnly

\* Faulty: a partition that grows is compared without the others.
FitsAlone(q) == q.size <= q.max

\* The sizes of all partitions fit the limit the user had when he was
\* authenticated.
FitsWithOthers(q) == Allocated(LiveParts \ {q.part}) + q.size <= q.max

CheckSum(w) ==
  /\ job[w].pc = "sum"
  /\ IF FitsWithOthers(job[w]) THEN Goes(w, "put") ELSE Ends(w)
  /\ JobOnly

\* insert, or $set, which changes nothing when the partition is gone.
PutPart(w) ==
  LET q == job[w] IN
  /\ q.pc = "put"
  /\ part' = IF q.kind = "create" \/ part[q.part].state = "live"
               THEN [part EXCEPT ![q.part] = [state |-> "live", size |-> q.size]] ELSE part
  /\ Ends(w)
  /\ UNCHANGED <<file, limit, canUpload, dir, lockGen, jobs, events, unchecked, slips>>

\* format_partition, which delete_partition calls first.
BeginPurgePart(w, p, kind) ==
  part[p].state = "live" /\ StartJob(w, [NoJob EXCEPT !.kind = kind, !.pc = "purge", !.part = p])

PurgePart(w) ==
  LET q == job[w] IN
  /\ q.pc = "purge"
  /\ file' = [f \in Files |-> IF Kept(f) /\ file[f].part = q.part
                                THEN [file[f] EXCEPT !.state = "purged"] ELSE file[f]]
  /\ IF q.kind = "delete" THEN Goes(w, "drop") ELSE Ends(w)
  /\ UNCHANGED <<part, limit, canUpload, dir, lockGen, jobs, events, unchecked, slips>>

DropPart(w) ==
  /\ job[w].pc = "drop"
  /\ part' = [part EXCEPT ![job[w].part] = [state |-> "gone", size |-> 0]]
  /\ Ends(w)
  /\ UNCHANGED <<file, limit, canUpload, dir, lockGen, jobs, events, unchecked, slips>>

-------------------------------------------------------------------------------
(* The rest of the program *)

Occurs == events < MaxEvents /\ events' = events + 1

\* edit_user_limit, or another plan.
SetLimit(l) ==
  /\ l # limit /\ Occurs
  /\ limit' = l
  /\ slips' = slips \cup Slip("lowered", l < limit)
  /\ UNCHANGED <<file, part, canUpload, dir, lockGen, job, jobs, unchecked>>

\* The worker blocks uploads after the grace period, a payment allows them.
SetCanUpload(allowed) ==
  /\ canUpload # allowed /\ Occurs
  /\ canUpload' = allowed
  /\ UNCHANGED <<file, part, limit, dir, lockGen, job, jobs, unchecked, slips>>

\* Into the bin, out of it, or removed for good: the documents are not read
\* before, and nothing else of them is written.
ChangeState(f) ==
  /\ Kept(f) /\ Occurs
  /\ \E state \in {"live", "bin", "purged"} \ {file[f].state} :
       /\ file' = [file EXCEPT ![f].state = state]
       /\ slips' = slips \cup Slip("restored", state = "live")
  /\ UNCHANGED <<part, limit, canUpload, dir, lockGen, job, jobs, unchecked>>

\* The handlers and the locks are gone, the directories stay.
RestartProcess ==
  /\ Occurs
  /\ job' = [w \in Workers |-> NoJob]
  /\ dir' = [u \in Uploads |->
       [dir[u] EXCEPT !.chunk = [c \in Index |->
          IF dir[u].chunk[c] \in Workers THEN "torn" ELSE dir[u].chunk[c]]]]
  /\ UNCHANGED <<file, part, limit, canUpload, lockGen, jobs, unchecked, slips>>

-------------------------------------------------------------------------------
(* The program *)

QuotaInit ==
  /\ file = [f \in Files |-> NewFile]
  /\ part = [p \in Parts |-> [state |-> "fresh", size |-> 0]]
  /\ limit \in Limits
  /\ canUpload = TRUE
  /\ dir = [u \in Uploads |-> NoDirectory]
  /\ lockGen = [u \in Uploads |-> 0]
  /\ job = [w \in Workers |-> NoJob]
  /\ jobs = 0 /\ events = 0
  /\ unchecked = 0 /\ slips = {}

BeginJob(w) ==
  \/ \E kind \in {"upload", "workspaceFile"}, size \in Sizes, p \in Zones, name \in Source :
       BeginUpload(w, kind, size, p, name)
  \/ \E kind \in Copies, p \in Zones : BeginCopy(w, kind, p)
  \/ \E u \in Uploads, c \in Index : BeginChunk(w, u, c)
  \/ \E f \in Files, size \in Sizes : BeginContent(w, f, size)
  \/ \E f \in Files, name \in Source : BeginRename(w, f, name)
  \/ \E f \in Files, p \in Zones, name \in Source : BeginMove(w, f, p, name)
  \/ \E p \in Parts, size \in Sizes : BeginCreatePart(w, p, size)
  \/ \E p \in Parts, size \in Sizes : BeginResizePart(w, p, size)
  \/ \E p \in Parts, kind \in {"format", "delete"} : BeginPurgePart(w, p, kind)

JobStep(w) ==
  \/ CheckQuota(w)
  \/ \E f \in Files : BookFile(w, f)
  \/ CheckFirstChunk(w)
  \/ MakeDirectory(w)
  \/ OpenChunk(w)
  \/ WriteChunk(w)
  \/ EnterLock(w)
  \/ CheckMergedName(w)
  \/ MergeChunks(w)
  \/ FinishChunks(w)
  \/ EndCopy(w)
  \/ SaveItem(w)
  \/ FailSave(w)
  \/ CheckFit(w)
  \/ CheckSum(w)
  \/ PutPart(w)
  \/ PurgePart(w)
  \/ DropPart(w)

\* The originals are files of this user, or of another one who shares them.
CopyStep(w) ==
  \E f \in Files, size \in Sizes \cup {file[g].size : g \in {h \in Files : Kept(h)}},
     p \in Zones, name \in Source :
    CopyFile(w, f, size, p, name)

QuotaNext ==
  \/ \E w \in Workers : BeginJob(w) \/ JobStep(w) \/ CopyStep(w)
  \/ \E f \in Files : ChangeState(f)
  \/ \E l \in Limits : SetLimit(l)
  \/ \E allowed \in BOOLEAN : SetCanUpload(allowed)
  \/ RestartProcess

QuotaSpec == QuotaInit /\ [][QuotaNext]_quotaVars

-------------------------------------------------------------------------------
(* Properties *)

\* The documents, directories and handlers of the storage keep their shape.
QuotaTypeOK ==
  /\ file \in [Files -> File]
  /\ part \in [Parts -> Partition]
  /\ limit \in Limits /\ canUpload \in BOOLEAN
  /\ dir \in [Uploads -> Directory]
  /\ lockGen \in [Uploads -> Nat]
  /\ job \in [Workers -> Job]
  /\ jobs \in 0..MaxJobs /\ events \in 0..MaxEvents
  /\ unchecked \in Nat
  /\ slips \subseteq {"overlap", "parallelChunks", "abandonedLock", "restored", "moved",
                      "renamed", "lowered"}

\* Uploads check the used storage and book some awaits later, so several of
\* them exceed the limit together.  By how much is bounded: what is booked, and
\* what has passed the check and will be, is at most the limit, the largest
\* file for every other handler in flight, and what duplicates, copies back
\* from a code space and saves have added, which nothing checks - unless the
\* limit was lowered.
LargestFile == Max(Sizes \cup {Total})
Passed == {w \in Workers : job[w].pc = "insert"}
Promised == LET size(w) == job[w].size IN MapThenSumSet(size, Passed)
OvershootIsBounded ==
  "lowered" \notin slips =>
    Used + Promised <= limit + (Cardinality(Workers) - 1) * LargestFile + unchecked

\* While uploads are blocked, what is booked and what has passed the checks
\* grows by nothing but duplicates, copies back and saved contents, which ask
\* for no entitlement: an upload in chunks that began before the block is not
\* merged any more, and what passed before is all that still comes.
BlockStopsGrowth ==
  [][~canUpload => Used' + Promised' + unchecked <= Used + Promised + unchecked']_quotaVars

\* With one handler at a time, the partitions together stay within the limit of
\* the user - unless it was lowered - and the files in a partition within its
\* size - unless something was booked unchecked, by a duplicate, a copy back or
\* a save, or a file was moved or came back from the bin: none of that looks at
\* the room in a partition.
PartitionsFit ==
  "overlap" \notin slips =>
    /\ "lowered" \notin slips => Allocated(LiveParts) <= limit
    /\ unchecked = 0 /\ slips \cap {"restored", "moved"} = {} =>
         \A p \in LiveParts : UsedIn(p) <= part[p].size

\* An upload in chunks leaves at most one file outside the bin, however often
\* chunks are sent again and however the handlers interleave - unless the lock
\* of the upload was dropped while somebody waited for it, or the name was
\* freed for another: its file was renamed, moved to another folder, or came
\* back from the bin.
UploadBookedOnce ==
  slips \cap {"abandonedLock", "restored", "renamed"} = {} =>
    \A u \in Uploads :
      Cardinality({f \in Files : file[f].state = "live" /\ file[f].of = u}) <= 1

\* The file of a client that sends one chunk at a time lacks only the chunks
\* that a failed write or a restart left half written and nobody sent again:
\* the merge looks at their existence alone.  It lacks no other, whatever else
\* runs and however often the client or the program starts again.
TornChunks(u) == {c \in Index : dir[u].chunk[c] = "torn"}
MergedFileIsWhole ==
  "parallelChunks" \notin slips =>
    \A w \in Workers :
      job[w].kind = "chunk" /\ job[w].pc \in {"insert", "store"} =>
        job[w].size + Cardinality(TornChunks(job[w].of)) = Total

\* An upload is refused for the limit only when the files outside the bin leave
\* no room for it: docs/billing-v2-database-plan.md says that the aggregation of
\* storage takes the files with is_deleted == False.  The aggregation does not
\* look at is_deleted.
LiveUsed == MapThenSumSet(SizeOf, {f \in Files : file[f].state = "live"})
BinIsNotCounted ==
  \A w \in Workers :
    job[w].pc = "quota" /\ Used + job[w].size > limit => LiveUsed + job[w].size > limit
===============================================================================
