----------------------------- MODULE ObjectMirror -----------------------------
(***************************************************************************)
(* Where the contents of a user's files are: the objects in Backblaze B2   *)
(* and the directory of a codespace on disk, beside the documents of the   *)
(* tree (app/b2.py, app/codespace_sync.py and the handlers of              *)
(* app/routes.py, app/crud.py and app/workspace_routes.py that call them). *)
(*                                                                         *)
(* The key of an object is spelled out of the first name of the user and   *)
(* the names of the file and its folders, so nearly every change of the    *)
(* tree must be followed by a change of keys; the tree is changed first,   *)
(* then the objects one by one, and whatever fails is logged.  What        *)
(* FileTree models in steps (walks, duplicate checks) is one step here.    *)
(* The .keep objects of folders hold nothing and are left out, but for     *)
(* that of the user's root, which the synchronisation at login asks for.   *)
(***************************************************************************)
EXTENDS Naturals, FiniteSets, Sequences, Functions

CONSTANTS
  Entries,       \* ids of documents
  Directories,   \* the ids that folders get
  Workspace,     \* the folder that is open as a codespace, there from the start
  WorkspaceName, \* its name
  Top,           \* parent_id None
  Labels,        \* names of files and folders
  Extends,       \* pairs of a name and a longer one that begins with it
  FirstNames,    \* first names of the user: the prefix of his keys
  Callers,       \* handlers and background tasks in flight at once
  MaxCalls,      \* bound: requests, tasks and programs that run
  MaxTrouble     \* bound: calls of B2 that fail, restarts

MirrorAssumption ==
  /\ IsFiniteSet(Entries) /\ Directories \subseteq Entries
  /\ Workspace \in Directories /\ WorkspaceName \in Labels
  /\ Top \notin Entries /\ Extends \subseteq Labels \X Labels
  /\ FirstNames # {} /\ MaxCalls \in Nat /\ MaxTrouble \in Nat
  /\ {"keep", "meta", "empty", "made"} \cap (Entries \cup Labels) = {}
ASSUME MirrorAssumption

VARIABLES
  entry,     \* name, parent and bin flag of each document
  first,     \* first name of the user
  bucket,    \* the objects: a function from keys to contents
  disk,      \* the files in the codespace: from names to contents
  syncing,   \* _active_syncs holds the workspace
  strays,    \* uploads in the background: key and content
  call,      \* local state of each handler or task
  calls,     \* begun so far
  trouble,   \* failures so far
  mishaps    \* history: what has parted the objects from the tree

mirrorVars ==
  <<entry, first, bucket, disk, syncing, strays, call, calls, trouble, mishaps>>

-------------------------------------------------------------------------------
(* Keys *)

\* A content is named after the file it was uploaded for; "made" is what a
\* program wrote, "meta" the placeholder of the synchronisation at login,
\* "empty" what is left of a failed download.
Contents == Entries \cup {"meta", "made", "empty", "keep"}
Entry == [state: {"fresh", "live", "bin", "gone"}, name: Labels,
          parent: Entries \cup {Top}, content: Contents]

Stays(i) == i \in Entries /\ entry[i].state \in {"live", "bin"}
FilesKept == {i \in Entries \ Directories : Stays(i)}

\* get_item_path: up through the parents that are still there.
PathOf(d) ==
  LET path[e \in Entry] ==
        IF Stays(e.parent) THEN Append(path[entry[e.parent]], e.name) ELSE <<e.name>>
  IN  path[d]
KeyOf(d) == <<first>> \o PathOf(d)
RootKeep(n) == <<n, "keep">>

\* One key begins with another, as strings.
BeginsWith(l, k) ==
  /\ Len(k) <= Len(l)
  /\ SubSeq(k, 1, Len(k) - 1) = SubSeq(l, 1, Len(k) - 1)
  /\ k[Len(k)] = l[Len(k)] \/ <<k[Len(k)], l[Len(k)]>> \in Extends

Inside(l, k) == Len(k) < Len(l) /\ SubSeq(l, 1, Len(k)) = k

\* f with c under k, in place of what was there.
Overwrite(f, k, c) == [l \in DOMAIN f \cup {k} |-> IF l = k THEN c ELSE f[l]]
Without(K) == Restrict(bucket, DOMAIN bucket \ K)
With(k, c) == Overwrite(bucket, k, c)

\* What the keys of the files kept should hold.
Misplaced(i) == KeyOf(entry[i]) \notin DOMAIN bucket \/ bucket[KeyOf(entry[i])] # entry[i].content

-------------------------------------------------------------------------------
(* Handlers *)

CallKinds == {"none", "upload", "content", "rename", "delete", "emptyBin",
              "login", "open", "sync"}
Steps == {"idle", "resolve", "put", "save", "list", "copy", "purge", "erase",
          "forget", "check", "root", "fill", "fetch", "insert"}
Keys == Seq(Labels \cup FirstNames \cup {"keep"})
ManyKeys == SUBSET (Keys \cup Entries \cup Labels)

\* doc is the document as the handler holds it, old as it was before, seen
\* what a query for several returned.
Call == [kind: CallKinds, pc: Steps, id: Entries \cup {Top}, doc: Entry, old: Entry,
         seen: [Entries -> Entry], from: Keys, to: Keys, now: Keys, todo: ManyKeys]

AnyEntry == [state |-> "fresh", name |-> WorkspaceName, parent |-> Top, content |-> "empty"]
NoCall == [kind |-> "none", pc |-> "idle", id |-> Top, doc |-> AnyEntry,
           old |-> AnyEntry, seen |-> [i \in Entries |-> AnyEntry], from |-> <<>>, to |-> <<>>, now |-> <<>>, todo |-> {}]

Free(c) == call[c].pc = "idle"
Mishap(name, happens) == IF happens THEN {name} ELSE {}
Overlapping(c) == strays # {} \/ \E d \in Callers \ {c} : ~Free(d)

Begins == calls < MaxCalls /\ calls' = calls + 1

StartCall(c, q) ==
  /\ Free(c) /\ Begins
  /\ call' = [call EXCEPT ![c] = q]

Proceeds(c, q) == call' = [call EXCEPT ![c] = q] /\ UNCHANGED calls
To(c, pc) == [call[c] EXCEPT !.pc = pc]
Left(c, rest, pc, done) ==
  [call[c] EXCEPT !.todo = rest, !.pc = IF rest = {} THEN done ELSE pc]

\* A call of B2 goes well or not; when it does not nothing raises.
Answers(ok) == IF ok THEN UNCHANGED trouble
               ELSE trouble < MaxTrouble /\ trouble' = trouble + 1

\* check_duplicate_name: what is in the bin does not count.
NameFree(i, d) ==
  \A j \in Entries \ {i} :
    entry[j].state = "live" /\ entry[j].parent = d.parent /\ entry[j].name = d.name
      => (j \in Directories) # (i \in Directories)

\* Two files, or two folders, have one path and share their objects: one of
\* them is in the bin, or an upload or a move, which check no name, put it there.
PathShared ==
  \E i, j \in Entries :
    /\ i # j /\ Stays(i) /\ Stays(j)
    /\ (i \in Directories) = (j \in Directories)
    /\ PathOf(entry[i]) = PathOf(entry[j])

\* A file that is not in the bin is in a folder that is, or that is gone.
BinMixed ==
  \E i \in FilesKept :
    /\ entry[i].state = "live" /\ entry[i].parent # Top
    /\ entry[entry[i].parent].state # "live"

\* What a change of the tree may lead to, and whether others are at work.
TreeMishaps(busy) == Mishap("samePath", PathShared') \cup Mishap("mixedBin", BinMixed')
                       \cup Mishap("overlap", busy)
Busy == strays # {} \/ \E d \in Callers : ~Free(d)

-------------------------------------------------------------------------------
(* Uploading and saving content *)

\* An upload in one piece takes a name whether or not it is free.
UploadFile(c, i, n, p) ==
  LET d == [state |-> "live", name |-> n, parent |-> p, content |-> i] IN
  /\ i \notin Directories /\ entry[i].state = "fresh" /\ (p = Top \/ Stays(p))
  /\ StartCall(c, [NoCall EXCEPT !.kind = "upload", !.pc = "resolve", !.doc = d, !.id = i])
  /\ entry' = [entry EXCEPT ![i] = d]
  /\ mishaps' = mishaps \cup TreeMishaps(Overlapping(c))
  /\ UNCHANGED <<first, bucket, disk, syncing, strays, trouble>>

BeginSaveContent(c, i) ==
  /\ i \in FilesKept
  /\ StartCall(c, [NoCall EXCEPT !.kind = "content", !.pc = "resolve", !.doc = entry[i], !.id = i])
  /\ mishaps' = mishaps \cup Mishap("overlap", Overlapping(c))
  /\ UNCHANGED <<entry, first, bucket, disk, syncing, strays, trouble>>

ResolvePath(c) ==
  /\ call[c].pc = "resolve"
  /\ Proceeds(c, [To(c, "put") EXCEPT !.to = KeyOf(call[c].doc)])
  /\ UNCHANGED <<entry, first, bucket, disk, syncing, strays, trouble, mishaps>>

\* New content counts only once it is stored; a failed upload of a new file
\* leaves its document.
PutObject(c, ok) ==
  LET q == call[c] IN
  /\ q.pc = "put" /\ Answers(ok)
  /\ bucket' = IF ok THEN With(q.to, q.id) ELSE bucket
  /\ Proceeds(c, IF ok /\ q.kind = "content" THEN To(c, "save") ELSE NoCall)
  /\ mishaps' = mishaps \cup Mishap("unsent", ~ok /\ q.kind = "upload")
  /\ UNCHANGED <<entry, first, disk, syncing, strays>>

SaveEntry(c) ==
  LET q == call[c] IN
  /\ q.pc = "save"
  /\ entry' = [entry EXCEPT ![q.id] = [q.doc EXCEPT !.content = q.id]]
  /\ Proceeds(c, NoCall)
  /\ mishaps' = mishaps \cup TreeMishaps(FALSE)
                        \cup Mishap("movedOnto", ~NameFree(q.id, q.doc))
  /\ UNCHANGED <<first, bucket, disk, syncing, strays, trouble>>

-------------------------------------------------------------------------------
(* Renaming and moving: the document, then a copy and a purge of each object *)

Relocate(c, i, d) ==
  /\ Stays(i)
  /\ StartCall(c, [NoCall EXCEPT !.kind = "rename", !.pc = "list", !.id = i,
                                 !.doc = d, !.old = entry[i]])
  /\ entry' = [entry EXCEPT ![i] = d]
  /\ mishaps' = mishaps \cup TreeMishaps(Overlapping(c))
                        \cup Mishap("movedOnto", syncing \/ ~NameFree(i, d))
                        \cup Mishap("ontoItself", PathOf(d) = PathOf(entry[i]))
  /\ UNCHANGED <<first, bucket, disk, syncing, strays, trouble>>

\* An item may get the name it has.  The workspace route does the same for a
\* file, unless it has that name.
RenameItem(c, i, n) ==
  LET d == [entry[i] EXCEPT !.name = n] IN NameFree(i, d) /\ Relocate(c, i, d)

\* The name is not checked.  A folder is moved as it is renamed, and FileTree
\* has what happens when the target is below it.
MoveItem(c, i, p) ==
  /\ p = Top \/ (p \in Directories /\ Stays(p))
  /\ i \notin Directories
  /\ Relocate(c, i, [entry[i] EXCEPT !.parent = p])

\* The workspace route renames a folder and leaves its objects where they are.
RenameWorkspaceFolder(c, i, n) ==
  /\ i \in Directories /\ entry[i].state = "live" /\ n # entry[i].name
  /\ NameFree(i, [entry[i] EXCEPT !.name = n])
  /\ Free(c) /\ Begins
  /\ entry' = [entry EXCEPT ![i].name = n]
  /\ mishaps' = mishaps \cup {"leftBehind"} \cup TreeMishaps(Busy)
  /\ UNCHANGED <<first, bucket, disk, syncing, strays, call, trouble>>

\* handle_b2_rename and handle_b2_move: a file is one object, a folder all the
\* objects below it.
ListObjects(c) ==
  LET q == call[c]
      from == KeyOf(q.old)
      todo == IF q.id \in Directories THEN {k \in DOMAIN bucket : Inside(k, from)} ELSE {from}
  IN
  /\ q.pc = "list"
  /\ Proceeds(c, IF todo = {} THEN NoCall
                 ELSE [To(c, "copy") EXCEPT !.from = from, !.to = KeyOf(q.doc), !.todo = todo])
  /\ UNCHANGED <<entry, first, bucket, disk, syncing, strays, trouble, mishaps>>

NewKey(q, k) == q.to \o SubSeq(k, Len(q.from) + 1, Len(k))

\* Faulty: the object is purged whether or not it was copied.
CopyObjectUnseen(c, k, ok) ==
  LET q == call[c] IN
  /\ q.pc = "copy" /\ k \in q.todo
  /\ Answers(ok)
  /\ bucket' = IF ok /\ k \in DOMAIN bucket THEN With(NewKey(q, k), bucket[k]) ELSE bucket
  /\ Proceeds(c, [Left(c, q.todo \ {k}, "copy", "idle") EXCEPT !.now = k, !.pc = "purge"])
  /\ mishaps' = mishaps \cup Mishap("failure", ~ok)
  /\ UNCHANGED <<entry, first, disk, syncing, strays>>

CopyObject(c, k, ok) ==
  LET q == call[c]
      rest == Left(c, q.todo \ {k}, "copy", "idle")
  IN
  /\ q.pc = "copy" /\ k \in q.todo
  /\ Answers(ok)
  /\ IF ok /\ k \in DOMAIN bucket
       THEN /\ bucket' = With(NewKey(q, k), bucket[k])
            /\ Proceeds(c, [[rest EXCEPT !.now = k] EXCEPT !.pc = "purge"])
       ELSE UNCHANGED bucket /\ Proceeds(c, IF rest.todo = {} THEN NoCall ELSE rest)
  /\ mishaps' = mishaps \cup Mishap("failure", ~ok)
  /\ UNCHANGED <<entry, first, disk, syncing, strays>>

\* delete_b2_prefix_versions: every object whose key begins with the old key.
PurgeObject(c, ok) ==
  LET q == call[c]
      gone == {k \in DOMAIN bucket : BeginsWith(k, q.now)}
  IN
  /\ q.pc = "purge" /\ Answers(ok)
  /\ bucket' = IF ok THEN Without(gone) ELSE bucket
  /\ Proceeds(c, IF q.todo = {} THEN NoCall ELSE To(c, "copy"))
  /\ mishaps' = mishaps \cup Mishap("failure", ~ok)
                        \cup Mishap("prefixPurge", ok /\ gone \ {q.now} # {})
  /\ UNCHANGED <<entry, first, disk, syncing, strays>>

-------------------------------------------------------------------------------
(* Bin, restore, delete, empty the bin *)

WithBelow(i) == {i} \cup {j \in Entries : Stays(j) /\ entry[j].parent = i}

Mark(S, state) ==
  entry' = [j \in Entries |-> IF j \in S THEN [entry[j] EXCEPT !.state = state] ELSE entry[j]]

\* soft_delete_item and restore_item, for an item and all below it.
SetBinned(i, state) ==
  /\ Stays(i) /\ entry[i].state # state /\ Begins
  /\ Mark(WithBelow(i), state)
  /\ mishaps' = mishaps \cup TreeMishaps(Busy) \cup Mishap("restored", state = "live")
  /\ UNCHANGED <<first, bucket, disk, syncing, strays, call, trouble>>

\* A permanent delete, or that of what is in the bin.
BeginErase(c, i) ==
  /\ Stays(i)
  /\ StartCall(c, [NoCall EXCEPT !.kind = "delete", !.pc = "erase", !.id = i,
                                 !.seen = entry, !.todo = {i}])
  /\ mishaps' = mishaps \cup Mishap("overlap", Overlapping(c))
  /\ UNCHANGED <<entry, first, bucket, disk, syncing, strays, trouble>>

BeginEmpty(c) ==
  LET binned == {i \in Entries : entry[i].state = "bin"} IN
  /\ binned # {}
  /\ StartCall(c, [NoCall EXCEPT !.kind = "emptyBin", !.pc = "erase",
                                 !.seen = entry, !.todo = binned])
  /\ mishaps' = mishaps \cup Mishap("overlap", Overlapping(c))
  /\ UNCHANGED <<entry, first, bucket, disk, syncing, strays, trouble>>

\* handle_b2_delete: the object of a file, all objects in a folder.
Erased(d, folder) ==
  IF folder THEN {k \in DOMAIN bucket : Inside(k, KeyOf(d))} ELSE {KeyOf(d)}

EraseObjects(c, i, ok) ==
  LET q == call[c] IN
  /\ q.pc = "erase" /\ i \in q.todo /\ Answers(ok)
  /\ bucket' = IF ok THEN Without(Erased(q.seen[i], i \in Directories)) ELSE bucket
  /\ Proceeds(c, Left(c, q.todo \ {i}, "erase", "forget"))
  /\ mishaps' = mishaps \cup Mishap("failure", ~ok)
  /\ UNCHANGED <<entry, first, disk, syncing, strays>>

\* The documents go last.  Emptying the bin asks once more what is in it.
ForgetEntries(c) ==
  LET q == call[c]
      gone == IF q.kind = "delete" THEN WithBelow(q.id)
              ELSE {i \in Entries : entry[i].state = "bin"}
  IN
  /\ q.pc = "forget"
  /\ Mark(gone, "gone")
  /\ Proceeds(c, NoCall)
  /\ mishaps' = mishaps \cup TreeMishaps(FALSE)
  /\ UNCHANGED <<first, bucket, disk, syncing, strays, trouble>>

-------------------------------------------------------------------------------
(* The synchronisation at login *)

\* update_profile: the first name is part of every key.
ChangeName(n) ==
  /\ first # n /\ Begins
  /\ first' = n
  /\ mishaps' = mishaps \cup {"newPrefix"}
  /\ UNCHANGED <<entry, bucket, disk, syncing, strays, call, trouble>>

BeginLogin(c) ==
  /\ StartCall(c, [NoCall EXCEPT !.kind = "login", !.pc = "check", !.to = RootKeep(first)])
  /\ mishaps' = mishaps \cup Mishap("overlap", Overlapping(c))
  /\ UNCHANGED <<entry, first, bucket, disk, syncing, strays, trouble>>

\* Faulty: whatever the answer, the synchronisation runs.
CheckRootAlways(c, ok) ==
  /\ call[c].pc = "check" /\ Answers(ok)
  /\ Proceeds(c, To(c, "root"))
  /\ UNCHANGED <<entry, first, bucket, disk, syncing, strays, mishaps>>

\* A check that fails says the root is not there.
CheckRoot(c, ok) ==
  LET there == call[c].to \in DOMAIN bucket IN
  /\ call[c].pc = "check" /\ Answers(ok)
  /\ Proceeds(c, IF ok /\ there THEN NoCall ELSE To(c, "root"))
  /\ mishaps' = mishaps \cup Mishap("blindCheck", ~ok /\ there)
  /\ UNCHANGED <<entry, first, bucket, disk, syncing, strays>>

PutRoot(c, ok) ==
  /\ call[c].pc = "root" /\ Answers(ok)
  /\ bucket' = IF ok THEN With(call[c].to, "keep") ELSE bucket
  /\ Proceeds(c, [Left(c, FilesKept, "fill", "idle") EXCEPT !.seen = entry])
  /\ UNCHANGED <<entry, first, disk, syncing, strays, mishaps>>

\* A placeholder for every file, over whatever is there.
PutPlaceholder(c, i, ok) ==
  LET key == <<call[c].to[1]>> \o PathOf(call[c].seen[i]) IN
  /\ call[c].pc = "fill" /\ i \in call[c].todo /\ Answers(ok)
  /\ bucket' = IF ok THEN With(key, "meta") ELSE bucket
  /\ Proceeds(c, Left(c, call[c].todo \ {i}, "fill", "idle"))
  /\ UNCHANGED <<entry, first, disk, syncing, strays, mishaps>>

-------------------------------------------------------------------------------
(* Codespace: the files of one folder on disk *)

WorkspaceFiles == {i \in FilesKept : entry[i].state = "live" /\ entry[i].parent = Workspace}

BeginPopulate(c) ==
  /\ Stays(Workspace) /\ WorkspaceFiles # {}
  /\ StartCall(c, [NoCall EXCEPT !.kind = "open", !.pc = "fetch", !.seen = entry,
                                 !.todo = WorkspaceFiles])
  /\ mishaps' = mishaps \cup Mishap("overlap", Overlapping(c))
  /\ UNCHANGED <<entry, first, bucket, disk, syncing, strays, trouble>>

\* A file that is on disk is left as it is; a failed download leaves it empty.
FetchFile(c, i, ok) ==
  LET key == KeyOf(call[c].seen[i])
      name == call[c].seen[i].name
  IN
  /\ call[c].pc = "fetch" /\ i \in call[c].todo /\ Answers(ok)
  /\ disk' = IF name \in DOMAIN disk THEN disk
             ELSE Overwrite(disk, name, IF ok /\ key \in DOMAIN bucket THEN bucket[key] ELSE "empty")
  /\ Proceeds(c, Left(c, call[c].todo \ {i}, "fetch", "idle"))
  /\ UNCHANGED <<entry, first, bucket, syncing, strays, mishaps>>

RunProgram(n) ==
  /\ Begins
  /\ disk' = Overwrite(disk, n, "made")
  /\ UNCHANGED <<entry, first, bucket, syncing, strays, call, trouble, mishaps>>

\* Faulty: a second copy back begins while one is running.
BeginSyncTwice(c) ==
  /\ StartCall(c, [NoCall EXCEPT !.kind = "sync", !.pc = "insert",
                     !.todo = DOMAIN disk \ {entry[i].name : i \in WorkspaceFiles}])
  /\ syncing' = TRUE
  /\ mishaps' = mishaps \cup Mishap("overlap", Overlapping(c))
  /\ UNCHANGED <<entry, first, bucket, disk, strays, trouble>>

\* sync_disk_to_workspace_db: what is on disk and was not in the tree.
BeginSync(c) ==
  /\ ~syncing /\ Stays(Workspace)
  /\ StartCall(c, [NoCall EXCEPT !.kind = "sync", !.pc = "insert",
                     !.todo = DOMAIN disk \ {entry[i].name : i \in WorkspaceFiles}])
  /\ syncing' = TRUE
  /\ mishaps' = mishaps \cup Mishap("overlap", Overlapping(c))
  /\ UNCHANGED <<entry, first, bucket, disk, strays, trouble>>

InsertFromDisk(c, n, i) ==
  LET d == [state |-> "live", name |-> n, parent |-> Workspace, content |-> disk[n]] IN
  /\ call[c].pc = "insert" /\ n \in call[c].todo
  /\ i \notin Directories /\ entry[i].state = "fresh"
  /\ entry' = [entry EXCEPT ![i] = d]
  /\ Proceeds(c, [call[c] EXCEPT !.todo = @ \ {n}])
  /\ strays' = strays \cup {[to |-> <<first, n>>, content |-> disk[n]]}
  /\ mishaps' = mishaps \cup {"stray"} \cup TreeMishaps(FALSE)
  /\ UNCHANGED <<first, bucket, disk, syncing, trouble>>

\* A task of its own.  The content goes to the path below the workspace, taken
\* for one below the root of the user.
PutStray(s, ok) ==
  /\ s \in strays /\ Answers(ok)
  /\ strays' = strays \ {s}
  /\ bucket' = IF ok THEN With(s.to, s.content) ELSE bucket
  /\ UNCHANGED <<entry, first, disk, syncing, call, calls, mishaps>>

EndSync(c) ==
  /\ call[c].pc = "insert" /\ call[c].todo = {}
  /\ syncing' = FALSE
  /\ Proceeds(c, NoCall)
  /\ UNCHANGED <<entry, first, bucket, disk, strays, trouble, mishaps>>

\* Handlers and tasks are gone, objects and documents stay as they are.
RestartServer ==
  /\ Answers(FALSE)
  /\ call' = [c \in Callers |-> NoCall]
  /\ syncing' = FALSE /\ strays' = {}
  /\ mishaps' = mishaps \cup Mishap("failure", Busy)
  /\ UNCHANGED <<entry, first, bucket, disk, calls>>

-------------------------------------------------------------------------------
(* The program *)

\* A user with an empty workspace, whose synchronisation has run.
MirrorInit ==
  /\ entry = [i \in Entries |->
       IF i = Workspace THEN [AnyEntry EXCEPT !.state = "live"] ELSE AnyEntry]
  /\ first \in FirstNames
  /\ bucket = [k \in {RootKeep(first)} |-> "keep"]
  /\ disk = [n \in {} |-> "empty"]
  /\ syncing = FALSE /\ strays = {}
  /\ call = [c \in Callers |-> NoCall]
  /\ calls = 0 /\ trouble = 0
  /\ mishaps = {}

BeginCall(c) ==
  \/ \E i \in Entries, n \in Labels, p \in Directories \cup {Top} : UploadFile(c, i, n, p)
  \/ \E i \in Entries : BeginSaveContent(c, i)
  \/ \E i \in Entries, n \in Labels : RenameItem(c, i, n)
  \/ \E i \in Entries, n \in Labels : RenameWorkspaceFolder(c, i, n)
  \/ \E i \in Entries, p \in Directories \cup {Top} : MoveItem(c, i, p)
  \/ \E i \in Entries : BeginErase(c, i)
  \/ BeginEmpty(c)
  \/ BeginLogin(c)
  \/ BeginPopulate(c)
  \/ BeginSync(c)

CallStep(c) ==
  \/ ResolvePath(c)
  \/ \E ok \in BOOLEAN : PutObject(c, ok)
  \/ SaveEntry(c)
  \/ ListObjects(c)
  \/ \E k \in call[c].todo, ok \in BOOLEAN : CopyObject(c, k, ok)
  \/ \E ok \in BOOLEAN : PurgeObject(c, ok)
  \/ \E i \in call[c].todo, ok \in BOOLEAN : EraseObjects(c, i, ok)
  \/ ForgetEntries(c)
  \/ \E ok \in BOOLEAN : CheckRoot(c, ok)
  \/ \E ok \in BOOLEAN : PutRoot(c, ok)
  \/ \E i \in call[c].todo, ok \in BOOLEAN : PutPlaceholder(c, i, ok)
  \/ \E i \in call[c].todo, ok \in BOOLEAN : FetchFile(c, i, ok)
  \/ \E n \in call[c].todo, i \in Entries : InsertFromDisk(c, n, i)
  \/ EndSync(c)

MirrorNext ==
  \/ \E c \in Callers : BeginCall(c) \/ CallStep(c)
  \/ \E i \in Entries, state \in {"live", "bin"} : SetBinned(i, state)
  \/ \E s \in strays, ok \in BOOLEAN : PutStray(s, ok)
  \/ RestartServer
  \/ \E n \in FirstNames : ChangeName(n)
  \/ \E n \in Labels : RunProgram(n)

MirrorSpec == MirrorInit /\ [][MirrorNext]_mirrorVars
-------------------------------------------------------------------------------
(* Properties *)

\* The mirror keeps its shape.
MirrorTypeOK ==
  /\ entry \in [Entries -> Entry]
  /\ first \in FirstNames
  /\ DOMAIN bucket \subseteq Keys /\ \A k \in DOMAIN bucket : bucket[k] \in Contents
  /\ DOMAIN disk \subseteq Labels /\ \A n \in DOMAIN disk : disk[n] \in Contents
  /\ syncing \in BOOLEAN
  /\ \A s \in strays : s.to \in Keys /\ s.content \in Contents
  /\ \A c \in Callers :
       /\ call[c].doc \in Entry /\ call[c].old \in Entry /\ call[c].seen \in [Entries -> Entry]
       /\ call[c].kind \in CallKinds /\ call[c].pc \in Steps
       /\ call[c].from \in Keys /\ call[c].to \in Keys /\ call[c].now \in Keys
       /\ \A k \in call[c].todo : k \in Keys \/ k \in Entries \cup Labels
  /\ calls \in 0..MaxCalls /\ trouble \in 0..MaxTrouble

\* Between requests the objects are those of the tree: under the key of every
\* file that is kept, in the bin or not, lies what was uploaded for it, and
\* nothing lies anywhere else - unless one of the named mishaps has happened.
MirrorMatchesTree ==
  ~Busy /\ mishaps = {} =>
    /\ \A i \in FilesKept : ~Misplaced(i)
    /\ DOMAIN bucket = {KeyOf(entry[i]) : i \in FilesKept} \cup {RootKeep(first)}

\* A purge is the second half of a rename, and what it removes has been copied:
\* whatever failed before, no content disappears with it - unless the old key
\* begins the key of another object, other handlers were at work, or the new key
\* is the old one: the copy of an object onto itself is purged with it.
PurgeKeepsACopy ==
  [][(\E c \in Callers : call[c].pc = "purge" /\ call'[c].pc # "purge")
       /\ mishaps' \cap {"prefixPurge", "overlap", "ontoItself"} = {}
     => Range(bucket) \subseteq Range(bucket')]_mirrorVars

\* The copy back gives a name in the workspace one document, however many
\* requests start it at once - unless a document came back from the bin, was
\* moved to a name that is taken, or was renamed while the copy back ran.
SyncInsertsOnce ==
  mishaps \cap {"restored", "movedOnto"} = {} =>
    \A i, j \in WorkspaceFiles :
      i # j /\ entry[i].name = entry[j].name => entry[i].content = i \/ entry[j].content = j
===============================================================================
