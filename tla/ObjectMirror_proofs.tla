------------------------- MODULE ObjectMirror_proofs --------------------------
(***************************************************************************)
(* Proofs about ObjectMirror, for any documents, names, handlers and       *)
(* bounds: its types, the keys of a tree as flat as the model has it, that *)
(* the copy back inserts a file once, that a purge loses nothing, and that *)
(* between requests the objects are those of the tree.                     *)
(***************************************************************************)
EXTENDS ObjectMirror, SequenceTheorems, TLAPS

-------------------------------------------------------------------------------
(* Short sequences *)

LEMMA LengthTwo ==
  ASSUME NEW S, NEW s \in Seq(S), Len(s) = 2
  PROVE  s = <<s[1], s[2]>>
OBVIOUS

LEMMA LengthThree ==
  ASSUME NEW S, NEW s \in Seq(S), Len(s) = 3
  PROVE  s = <<s[1], s[2], s[3]>>
OBVIOUS

LEMMA AppendOne ==
  ASSUME NEW a, NEW b
  PROVE  Append(<<a>>, b) = <<a, b>>
<1> DEFINE S == {a, b}
<1>1. <<a>> \in Seq(S) /\ b \in S
  OBVIOUS
<1> HIDE DEF S
<1>2. PICK s : s = Append(<<a>>, b)
  OBVIOUS
<1>3. s \in Seq(S) /\ Len(s) = 2 /\ s[1] = a /\ s[2] = b
  BY <1>1, <1>2, AppendProperties
<1> QED
  BY <1>2, <1>3, LengthTwo

LEMMA ConcatTwo ==
  ASSUME NEW a, NEW b
  PROVE  <<a>> \o <<b>> = <<a, b>>
<1> DEFINE S == {a, b}
<1>1. <<a>> \in Seq(S) /\ <<b>> \in Seq(S)
  OBVIOUS
<1> HIDE DEF S
<1>2. PICK s : s = <<a>> \o <<b>>
  OBVIOUS
<1>3. s \in Seq(S) /\ Len(s) = 2 /\ s[1] = a /\ s[2] = b
  BY <1>1, <1>2, ConcatProperties
<1> QED
  BY <1>2, <1>3, LengthTwo

LEMMA ConcatThree ==
  ASSUME NEW a, NEW b, NEW c
  PROVE  <<a>> \o <<b, c>> = <<a, b, c>> /\ <<a, b>> \o <<c>> = <<a, b, c>>
<1> DEFINE S == {a, b, c}
<1>1. <<a>> \in Seq(S) /\ <<b, c>> \in Seq(S) /\ <<a, b>> \in Seq(S) /\ <<c>> \in Seq(S)
  OBVIOUS
<1> HIDE DEF S
<1>2. PICK s : s = <<a>> \o <<b, c>>
  OBVIOUS
<1>3. s \in Seq(S) /\ Len(s) = 3 /\ s[1] = a /\ s[2] = b /\ s[3] = c
  BY <1>1, <1>2, ConcatProperties
<1>4. PICK t : t = <<a, b>> \o <<c>>
  OBVIOUS
<1>5. t \in Seq(S) /\ Len(t) = 3 /\ t[1] = a /\ t[2] = b /\ t[3] = c
  BY <1>1, <1>4, ConcatProperties
<1> QED
  BY <1>2, <1>3, <1>4, <1>5, LengthThree

-------------------------------------------------------------------------------
(* Keys.  Folders lie at the top level, so a path has one name or two; the   *)
(* recursion of PathOf is unrolled twice.                                    *)

Placed(i, d) ==
  /\ d \in Entry /\ d.parent \in Directories \cup {Top}
  /\ i \in Directories => d.parent = Top
FlatTree == entry \in [Entries -> Entry] /\ \A i \in Entries : Placed(i, entry[i])

\* The equation that defines PathOf.
Climbs(g) ==
  g = [e \in Entry |->
         IF Stays(e.parent) THEN Append(g[entry[e.parent]], e.name) ELSE <<e.name>>]

LEMMA SomethingClimbs ==
  ASSUME FlatTree
  PROVE  \E g : Climbs(g)
<1> DEFINE P(e) == IF Stays(e.parent) THEN Append(<<entry[e.parent].name>>, e.name)
                                      ELSE <<e.name>>
           g == [e \in Entry |->
                   IF Stays(e.parent) THEN Append(P(entry[e.parent]), e.name) ELSE <<e.name>>]
<1>1. ASSUME NEW p, Stays(p)
      PROVE  entry[p] \in Entry /\ g[entry[p]] = P(entry[p])
  <2>1. p \in Entries /\ entry[p] \in Entry /\ Placed(p, entry[p])
    BY <1>1 DEF FlatTree, Stays
  <2>2. PICK x : x = entry[p]
    OBVIOUS
  <2>3. g[x] = IF Stays(x.parent) THEN Append(P(entry[x.parent]), x.name) ELSE <<x.name>>
    BY <2>1, <2>2
  <2>4. CASE Stays(x.parent)
    <3>1. x.parent \in Directories
      BY <2>1, <2>2, <2>4, MirrorAssumption DEF Placed, Stays, MirrorAssumption
    <3>2. entry[x.parent].parent = Top
      BY <3>1, MirrorAssumption DEF FlatTree, Placed, MirrorAssumption
    <3>3. ~Stays(entry[x.parent].parent)
      BY <3>2, MirrorAssumption DEF Stays, MirrorAssumption
    <3>4. P(entry[x.parent]) = <<entry[x.parent].name>>
      BY <3>3
    <3> QED
      BY <2>1, <2>2, <2>3, <2>4, <3>4
  <2>5. CASE ~Stays(x.parent)
    BY <2>1, <2>2, <2>3, <2>5
  <2> QED
    BY <2>4, <2>5
<1>2. \A e \in Entry : Stays(e.parent) => g[entry[e.parent]] = P(entry[e.parent])
  BY <1>1
<1> HIDE DEF P
<1>3. Climbs(g)
  BY <1>2 DEF Climbs
<1> QED
  BY <1>3

LEMMA PathForm ==
  ASSUME FlatTree, NEW i, NEW d, Placed(i, d)
  PROVE  PathOf(d) = IF Stays(d.parent) THEN <<entry[d.parent].name, d.name>> ELSE <<d.name>>
<1>1. PathOf(d) = (CHOOSE g : Climbs(g))[d]
  BY DEF PathOf, Climbs
<1>2. PICK g : Climbs(g) /\ PathOf(d) = g[d]
  BY <1>1, SomethingClimbs
<1>3. \A e \in Entry :
        g[e] = IF Stays(e.parent) THEN Append(g[entry[e.parent]], e.name) ELSE <<e.name>>
  BY <1>2 DEF Climbs
<1>4. d \in Entry
  BY DEF Placed
<1>5. CASE Stays(d.parent)
  <2>1. d.parent \in Directories /\ d.parent \in Entries
    BY <1>5, MirrorAssumption DEF Placed, Stays, MirrorAssumption
  <2>2. entry[d.parent] \in Entry /\ entry[d.parent].parent = Top
    BY <2>1 DEF FlatTree, Placed
  <2>3. ~Stays(entry[d.parent].parent)
    BY <2>2, MirrorAssumption DEF Stays, MirrorAssumption
  <2>4. g[entry[d.parent]] = <<entry[d.parent].name>>
    BY <1>3, <2>2, <2>3
  <2>5. g[d] = Append(<<entry[d.parent].name>>, d.name)
    BY <1>3, <1>4, <1>5, <2>4
  <2> QED
    BY <1>2, <1>5, <2>5, AppendOne
<1>6. CASE ~Stays(d.parent)
  BY <1>2, <1>3, <1>4, <1>6
<1> QED
  BY <1>5, <1>6

LEMMA KeyForm ==
  ASSUME FlatTree, NEW i, NEW d, Placed(i, d)
  PROVE  KeyOf(d) = IF Stays(d.parent) THEN <<first, entry[d.parent].name, d.name>>
                                       ELSE <<first, d.name>>
BY PathForm, ConcatTwo, ConcatThree DEF KeyOf

-------------------------------------------------------------------------------
(* Types *)

\* What a stage says of the call that has reached it.
Fits(q) ==
  /\ q \in Call
  /\ Placed(q.id, q.doc) /\ Placed(q.id, q.old)
  /\ \A i \in Entries : Placed(i, q.seen[i])
  /\ q.pc \in {"resolve", "put", "save"} =>
       q.kind \in {"upload", "content"} /\ q.id \in Entries \ Directories
  /\ q.pc = "save" => q.kind = "content"
  /\ q.pc \in {"list", "copy", "purge"} => q.kind = "rename" /\ q.id \in Entries
  /\ q.pc \in {"copy", "purge"} => q.todo \subseteq Keys
  /\ q.pc \in {"erase", "fill", "fetch"} => q.todo \subseteq Entries
  /\ q.pc \in {"erase", "forget"} => q.kind \in {"delete", "emptyBin"}
  /\ q.pc = "insert" => q.todo \subseteq Labels
  /\ q.pc \in {"check", "root", "fill"} => \E n \in FirstNames : q.to = RootKeep(n)

BucketFits == DOMAIN bucket \subseteq Keys /\ \A k \in DOMAIN bucket : bucket[k] \in Contents
DiskFits == DOMAIN disk \subseteq Labels /\ \A n \in DOMAIN disk : disk[n] \in Contents
StraysFit == syncing \in BOOLEAN /\ \A s \in strays : s.to \in Keys /\ s.content \in Contents
CountsFit == calls \in 0..MaxCalls /\ trouble \in 0..MaxTrouble

\* The inductive invariant behind the types: the tree is flat, and what a copy
\* back has found on disk stays there.
Typed ==
  /\ FlatTree
  /\ first \in FirstNames
  /\ BucketFits /\ DiskFits /\ StraysFit /\ CountsFit
  /\ call \in [Callers -> Call] /\ \A c \in Callers : Fits(call[c])
  /\ \A c \in Callers : call[c].pc = "insert" => call[c].todo \subseteq DOMAIN disk

\* One call changes, the others do not.
Becomes(c, q) == call' = [call EXCEPT ![c] = q]

LEMMA BecomesFields ==
  ASSUME call \in [Callers -> Call], NEW c \in Callers, NEW q, Becomes(c, q)
  PROVE  call'[c] = q /\ \A d \in Callers \ {c} : call'[d] = call[d]
BY DEF Becomes

LEMMA BecomesFits ==
  ASSUME Typed, NEW c \in Callers, NEW q, Fits(q), Becomes(c, q)
  PROVE  call' \in [Callers -> Call] /\ \A d \in Callers : Fits(call'[d])
<1>1. q \in Call /\ call \in [Callers -> Call] /\ \A d \in Callers : Fits(call[d])
  BY DEF Fits, Typed
<1>2. call' \in [Callers -> Call]
  BY <1>1 DEF Becomes
<1>3. ASSUME NEW d \in Callers
      PROVE  Fits(call'[d])
  BY <1>1, <1>3 DEF Becomes
<1> QED
  BY <1>2, <1>3

LEMMA LabelsSpellKeys ==
  /\ \A n \in FirstNames, l \in Labels : <<n, l>> \in Keys
  /\ \A n \in FirstNames, l, m \in Labels : <<n, l, m>> \in Keys
  /\ \A n \in FirstNames : RootKeep(n) \in Keys
  /\ <<>> \in Keys
<1> DEFINE S == Labels \cup FirstNames \cup {"keep"}
<1>1. Labels \subseteq S /\ FirstNames \subseteq S /\ "keep" \in S
  OBVIOUS
<1> HIDE DEF S
<1>2. ASSUME NEW n \in S, NEW l \in S, NEW m \in S
      PROVE  <<n, l>> \in Seq(S) /\ <<n, l, m>> \in Seq(S) /\ <<>> \in Seq(S)
  BY <1>2
<1>3. Keys = Seq(S)
  BY DEF Keys, S
<1> QED
  BY <1>1, <1>2, <1>3 DEF RootKeep

LEMMA AnyEntryPlaced ==
  AnyEntry \in Entry /\ \A i \in Entries \cup {Top} : Placed(i, AnyEntry)
BY MirrorAssumption DEF AnyEntry, Entry, Placed, Contents, MirrorAssumption

LEMMA NoCallFits == NoCall \in Call /\ Fits(NoCall)
<1>1. "none" \in CallKinds /\ "idle" \in Steps /\ {} \in ManyKeys
  BY DEF CallKinds, Steps, ManyKeys
<1>2. NoCall \in Call
  BY <1>1, AnyEntryPlaced, LabelsSpellKeys DEF NoCall, Call
<1>3. Fits(NoCall)
  BY <1>2, AnyEntryPlaced DEF NoCall, Fits
<1> QED
  BY <1>2, <1>3

LEMMA PlacedKeys ==
  ASSUME Typed, NEW i, NEW d, Placed(i, d)
  PROVE  KeyOf(d) \in Keys
<1>1. d.name \in Labels /\ FlatTree /\ first \in FirstNames
  BY DEF Placed, Entry, Typed
<1>2. Stays(d.parent) => entry[d.parent].name \in Labels
  BY <1>1 DEF Stays, FlatTree, Entry
<1> QED
  BY <1>1, <1>2, KeyForm, LabelsSpellKeys

LEMMA OverwriteFields ==
  ASSUME NEW f, NEW k, NEW c
  PROVE  /\ DOMAIN Overwrite(f, k, c) = DOMAIN f \cup {k}
         /\ Overwrite(f, k, c)[k] = c
         /\ \A l \in DOMAIN f \ {k} : Overwrite(f, k, c)[l] = f[l]
BY DEF Overwrite

LEMMA WithFields ==
  ASSUME NEW k, NEW c
  PROVE  /\ DOMAIN With(k, c) = DOMAIN bucket \cup {k}
         /\ With(k, c)[k] = c
         /\ \A l \in DOMAIN bucket \ {k} : With(k, c)[l] = bucket[l]
BY DEF With, Overwrite

LEMMA WithoutFields ==
  ASSUME NEW K
  PROVE  /\ DOMAIN Without(K) = DOMAIN bucket \ K
         /\ \A l \in DOMAIN bucket \ K : Without(K)[l] = bucket[l]
BY DEF Without, Restrict

\* The bucket after an upload, a copy or a removal.
LEMMA BucketWith ==
  ASSUME Typed, NEW k \in Keys, NEW v \in Contents
  PROVE  DOMAIN With(k, v) \subseteq Keys /\ \A l \in DOMAIN With(k, v) : With(k, v)[l] \in Contents
<1>1. PICK b : b = With(k, v)
  OBVIOUS
<1>2. DOMAIN b = DOMAIN bucket \cup {k} /\ b[k] = v /\ \A l \in DOMAIN bucket \ {k} : b[l] = bucket[l]
  BY <1>1 DEF With, Overwrite
<1> QED
  BY <1>1, <1>2 DEF Typed, BucketFits

LEMMA BucketWithout ==
  ASSUME Typed, NEW K
  PROVE  DOMAIN Without(K) \subseteq Keys /\ \A l \in DOMAIN Without(K) : Without(K)[l] \in Contents
BY WithoutFields DEF Typed, BucketFits

LEMMA DiskWith ==
  ASSUME Typed, NEW k \in Labels, NEW v \in Contents, disk' = Overwrite(disk, k, v)
  PROVE  DiskFits' /\ DOMAIN disk \subseteq DOMAIN disk'
BY DEF Typed, DiskFits, Overwrite

\* Two ways to step: with a call, and without one.
LEMMA CallStepTyped ==
  ASSUME Typed, FlatTree', first' \in FirstNames, BucketFits', DiskFits', StraysFit', CountsFit',
         DOMAIN disk \subseteq DOMAIN disk',
         NEW c \in Callers, NEW q, Fits(q), Becomes(c, q),
         q.pc = "insert" => q.todo \subseteq DOMAIN disk'
  PROVE  Typed'
<1>1. call' \in [Callers -> Call] /\ \A d \in Callers : Fits(call'[d])
  BY BecomesFits
<1>2. ASSUME NEW d \in Callers, call'[d].pc = "insert"
      PROVE  call'[d].todo \subseteq DOMAIN disk'
  <2>1. CASE d = c
    BY <1>2, <2>1, BecomesFields DEF Typed
  <2>2. CASE d # c
    <3>1. call'[d] = call[d]
      BY <2>2, BecomesFields DEF Typed
    <3> QED
      BY <1>2, <3>1 DEF Typed
  <2> QED
    BY <2>1, <2>2
<1> QED
  BY <1>1, <1>2 DEF Typed

LEMMA OtherStepTyped ==
  ASSUME Typed, FlatTree', first' \in FirstNames, BucketFits', DiskFits', StraysFit', CountsFit',
         DOMAIN disk \subseteq DOMAIN disk', UNCHANGED call
  PROVE  Typed'
BY DEF Typed

LEMMA BeginsCounts ==
  ASSUME Typed, Begins, UNCHANGED trouble
  PROVE  CountsFit'
BY MirrorAssumption DEF Typed, Begins, CountsFit, MirrorAssumption

LEMMA AnswerCounts ==
  ASSUME Typed, NEW ok, Answers(ok), UNCHANGED calls
  PROVE  CountsFit'
BY MirrorAssumption DEF Typed, Answers, CountsFit, MirrorAssumption

LEMMA TreeStays == ASSUME Typed, UNCHANGED entry PROVE FlatTree'
BY DEF Typed, FlatTree
LEMMA BucketStays == ASSUME Typed, UNCHANGED bucket PROVE BucketFits'
BY DEF Typed, BucketFits
LEMMA DiskStays == ASSUME Typed, UNCHANGED disk PROVE DiskFits' /\ DOMAIN disk \subseteq DOMAIN disk'
BY DEF Typed, DiskFits
LEMMA StraysStay == ASSUME Typed, UNCHANGED <<syncing, strays>> PROVE StraysFit'
BY DEF Typed, StraysFit
LEMMA CountsStay == ASSUME Typed, UNCHANGED <<calls, trouble>> PROVE CountsFit'
BY DEF Typed, CountsFit

\* One document changes.
LEMMA TreeWith ==
  ASSUME Typed, NEW i \in Entries, NEW d, Placed(i, d), entry' = [entry EXCEPT ![i] = d]
  PROVE  FlatTree'
<1>1. d \in Entry /\ entry \in [Entries -> Entry] /\ \A j \in Entries : Placed(j, entry[j])
  BY DEF Placed, Typed, FlatTree
<1>2. entry' \in [Entries -> Entry]
  BY <1>1
<1>3. ASSUME NEW j \in Entries
      PROVE  Placed(j, entry'[j])
  BY <1>1, <1>3
<1> QED
  BY <1>2, <1>3 DEF FlatTree

\* A set of documents changes its state.
LEMMA TreeMarked ==
  ASSUME Typed, NEW S, NEW s \in {"fresh", "live", "bin", "gone"}, Mark(S, s)
  PROVE  FlatTree'
<1>1. ASSUME NEW j \in Entries
      PROVE  entry'[j] \in Entry /\ Placed(j, entry'[j])
  <2>1. entry[j] \in Entry /\ Placed(j, entry[j])
    BY DEF Typed, FlatTree
  <2>2. entry'[j] = IF j \in S THEN [entry[j] EXCEPT !.state = s] ELSE entry[j]
    BY DEF Mark
  <2> QED
    BY <2>1, <2>2 DEF Entry, Placed
<1>2. entry' = [j \in Entries |-> entry'[j]]
  BY DEF Mark
<1> QED
  BY <1>1, <1>2 DEF FlatTree

\* A call starts from nothing.
LEMMA NoCallFields ==
  /\ NoCall.kind = "none" /\ NoCall.pc = "idle" /\ NoCall.id = Top /\ NoCall.doc = AnyEntry
  /\ NoCall.old = AnyEntry /\ NoCall.seen = [i \in Entries |-> AnyEntry]
  /\ NoCall.from = <<>> /\ NoCall.to = <<>> /\ NoCall.now = <<>> /\ NoCall.todo = {}
BY DEF NoCall

LEMMA UploadFileTyped ==
  ASSUME Typed, NEW c \in Callers, NEW i \in Entries, NEW n \in Labels,
         NEW p \in Directories \cup {Top}, UploadFile(c, i, n, p)
  PROVE  Typed'
<1> DEFINE d == [state |-> "live", name |-> n, parent |-> p, content |-> i]
           q == [NoCall EXCEPT !.kind = "upload", !.pc = "resolve", !.doc = d, !.id = i]
<1>1. i \notin Directories
  BY DEF UploadFile
<1>2. Placed(i, d) /\ d \in Entry
  BY <1>1, MirrorAssumption DEF Placed, Entry, Contents, MirrorAssumption
<1>3. entry' = [entry EXCEPT ![i] = d] /\ Becomes(c, q) /\ Begins
      /\ UNCHANGED <<first, bucket, disk, syncing, strays, trouble>>
  BY DEF UploadFile, StartCall, Becomes
<1> HIDE DEF d
<1>4. Fits(q)
  <2>1. q \in Call
    BY <1>2, NoCallFits DEF Call, CallKinds, Steps
  <2> QED
    BY <1>1, <1>2, <2>1, AnyEntryPlaced, NoCallFields, NoCallFits DEF Fits, Call, Placed
<1>5. q.pc # "insert"
  BY NoCallFits DEF Call
<1> HIDE DEF q
<1> QED
  BY <1>2, <1>3, <1>4, <1>5, TreeWith, CallStepTyped, BucketStays, DiskStays, StraysStay, BeginsCounts
     DEF Typed

LEMMA BeginSaveContentTyped ==
  ASSUME Typed, NEW c \in Callers, NEW i \in Entries, BeginSaveContent(c, i)
  PROVE  Typed'
<1> DEFINE q == [NoCall EXCEPT !.kind = "content", !.pc = "resolve", !.doc = entry[i], !.id = i]
<1>1. PICK d : d = entry[i]
  OBVIOUS
<1>2. Placed(i, d) /\ d \in Entry /\ i \notin Directories
  BY <1>1 DEF BeginSaveContent, FilesKept, Typed, FlatTree
<1>3. Becomes(c, q) /\ Begins /\ UNCHANGED <<entry, first, bucket, disk, syncing, strays, trouble>>
  BY DEF BeginSaveContent, StartCall, Becomes
<1>4. PICK p : p = q
  OBVIOUS
<1>5. p = [NoCall EXCEPT !.kind = "content", !.pc = "resolve", !.doc = d, !.id = i]
  BY <1>1, <1>4
<1>6. p \in Call
  BY <1>2, <1>5, NoCallFits DEF Call, CallKinds, Steps
<1>7. Fits(p)
  BY <1>2, <1>5, <1>6, AnyEntryPlaced, NoCallFields, NoCallFits DEF Fits, Call, Placed
<1>8. p.pc # "insert" /\ Becomes(c, p)
  BY <1>3, <1>4, <1>5, NoCallFits DEF Call
<1> QED
  BY <1>3, <1>7, <1>8, TreeStays, CallStepTyped, BucketStays, DiskStays, StraysStay, BeginsCounts
     DEF Typed

LEMMA RelocateTyped ==
  ASSUME Typed, NEW c \in Callers, NEW i \in Entries, NEW d, Placed(i, d), Relocate(c, i, d)
  PROVE  Typed'
<1>1. PICK e : e = entry[i]
  OBVIOUS
<1>2. Placed(i, e) /\ e \in Entry /\ d \in Entry
  BY <1>1 DEF Typed, FlatTree, Placed
<1>3. PICK p : p = [NoCall EXCEPT !.kind = "rename", !.pc = "list", !.id = i, !.doc = d, !.old = e]
  OBVIOUS
<1>4. Becomes(c, p) /\ entry' = [entry EXCEPT ![i] = d] /\ Begins
      /\ UNCHANGED <<first, bucket, disk, syncing, strays, trouble>>
  BY <1>1, <1>3 DEF Relocate, StartCall, Becomes
<1>5. p \in Call
  BY <1>2, <1>3, NoCallFits DEF Call, CallKinds, Steps
<1>6. Fits(p) /\ p.pc # "insert"
  BY <1>2, <1>3, <1>5, AnyEntryPlaced, NoCallFields, NoCallFits DEF Fits, Call, Placed
<1> QED
  BY <1>4, <1>6, TreeWith, CallStepTyped, BucketStays, DiskStays, StraysStay, BeginsCounts DEF Typed

LEMMA RenamePlaced ==
  ASSUME Typed, NEW i \in Entries, NEW n \in Labels
  PROVE  Placed(i, [entry[i] EXCEPT !.name = n])
<1>1. entry[i] \in Entry /\ Placed(i, entry[i])
  BY DEF Typed, FlatTree
<1> QED
  BY <1>1 DEF Placed, Entry

LEMMA MovePlaced ==
  ASSUME Typed, NEW i \in Entries \ Directories, NEW p \in Directories \cup {Top}
  PROVE  Placed(i, [entry[i] EXCEPT !.parent = p])
<1>1. entry[i] \in Entry /\ Placed(i, entry[i])
  BY DEF Typed, FlatTree
<1> QED
  BY <1>1, MirrorAssumption DEF Placed, Entry, MirrorAssumption

LEMMA RenameItemTyped ==
  ASSUME Typed, NEW c \in Callers, NEW i \in Entries, NEW n \in Labels, RenameItem(c, i, n)
  PROVE  Typed'
BY RenamePlaced, RelocateTyped DEF RenameItem

LEMMA MoveItemTyped ==
  ASSUME Typed, NEW c \in Callers, NEW i \in Entries, NEW p \in Directories \cup {Top},
         MoveItem(c, i, p)
  PROVE  Typed'
BY MovePlaced, RelocateTyped DEF MoveItem

LEMMA RenameWorkspaceFolderTyped ==
  ASSUME Typed, NEW c \in Callers, NEW i \in Entries, NEW n \in Labels,
         RenameWorkspaceFolder(c, i, n)
  PROVE  Typed'
<1>1. PICK d : d = [entry[i] EXCEPT !.name = n]
  OBVIOUS
<1>2. Placed(i, d)
  BY <1>1, RenamePlaced
<1>3. entry' = [entry EXCEPT ![i] = d]
  BY <1>1 DEF RenameWorkspaceFolder
<1>4. Begins /\ UNCHANGED <<first, bucket, disk, syncing, strays, call, trouble>>
  BY DEF RenameWorkspaceFolder
<1> QED
  BY <1>2, <1>3, <1>4, TreeWith, OtherStepTyped, BucketStays, DiskStays, StraysStay, BeginsCounts
     DEF Typed

LEMMA BeginEraseTyped ==
  ASSUME Typed, NEW c \in Callers, NEW i \in Entries, BeginErase(c, i)
  PROVE  Typed'
<1>1. PICK e : e = entry
  OBVIOUS
<1>2. e \in [Entries -> Entry] /\ \A j \in Entries : Placed(j, e[j])
  BY <1>1 DEF Typed, FlatTree
<1>3. PICK p : p = [NoCall EXCEPT !.kind = "delete", !.pc = "erase", !.id = i,
                                  !.seen = e, !.todo = {i}]
  OBVIOUS
<1>4. Becomes(c, p) /\ Begins /\ UNCHANGED <<entry, first, bucket, disk, syncing, strays, trouble>>
  BY <1>1, <1>3 DEF BeginErase, StartCall, Becomes
<1>5. p \in Call
  BY <1>2, <1>3, NoCallFits DEF Call, CallKinds, Steps, ManyKeys
<1>6. Fits(p) /\ p.pc # "insert"
  BY <1>2, <1>3, <1>5, AnyEntryPlaced, NoCallFields, NoCallFits DEF Fits, Call, Placed
<1> QED
  BY <1>4, <1>6, TreeStays, CallStepTyped, BucketStays, DiskStays, StraysStay, BeginsCounts DEF Typed

LEMMA BeginEmptyTyped ==
  ASSUME Typed, NEW c \in Callers, BeginEmpty(c)
  PROVE  Typed'
<1>1. PICK e, t : e = entry /\ t = {i \in Entries : entry[i].state = "bin"}
  OBVIOUS
<1>2. e \in [Entries -> Entry] /\ t \subseteq Entries /\ \A j \in Entries : Placed(j, e[j])
  BY <1>1 DEF Typed, FlatTree
<1>3. PICK p : p = [NoCall EXCEPT !.kind = "emptyBin", !.pc = "erase", !.seen = e, !.todo = t]
  OBVIOUS
<1>4. Becomes(c, p) /\ Begins /\ UNCHANGED <<entry, first, bucket, disk, syncing, strays, trouble>>
  BY <1>1, <1>3 DEF BeginEmpty, StartCall, Becomes
<1>5. p \in Call
  BY <1>2, <1>3, NoCallFits DEF Call, CallKinds, Steps, ManyKeys
<1>6. Fits(p) /\ p.pc # "insert"
  BY <1>2, <1>3, <1>5, AnyEntryPlaced, NoCallFields, NoCallFits DEF Fits, Call, Placed
<1> QED
  BY <1>4, <1>6, TreeStays, CallStepTyped, BucketStays, DiskStays, StraysStay, BeginsCounts DEF Typed

LEMMA BeginLoginTyped ==
  ASSUME Typed, NEW c \in Callers, BeginLogin(c)
  PROVE  Typed'
<1>1. PICK n : n = first
  OBVIOUS
<1>2. n \in FirstNames /\ RootKeep(n) \in Keys
  BY <1>1, LabelsSpellKeys DEF Typed
<1>3. PICK p : p = [NoCall EXCEPT !.kind = "login", !.pc = "check", !.to = RootKeep(n)]
  OBVIOUS
<1>4. Becomes(c, p) /\ Begins /\ UNCHANGED <<entry, first, bucket, disk, syncing, strays, trouble>>
  BY <1>1, <1>3 DEF BeginLogin, StartCall, Becomes
<1>5. p \in Call
  BY <1>2, <1>3, NoCallFits DEF Call, CallKinds, Steps
<1>6. Fits(p) /\ p.pc # "insert"
  BY <1>2, <1>3, <1>5, AnyEntryPlaced, NoCallFields, NoCallFits DEF Fits, Call, Placed
<1> QED
  BY <1>4, <1>6, TreeStays, CallStepTyped, BucketStays, DiskStays, StraysStay, BeginsCounts DEF Typed

LEMMA BeginPopulateTyped ==
  ASSUME Typed, NEW c \in Callers, BeginPopulate(c)
  PROVE  Typed'
<1>1. PICK e, t : e = entry /\ t = WorkspaceFiles
  OBVIOUS
<1>2. e \in [Entries -> Entry] /\ t \subseteq Entries /\ \A j \in Entries : Placed(j, e[j])
  BY <1>1 DEF Typed, FlatTree, WorkspaceFiles, FilesKept
<1>3. PICK p : p = [NoCall EXCEPT !.kind = "open", !.pc = "fetch", !.seen = e, !.todo = t]
  OBVIOUS
<1>4. Becomes(c, p) /\ Begins /\ UNCHANGED <<entry, first, bucket, disk, syncing, strays, trouble>>
  BY <1>1, <1>3 DEF BeginPopulate, StartCall, Becomes
<1>5. p \in Call
  BY <1>2, <1>3, NoCallFits DEF Call, CallKinds, Steps, ManyKeys
<1>6. Fits(p) /\ p.pc # "insert"
  BY <1>2, <1>3, <1>5, AnyEntryPlaced, NoCallFields, NoCallFits DEF Fits, Call, Placed
<1> QED
  BY <1>4, <1>6, TreeStays, CallStepTyped, BucketStays, DiskStays, StraysStay, BeginsCounts DEF Typed

LEMMA BeginSyncTyped ==
  ASSUME Typed, NEW c \in Callers, BeginSync(c)
  PROVE  Typed'
<1>1. PICK t : t = DOMAIN disk \ {entry[i].name : i \in WorkspaceFiles}
  OBVIOUS
<1>2. t \subseteq Labels /\ t \subseteq DOMAIN disk
  BY <1>1 DEF Typed, DiskFits
<1>3. PICK p : p = [NoCall EXCEPT !.kind = "sync", !.pc = "insert", !.todo = t]
  OBVIOUS
<1>4. Becomes(c, p) /\ Begins /\ UNCHANGED <<entry, first, bucket, disk, strays, trouble>>
      /\ syncing' = TRUE
  BY <1>1, <1>3 DEF BeginSync, StartCall, Becomes
<1>5. p \in Call
  BY <1>2, <1>3, NoCallFits DEF Call, CallKinds, Steps, ManyKeys
<1>6. Fits(p) /\ p.todo = t
  BY <1>2, <1>3, <1>5, AnyEntryPlaced, NoCallFields, NoCallFits DEF Fits, Call, Placed
<1>7. StraysFit'
  BY <1>4 DEF Typed, StraysFit
<1>8. p.todo \subseteq DOMAIN disk'
  BY <1>2, <1>4, <1>6
<1> QED
  BY <1>4, <1>6, <1>7, <1>8, TreeStays, CallStepTyped, BucketStays, DiskStays, BeginsCounts DEF Typed

LEMMA CallFits ==
  ASSUME Typed, NEW c \in Callers
  PROVE  call[c] \in Call /\ Fits(call[c])
BY DEF Typed

LEMMA ResolvePathTyped ==
  ASSUME Typed, NEW c \in Callers, ResolvePath(c)
  PROVE  Typed'
<1>1. PICK q, k : q = call[c] /\ k = KeyOf(call[c].doc)
  OBVIOUS
<1>2. q \in Call /\ Fits(q) /\ q.pc = "resolve"
  BY <1>1, CallFits DEF ResolvePath
<1>3. k \in Keys
  BY <1>1, <1>2, PlacedKeys DEF Fits
<1>4. PICK p : p = [q EXCEPT !.pc = "put", !.to = k]
  OBVIOUS
<1>5. Becomes(c, p) /\ UNCHANGED <<entry, first, bucket, disk, syncing, strays, calls, trouble>>
  BY <1>1, <1>2, <1>4 DEF ResolvePath, Proceeds, Becomes, To, Call
<1>6. p \in Call
  BY <1>2, <1>3, <1>4 DEF Call, Steps
<1>7. Fits(p) /\ p.pc # "insert"
  BY <1>2, <1>4, <1>6 DEF Fits, Call
<1> QED
  BY <1>5, <1>7, TreeStays, CallStepTyped, BucketStays, DiskStays, StraysStay, CountsStay DEF Typed

LEMMA PutObjectTyped ==
  ASSUME Typed, NEW c \in Callers, NEW ok \in BOOLEAN, PutObject(c, ok)
  PROVE  Typed'
<1>1. PICK q : q = call[c]
  OBVIOUS
<1>2. q \in Call /\ Fits(q) /\ q.pc = "put"
  BY <1>1, CallFits DEF PutObject
<1>3. q.to \in Keys /\ q.id \in Contents
  BY <1>2 DEF Call, Fits, Contents
<1>4. BucketFits'
  BY <1>1, <1>3, BucketWith DEF PutObject, BucketFits, Typed
<1>5. PICK p : p = IF ok /\ q.kind = "content" THEN [q EXCEPT !.pc = "save"] ELSE NoCall
  OBVIOUS
<1>6. Becomes(c, p) /\ Answers(ok) /\ UNCHANGED <<entry, first, disk, syncing, strays, calls>>
  BY <1>1, <1>5 DEF PutObject, Proceeds, Becomes, To
<1>7. p \in Call
  BY <1>2, <1>5, NoCallFits DEF Call, Steps
<1>8. Fits(p) /\ p.pc # "insert"
  BY <1>2, <1>5, <1>7, NoCallFits, NoCallFields DEF Fits, Call
<1> QED
  BY <1>4, <1>6, <1>8, TreeStays, CallStepTyped, DiskStays, StraysStay, AnswerCounts DEF Typed

LEMMA SaveEntryTyped ==
  ASSUME Typed, NEW c \in Callers, SaveEntry(c)
  PROVE  Typed'
<1>1. PICK q : q = call[c]
  OBVIOUS
<1>2. q \in Call /\ Fits(q) /\ q.pc = "save"
  BY <1>1, CallFits DEF SaveEntry
<1>3. PICK d : d = [q.doc EXCEPT !.content = q.id]
  OBVIOUS
<1>4. q.id \in Entries /\ Placed(q.id, d)
  BY <1>2, <1>3 DEF Fits, Placed, Entry, Contents
<1>5. entry' = [entry EXCEPT ![q.id] = d] /\ Becomes(c, NoCall)
      /\ UNCHANGED <<first, bucket, disk, syncing, strays, calls, trouble>>
  BY <1>1, <1>3 DEF SaveEntry, Proceeds, Becomes
<1> QED
  BY <1>4, <1>5, NoCallFits, NoCallFields, TreeWith, CallStepTyped, BucketStays, DiskStays,
     StraysStay, CountsStay DEF Typed

LEMMA ListObjectsTyped ==
  ASSUME Typed, NEW c \in Callers, ListObjects(c)
  PROVE  Typed'
<1>1. PICK q, k, l : q = call[c] /\ k = KeyOf(call[c].old) /\ l = KeyOf(call[c].doc)
  OBVIOUS
<1>2. q \in Call /\ Fits(q) /\ q.pc = "list"
  BY <1>1, CallFits DEF ListObjects
<1>3. k \in Keys /\ l \in Keys
  BY <1>1, <1>2, PlacedKeys DEF Fits
<1>4. PICK t : t = IF q.id \in Directories THEN {m \in DOMAIN bucket : Inside(m, k)} ELSE {k}
  OBVIOUS
<1>5. t \subseteq Keys
  BY <1>3, <1>4 DEF Typed, BucketFits
<1>6. PICK p : p = IF t = {} THEN NoCall
                   ELSE [q EXCEPT !.pc = "copy", !.from = k, !.to = l, !.todo = t]
  OBVIOUS
<1>7. p = IF t = {} THEN NoCall
          ELSE [[q EXCEPT !.pc = "copy"] EXCEPT !.from = k, !.to = l, !.todo = t]
  BY <1>2, <1>6 DEF Call
<1>8. Becomes(c, p) /\ UNCHANGED <<entry, first, bucket, disk, syncing, strays, calls, trouble>>
  BY <1>1, <1>2, <1>4, <1>7 DEF ListObjects, Proceeds, Becomes, To
<1>9. p \in Call
  BY <1>2, <1>3, <1>5, <1>6, NoCallFits DEF Call, Steps, ManyKeys
<1>10. Fits(p) /\ p.pc # "insert"
  BY <1>2, <1>5, <1>6, <1>9, NoCallFits, NoCallFields DEF Fits, Call
<1> QED
  BY <1>8, <1>10, TreeStays, CallStepTyped, BucketStays, DiskStays, StraysStay, CountsStay DEF Typed

LEMMA NewKeyIsKey ==
  ASSUME NEW q \in Call, NEW k \in Keys
  PROVE  NewKey(q, k) \in Keys
<1>1. PICK s : s = SubSeq(k, Len(q.from) + 1, Len(k))
  OBVIOUS
<1>2. Len(q.from) \in Nat
  BY DEF Call, Keys
<1>3. s \in Keys
  BY <1>1, <1>2 DEF Keys
<1>4. q.to \in Keys
  BY DEF Call
<1>5. q.to \o s \in Keys
  BY <1>3, <1>4 DEF Keys
<1> QED
  BY <1>1, <1>5 DEF NewKey

LEMMA CopyObjectTyped ==
  ASSUME Typed, NEW c \in Callers, NEW ok \in BOOLEAN, NEW k \in call[c].todo, CopyObject(c, k, ok)
  PROVE  Typed'
<1>1. PICK q : q = call[c]
  OBVIOUS
<1>2. q \in Call /\ Fits(q) /\ q.pc = "copy" /\ k \in q.todo
  BY <1>1, CallFits DEF CopyObject
<1>3. k \in Keys /\ q.todo \subseteq Keys
  BY <1>2 DEF Fits
<1>4. PICK l : l = NewKey(q, k)
  OBVIOUS
<1>5. l \in Keys
  BY <1>2, <1>3, <1>4, NewKeyIsKey
<1>6. PICK r : r = q.todo \ {k}
  OBVIOUS
<1>7. r \in ManyKeys /\ r \subseteq Keys
  BY <1>3, <1>6 DEF ManyKeys
<1>8. Left(c, r, "copy", "idle") = [q EXCEPT !.todo = r, !.pc = IF r = {} THEN "idle" ELSE "copy"]
  BY <1>1 DEF Left
<1>9. PICK a : a = [q EXCEPT !.todo = r, !.pc = IF r = {} THEN "idle" ELSE "copy"]
  OBVIOUS
<1>10. a.todo = r
  BY <1>2, <1>9 DEF Call
<1>11. PICK p : p = IF ok /\ k \in DOMAIN bucket THEN [[a EXCEPT !.now = k] EXCEPT !.pc = "purge"]
                    ELSE IF r = {} THEN NoCall ELSE a
  OBVIOUS
<1>12. Becomes(c, p)
  BY <1>1, <1>6, <1>8, <1>9, <1>10, <1>11 DEF CopyObject, Proceeds, Becomes
<1>13. BucketFits'
  <2>1. CASE ok /\ k \in DOMAIN bucket
    <3>1. bucket' = With(l, bucket[k]) /\ bucket[k] \in Contents
      BY <1>1, <1>4, <2>1 DEF CopyObject, Typed, BucketFits
    <3> QED
      BY <1>5, <3>1, BucketWith DEF BucketFits
  <2>2. CASE ~(ok /\ k \in DOMAIN bucket)
    BY <2>2, BucketStays DEF CopyObject
  <2> QED
    BY <2>1, <2>2
<1>14. p \in Call
  BY <1>2, <1>3, <1>7, <1>9, <1>11, NoCallFits DEF Call, Steps
<1>15. Fits(p) /\ p.pc # "insert"
  BY <1>2, <1>7, <1>9, <1>11, <1>14, NoCallFits, NoCallFields DEF Fits, Call
<1>16. Answers(ok) /\ UNCHANGED <<entry, first, disk, syncing, strays, calls>>
  BY DEF CopyObject, Proceeds
<1> QED
  BY <1>12, <1>13, <1>15, <1>16, TreeStays, CallStepTyped, DiskStays, StraysStay, AnswerCounts
     DEF Typed

LEMMA PurgeObjectTyped ==
  ASSUME Typed, NEW c \in Callers, NEW ok \in BOOLEAN, PurgeObject(c, ok)
  PROVE  Typed'
<1>1. PICK q : q = call[c]
  OBVIOUS
<1>2. q \in Call /\ Fits(q) /\ q.pc = "purge"
  BY <1>1, CallFits DEF PurgeObject
<1>3. BucketFits'
  BY BucketWithout DEF PurgeObject, BucketFits, Typed
<1>4. PICK p : p = IF q.todo = {} THEN NoCall ELSE [q EXCEPT !.pc = "copy"]
  OBVIOUS
<1>5. Becomes(c, p) /\ Answers(ok) /\ UNCHANGED <<entry, first, disk, syncing, strays, calls>>
  BY <1>1, <1>4 DEF PurgeObject, Proceeds, Becomes, To
<1>6. p \in Call
  BY <1>2, <1>4, NoCallFits DEF Call, Steps
<1>7. Fits(p) /\ p.pc # "insert"
  BY <1>2, <1>4, <1>6, NoCallFits, NoCallFields DEF Fits, Call
<1> QED
  BY <1>3, <1>5, <1>7, TreeStays, CallStepTyped, DiskStays, StraysStay, AnswerCounts DEF Typed

LEMMA EraseObjectsTyped ==
  ASSUME Typed, NEW c \in Callers, NEW ok \in BOOLEAN, NEW i \in call[c].todo, EraseObjects(c, i, ok)
  PROVE  Typed'
<1>1. PICK q, t : q = call[c] /\ t = call[c].todo \ {i}
  OBVIOUS
<1>2. q \in Call /\ Fits(q) /\ q.pc = "erase"
  BY <1>1, CallFits DEF EraseObjects
<1>3. BucketFits'
  BY BucketWithout DEF EraseObjects, BucketFits, Typed
<1>4. PICK p : p = [q EXCEPT !.todo = t, !.pc = IF t = {} THEN "forget" ELSE "erase"]
  OBVIOUS
<1>5. Becomes(c, p) /\ Answers(ok) /\ UNCHANGED <<entry, first, disk, syncing, strays, calls>>
  BY <1>1, <1>4 DEF EraseObjects, Proceeds, Becomes, Left
<1>6. t \subseteq Entries /\ t \in ManyKeys
  BY <1>1, <1>2 DEF Fits, ManyKeys
<1>7. p \in Call
  BY <1>2, <1>4, <1>6 DEF Call, Steps
<1>8. Fits(p) /\ p.pc # "insert"
  BY <1>2, <1>4, <1>6, <1>7 DEF Fits, Call
<1> QED
  BY <1>3, <1>5, <1>8, TreeStays, CallStepTyped, DiskStays, StraysStay, AnswerCounts DEF Typed

LEMMA ForgetEntriesTyped ==
  ASSUME Typed, NEW c \in Callers, ForgetEntries(c)
  PROVE  Typed'
<1>1. PICK S : Mark(S, "gone")
  BY DEF ForgetEntries
<1>2. Becomes(c, NoCall) /\ UNCHANGED <<first, bucket, disk, syncing, strays, calls, trouble>>
  BY DEF ForgetEntries, Proceeds, Becomes
<1> QED
  BY <1>1, <1>2, NoCallFits, NoCallFields, TreeMarked, CallStepTyped, BucketStays, DiskStays,
     StraysStay, CountsStay DEF Typed

LEMMA CheckRootTyped ==
  ASSUME Typed, NEW c \in Callers, NEW ok \in BOOLEAN, CheckRoot(c, ok)
  PROVE  Typed'
<1>1. PICK q : q = call[c]
  OBVIOUS
<1>2. q \in Call /\ Fits(q) /\ q.pc = "check"
  BY <1>1, CallFits DEF CheckRoot
<1>3. PICK p : p = IF ok /\ q.to \in DOMAIN bucket THEN NoCall ELSE [q EXCEPT !.pc = "root"]
  OBVIOUS
<1>4. Becomes(c, p) /\ Answers(ok) /\ UNCHANGED <<entry, first, bucket, disk, syncing, strays, calls>>
  BY <1>1, <1>3 DEF CheckRoot, Proceeds, Becomes, To
<1>5. p \in Call
  BY <1>2, <1>3, NoCallFits DEF Call, Steps
<1>6. Fits(p) /\ p.pc # "insert"
  BY <1>2, <1>3, <1>5, NoCallFits, NoCallFields DEF Fits, Call
<1> QED
  BY <1>4, <1>6, TreeStays, CallStepTyped, BucketStays, DiskStays, StraysStay, AnswerCounts DEF Typed

LEMMA PutRootTyped ==
  ASSUME Typed, NEW c \in Callers, NEW ok \in BOOLEAN, PutRoot(c, ok)
  PROVE  Typed'
<1>1. PICK q, e, t : q = call[c] /\ e = entry /\ t = FilesKept
  OBVIOUS
<1>2. q \in Call /\ Fits(q) /\ q.pc = "root"
  BY <1>1, CallFits DEF PutRoot
<1>3. e \in [Entries -> Entry] /\ t \subseteq Entries /\ \A j \in Entries : Placed(j, e[j])
  BY <1>1 DEF Typed, FlatTree, FilesKept
<1>4. BucketFits'
  <2>1. q.to \in Keys /\ "keep" \in Contents
    BY <1>2 DEF Call, Contents
  <2> QED
    BY <1>1, <2>1, BucketWith DEF PutRoot, BucketFits, Typed
<1>5. PICK p : p = [[q EXCEPT !.todo = t, !.pc = IF t = {} THEN "idle" ELSE "fill"]
                      EXCEPT !.seen = e]
  OBVIOUS
<1>6. Becomes(c, p) /\ Answers(ok) /\ UNCHANGED <<entry, first, disk, syncing, strays, calls>>
  BY <1>1, <1>5 DEF PutRoot, Proceeds, Becomes, Left
<1>7. p \in Call
  BY <1>2, <1>3, <1>5 DEF Call, Steps, ManyKeys
<1>8. Fits(p) /\ p.pc # "insert"
  BY <1>2, <1>3, <1>5, <1>7 DEF Fits, Call
<1> QED
  BY <1>4, <1>6, <1>8, TreeStays, CallStepTyped, DiskStays, StraysStay, AnswerCounts DEF Typed

LEMMA PutPlaceholderTyped ==
  ASSUME Typed, NEW c \in Callers, NEW ok \in BOOLEAN, NEW i \in call[c].todo,
         PutPlaceholder(c, i, ok)
  PROVE  Typed'
<1>1. PICK q, t : q = call[c] /\ t = call[c].todo \ {i}
  OBVIOUS
<1>2. q \in Call /\ Fits(q) /\ q.pc = "fill" /\ i \in Entries
  BY <1>1, CallFits DEF PutPlaceholder, Fits
<1>3. PICK k : k = <<q.to[1]>> \o PathOf(q.seen[i])
  OBVIOUS
<1>4. k \in Keys
  <2>1. q.to[1] \in FirstNames
    BY <1>2 DEF Fits, RootKeep
  <2>2. PICK d : d = q.seen[i] /\ Placed(i, d)
    BY <1>2 DEF Fits
  <2>3. d.name \in Labels /\ (Stays(d.parent) => entry[d.parent].name \in Labels)
    BY <2>2 DEF Placed, Entry, Stays, Typed, FlatTree
  <2>4. PathOf(d) = IF Stays(d.parent) THEN <<entry[d.parent].name, d.name>> ELSE <<d.name>>
    BY <2>2, PathForm DEF Typed
  <2>5. k = IF Stays(d.parent) THEN <<q.to[1], entry[d.parent].name, d.name>> ELSE <<q.to[1], d.name>>
    BY <1>3, <2>2, <2>4, ConcatTwo, ConcatThree
  <2> QED
    BY <2>1, <2>3, <2>5, LabelsSpellKeys
<1>5. BucketFits'
  <2>1. "meta" \in Contents
    BY DEF Contents
  <2> QED
    BY <1>1, <1>3, <1>4, <2>1, BucketWith DEF PutPlaceholder, BucketFits, Typed
<1>6. PICK p : p = [q EXCEPT !.todo = t, !.pc = IF t = {} THEN "idle" ELSE "fill"]
  OBVIOUS
<1>7. Becomes(c, p) /\ Answers(ok) /\ UNCHANGED <<entry, first, disk, syncing, strays, calls>>
  BY <1>1, <1>6 DEF PutPlaceholder, Proceeds, Becomes, Left
<1>8. t \subseteq Entries
  BY <1>1, <1>2 DEF Fits
<1>9. p \in Call
  BY <1>2, <1>6, <1>8 DEF Call, Steps, ManyKeys
<1>10. Fits(p) /\ p.pc # "insert"
  BY <1>2, <1>6, <1>8, <1>9 DEF Fits, Call
<1> QED
  BY <1>5, <1>7, <1>10, TreeStays, CallStepTyped, DiskStays, StraysStay, AnswerCounts DEF Typed

LEMMA FetchFileTyped ==
  ASSUME Typed, NEW c \in Callers, NEW ok \in BOOLEAN, NEW i \in call[c].todo, FetchFile(c, i, ok)
  PROVE  Typed'
<1>1. PICK q, t : q = call[c] /\ t = call[c].todo \ {i}
  OBVIOUS
<1>2. q \in Call /\ Fits(q) /\ q.pc = "fetch" /\ i \in Entries
  BY <1>1, CallFits DEF FetchFile, Fits
<1>3. q.seen[i].name \in Labels
  BY <1>2 DEF Fits, Placed, Entry
<1>4. PICK k : k = KeyOf(q.seen[i])
  OBVIOUS
<1>5. PICK v : v = IF ok /\ k \in DOMAIN bucket THEN bucket[k] ELSE "empty"
  OBVIOUS
<1>6. v \in Contents
  BY <1>5 DEF Typed, BucketFits, Contents
<1>7. disk' = disk \/ disk' = Overwrite(disk, q.seen[i].name, v)
  BY <1>1, <1>4, <1>5 DEF FetchFile
<1>8. DiskFits' /\ DOMAIN disk \subseteq DOMAIN disk'
  BY <1>3, <1>6, <1>7, DiskWith, DiskStays
<1>9. PICK p : p = [q EXCEPT !.todo = t, !.pc = IF t = {} THEN "idle" ELSE "fetch"]
  OBVIOUS
<1>10. Becomes(c, p) /\ Answers(ok) /\ UNCHANGED <<entry, first, bucket, syncing, strays, calls>>
  BY <1>1, <1>9 DEF FetchFile, Proceeds, Becomes, Left
<1>11. t \subseteq Entries
  BY <1>1, <1>2 DEF Fits
<1>12. p \in Call
  BY <1>2, <1>9, <1>11 DEF Call, Steps, ManyKeys
<1>13. Fits(p) /\ p.pc # "insert"
  BY <1>2, <1>9, <1>11, <1>12 DEF Fits, Call
<1> QED
  BY <1>8, <1>10, <1>13, TreeStays, CallStepTyped, BucketStays, StraysStay, AnswerCounts DEF Typed

LEMMA InsertFromDiskTyped ==
  ASSUME Typed, NEW c \in Callers, NEW n \in call[c].todo, NEW i \in Entries, InsertFromDisk(c, n, i)
  PROVE  Typed'
<1>1. PICK q, t : q = call[c] /\ t = call[c].todo \ {n}
  OBVIOUS
<1>2. q \in Call /\ Fits(q) /\ q.pc = "insert" /\ q.todo \subseteq DOMAIN disk /\ n \in q.todo
  BY <1>1, CallFits DEF InsertFromDisk, Typed
<1>3. n \in Labels /\ t \subseteq Labels /\ t \subseteq DOMAIN disk /\ disk[n] \in Contents
  BY <1>1, <1>2 DEF Fits, Typed, DiskFits
<1>4. PICK d : d = [state |-> "live", name |-> n, parent |-> Workspace, content |-> disk[n]]
  OBVIOUS
<1>5. Placed(i, d)
  BY <1>3, <1>4, MirrorAssumption DEF InsertFromDisk, Placed, Entry, MirrorAssumption
<1>6. PICK p : p = [q EXCEPT !.todo = t]
  OBVIOUS
<1>7. entry' = [entry EXCEPT ![i] = d] /\ Becomes(c, p)
      /\ strays' = strays \cup {[to |-> <<first, n>>, content |-> disk[n]]}
      /\ UNCHANGED <<first, bucket, disk, syncing, calls, trouble>>
  BY <1>1, <1>4, <1>6 DEF InsertFromDisk, Proceeds, Becomes
<1>8. StraysFit'
  BY <1>3, <1>7, LabelsSpellKeys DEF Typed, StraysFit
<1>9. p \in Call
  BY <1>2, <1>3, <1>6 DEF Call, ManyKeys
<1>10. Fits(p) /\ p.todo = t
  BY <1>2, <1>3, <1>6, <1>9 DEF Fits, Call
<1>11. p.todo \subseteq DOMAIN disk'
  BY <1>3, <1>7, <1>10
<1> QED
  BY <1>5, <1>7, <1>8, <1>10, <1>11, TreeWith, CallStepTyped, BucketStays, DiskStays, CountsStay
     DEF Typed

LEMMA EndSyncTyped ==
  ASSUME Typed, NEW c \in Callers, EndSync(c)
  PROVE  Typed'
<1>1. Becomes(c, NoCall) /\ syncing' = FALSE
      /\ UNCHANGED <<entry, first, bucket, disk, strays, calls, trouble>>
  BY DEF EndSync, Proceeds, Becomes
<1>2. StraysFit'
  BY <1>1 DEF Typed, StraysFit
<1> QED
  BY <1>1, <1>2, NoCallFits, NoCallFields, TreeStays, CallStepTyped, BucketStays, DiskStays,
     CountsStay DEF Typed

LEMMA SetBinnedTyped ==
  ASSUME Typed, NEW i \in Entries, NEW s \in {"live", "bin"}, SetBinned(i, s)
  PROVE  Typed'
<1>1. Mark(WithBelow(i), s) /\ Begins /\ UNCHANGED <<first, bucket, disk, syncing, strays, call, trouble>>
  BY DEF SetBinned
<1> QED
  BY <1>1, TreeMarked, OtherStepTyped, BucketStays, DiskStays, StraysStay, BeginsCounts DEF Typed

LEMMA PutStrayTyped ==
  ASSUME Typed, NEW s \in strays, NEW ok \in BOOLEAN, PutStray(s, ok)
  PROVE  Typed'
<1>1. s.to \in Keys /\ s.content \in Contents
  BY DEF Typed, StraysFit
<1>2. BucketFits'
  BY <1>1, BucketWith DEF PutStray, BucketFits, Typed
<1>3. StraysFit'
  BY DEF PutStray, Typed, StraysFit
<1>4. Answers(ok) /\ UNCHANGED <<entry, first, disk, call, calls>>
  BY DEF PutStray
<1> QED
  BY <1>2, <1>3, <1>4, TreeStays, OtherStepTyped, DiskStays, AnswerCounts DEF Typed

LEMMA RestartServerTyped ==
  ASSUME Typed, RestartServer
  PROVE  Typed'
<1>1. StraysFit'
  BY DEF RestartServer, StraysFit
<1>2. Answers(FALSE) /\ UNCHANGED <<entry, first, bucket, disk, calls>>
      /\ call' = [c \in Callers |-> NoCall]
  BY DEF RestartServer
<1>3. call' \in [Callers -> Call] /\ \A c \in Callers : Fits(call'[c]) /\ call'[c].pc # "insert"
  BY <1>2, NoCallFits, NoCallFields
<1> QED
  BY <1>1, <1>2, <1>3, TreeStays, BucketStays, DiskStays, AnswerCounts DEF Typed

LEMMA ChangeNameTyped ==
  ASSUME Typed, NEW n \in FirstNames, ChangeName(n)
  PROVE  Typed'
<1>1. first' \in FirstNames /\ Begins /\ UNCHANGED <<entry, bucket, disk, syncing, strays, call, trouble>>
  BY DEF ChangeName
<1> QED
  BY <1>1, TreeStays, OtherStepTyped, BucketStays, DiskStays, StraysStay, BeginsCounts

LEMMA RunProgramTyped ==
  ASSUME Typed, NEW n \in Labels, RunProgram(n)
  PROVE  Typed'
<1>1. disk' = Overwrite(disk, n, "made") /\ "made" \in Contents /\ Begins
      /\ UNCHANGED <<entry, first, bucket, syncing, strays, call, trouble>>
  BY DEF RunProgram, Contents
<1> QED
  BY <1>1, TreeStays, OtherStepTyped, BucketStays, DiskWith, StraysStay, BeginsCounts DEF Typed

LEMMA InitTyped == MirrorInit => Typed
<1> SUFFICES ASSUME MirrorInit PROVE Typed
  OBVIOUS
<1>1. FlatTree
  <2>1. ASSUME NEW i \in Entries
        PROVE  entry[i] \in Entry /\ Placed(i, entry[i])
    <3>1. Placed(i, AnyEntry) /\ AnyEntry \in Entry
      BY AnyEntryPlaced
    <3>2. entry[i] = IF i = Workspace THEN [AnyEntry EXCEPT !.state = "live"] ELSE AnyEntry
      BY DEF MirrorInit
    <3> QED
      BY <3>1, <3>2 DEF Placed, Entry
  <2>2. entry = [i \in Entries |-> entry[i]]
    BY DEF MirrorInit
  <2> QED
    BY <2>1, <2>2 DEF FlatTree
<1>2. BucketFits /\ first \in FirstNames
  <2>1. first \in FirstNames /\ DOMAIN bucket = {RootKeep(first)} /\ \A k \in DOMAIN bucket : bucket[k] = "keep"
    BY DEF MirrorInit
  <2> QED
    BY <2>1, LabelsSpellKeys DEF BucketFits, Contents
<1>3. DiskFits /\ StraysFit /\ CountsFit
  <2>1. DOMAIN disk = {} /\ syncing = FALSE /\ strays = {}
    BY DEF MirrorInit
  <2>2. calls = 0 /\ trouble = 0 /\ MaxCalls \in Nat /\ MaxTrouble \in Nat
    BY MirrorAssumption DEF MirrorInit, MirrorAssumption
  <2>3. DiskFits
    BY <2>1 DEF DiskFits
  <2>4. syncing \in BOOLEAN
    BY <2>1
  <2>5. StraysFit
    BY <2>1, <2>4 DEF StraysFit
  <2>6. CountsFit
    BY <2>2 DEF CountsFit
  <2> QED
    BY <2>3, <2>5, <2>6
<1>4. call \in [Callers -> Call] /\ \A c \in Callers : Fits(call[c]) /\ call[c].pc # "insert"
  BY NoCallFits, NoCallFields DEF MirrorInit
<1> QED
  BY <1>1, <1>2, <1>3, <1>4 DEF Typed

LEMMA NextTyped == Typed /\ [MirrorNext]_mirrorVars => Typed'
<1> SUFFICES ASSUME Typed, [MirrorNext]_mirrorVars PROVE Typed'
  OBVIOUS
<1>1. ASSUME NEW c \in Callers, BeginCall(c)
      PROVE  Typed'
  BY <1>1, UploadFileTyped, BeginSaveContentTyped, RenameItemTyped, RenameWorkspaceFolderTyped,
     MoveItemTyped, BeginEraseTyped, BeginEmptyTyped, BeginLoginTyped, BeginPopulateTyped,
     BeginSyncTyped DEF BeginCall
<1>2. ASSUME NEW c \in Callers, CallStep(c)
      PROVE  Typed'
  BY <1>2, ResolvePathTyped, PutObjectTyped, SaveEntryTyped, ListObjectsTyped, CopyObjectTyped,
     PurgeObjectTyped, EraseObjectsTyped, ForgetEntriesTyped, CheckRootTyped, PutRootTyped,
     PutPlaceholderTyped, FetchFileTyped, InsertFromDiskTyped, EndSyncTyped DEF CallStep
<1>3. CASE UNCHANGED mirrorVars
  BY <1>3, TreeStays, BucketStays, DiskStays, StraysStay, CountsStay, OtherStepTyped
     DEF mirrorVars, Typed
<1> QED
  BY <1>1, <1>2, <1>3, SetBinnedTyped, PutStrayTyped, RestartServerTyped, ChangeNameTyped,
     RunProgramTyped DEF MirrorNext

LEMMA TypedIsShape == Typed => MirrorTypeOK
<1> SUFFICES ASSUME Typed PROVE MirrorTypeOK
  OBVIOUS
<1>1. ASSUME NEW c \in Callers
      PROVE  /\ call[c].doc \in Entry /\ call[c].old \in Entry /\ call[c].seen \in [Entries -> Entry]
             /\ call[c].kind \in CallKinds /\ call[c].pc \in Steps
             /\ call[c].from \in Keys /\ call[c].to \in Keys /\ call[c].now \in Keys
             /\ \A k \in call[c].todo : k \in Keys \/ k \in Entries \cup Labels
  <2>1. PICK q : q = call[c] /\ q \in Call
    BY DEF Typed
  <2> QED
    BY <2>1 DEF Call, ManyKeys
<1> QED
  BY <1>1 DEF Typed, FlatTree, BucketFits, DiskFits, StraysFit, CountsFit, MirrorTypeOK

LEMMA AlwaysTyped == MirrorSpec => []Typed
BY InitTyped, NextTyped, PTL DEF MirrorSpec

\* Documents, keys, objects, files on disk and the handlers keep their shape,
\* and the tree stays as flat as the proofs below need it.
THEOREM MirrorTyped == MirrorSpec => []MirrorTypeOK
BY AlwaysTyped, TypedIsShape, PTL

-------------------------------------------------------------------------------
(* What every step leaves alone *)

LEMMA MishapsStay == [MirrorNext]_mirrorVars => mishaps \subseteq mishaps'
<1> SUFFICES ASSUME [MirrorNext]_mirrorVars PROVE mishaps \subseteq mishaps'
  OBVIOUS
<1>1. ASSUME NEW c \in Callers, BeginCall(c)
      PROVE  mishaps \subseteq mishaps'
  BY <1>1 DEF BeginCall, UploadFile, BeginSaveContent, RenameItem, RenameWorkspaceFolder, MoveItem,
              Relocate, BeginErase, BeginEmpty, BeginLogin, BeginPopulate, BeginSync
<1>2. ASSUME NEW c \in Callers, CallStep(c)
      PROVE  mishaps \subseteq mishaps'
  BY <1>2 DEF CallStep, ResolvePath, PutObject, SaveEntry, ListObjects, CopyObject, PurgeObject,
              EraseObjects, ForgetEntries, CheckRoot, PutRoot, PutPlaceholder, FetchFile,
              InsertFromDisk, EndSync
<1>3. CASE \E i \in Entries, s \in {"live", "bin"} : SetBinned(i, s)
  BY <1>3 DEF SetBinned
<1>4. CASE \E s \in strays, ok \in BOOLEAN : PutStray(s, ok)
  BY <1>4 DEF PutStray
<1>5. CASE RestartServer
  BY <1>5 DEF RestartServer
<1>6. CASE \E n \in FirstNames : ChangeName(n)
  BY <1>6 DEF ChangeName
<1>7. CASE \E n \in Labels : RunProgram(n)
  BY <1>7 DEF RunProgram
<1>8. CASE UNCHANGED mirrorVars
  BY <1>8 DEF mirrorVars
<1> QED
  BY <1>1, <1>2, <1>3, <1>4, <1>5, <1>6, <1>7, <1>8 DEF MirrorNext

-------------------------------------------------------------------------------
(* The copy back inserts a file once *)

Inserting(c) == call[c].pc = "insert"

OneSync ==
  /\ \A c \in Callers : Inserting(c) => syncing
  /\ \A c, d \in Callers : Inserting(c) /\ Inserting(d) => c = d

\* What is still to be inserted has no document yet but one of an upload.
SyncIsExact ==
  /\ \A i, j \in WorkspaceFiles :
       i # j /\ entry[i].name = entry[j].name => entry[i].content = i \/ entry[j].content = j
  /\ \A c \in Callers, i \in WorkspaceFiles :
       Inserting(c) /\ entry[i].name \in call[c].todo => entry[i].content = i

SyncInv == OneSync /\ (mishaps \cap {"restored", "movedOnto"} = {} => SyncIsExact)

\* Most steps start, end and change no copy back.
SameSyncs ==
  /\ UNCHANGED syncing
  /\ \A c \in Callers :
       /\ call'[c].pc = "insert" <=> call[c].pc = "insert"
       /\ call[c].pc = "insert" => call'[c].todo = call[c].todo

LEMMA SameWhileOther ==
  ASSUME Typed, NEW c \in Callers, NEW q, Becomes(c, q), call[c].pc # "insert", q.pc # "insert",
         UNCHANGED syncing
  PROVE  SameSyncs
<1>1. call'[c] = q /\ \A d \in Callers \ {c} : call'[d] = call[d]
  BY BecomesFields DEF Typed
<1> QED
  BY <1>1 DEF SameSyncs

LEMMA SameWhenStarts ==
  ASSUME Typed, NEW c \in Callers, NEW q, StartCall(c, q), q.pc # "insert", UNCHANGED syncing
  PROVE  SameSyncs
<1>1. Becomes(c, q) /\ call[c].pc # "insert"
  BY DEF StartCall, Free, Becomes
<1> QED
  BY <1>1, SameWhileOther

LEMMA SameWhenProceeds ==
  ASSUME Typed, NEW c \in Callers, NEW q, Proceeds(c, q), call[c].pc # "insert", q.pc # "insert",
         UNCHANGED syncing
  PROVE  SameSyncs
<1>1. Becomes(c, q)
  BY DEF Proceeds, Becomes
<1> QED
  BY <1>1, SameWhileOther

\* The places a call may go to.
LEMMA NextPlaces ==
  ASSUME Typed, NEW c \in Callers
  PROVE  /\ NoCall.pc = "idle"
         /\ \A pc : To(c, pc).pc = pc /\ To(c, pc).todo = call[c].todo
         /\ \A rest, pc, done : /\ Left(c, rest, pc, done).pc = (IF rest = {} THEN done ELSE pc)
                                /\ Left(c, rest, pc, done).todo = rest
                                /\ Left(c, rest, pc, done).seen = call[c].seen
<1>1. call[c] \in Call
  BY DEF Typed
<1> QED
  BY <1>1, NoCallFields DEF To, Left, Call

LEMMA BeginSame ==
  ASSUME Typed, NEW c \in Callers, BeginCall(c), ~BeginSync(c)
  PROVE  SameSyncs
<1>1. ASSUME NEW i \in Entries, NEW n \in Labels, NEW p \in Directories \cup {Top},
             UploadFile(c, i, n, p)
      PROVE  SameSyncs
  BY <1>1, SameWhenStarts DEF UploadFile, NoCall
<1>2. ASSUME NEW i \in Entries, BeginSaveContent(c, i)
      PROVE  SameSyncs
  BY <1>2, SameWhenStarts DEF BeginSaveContent, NoCall
<1>3. ASSUME NEW i \in Entries, NEW d, Relocate(c, i, d)
      PROVE  SameSyncs
  BY <1>3, SameWhenStarts DEF Relocate, NoCall
<1>4. ASSUME NEW i \in Entries, NEW n \in Labels, RenameWorkspaceFolder(c, i, n)
      PROVE  SameSyncs
  BY <1>4 DEF RenameWorkspaceFolder, SameSyncs
<1>5. ASSUME NEW i \in Entries, BeginErase(c, i)
      PROVE  SameSyncs
  BY <1>5, SameWhenStarts DEF BeginErase, NoCall
<1>6. CASE BeginEmpty(c)
  BY <1>6, SameWhenStarts DEF BeginEmpty, NoCall
<1>7. CASE BeginLogin(c)
  BY <1>7, SameWhenStarts DEF BeginLogin, NoCall
<1>8. CASE BeginPopulate(c)
  BY <1>8, SameWhenStarts DEF BeginPopulate, NoCall
<1> QED
  BY <1>1, <1>2, <1>3, <1>4, <1>5, <1>6, <1>7, <1>8 DEF BeginCall, RenameItem, MoveItem

LEMMA StepSame ==
  ASSUME Typed, NEW c \in Callers, CallStep(c), call[c].pc # "insert"
  PROVE  SameSyncs
<1>0. call[c] \in Call
  BY DEF Typed
<1>1. CASE ResolvePath(c)
  <2>1. PICK k : Proceeds(c, [To(c, "put") EXCEPT !.to = k])
    BY <1>1 DEF ResolvePath
  <2>2. [To(c, "put") EXCEPT !.to = k].pc = "put"
    BY <1>0 DEF To, Call
  <2> QED
    BY <1>1, <2>1, <2>2, SameWhenProceeds DEF ResolvePath
<1>2. ASSUME NEW ok \in BOOLEAN, PutObject(c, ok)
      PROVE  SameSyncs
  BY <1>2, NextPlaces, SameWhenProceeds DEF PutObject
<1>3. CASE SaveEntry(c)
  BY <1>3, NextPlaces, SameWhenProceeds DEF SaveEntry
<1>4. CASE ListObjects(c)
  <2>1. PICK f, t, s : Proceeds(c, NoCall) \/ Proceeds(c, [To(c, "copy") EXCEPT !.from = f, !.to = t, !.todo = s])
    BY <1>4 DEF ListObjects
  <2>2. [To(c, "copy") EXCEPT !.from = f, !.to = t, !.todo = s].pc = "copy"
    BY <1>0 DEF To, Call
  <2> QED
    BY <1>4, <2>1, <2>2, NextPlaces, SameWhenProceeds DEF ListObjects
<1>5. ASSUME NEW k \in call[c].todo, NEW ok \in BOOLEAN, CopyObject(c, k, ok)
      PROVE  SameSyncs
  <2>1. PICK r : r = Left(c, call[c].todo \ {k}, "copy", "idle")
    OBVIOUS
  <2>2. r.pc # "insert" /\ r.pc \in Steps /\ [[r EXCEPT !.now = k] EXCEPT !.pc = "purge"].pc = "purge"
    BY <1>0, <2>1 DEF Left, Call, Steps
  <2>3. Proceeds(c, [[r EXCEPT !.now = k] EXCEPT !.pc = "purge"]) \/ Proceeds(c, NoCall) \/ Proceeds(c, r)
    BY <1>5, <2>1 DEF CopyObject
  <2> QED
    BY <1>5, <2>2, <2>3, NextPlaces, SameWhenProceeds DEF CopyObject
<1>6. ASSUME NEW ok \in BOOLEAN, PurgeObject(c, ok)
      PROVE  SameSyncs
  BY <1>6, NextPlaces, SameWhenProceeds DEF PurgeObject
<1>7. ASSUME NEW i \in call[c].todo, NEW ok \in BOOLEAN, EraseObjects(c, i, ok)
      PROVE  SameSyncs
  BY <1>7, NextPlaces, SameWhenProceeds DEF EraseObjects
<1>8. CASE ForgetEntries(c)
  BY <1>8, NextPlaces, SameWhenProceeds DEF ForgetEntries
<1>9. ASSUME NEW ok \in BOOLEAN, CheckRoot(c, ok)
      PROVE  SameSyncs
  BY <1>9, NextPlaces, SameWhenProceeds DEF CheckRoot
<1>10. ASSUME NEW ok \in BOOLEAN, PutRoot(c, ok)
       PROVE  SameSyncs
  <2>1. PICK e : Proceeds(c, [Left(c, FilesKept, "fill", "idle") EXCEPT !.seen = e])
    BY <1>10 DEF PutRoot
  <2>2. [Left(c, FilesKept, "fill", "idle") EXCEPT !.seen = e].pc # "insert"
    BY <1>0 DEF Left, Call
  <2> QED
    BY <1>10, <2>1, <2>2, SameWhenProceeds DEF PutRoot
<1>11. ASSUME NEW i \in call[c].todo, NEW ok \in BOOLEAN, PutPlaceholder(c, i, ok)
       PROVE  SameSyncs
  BY <1>11, NextPlaces, SameWhenProceeds DEF PutPlaceholder
<1>12. ASSUME NEW i \in call[c].todo, NEW ok \in BOOLEAN, FetchFile(c, i, ok)
       PROVE  SameSyncs
  BY <1>12, NextPlaces, SameWhenProceeds DEF FetchFile
<1>13. ~EndSync(c) /\ \A n \in call[c].todo, i \in Entries : ~InsertFromDisk(c, n, i)
  BY DEF EndSync, InsertFromDisk
<1> QED
  BY <1>1, <1>2, <1>3, <1>4, <1>5, <1>6, <1>7, <1>8, <1>9, <1>10, <1>11, <1>12, <1>13 DEF CallStep

LEMMA OneSyncKept ==
  ASSUME OneSync, SameSyncs
  PROVE  OneSync'
BY DEF OneSync, SameSyncs, Inserting

\* Documents that are new to the workspace, or changed, hold an upload.
LEMMA ExactKept ==
  ASSUME SyncIsExact, SameSyncs,
         \A i \in WorkspaceFiles' :
           \/ entry'[i].content = i
           \/ /\ i \in WorkspaceFiles /\ entry'[i].name = entry[i].name
              /\ entry'[i].content = entry[i].content
  PROVE  SyncIsExact'
<1>1. ASSUME NEW i \in WorkspaceFiles', NEW j \in WorkspaceFiles', i # j, entry'[i].name = entry'[j].name
      PROVE  entry'[i].content = i \/ entry'[j].content = j
  BY <1>1 DEF SyncIsExact
<1>2. ASSUME NEW c \in Callers, NEW i \in WorkspaceFiles', Inserting(c)', entry'[i].name \in call'[c].todo
      PROVE  entry'[i].content = i
  <2>1. Inserting(c) /\ call'[c].todo = call[c].todo
    BY <1>2 DEF SameSyncs, Inserting
  <2> QED
    BY <1>2, <2>1 DEF SyncIsExact
<1> QED
  BY <1>1, <1>2 DEF SyncIsExact

LEMMA SyncKept ==
  ASSUME SyncInv, SameSyncs, mishaps \subseteq mishaps',
         \A i \in WorkspaceFiles' :
           \/ entry'[i].content = i
           \/ /\ i \in WorkspaceFiles /\ entry'[i].name = entry[i].name
              /\ entry'[i].content = entry[i].content
  PROVE  SyncInv'
<1>1. OneSync'
  BY OneSyncKept DEF SyncInv
<1>2. ASSUME mishaps' \cap {"restored", "movedOnto"} = {}
      PROVE  SyncIsExact'
  <2>1. SyncIsExact
    BY <1>2 DEF SyncInv
  <2> QED
    BY <2>1, ExactKept
<1> QED
  BY <1>1, <1>2 DEF SyncInv

LEMMA SyncKeptByRest ==
  ASSUME SyncInv, SameSyncs, mishaps \subseteq mishaps', UNCHANGED entry
  PROVE  SyncInv'
<1>1. WorkspaceFiles' = WorkspaceFiles
  BY DEF WorkspaceFiles, FilesKept, Stays
<1> QED
  BY <1>1, SyncKept

\* One document changes.
LEMMA SyncKeptByOne ==
  ASSUME Typed, SyncInv, SameSyncs, mishaps \subseteq mishaps', NEW i \in Entries, NEW d,
         entry' = [entry EXCEPT ![i] = d], d.content = i \/ i \in Directories
  PROVE  SyncInv'
<1>1. entry \in [Entries -> Entry]
  BY DEF Typed, FlatTree
<1>2. ASSUME NEW j \in WorkspaceFiles', j # i
      PROVE  j \in WorkspaceFiles /\ entry'[j] = entry[j]
  BY <1>1, <1>2 DEF WorkspaceFiles, FilesKept, Stays
<1>3. i \in WorkspaceFiles' => entry'[i].content = i
  BY <1>1 DEF WorkspaceFiles, FilesKept
<1> QED
  BY <1>2, <1>3, SyncKept

\* Documents change their state, none to live.
LEMMA SyncKeptByMark ==
  ASSUME Typed, SyncInv, SameSyncs, mishaps \subseteq mishaps', NEW S, NEW s \in {"bin", "gone"},
         Mark(S, s)
  PROVE  SyncInv'
<1>1. ASSUME NEW i \in WorkspaceFiles'
      PROVE  i \in WorkspaceFiles /\ entry'[i] = entry[i]
  <2>1. i \in Entries /\ entry[i] \in Entry /\ entry'[i].state = "live"
        /\ i \notin Directories /\ entry'[i].parent = Workspace
    BY DEF WorkspaceFiles, FilesKept, Typed, FlatTree
  <2>2. entry'[i] = IF i \in S THEN [entry[i] EXCEPT !.state = s] ELSE entry[i]
    BY <2>1 DEF Mark
  <2>3. i \notin S
    BY <2>1, <2>2 DEF Entry
  <2> QED
    BY <2>1, <2>2, <2>3 DEF WorkspaceFiles, FilesKept, Stays
<1> QED
  BY <1>1, SyncKept

LEMMA RelocateSync ==
  ASSUME Typed, SyncInv, NEW c \in Callers, NEW i \in Entries, NEW d, Placed(i, d),
         Relocate(c, i, d), SameSyncs
  PROVE  SyncInv'
<1>1. OneSync'
  BY OneSyncKept DEF SyncInv
<1>2. entry' = [entry EXCEPT ![i] = d] /\ entry \in [Entries -> Entry] /\ UNCHANGED syncing
      /\ mishaps \subseteq mishaps'
      /\ (syncing \/ ~NameFree(i, d) => "movedOnto" \in mishaps')
  BY DEF Relocate, Mishap, Typed, FlatTree
<1>3. ASSUME mishaps' \cap {"restored", "movedOnto"} = {}
      PROVE  SyncIsExact'
  <2>1. ~syncing /\ NameFree(i, d) /\ SyncIsExact
    BY <1>2, <1>3 DEF SyncInv
  <2>2. \A b \in Callers : ~Inserting(b)'
    BY <1>2, <2>1, <1>1 DEF OneSync
  <2>3. ASSUME NEW j \in WorkspaceFiles', j # i
        PROVE  /\ j \in WorkspaceFiles /\ entry'[j] = entry[j] /\ j \in Entries \ Directories
               /\ entry[j].state = "live" /\ entry[j].parent = Workspace
    BY <1>2, <2>3 DEF WorkspaceFiles, FilesKept, Stays
  <2>4. ASSUME i \in WorkspaceFiles', NEW j \in WorkspaceFiles', j # i
        PROVE  entry'[j].name # entry'[i].name
    <3>1. i \notin Directories /\ d.parent = Workspace /\ entry'[i] = d
      BY <1>2, <2>4 DEF WorkspaceFiles, FilesKept
    <3> QED
      BY <2>1, <2>3, <2>4, <3>1 DEF NameFree
  <2>5. ASSUME NEW j \in WorkspaceFiles', NEW k \in WorkspaceFiles', j # k,
               entry'[j].name = entry'[k].name
        PROVE  entry'[j].content = j \/ entry'[k].content = k
    <3>1. j # i /\ k # i
      BY <2>4, <2>5
    <3> QED
      BY <2>1, <2>3, <2>5, <3>1 DEF SyncIsExact
  <2> QED
    BY <2>2, <2>5 DEF SyncIsExact
<1> QED
  BY <1>1, <1>3 DEF SyncInv

LEMMA BeginSyncKeeps ==
  ASSUME Typed, SyncInv, NEW c \in Callers, BeginSync(c)
  PROVE  SyncInv'
<1>1. PICK t : t = DOMAIN disk \ {entry[i].name : i \in WorkspaceFiles}
  OBVIOUS
<1>2. PICK p : p = [NoCall EXCEPT !.kind = "sync", !.pc = "insert", !.todo = t]
  OBVIOUS
<1>3. Becomes(c, p) /\ UNCHANGED entry /\ syncing' = TRUE /\ ~syncing /\ mishaps \subseteq mishaps'
  BY <1>1, <1>2 DEF BeginSync, StartCall, Becomes
<1>4. p.todo = t
  BY <1>2 DEF NoCall
<1>5. call'[c] = p /\ \A d \in Callers \ {c} : call'[d] = call[d]
  BY <1>3, BecomesFields DEF Typed
<1>6. \A d \in Callers \ {c} : ~Inserting(d)'
  BY <1>3, <1>5 DEF SyncInv, OneSync, Inserting
<1>7. OneSync'
  BY <1>3, <1>6 DEF OneSync
<1>8. WorkspaceFiles' = WorkspaceFiles
  BY <1>3 DEF WorkspaceFiles, FilesKept, Stays
<1>9. ASSUME mishaps' \cap {"restored", "movedOnto"} = {}
      PROVE  SyncIsExact'
  <2>1. SyncIsExact
    BY <1>3, <1>9 DEF SyncInv
  <2>2. ASSUME NEW d \in Callers, NEW i \in WorkspaceFiles, Inserting(d)', entry[i].name \in call'[d].todo
        PROVE  entry[i].content = i
    BY <1>1, <1>4, <1>5, <1>6, <2>2
  <2> QED
    BY <1>3, <1>8, <2>1, <2>2 DEF SyncIsExact
<1> QED
  BY <1>7, <1>9 DEF SyncInv

LEMMA InsertFromDiskKeeps ==
  ASSUME Typed, SyncInv, NEW c \in Callers, NEW n \in call[c].todo, NEW i \in Entries,
         InsertFromDisk(c, n, i)
  PROVE  SyncInv'
<1>1. PICK d : d = [state |-> "live", name |-> n, parent |-> Workspace, content |-> disk[n]]
  OBVIOUS
<1>2. PICK p : p = [call[c] EXCEPT !.todo = @ \ {n}]
  OBVIOUS
<1>3. /\ Becomes(c, p) /\ entry' = [entry EXCEPT ![i] = d] /\ UNCHANGED syncing
      /\ mishaps \subseteq mishaps' /\ Inserting(c) /\ entry[i].state = "fresh" /\ entry \in [Entries -> Entry]
  BY <1>1, <1>2 DEF InsertFromDisk, Proceeds, Becomes, Inserting, Typed, FlatTree
<1>4. call'[c] = p /\ \A b \in Callers \ {c} : call'[b] = call[b]
  BY <1>3, BecomesFields DEF Typed
<1>5. p.pc = "insert" /\ p.todo = call[c].todo \ {n}
  BY <1>2, <1>3 DEF Typed, Call, Inserting
<1>6. \A b \in Callers \ {c} : ~Inserting(b)'
  BY <1>3, <1>4 DEF SyncInv, OneSync, Inserting
<1>7. OneSync'
  BY <1>3, <1>6 DEF OneSync, SyncInv
<1>8. ASSUME NEW j \in WorkspaceFiles', j # i
      PROVE  j \in WorkspaceFiles /\ entry'[j] = entry[j]
  BY <1>3, <1>8 DEF WorkspaceFiles, FilesKept, Stays
<1>9. entry'[i].name = n
  BY <1>1, <1>3
<1>10. ASSUME mishaps' \cap {"restored", "movedOnto"} = {}
       PROVE  SyncIsExact'
  <2>1. SyncIsExact
    BY <1>3, <1>10 DEF SyncInv
  <2>2. ASSUME NEW j \in WorkspaceFiles', j # i, entry'[j].name = n
        PROVE  entry'[j].content = j
    BY <1>3, <1>8, <2>1, <2>2 DEF SyncIsExact
  <2>3. ASSUME NEW j \in WorkspaceFiles', NEW k \in WorkspaceFiles', j # k,
               entry'[j].name = entry'[k].name
        PROVE  entry'[j].content = j \/ entry'[k].content = k
    <3>1. CASE j = i \/ k = i
      BY <1>9, <2>2, <2>3, <3>1
    <3>2. CASE j # i /\ k # i
      BY <1>8, <2>1, <2>3, <3>2 DEF SyncIsExact
    <3> QED
      BY <3>1, <3>2
  <2>4. ASSUME NEW b \in Callers, NEW j \in WorkspaceFiles', Inserting(b)', entry'[j].name \in call'[b].todo
        PROVE  entry'[j].content = j
    <3>1. b = c /\ entry'[j].name \in call[c].todo /\ entry'[j].name # n
      BY <1>4, <1>5, <1>6, <2>4
    <3> QED
      BY <1>3, <1>8, <1>9, <2>1, <3>1 DEF SyncIsExact
  <2> QED
    BY <2>3, <2>4 DEF SyncIsExact
<1> QED
  BY <1>7, <1>10 DEF SyncInv

LEMMA NobodyInserts ==
  ASSUME SyncInv, \A d \in Callers : ~Inserting(d)', mishaps \subseteq mishaps', UNCHANGED entry
  PROVE  SyncInv'
<1>1. WorkspaceFiles' = WorkspaceFiles
  BY DEF WorkspaceFiles, FilesKept, Stays
<1>2. OneSync'
  BY DEF OneSync
<1>3. ASSUME mishaps' \cap {"restored", "movedOnto"} = {}
      PROVE  SyncIsExact'
  <2>1. SyncIsExact
    BY <1>3 DEF SyncInv
  <2> QED
    BY <1>1, <2>1 DEF SyncIsExact
<1> QED
  BY <1>2, <1>3 DEF SyncInv

LEMMA EndSyncKeeps ==
  ASSUME Typed, SyncInv, NEW c \in Callers, EndSync(c)
  PROVE  SyncInv'
<1>1. Becomes(c, NoCall) /\ UNCHANGED <<entry, mishaps>> /\ Inserting(c)
  BY DEF EndSync, Proceeds, Becomes, Inserting
<1>2. call'[c] = NoCall /\ \A d \in Callers \ {c} : call'[d] = call[d]
  BY <1>1, BecomesFields DEF Typed
<1>3. \A d \in Callers : ~Inserting(d)'
  BY <1>1, <1>2, NoCallFields DEF SyncInv, OneSync, Inserting
<1> QED
  BY <1>1, <1>3, NobodyInserts

LEMMA SyncStep ==
  ASSUME Typed, SyncInv, NEW c \in Callers, CallStep(c), mishaps \subseteq mishaps'
  PROVE  SyncInv'
<1>1. ASSUME NEW n \in call[c].todo, NEW i \in Entries, InsertFromDisk(c, n, i)
      PROVE  SyncInv'
  BY <1>1, InsertFromDiskKeeps
<1>2. CASE EndSync(c)
  BY <1>2, EndSyncKeeps
<1>3. CASE SaveEntry(c)
  <2>1. PICK q : q = call[c] /\ Fits(q) /\ q.pc = "save"
    BY <1>3, CallFits DEF SaveEntry
  <2>2. PICK d : d = [q.doc EXCEPT !.content = q.id]
    OBVIOUS
  <2>3. q.id \in Entries /\ d.content = q.id /\ entry' = [entry EXCEPT ![q.id] = d]
    BY <1>3, <2>1, <2>2 DEF SaveEntry, Fits, Placed, Entry
  <2>4. SameSyncs
    BY <2>1, StepSame
  <2> QED
    BY <2>3, <2>4, SyncKeptByOne
<1>4. CASE ForgetEntries(c)
  <2>1. PICK S : Mark(S, "gone")
    BY <1>4 DEF ForgetEntries
  <2>2. SameSyncs
    BY <1>4, StepSame DEF ForgetEntries
  <2> QED
    BY <2>1, <2>2, SyncKeptByMark
<1>5. CASE call[c].pc # "insert" /\ UNCHANGED entry
  BY <1>5, StepSame, SyncKeptByRest
<1> QED
  BY <1>1, <1>2, <1>3, <1>4, <1>5
     DEF CallStep, ResolvePath, PutObject, ListObjects, CopyObject, PurgeObject, EraseObjects,
         CheckRoot, PutRoot, PutPlaceholder, FetchFile

LEMMA SyncBegin ==
  ASSUME Typed, SyncInv, NEW c \in Callers, BeginCall(c), mishaps \subseteq mishaps'
  PROVE  SyncInv'
<1>1. CASE BeginSync(c)
  BY <1>1, BeginSyncKeeps
<1>2. CASE ~BeginSync(c)
  <2>1. SameSyncs
    BY <1>2, BeginSame
  <2>2. ASSUME NEW i \in Entries, NEW n \in Labels, NEW p \in Directories \cup {Top},
               UploadFile(c, i, n, p)
        PROVE  SyncInv'
    <3>1. PICK d : d = [state |-> "live", name |-> n, parent |-> p, content |-> i]
      OBVIOUS
    <3>2. d.content = i /\ entry' = [entry EXCEPT ![i] = d]
      BY <2>2, <3>1 DEF UploadFile
    <3> QED
      BY <2>1, <3>2, SyncKeptByOne
  <2>3. ASSUME NEW i \in Entries, NEW n \in Labels, RenameItem(c, i, n)
        PROVE  SyncInv'
    BY <2>1, <2>3, RenamePlaced, RelocateSync DEF RenameItem
  <2>4. ASSUME NEW i \in Entries, NEW p \in Directories \cup {Top}, MoveItem(c, i, p)
        PROVE  SyncInv'
    BY <2>1, <2>4, MovePlaced, RelocateSync DEF MoveItem
  <2>5. ASSUME NEW i \in Entries, NEW n \in Labels, RenameWorkspaceFolder(c, i, n)
        PROVE  SyncInv'
    <3>1. PICK d : d = [entry[i] EXCEPT !.name = n]
      OBVIOUS
    <3>2. i \in Directories /\ entry' = [entry EXCEPT ![i] = d]
      BY <2>5, <3>1 DEF RenameWorkspaceFolder
    <3> QED
      BY <2>1, <3>2, SyncKeptByOne
  <2>6. CASE UNCHANGED entry
    BY <2>1, <2>6, SyncKeptByRest
  <2> QED
    BY <1>2, <2>2, <2>3, <2>4, <2>5, <2>6
       DEF BeginCall, BeginSaveContent, BeginErase, BeginEmpty, BeginLogin, BeginPopulate
<1> QED
  BY <1>1, <1>2

LEMMA SyncInit == MirrorInit => SyncInv
<1> SUFFICES ASSUME MirrorInit PROVE SyncInv
  OBVIOUS
<1>1. \A c \in Callers : ~Inserting(c)
  BY NoCallFields DEF MirrorInit, Inserting
<1>2. WorkspaceFiles = {}
  <2>1. ASSUME NEW i \in Entries \ Directories
        PROVE  entry[i] = AnyEntry
    BY <2>1, MirrorAssumption DEF MirrorInit, MirrorAssumption
  <2> QED
    BY <2>1 DEF WorkspaceFiles, FilesKept, AnyEntry
<1> QED
  BY <1>1, <1>2 DEF SyncInv, OneSync, SyncIsExact

LEMMA SyncNext == Typed /\ SyncInv /\ [MirrorNext]_mirrorVars => SyncInv'
<1> SUFFICES ASSUME Typed, SyncInv, [MirrorNext]_mirrorVars PROVE SyncInv'
  OBVIOUS
<1>0. mishaps \subseteq mishaps'
  BY MishapsStay
<1>1. CASE \E c \in Callers : BeginCall(c) \/ CallStep(c)
  BY <1>0, <1>1, SyncBegin, SyncStep
<1>2. ASSUME NEW i \in Entries, NEW s \in {"live", "bin"}, SetBinned(i, s)
      PROVE  SyncInv'
  <2>1. Mark(WithBelow(i), s) /\ UNCHANGED <<syncing, call>> /\ (s = "live" => "restored" \in mishaps')
    BY <1>2 DEF SetBinned, Mishap
  <2>2. SameSyncs
    BY <2>1 DEF SameSyncs
  <2>3. CASE s = "bin"
    BY <1>0, <2>1, <2>2, <2>3, SyncKeptByMark
  <2>4. CASE s = "live"
    BY <2>1, <2>2, <2>4, OneSyncKept DEF SyncInv
  <2> QED
    BY <2>3, <2>4
<1>3. ASSUME NEW s \in strays, NEW ok \in BOOLEAN, PutStray(s, ok)
      PROVE  SyncInv'
  BY <1>0, <1>3, SyncKeptByRest DEF PutStray, SameSyncs
<1>4. CASE RestartServer
  <2>1. \A c \in Callers : ~Inserting(c)'
    BY <1>4, NoCallFields DEF RestartServer, Inserting
  <2> QED
    BY <1>0, <1>4, <2>1, NobodyInserts DEF RestartServer
<1>5. ASSUME NEW n \in FirstNames, ChangeName(n)
      PROVE  SyncInv'
  BY <1>0, <1>5, SyncKeptByRest DEF ChangeName, SameSyncs
<1>6. ASSUME NEW n \in Labels, RunProgram(n)
      PROVE  SyncInv'
  BY <1>0, <1>6, SyncKeptByRest DEF RunProgram, SameSyncs
<1>7. CASE UNCHANGED mirrorVars
  BY <1>0, <1>7, SyncKeptByRest DEF mirrorVars, SameSyncs
<1> QED
  BY <1>1, <1>2, <1>3, <1>4, <1>5, <1>6, <1>7 DEF MirrorNext

\* However many requests start the copy back at once, what is on disk and not
\* in the tree gets one document (SyncInsertsOnce): _active_syncs admits one
\* copy back, and until it inserts a name only an upload can have given it.
THEOREM CopyBackInsertsOnce == MirrorSpec => []SyncInsertsOnce
<1>1. Typed /\ SyncInv => SyncInsertsOnce
  BY DEF SyncInv, SyncIsExact, SyncInsertsOnce
<1>2. MirrorInit => SyncInv
  BY SyncInit
<1>3. Typed /\ SyncInv /\ [MirrorNext]_mirrorVars => SyncInv'
  BY SyncNext
<1> QED
  BY <1>1, <1>2, <1>3, AlwaysTyped, PTL DEF MirrorSpec

-------------------------------------------------------------------------------
(* One handler at a time: what "overlap" not among the mishaps means *)

Solo == \A c, d \in Callers : ~Free(c) /\ ~Free(d) => c = d
Quiet == strays # {} => \A c \in Callers : Free(c) \/ Inserting(c)
Alone == "overlap" \notin mishaps => Solo /\ Quiet

\* A call that starts is the only one, or else the overlap is on record.
LEMMA StartsAlone ==
  ASSUME Typed, Alone, NEW c \in Callers, NEW q, StartCall(c, q), mishaps \subseteq mishaps',
         "overlap" \notin mishaps', Mishap("overlap", Overlapping(c)) \subseteq mishaps',
         UNCHANGED strays
  PROVE  /\ ~Busy /\ strays' = {} /\ call'[c] = q
         /\ \A d \in Callers \ {c} : call'[d] = call[d] /\ Free(d)
         /\ Solo' /\ Quiet'
<1>1. ~Overlapping(c) /\ Free(c) /\ Becomes(c, q)
  BY DEF Mishap, StartCall, Becomes
<1>2. strays = {} /\ \A d \in Callers : Free(d)
  BY <1>1 DEF Overlapping
<1>3. call'[c] = q /\ \A d \in Callers \ {c} : call'[d] = call[d]
  BY <1>1, BecomesFields DEF Typed
<1> QED
  BY <1>2, <1>3 DEF Busy, Solo, Quiet, Free

\* Every request begins so, but the renaming of a folder of the workspace,
\* which is done at once.
LEMMA BeginningsAlone ==
  ASSUME Typed, Alone, NEW c \in Callers, BeginCall(c), mishaps \subseteq mishaps',
         "overlap" \notin mishaps'
  PROVE  /\ ~Busy /\ strays' = {} /\ Solo' /\ Quiet'
         /\ \A d \in Callers \ {c} : call'[d] = call[d] /\ Free(d)
<1>1. ASSUME NEW q, StartCall(c, q), Mishap("overlap", Overlapping(c)) \subseteq mishaps',
             UNCHANGED strays
      PROVE  /\ ~Busy /\ strays' = {} /\ Solo' /\ Quiet'
             /\ \A d \in Callers \ {c} : call'[d] = call[d] /\ Free(d)
  BY <1>1, StartsAlone
<1>2. ASSUME NEW i \in Entries, NEW n \in Labels, RenameWorkspaceFolder(c, i, n)
      PROVE  /\ ~Busy /\ strays' = {} /\ Solo' /\ Quiet'
             /\ \A d \in Callers \ {c} : call'[d] = call[d] /\ Free(d)
  <2>1. ~Busy /\ UNCHANGED <<call, strays>>
    BY <1>2 DEF RenameWorkspaceFolder, TreeMishaps, Mishap
  <2> QED
    BY <2>1 DEF Busy, Solo, Quiet, Free
<1>3. ASSUME NEW i \in Entries, NEW n \in Labels, NEW p \in Directories \cup {Top},
             UploadFile(c, i, n, p)
      PROVE  \E q : StartCall(c, q) /\ Mishap("overlap", Overlapping(c)) \subseteq mishaps'
                      /\ UNCHANGED strays
  BY <1>3 DEF UploadFile, TreeMishaps
<1>4. ASSUME NEW i \in Entries, NEW d, Relocate(c, i, d)
      PROVE  \E q : StartCall(c, q) /\ Mishap("overlap", Overlapping(c)) \subseteq mishaps'
                      /\ UNCHANGED strays
  BY <1>4 DEF Relocate, TreeMishaps
<1>5. ASSUME \/ \E i \in Entries : BeginSaveContent(c, i) \/ BeginErase(c, i)
             \/ BeginEmpty(c) \/ BeginLogin(c) \/ BeginPopulate(c) \/ BeginSync(c)
      PROVE  \E q : StartCall(c, q) /\ Mishap("overlap", Overlapping(c)) \subseteq mishaps'
                      /\ UNCHANGED strays
  BY <1>5 DEF BeginSaveContent, BeginErase, BeginEmpty, BeginLogin, BeginPopulate, BeginSync
<1> QED
  BY <1>1, <1>2, <1>3, <1>4, <1>5 DEF BeginCall, RenameItem, MoveItem

\* A step of a call changes that call alone, and only a copy back leaves strays.
LEMMA StepsOfOne ==
  ASSUME Typed, NEW c \in Callers, CallStep(c)
  PROVE  /\ ~Free(c) /\ \A d \in Callers \ {c} : call'[d] = call[d]
         /\ Inserting(c) => call'[c].pc \in {"insert", "idle"}
         /\ ~Inserting(c) => UNCHANGED strays /\ call'[c].pc # "insert"
<1>1. \E q : Becomes(c, q)
  BY DEF CallStep, ResolvePath, PutObject, SaveEntry, ListObjects, CopyObject, PurgeObject,
         EraseObjects, ForgetEntries, CheckRoot, PutRoot, PutPlaceholder, FetchFile,
         InsertFromDisk, EndSync, Proceeds, Becomes
<1>2. \A d \in Callers \ {c} : call'[d] = call[d]
  BY <1>1, BecomesFields DEF Typed
<1>3. ~Free(c)
  BY DEF CallStep, ResolvePath, PutObject, SaveEntry, ListObjects, CopyObject, PurgeObject,
         EraseObjects, ForgetEntries, CheckRoot, PutRoot, PutPlaceholder, FetchFile,
         InsertFromDisk, EndSync, Free
<1>4. ASSUME Inserting(c)
      PROVE  call'[c].pc \in {"insert", "idle"}
  <2>1. EndSync(c) \/ \E n \in call[c].todo, i \in Entries : InsertFromDisk(c, n, i)
    BY <1>4 DEF CallStep, ResolvePath, PutObject, SaveEntry, ListObjects, CopyObject, PurgeObject,
                EraseObjects, ForgetEntries, CheckRoot, PutRoot, PutPlaceholder, FetchFile, Inserting
  <2>2. CASE EndSync(c)
    <3>1. Becomes(c, NoCall)
      BY <2>2 DEF EndSync, Proceeds, Becomes
    <3> QED
      BY <3>1, BecomesFields, NoCallFields DEF Typed
  <2>3. ASSUME NEW n \in call[c].todo, NEW i \in Entries, InsertFromDisk(c, n, i)
        PROVE  call'[c].pc = "insert"
    <3>1. PICK p : p = [call[c] EXCEPT !.todo = @ \ {n}]
      OBVIOUS
    <3>2. Becomes(c, p)
      BY <2>3, <3>1 DEF InsertFromDisk, Proceeds, Becomes
    <3>3. p.pc = "insert"
      BY <1>4, <3>1 DEF Inserting, Typed, Call
    <3> QED
      BY <3>2, <3>3, BecomesFields DEF Typed
  <2> QED
    BY <2>1, <2>2, <2>3
<1>5. ASSUME ~Inserting(c)
      PROVE  UNCHANGED strays /\ call'[c].pc # "insert"
  <2>1. UNCHANGED strays
    BY <1>5 DEF CallStep, ResolvePath, PutObject, SaveEntry, ListObjects, CopyObject, PurgeObject,
                EraseObjects, ForgetEntries, CheckRoot, PutRoot, PutPlaceholder, FetchFile,
                InsertFromDisk, EndSync, Inserting
  <2> QED
    BY <1>5, <2>1, StepSame DEF SameSyncs, Inserting
<1> QED
  BY <1>2, <1>3, <1>4, <1>5

LEMMA AloneNext == Typed /\ Alone /\ [MirrorNext]_mirrorVars => Alone'
<1> SUFFICES ASSUME Typed, Alone, [MirrorNext]_mirrorVars, "overlap" \notin mishaps'
             PROVE  (Solo /\ Quiet)'
  BY DEF Alone
<1>0. mishaps \subseteq mishaps' /\ Solo /\ Quiet
  BY MishapsStay DEF Alone
<1>1. ASSUME NEW c \in Callers, BeginCall(c)
      PROVE  (Solo /\ Quiet)'
  BY <1>0, <1>1, BeginningsAlone
<1>2. ASSUME NEW c \in Callers, CallStep(c)
      PROVE  (Solo /\ Quiet)'
  <2>1. /\ ~Free(c) /\ \A d \in Callers \ {c} : call'[d] = call[d]
        /\ Inserting(c) => call'[c].pc \in {"insert", "idle"}
        /\ ~Inserting(c) => UNCHANGED strays /\ call'[c].pc # "insert"
    BY <1>2, StepsOfOne
  <2>2. \A d \in Callers \ {c} : Free(d)'
    BY <1>0, <2>1 DEF Solo, Free
  <2>3. Solo'
    BY <2>2 DEF Solo
  <2>4. Quiet'
    BY <1>0, <2>1, <2>2 DEF Quiet, Free, Inserting
  <2> QED
    BY <2>3, <2>4
<1>3. CASE UNCHANGED call /\ strays' \subseteq strays
  BY <1>0, <1>3 DEF Solo, Quiet, Free, Inserting
<1>4. CASE RestartServer
  BY <1>4, NoCallFields DEF RestartServer, Solo, Quiet, Free
<1> QED
  BY <1>1, <1>2, <1>3, <1>4 DEF MirrorNext, SetBinned, PutStray, ChangeName, RunProgram, mirrorVars

LEMMA AloneInit == MirrorInit => Alone
BY NoCallFields DEF MirrorInit, Alone, Solo, Quiet, Free

\* While one call is at work, nobody else touches tree or objects.
LEMMA OthersWait ==
  ASSUME Typed, Alone, [MirrorNext]_mirrorVars, "overlap" \notin mishaps',
         NEW c \in Callers, ~Free(c), ~CallStep(c), ~RestartServer
  PROVE  /\ UNCHANGED <<entry, call>>
         /\ ~Inserting(c) => UNCHANGED <<bucket, strays>>
<1>0. mishaps \subseteq mishaps' /\ Solo /\ Quiet /\ Busy
  BY MishapsStay DEF Alone, Busy
<1>1. \A d \in Callers : ~BeginCall(d)
  BY <1>0, BeginningsAlone
<1>2. \A d \in Callers : ~CallStep(d)
  BY <1>0, StepsOfOne DEF Solo
<1>3. \A i \in Entries, s \in {"live", "bin"} : ~SetBinned(i, s)
  BY <1>0 DEF SetBinned, TreeMishaps, Mishap
<1>4. ASSUME NEW s \in strays, NEW ok \in BOOLEAN, PutStray(s, ok)
      PROVE  UNCHANGED <<entry, call>> /\ Inserting(c)
  BY <1>0, <1>4 DEF PutStray, Quiet
<1> QED
  BY <1>1, <1>2, <1>3, <1>4 DEF MirrorNext, ChangeName, RunProgram, mirrorVars

\* A call at rest stays so, unless a request takes it.
LEMMA OthersRest ==
  ASSUME Typed, [MirrorNext]_mirrorVars, NEW c \in Callers, Free(c), ~BeginCall(c)
  PROVE  Free(c)'
<1>1. ASSUME NEW d \in Callers, BeginCall(d)
      PROVE  call'[c] = call[c]
  <2>1. d # c
    BY <1>1
  <2>2. UNCHANGED call \/ \E q : Becomes(d, q)
    BY <1>1 DEF BeginCall, UploadFile, BeginSaveContent, RenameItem, RenameWorkspaceFolder, MoveItem,
                Relocate, BeginErase, BeginEmpty, BeginLogin, BeginPopulate, BeginSync, StartCall,
                Becomes
  <2> QED
    BY <2>1, <2>2, BecomesFields DEF Typed
<1>2. ASSUME NEW d \in Callers, CallStep(d)
      PROVE  call'[c] = call[c]
  BY <1>2, StepsOfOne
<1>3. CASE RestartServer
  BY <1>3, NoCallFields DEF RestartServer, Free
<1> QED
  BY <1>1, <1>2, <1>3 DEF MirrorNext, SetBinned, PutStray, ChangeName, RunProgram, mirrorVars, Free

-------------------------------------------------------------------------------
(* Keys from one state to the next *)

PathsAreFlat ==
  \A i, d : Placed(i, d) =>
    PathOf(d) = IF Stays(d.parent) THEN <<entry[d.parent].name, d.name>> ELSE <<d.name>>
KeysAreFlat ==
  \A i, d : Placed(i, d) =>
    KeyOf(d) = IF Stays(d.parent) THEN <<first, entry[d.parent].name, d.name>> ELSE <<first, d.name>>

LEMMA FlatPaths == FlatTree => PathsAreFlat /\ KeysAreFlat
BY PathForm, KeyForm DEF PathsAreFlat, KeysAreFlat

LEMMA FlatPathsLater ==
  ASSUME FlatTree'
  PROVE  PathsAreFlat' /\ KeysAreFlat'
BY FlatPaths, PTL

\* A path belongs to what is renamed or moved as it did before.
LEMMA PathWhileRelocated ==
  ASSUME Typed, FlatTree', NEW i \in Entries, NEW d, Placed(i, d), entry' = [entry EXCEPT ![i] = d],
         NEW e, Placed(i, e)
  PROVE  PathOf(e)' = PathOf(e)
<1>1. PathsAreFlat /\ PathsAreFlat'
  BY FlatPaths, FlatPathsLater DEF Typed
<1>2. PathOf(e) = IF Stays(e.parent) THEN <<entry[e.parent].name, e.name>> ELSE <<e.name>>
  BY <1>1 DEF PathsAreFlat
<1>3. PathOf(e)' = IF Stays(e.parent)' THEN <<entry'[e.parent].name, e.name>> ELSE <<e.name>>
  BY <1>1 DEF PathsAreFlat
<1>4. e.parent # i
  BY MirrorAssumption DEF Placed, MirrorAssumption
<1>5. Stays(e.parent)' <=> Stays(e.parent)
  BY <1>4 DEF Stays
<1>6. Stays(e.parent) => entry'[e.parent] = entry[e.parent]
  BY <1>4 DEF Stays, Typed, FlatTree
<1> QED
  BY <1>2, <1>3, <1>5, <1>6

LEMMA TuplesTell ==
  ASSUME NEW f
  PROVE  /\ \A x, n, y : <<f, x, n>> # <<f, y>>
         /\ \A x, n, y, m : <<f, x, n>> = <<f, y, m>> => <<x, n>> = <<y, m>>
         /\ \A x, y : <<f, x>> = <<f, y>> => <<x>> = <<y>>
<1>1. \A x, n, y : Len(<<f, x, n>>) = 3 /\ Len(<<f, y>>) = 2
  OBVIOUS
<1>2. \A x, n, y : <<f, x, n>> # <<f, y>>
  BY <1>1
<1> QED
  BY <1>2

LEMMA KeysTellPaths ==
  ASSUME Typed, NEW i, NEW d, Placed(i, d), NEW j, NEW e, Placed(j, e), KeyOf(d) = KeyOf(e)
  PROVE  PathOf(d) = PathOf(e)
<1>1. PathsAreFlat /\ KeysAreFlat
  BY FlatPaths DEF Typed
<1>2. PathOf(d) = IF Stays(d.parent) THEN <<entry[d.parent].name, d.name>> ELSE <<d.name>>
  BY <1>1 DEF PathsAreFlat
<1>3. KeyOf(d) = IF Stays(d.parent) THEN <<first, entry[d.parent].name, d.name>> ELSE <<first, d.name>>
  BY <1>1 DEF KeysAreFlat
<1>4. PathOf(e) = IF Stays(e.parent) THEN <<entry[e.parent].name, e.name>> ELSE <<e.name>>
  BY <1>1 DEF PathsAreFlat
<1>5. KeyOf(e) = IF Stays(e.parent) THEN <<first, entry[e.parent].name, e.name>> ELSE <<first, e.name>>
  BY <1>1 DEF KeysAreFlat
<1>6. PICK f, x, n, y, m : /\ f = first /\ x = entry[d.parent].name /\ n = d.name
                           /\ y = entry[e.parent].name /\ m = e.name
  OBVIOUS
<1>7. CASE Stays(d.parent) /\ Stays(e.parent)
  <2>1. <<f, x, n>> = <<f, y, m>>
    BY <1>3, <1>5, <1>6, <1>7
  <2> QED
    BY <1>2, <1>4, <1>6, <1>7, <2>1, TuplesTell
<1>8. CASE Stays(d.parent) /\ ~Stays(e.parent)
  <2>1. <<f, x, n>> = <<f, m>>
    BY <1>3, <1>5, <1>6, <1>8
  <2> QED
    BY <2>1, TuplesTell
<1>9. CASE ~Stays(d.parent) /\ Stays(e.parent)
  <2>1. <<f, n>> = <<f, y, m>>
    BY <1>3, <1>5, <1>6, <1>9
  <2> QED
    BY <2>1, TuplesTell
<1>10. CASE ~Stays(d.parent) /\ ~Stays(e.parent)
  <2>1. <<f, n>> = <<f, m>>
    BY <1>3, <1>5, <1>6, <1>10
  <2> QED
    BY <1>2, <1>4, <1>6, <1>10, <2>1, TuplesTell
<1> QED
  BY <1>7, <1>8, <1>9, <1>10

LEMMA AfterTheEnd ==
  ASSUME NEW S, NEW s \in Seq(S), NEW t \in Seq(S)
  PROVE  t \o SubSeq(s, Len(s) + 1, Len(s)) = t
<1>1. PICK e : e = SubSeq(s, Len(s) + 1, Len(s))
  OBVIOUS
<1>2. Len(s) \in Nat
  OBVIOUS
<1>3. e \in Seq(S) /\ Len(e) = 0
  BY <1>1, <1>2, SubSeqProperties
<1>4. e = <<>>
  BY <1>3, EmptySeq
<1> QED
  BY <1>1, <1>4, ConcatEmptySeq

LEMMA NewKeySecond ==
  ASSUME NEW q \in Call, Len(q.from) = 2, Len(q.to) = 2, NEW k \in Keys, Inside(k, q.from)
  PROVE  /\ k[1] = q.from[1] /\ k[2] = q.from[2] /\ Len(k) > 2
         /\ NewKey(q, k)[1] = q.to[1] /\ NewKey(q, k)[2] = q.to[2]
<1>1. PICK S : Keys = Seq(S)
  BY DEF Keys
<1>2. PICK f, t : f = q.from /\ t = q.to
  OBVIOUS
<1>3. f \in Seq(S) /\ t \in Seq(S) /\ k \in Seq(S) /\ Len(f) = 2 /\ Len(t) = 2
  BY <1>1, <1>2 DEF Call
<1>4. Len(k) > 2 /\ SubSeq(k, 1, 2) = f
  BY <1>2, <1>3 DEF Inside
<1>5. k[1] = f[1] /\ k[2] = f[2]
  BY <1>3, <1>4, SubSeqProperties
<1>6. PICK r : r = SubSeq(k, 3, Len(k))
  OBVIOUS
<1>7. r \in Seq(S)
  BY <1>3, <1>4, <1>6
<1>8. PICK n : n = t \o r
  OBVIOUS
<1>9. n[1] = t[1] /\ n[2] = t[2]
  <2>1. 1 \in 1..Len(t) + Len(r) /\ 2 \in 1..Len(t) + Len(r) /\ 1 <= Len(t) /\ 2 <= Len(t)
    BY <1>3, <1>7
  <2> QED
    BY <1>3, <1>7, <1>8, <2>1, ConcatProperties
<1>10. NewKey(q, k) = n
  BY <1>2, <1>3, <1>6, <1>8 DEF NewKey
<1> QED
  BY <1>2, <1>4, <1>5, <1>9, <1>10

-------------------------------------------------------------------------------
(* A purge loses nothing *)

Renaming == {"list", "copy", "purge"}

\* What a rename that is alone knows: the keys differ, and what it is about to
\* purge lies under its new key as well.
RenameKnows(q) ==
  /\ q.pc = "list" => PathOf(q.doc) # PathOf(q.old)
  /\ q.pc \in {"copy", "purge"} => \A k \in q.todo : NewKey(q, k) # k
  /\ q.pc = "purge" =>
       /\ NewKey(q, q.now) # q.now
       /\ q.now \in DOMAIN bucket /\ NewKey(q, q.now) \in DOMAIN bucket
       /\ bucket[NewKey(q, q.now)] = bucket[q.now]

PurgeInv == mishaps \cap {"overlap", "ontoItself"} = {} => \A c \in Callers : RenameKnows(call[c])

LEMMA KnowsIfOther == ASSUME NEW q, q.pc \notin Renaming PROVE RenameKnows(q)
BY DEF RenameKnows, Renaming

\* A step of a call that comes to a rename, or goes on with one.
LEMMA RenameSteps ==
  ASSUME Typed, NEW c \in Callers, CallStep(c), call'[c].pc \in Renaming
  PROVE  \/ ListObjects(c)
         \/ \E k \in call[c].todo, ok \in BOOLEAN : CopyObject(c, k, ok)
         \/ \E ok \in BOOLEAN : PurgeObject(c, ok)
<1>0. call[c] \in Call /\ \A q : Proceeds(c, q) => call'[c] = q
  BY BecomesFields DEF Typed, Proceeds, Becomes
<1>1. CASE ResolvePath(c)
  <2>1. PICK k : call'[c] = [To(c, "put") EXCEPT !.to = k]
    BY <1>0, <1>1 DEF ResolvePath
  <2> QED
    BY <1>0, <2>1 DEF To, Call, Renaming
<1>2. ASSUME NEW ok \in BOOLEAN, PutObject(c, ok)
      PROVE  FALSE
  BY <1>0, <1>2, NextPlaces DEF PutObject, Renaming
<1>3. CASE SaveEntry(c) \/ ForgetEntries(c) \/ EndSync(c)
  BY <1>0, <1>3, NextPlaces DEF SaveEntry, ForgetEntries, EndSync, Renaming
<1>4. ASSUME NEW i \in call[c].todo, NEW ok \in BOOLEAN,
             EraseObjects(c, i, ok) \/ PutPlaceholder(c, i, ok) \/ FetchFile(c, i, ok)
      PROVE  FALSE
  <2>1. CASE EraseObjects(c, i, ok)
    BY <1>0, <2>1, NextPlaces DEF EraseObjects, Renaming
  <2>2. CASE PutPlaceholder(c, i, ok)
    BY <1>0, <2>2, NextPlaces DEF PutPlaceholder, Renaming
  <2>3. CASE FetchFile(c, i, ok)
    BY <1>0, <2>3, NextPlaces DEF FetchFile, Renaming
  <2> QED
    BY <1>4, <2>1, <2>2, <2>3
<1>5. ASSUME NEW ok \in BOOLEAN, CheckRoot(c, ok)
      PROVE  FALSE
  BY <1>0, <1>5, NextPlaces DEF CheckRoot, Renaming
<1>6. ASSUME NEW ok \in BOOLEAN, PutRoot(c, ok)
      PROVE  FALSE
  <2>1. PICK e : call'[c] = [Left(c, FilesKept, "fill", "idle") EXCEPT !.seen = e]
    BY <1>0, <1>6 DEF PutRoot
  <2>2. [Left(c, FilesKept, "fill", "idle") EXCEPT !.seen = e].pc \in {"idle", "fill"}
    BY <1>0 DEF Left, Call
  <2> QED
    BY <2>1, <2>2 DEF Renaming
<1>7. ASSUME NEW n \in call[c].todo, NEW i \in Entries, InsertFromDisk(c, n, i)
      PROVE  FALSE
  BY <1>7, StepsOfOne DEF InsertFromDisk, Inserting, Renaming
<1> QED
  BY <1>1, <1>2, <1>3, <1>4, <1>5, <1>6, <1>7 DEF CallStep

\* A request that comes to a rename is one.
LEMMA RenameBegins ==
  ASSUME Typed, NEW c \in Callers, BeginCall(c), call'[c].pc \in Renaming
  PROVE  \E i \in Entries, d \in Entry : Placed(i, d) /\ Relocate(c, i, d)
<1>0. \A q : StartCall(c, q) => call'[c] = q
  BY BecomesFields DEF Typed, StartCall, Becomes
<1>1. ASSUME NEW i \in Entries, NEW n \in Labels, NEW p \in Directories \cup {Top},
             UploadFile(c, i, n, p)
      PROVE  FALSE
  BY <1>0, <1>1 DEF UploadFile, NoCall, Renaming
<1>2. ASSUME NEW i \in Entries, BeginSaveContent(c, i)
      PROVE  FALSE
  BY <1>0, <1>2 DEF BeginSaveContent, NoCall, Renaming
<1>3. ASSUME NEW i \in Entries, NEW n \in Labels, RenameItem(c, i, n)
      PROVE  \E d \in Entry : Placed(i, d) /\ Relocate(c, i, d)
  <2>1. PICK d : d = [entry[i] EXCEPT !.name = n] /\ Placed(i, d) /\ Relocate(c, i, d)
    BY <1>3, RenamePlaced DEF RenameItem
  <2> QED
    BY <2>1 DEF Placed
<1>4. ASSUME NEW i \in Entries, NEW p \in Directories \cup {Top}, MoveItem(c, i, p)
      PROVE  \E d \in Entry : Placed(i, d) /\ Relocate(c, i, d)
  <2>1. PICK d : d = [entry[i] EXCEPT !.parent = p] /\ Placed(i, d) /\ Relocate(c, i, d)
    BY <1>4, MovePlaced DEF MoveItem
  <2> QED
    BY <2>1 DEF Placed
<1>5. ASSUME NEW i \in Entries, NEW n \in Labels, RenameWorkspaceFolder(c, i, n)
      PROVE  FALSE
  BY <1>5 DEF RenameWorkspaceFolder, Free, Renaming
<1>6. ASSUME NEW i \in Entries, BeginErase(c, i)
      PROVE  FALSE
  BY <1>0, <1>6 DEF BeginErase, NoCall, Renaming
<1>7. CASE BeginEmpty(c)
  BY <1>0, <1>7 DEF BeginEmpty, NoCall, Renaming
<1>8. CASE BeginLogin(c)
  BY <1>0, <1>8 DEF BeginLogin, NoCall, Renaming
<1>9. CASE BeginPopulate(c)
  BY <1>0, <1>9 DEF BeginPopulate, NoCall, Renaming
<1>10. CASE BeginSync(c)
  BY <1>0, <1>10 DEF BeginSync, NoCall, Renaming
<1> QED
  BY <1>1, <1>2, <1>3, <1>4, <1>5, <1>6, <1>7, <1>8, <1>9, <1>10 DEF BeginCall

LEMMA RelocateKnows ==
  ASSUME Typed, Typed', NEW c \in Callers, NEW i \in Entries, NEW d \in Entry, Placed(i, d),
         Relocate(c, i, d), "ontoItself" \notin mishaps'
  PROVE  RenameKnows(call[c])'
<1>1. PICK e : e = entry[i] /\ Placed(i, e)
  BY DEF Typed, FlatTree
<1>2. PICK q : q = [NoCall EXCEPT !.kind = "rename", !.pc = "list", !.id = i, !.doc = d, !.old = e]
  OBVIOUS
<1>3. Becomes(c, q) /\ entry' = [entry EXCEPT ![i] = d] /\ PathOf(d) # PathOf(e)
  BY <1>1, <1>2 DEF Relocate, StartCall, Becomes, Mishap
<1>4. call'[c] = q /\ q.pc = "list" /\ q.doc = d /\ q.old = e
  BY <1>2, <1>3, BecomesFields DEF Typed, NoCall
<1>5. FlatTree'
  BY DEF Typed
<1>6. PathOf(d)' = PathOf(d) /\ PathOf(e)' = PathOf(e)
  BY <1>1, <1>3, <1>5, PathWhileRelocated
<1>7. PathOf(q.doc)' # PathOf(q.old)'
  BY <1>3, <1>4, <1>6
<1> QED
  BY <1>4, <1>7 DEF RenameKnows

LEMMA ListKnows ==
  ASSUME Typed, NEW c \in Callers, ListObjects(c), RenameKnows(call[c])
  PROVE  RenameKnows(call[c])'
<1>1. PICK q : q = call[c] /\ q \in Call /\ Fits(q) /\ q.pc = "list" /\ PathOf(q.doc) # PathOf(q.old)
  BY CallFits DEF ListObjects, RenameKnows
<1>2. PICK d, e : d = q.doc /\ e = q.old /\ Placed(q.id, d) /\ Placed(q.id, e)
  BY <1>1 DEF Fits
<1>3. PICK f, t : f = KeyOf(e) /\ t = KeyOf(d) /\ f \in Keys /\ t \in Keys /\ f # t
  BY <1>1, <1>2, PlacedKeys, KeysTellPaths
<1>4. PICK s : s = IF q.id \in Directories THEN {k \in DOMAIN bucket : Inside(k, f)} ELSE {f}
  OBVIOUS
<1>5. PICK p : p = IF s = {} THEN NoCall ELSE [To(c, "copy") EXCEPT !.from = f, !.to = t, !.todo = s]
  OBVIOUS
<1>6. call'[c] = p
  <2>1. Becomes(c, p)
    BY <1>1, <1>2, <1>3, <1>4, <1>5 DEF ListObjects, Proceeds, Becomes
  <2> QED
    BY <2>1, BecomesFields DEF Typed
<1>7. CASE s = {}
  BY <1>5, <1>6, <1>7, NoCallFields DEF RenameKnows
<1>8. CASE s # {}
  <2>1. p \in Call /\ p.pc = "copy" /\ p.from = f /\ p.to = t /\ p.todo = s
    <3>1. s \in ManyKeys
      BY <1>3, <1>4 DEF Typed, BucketFits, ManyKeys
    <3> QED
      BY <1>1, <1>3, <1>5, <1>8, <3>1 DEF To, Call, Steps
  <2>2. ASSUME NEW k \in s
        PROVE  NewKey(p, k) # k
    <3>1. CASE q.id \notin Directories
      <4>1. k = f
        BY <1>4, <2>2, <3>1
      <4>2. NewKey(p, k) = t
        BY <1>3, <2>1, <4>1, AfterTheEnd DEF NewKey, Keys
      <4> QED
        BY <1>3, <4>1, <4>2
    <3>2. CASE q.id \in Directories
      <4>1. d.parent = Top /\ e.parent = Top /\ ~Stays(Top)
        BY <1>2, <3>2, MirrorAssumption DEF Placed, Stays, MirrorAssumption
      <4>2. f = <<first, e.name>> /\ t = <<first, d.name>>
        BY <1>2, <1>3, <4>1, KeyForm DEF Typed
      <4>3. Len(f) = 2 /\ Len(t) = 2 /\ f[2] = e.name /\ t[2] = d.name /\ d.name # e.name
        BY <1>3, <4>2
      <4>4. k \in Keys /\ Inside(k, f)
        BY <1>4, <2>2, <3>2 DEF Typed, BucketFits
      <4>5. k[2] = e.name /\ NewKey(p, k)[2] = d.name
        BY <2>1, <4>3, <4>4, NewKeySecond
      <4> QED
        BY <4>3, <4>5
    <3> QED
      BY <3>1, <3>2
  <2> QED
    BY <1>6, <2>1, <2>2 DEF RenameKnows
<1> QED
  BY <1>7, <1>8

LEMMA CopyKnows ==
  ASSUME Typed, NEW c \in Callers, NEW ok \in BOOLEAN, NEW k \in call[c].todo, CopyObject(c, k, ok),
         RenameKnows(call[c])
  PROVE  RenameKnows(call[c])'
<1>1. PICK q : q = call[c] /\ q \in Call /\ Fits(q) /\ q.pc = "copy" /\ k \in q.todo
               /\ \A l \in q.todo : NewKey(q, l) # l
  BY CallFits DEF CopyObject, RenameKnows
<1>2. PICK n : n = NewKey(q, k) /\ n # k
  BY <1>1
<1>3. PICK r : r = [q EXCEPT !.todo = q.todo \ {k}, !.pc = IF q.todo \ {k} = {} THEN "idle" ELSE "copy"]
  OBVIOUS
<1>4. r = Left(c, q.todo \ {k}, "copy", "idle") /\ r.todo = q.todo \ {k}
  BY <1>1, <1>3 DEF Left, Call
<1>5. PICK p : p = [[r EXCEPT !.now = k] EXCEPT !.pc = "purge"]
  OBVIOUS
<1>6. p.pc = "purge" /\ p.now = k /\ p.from = q.from /\ p.to = q.to /\ p.todo \subseteq q.todo
  BY <1>1, <1>3, <1>5 DEF Call
<1>7. r.pc # "purge" /\ r.pc # "list" /\ r.from = q.from /\ r.to = q.to /\ r.todo \subseteq q.todo
  BY <1>1, <1>3 DEF Call
<1>8. \A l : NewKey(p, l) = NewKey(q, l) /\ NewKey(r, l) = NewKey(q, l)
  BY <1>6, <1>7 DEF NewKey
<1>9. \A s : Proceeds(c, s) => call'[c] = s
  BY BecomesFields DEF Typed, Proceeds, Becomes
<1>10. CASE ok /\ k \in DOMAIN bucket
  <2>1. PICK v : v = bucket[k]
    OBVIOUS
  <2>2. call'[c] = p /\ bucket' = With(n, v)
    BY <1>1, <1>2, <1>4, <1>5, <1>9, <1>10, <2>1 DEF CopyObject
  <2>3. n \in DOMAIN bucket' /\ k \in DOMAIN bucket' /\ bucket'[n] = v /\ bucket'[k] = v
    BY <1>2, <1>10, <2>1, <2>2 DEF With, Overwrite
  <2> QED
    BY <1>1, <1>2, <1>6, <1>8, <2>2, <2>3 DEF RenameKnows
<1>11. CASE ~(ok /\ k \in DOMAIN bucket)
  <2>1. call'[c] = NoCall \/ call'[c] = r
    BY <1>1, <1>4, <1>9, <1>11 DEF CopyObject
  <2> QED
    BY <1>1, <1>7, <1>8, <2>1, NoCallFields DEF RenameKnows
<1> QED
  BY <1>10, <1>11

LEMMA PurgeKnows ==
  ASSUME Typed, NEW c \in Callers, NEW ok \in BOOLEAN, PurgeObject(c, ok), RenameKnows(call[c])
  PROVE  RenameKnows(call[c])'
<1>1. PICK q : q = call[c] /\ q \in Call /\ q.pc = "purge" /\ \A l \in q.todo : NewKey(q, l) # l
  BY CallFits DEF PurgeObject, RenameKnows
<1>2. PICK p : p = [q EXCEPT !.pc = "copy"]
  OBVIOUS
<1>3. call'[c] = NoCall \/ call'[c] = p
  <2>1. \A s : Proceeds(c, s) => call'[c] = s
    BY BecomesFields DEF Typed, Proceeds, Becomes
  <2> QED
    BY <1>1, <1>2, <2>1 DEF PurgeObject, To
<1>4. p.pc = "copy" /\ p.from = q.from /\ p.to = q.to /\ p.todo = q.todo
  BY <1>1, <1>2 DEF Call
<1>5. \A l : NewKey(p, l) = NewKey(q, l)
  BY <1>4 DEF NewKey
<1> QED
  BY <1>1, <1>3, <1>4, <1>5, NoCallFields DEF RenameKnows

LEMMA PurgeInvNext == Typed /\ Typed' /\ Alone /\ PurgeInv /\ [MirrorNext]_mirrorVars => PurgeInv'
<1> SUFFICES ASSUME Typed, Typed', Alone, PurgeInv, [MirrorNext]_mirrorVars,
                    mishaps' \cap {"overlap", "ontoItself"} = {}, NEW c \in Callers,
                    call'[c].pc \in Renaming
             PROVE  RenameKnows(call[c])'
  BY DEF PurgeInv, RenameKnows, Renaming
<1>0. mishaps \subseteq mishaps' /\ RenameKnows(call[c]) /\ "overlap" \notin mishaps'
  BY MishapsStay DEF PurgeInv
<1>1. CASE Free(c)
  <2>1. BeginCall(c)
    BY <1>1, OthersRest DEF Free, Renaming
  <2> QED
    BY <1>0, <2>1, RenameBegins, RelocateKnows
<1>2. CASE CallStep(c)
  BY <1>0, <1>2, RenameSteps, ListKnows, CopyKnows, PurgeKnows
<1>3. CASE ~Free(c) /\ ~CallStep(c)
  <2>1. ~RestartServer
    BY NoCallFields DEF RestartServer, Renaming
  <2>2. UNCHANGED <<entry, call>> /\ (~Inserting(c) => UNCHANGED bucket)
    BY <1>0, <1>3, <2>1, OthersWait
  <2>3. ~Inserting(c)
    BY <2>2 DEF Inserting, Renaming
  <2>4. \A d : PathOf(d)' = PathOf(d)
    BY <2>2 DEF PathOf, Stays
  <2>5. \A q, k : NewKey(q, k)' = NewKey(q, k)
    BY DEF NewKey
  <2> QED
    BY <1>0, <2>2, <2>3, <2>4, <2>5 DEF RenameKnows
<1> QED
  BY <1>1, <1>2, <1>3

LEMMA PurgeInvInit == MirrorInit => PurgeInv
BY NoCallFields, KnowsIfOther DEF MirrorInit, PurgeInv, Renaming

LEMMA PurgeKeeps ==
  ASSUME Typed, Alone, PurgeInv, [MirrorNext]_mirrorVars, NEW c \in Callers,
         call[c].pc = "purge", call'[c].pc # "purge",
         mishaps' \cap {"prefixPurge", "overlap", "ontoItself"} = {}
  PROVE  Range(bucket) \subseteq Range(bucket')
<1>0. mishaps \subseteq mishaps' /\ RenameKnows(call[c])
  BY MishapsStay DEF PurgeInv
<1>1. CASE CallStep(c)
  <2>1. PICK ok \in BOOLEAN : PurgeObject(c, ok)
    BY <1>1 DEF CallStep, ResolvePath, PutObject, SaveEntry, ListObjects, CopyObject, EraseObjects,
                ForgetEntries, CheckRoot, PutRoot, PutPlaceholder, FetchFile, InsertFromDisk, EndSync
  <2>2. PICK q, n : /\ q = call[c] /\ n = NewKey(q, q.now) /\ n # q.now
                    /\ q.now \in DOMAIN bucket /\ n \in DOMAIN bucket /\ bucket[n] = bucket[q.now]
    BY <1>0 DEF RenameKnows
  <2>3. PICK G : G = {k \in DOMAIN bucket : BeginsWith(k, q.now)}
    OBVIOUS
  <2>4. bucket' = (IF ok THEN Without(G) ELSE bucket) /\ (ok => G \subseteq {q.now})
    BY <2>1, <2>2, <2>3 DEF PurgeObject, Mishap
  <2>5. CASE ok
    <3>1. \A k \in DOMAIN bucket \ G : k \in DOMAIN bucket' /\ bucket'[k] = bucket[k]
      BY <2>4, <2>5, WithoutFields
    <3>2. ASSUME NEW k \in DOMAIN bucket
          PROVE  \E l \in DOMAIN bucket' : bucket'[l] = bucket[k]
      BY <2>2, <2>4, <2>5, <3>1
    <3> QED
      BY <3>2 DEF Range
  <2> QED
    BY <2>4, <2>5
<1>2. CASE RestartServer
  BY <1>2 DEF RestartServer
<1>3. CASE ~CallStep(c) /\ ~RestartServer
  <2>1. UNCHANGED call
    BY <1>3, OthersWait DEF Free
  <2> QED
    BY <2>1
<1> QED
  BY <1>1, <1>2, <1>3

\* A rename copies before it purges, and with one handler at work the copy is
\* still there when the purge comes, under another key and with the same
\* content (PurgeKeepsACopy): whatever fails, no content goes with a purge.
THEOREM PurgesLoseNothing == MirrorSpec => PurgeKeepsACopy
<1> DEFINE Keeps ==
      (\E c \in Callers : call[c].pc = "purge" /\ call'[c].pc # "purge")
        /\ mishaps' \cap {"prefixPurge", "overlap", "ontoItself"} = {}
      => Range(bucket) \subseteq Range(bucket')
<1>1. Typed /\ Alone /\ PurgeInv /\ [MirrorNext]_mirrorVars => Keeps
  BY PurgeKeeps
<1>2. Typed /\ Alone /\ PurgeInv /\ [MirrorNext]_mirrorVars => [Keeps]_mirrorVars
  BY <1>1
<1> HIDE DEF Keeps
<1>3. MirrorInit => Alone /\ PurgeInv
  BY AloneInit, PurgeInvInit
<1>4. Typed /\ Typed' /\ Alone /\ PurgeInv /\ [MirrorNext]_mirrorVars => Alone' /\ PurgeInv'
  BY AloneNext, PurgeInvNext
<1>5. MirrorSpec => [][Keeps]_mirrorVars
  BY <1>2, <1>3, <1>4, AlwaysTyped, PTL DEF MirrorSpec
<1> USE DEF Keeps
<1> QED
  BY <1>5 DEF PurgeKeepsACopy

-------------------------------------------------------------------------------
(* Where the files kept belong *)

KeyAt == [i \in Entries |->
            IF Stays(entry[i].parent) THEN <<first, entry[entry[i].parent].name, entry[i].name>>
                                      ELSE <<first, entry[i].name>>]

LEMMA KeyAtIsKey ==
  ASSUME Typed, NEW i \in Entries
  PROVE  KeyOf(entry[i]) = KeyAt[i] /\ KeyAt[i] \in Keys
<1>1. PICK d : d = entry[i] /\ Placed(i, d)
  BY DEF Typed, FlatTree
<1>2. KeyOf(d) = IF Stays(d.parent) THEN <<first, entry[d.parent].name, d.name>> ELSE <<first, d.name>>
  BY <1>1, KeyForm DEF Typed
<1>3. KeyOf(d) \in Keys
  BY <1>1, PlacedKeys
<1> QED
  BY <1>1, <1>2, <1>3 DEF KeyAt

\* No two files and no two folders are in one place.
KeysApart ==
  /\ \A i, j \in FilesKept : KeyAt[i] = KeyAt[j] => i = j
  /\ \A i \in FilesKept : KeyAt[i] # RootKeep(first)
  /\ \A f, g \in Directories : Stays(f) /\ Stays(g) /\ entry[f].name = entry[g].name => f = g

LEMMA NotTheRoot ==
  ASSUME Typed, NEW i \in Entries
  PROVE  KeyAt[i] # RootKeep(first)
<1>1. entry[i].name \in Labels /\ "keep" \notin Labels
  BY MirrorAssumption DEF Typed, FlatTree, Entry, MirrorAssumption
<1>2. PICK f, x, n : f = first /\ x = entry[entry[i].parent].name /\ n = entry[i].name
  OBVIOUS
<1>3. <<f, x, n>> # <<f, "keep">>
  BY TuplesTell
<1>4. <<f, n>> # <<f, "keep">>
  BY <1>1, <1>2
<1> QED
  BY <1>2, <1>3, <1>4 DEF KeyAt, RootKeep

LEMMA PathsApart == Typed /\ ~PathShared => KeysApart
<1> SUFFICES ASSUME Typed, ~PathShared PROVE KeysApart
  OBVIOUS
<1>1. ASSUME NEW i \in FilesKept, NEW j \in FilesKept, KeyAt[i] = KeyAt[j]
      PROVE  i = j
  <2>1. i \in Entries \ Directories /\ j \in Entries \ Directories /\ Stays(i) /\ Stays(j)
    BY DEF FilesKept
  <2>2. PICK d, e : d = entry[i] /\ e = entry[j] /\ Placed(i, d) /\ Placed(j, e)
    BY <2>1 DEF Typed, FlatTree
  <2>3. KeyOf(d) = KeyOf(e)
    BY <1>1, <2>1, <2>2, KeyAtIsKey
  <2>4. PathOf(entry[i]) = PathOf(entry[j])
    BY <2>2, <2>3, KeysTellPaths
  <2> QED
    BY <2>1, <2>4 DEF PathShared
<1>2. ASSUME NEW f \in Directories, NEW g \in Directories, Stays(f), Stays(g),
             entry[f].name = entry[g].name
      PROVE  f = g
  <2>1. f \in Entries /\ g \in Entries
    BY <1>2 DEF Stays
  <2>2. PICK d, e : d = entry[f] /\ e = entry[g] /\ Placed(f, d) /\ Placed(g, e)
    BY <2>1 DEF Typed, FlatTree
  <2>3. ~Stays(d.parent) /\ ~Stays(e.parent)
    BY <2>2, MirrorAssumption DEF Placed, Stays, MirrorAssumption
  <2>4. PathOf(d) = <<d.name>> /\ PathOf(e) = <<e.name>>
    BY <2>2, <2>3, PathForm DEF Typed
  <2>5. PathOf(entry[f]) = PathOf(entry[g])
    BY <1>2, <2>2, <2>4
  <2> QED
    BY <1>2, <2>1, <2>5 DEF PathShared
<1> QED
  BY <1>1, <1>2, NotTheRoot DEF KeysApart, FilesKept

LEMMA PathsApartLater ==
  ASSUME Typed', ~PathShared'
  PROVE  KeysApart'
BY PathsApart, PTL

\* The keys of all but one file when that one changes.
LEMMA KeysWhenFileChanges ==
  ASSUME Typed, NEW i \in Entries \ Directories, NEW d, Placed(i, d),
         entry' = [entry EXCEPT ![i] = d], UNCHANGED first
  PROVE  /\ entry'[i] = d
         /\ \A j \in Entries \ {i} : /\ entry'[j] = entry[j] /\ (Stays(j)' <=> Stays(j))
                                     /\ KeyAt'[j] = KeyAt[j]
         /\ KeyAt'[i] = IF Stays(d.parent) THEN <<first, entry[d.parent].name, d.name>>
                                           ELSE <<first, d.name>>
         /\ FilesKept' \ {i} = FilesKept \ {i}
<1>1. entry \in [Entries -> Entry] /\ \A j \in Entries : Placed(j, entry[j])
  BY DEF Typed, FlatTree
<1>2. entry'[i] = d /\ \A j \in Entries \ {i} : entry'[j] = entry[j]
  BY <1>1
<1>3. \A p \in Directories \cup {Top} : /\ Stays(p)' <=> Stays(p)
                                        /\ Stays(p) => entry'[p] = entry[p]
  BY <1>2, MirrorAssumption DEF Stays, MirrorAssumption
<1>4. \A j \in Entries \ {i} : Stays(j)' <=> Stays(j)
  BY <1>2 DEF Stays
<1>5. ASSUME NEW j \in Entries \ {i}
      PROVE  KeyAt'[j] = KeyAt[j]
  <2>1. entry[j].parent \in Directories \cup {Top} /\ entry'[j] = entry[j]
    BY <1>1, <1>2 DEF Placed
  <2>2. PICK p : p = entry[j].parent /\ p = entry'[j].parent
    BY <2>1
  <2>3. KeyAt'[j] = IF Stays(p)' THEN <<first, entry'[p].name, entry[j].name>> ELSE <<first, entry[j].name>>
    BY <2>1, <2>2 DEF KeyAt, Stays
  <2>4. KeyAt[j] = IF Stays(p) THEN <<first, entry[p].name, entry[j].name>> ELSE <<first, entry[j].name>>
    BY <2>2 DEF KeyAt
  <2> QED
    BY <1>3, <2>1, <2>2, <2>3, <2>4
<1>6. KeyAt'[i] = IF Stays(d.parent) THEN <<first, entry[d.parent].name, d.name>> ELSE <<first, d.name>>
  <2>1. PICK p : p = d.parent /\ p = entry'[i].parent /\ p \in Directories \cup {Top}
    BY <1>2 DEF Placed
  <2>2. KeyAt'[i] = IF Stays(p)' THEN <<first, entry'[p].name, d.name>> ELSE <<first, d.name>>
    BY <1>2, <2>1 DEF KeyAt, Stays
  <2> QED
    BY <1>3, <2>1, <2>2
<1>7. FilesKept' \ {i} = FilesKept \ {i}
  BY <1>4 DEF FilesKept
<1> QED
  BY <1>2, <1>4, <1>5, <1>6, <1>7

\* The keys when a folder gets another name.
LEMMA KeysWhenFolderChanges ==
  ASSUME Typed, NEW i \in Directories, NEW d, Placed(i, d), Stays(i), d.state = entry[i].state,
         entry' = [entry EXCEPT ![i] = d], UNCHANGED first
  PROVE  /\ entry'[i] = d
         /\ \A j \in Entries \ {i} : entry'[j] = entry[j]
         /\ \A j \in Entries : Stays(j)' <=> Stays(j)
         /\ \A j \in Entries \ {i} :
              IF entry[j].parent = i
                THEN /\ KeyAt[j] = <<first, entry[i].name, entry[j].name>>
                     /\ KeyAt'[j] = <<first, d.name, entry[j].name>>
                ELSE KeyAt'[j] = KeyAt[j]
         /\ KeyAt[i] = <<first, entry[i].name>>
         /\ FilesKept' = FilesKept
<1>0. i \in Entries /\ entry \in [Entries -> Entry] /\ \A j \in Entries : Placed(j, entry[j])
  BY DEF Typed, FlatTree, Stays
<1>1. entry'[i] = d /\ \A j \in Entries \ {i} : entry'[j] = entry[j]
  BY <1>0
<1>2. \A j : Stays(j)' <=> Stays(j)
  BY <1>1 DEF Stays
<1>3. ASSUME NEW j \in Entries \ {i}
      PROVE  IF entry[j].parent = i
                THEN /\ KeyAt[j] = <<first, entry[i].name, entry[j].name>>
                     /\ KeyAt'[j] = <<first, d.name, entry[j].name>>
                ELSE KeyAt'[j] = KeyAt[j]
  <2>1. entry'[j] = entry[j]
    BY <1>1
  <2>2. PICK p : p = entry[j].parent /\ p = entry'[j].parent
    BY <2>1
  <2>3. KeyAt'[j] = IF Stays(p)' THEN <<first, entry'[p].name, entry[j].name>> ELSE <<first, entry[j].name>>
    BY <2>1, <2>2 DEF KeyAt, Stays
  <2>4. KeyAt[j] = IF Stays(p) THEN <<first, entry[p].name, entry[j].name>> ELSE <<first, entry[j].name>>
    BY <2>2 DEF KeyAt
  <2>5. CASE p = i
    BY <1>1, <1>2, <2>2, <2>3, <2>4, <2>5
  <2>6. CASE p # i
    <3>1. Stays(p) => entry'[p] = entry[p]
      BY <1>1, <2>6 DEF Stays
    <3> QED
      BY <1>2, <2>2, <2>3, <2>4, <2>6, <3>1
  <2> QED
    BY <2>5, <2>6
<1>4. KeyAt[i] = <<first, entry[i].name>>
  <2>1. ~Stays(entry[i].parent)
    BY <1>0, MirrorAssumption DEF Placed, Stays, MirrorAssumption
  <2> QED
    BY <1>0, <2>1 DEF KeyAt
<1>5. FilesKept' = FilesKept
  BY <1>2 DEF FilesKept
<1> QED
  BY <1>1, <1>2, <1>3, <1>4, <1>5

\* The keys when documents change their state: those of what stays, in a folder
\* that stays or was not there.
LEMMA KeysWhenMarked ==
  ASSUME Typed, NEW S, NEW s \in {"live", "bin", "gone"}, Mark(S, s), UNCHANGED first,
         \A j \in S : Stays(j)
  PROVE  /\ \A j \in Entries : entry'[j] = IF j \in S THEN [entry[j] EXCEPT !.state = s] ELSE entry[j]
         /\ \A j \in Entries : entry'[j].content = entry[j].content
         /\ \A j \in Entries : Stays(j)' <=> Stays(j) /\ (s = "gone" => j \notin S)
         /\ FilesKept' = IF s = "gone" THEN FilesKept \ S ELSE FilesKept
         /\ \A j \in Entries : (s = "gone" => entry[j].parent \notin S) => KeyAt'[j] = KeyAt[j]
<1>1. \A j \in Entries : entry[j] \in Entry
  BY DEF Typed, FlatTree
<1>2. \A j \in Entries : entry'[j] = IF j \in S THEN [entry[j] EXCEPT !.state = s] ELSE entry[j]
  BY DEF Mark
<1>3. \A j \in Entries : /\ entry'[j].content = entry[j].content /\ entry'[j].name = entry[j].name
                         /\ entry'[j].parent = entry[j].parent
                         /\ entry'[j].state = IF j \in S THEN s ELSE entry[j].state
  BY <1>1, <1>2 DEF Entry
<1>4. \A j : Stays(j)' <=> Stays(j) /\ (s = "gone" => j \notin S)
  BY <1>3 DEF Stays
<1>5. FilesKept' = IF s = "gone" THEN FilesKept \ S ELSE FilesKept
  BY <1>4 DEF FilesKept
<1>6. ASSUME NEW j \in Entries, s = "gone" => entry[j].parent \notin S
      PROVE  KeyAt'[j] = KeyAt[j]
  <2>1. PICK p : p = entry[j].parent /\ p = entry'[j].parent
    BY <1>3
  <2>2. KeyAt'[j] = IF Stays(p)' THEN <<first, entry'[p].name, entry[j].name>> ELSE <<first, entry[j].name>>
    BY <1>3, <2>1 DEF KeyAt, Stays
  <2>3. KeyAt[j] = IF Stays(p) THEN <<first, entry[p].name, entry[j].name>> ELSE <<first, entry[j].name>>
    BY <2>1 DEF KeyAt
  <2>4. (Stays(p)' <=> Stays(p)) /\ (Stays(p) => entry'[p].name = entry[p].name)
    BY <1>3, <1>4, <1>6, <2>1 DEF Stays
  <2> QED
    BY <2>2, <2>3, <2>4
<1> QED
  BY <1>2, <1>3, <1>4, <1>5, <1>6

-------------------------------------------------------------------------------
(* Between requests the objects are those of the tree *)

\* Under the key of every file of F lies its content, and nothing elsewhere.
Mirrored(F) ==
  /\ DOMAIN bucket = {KeyAt[i] : i \in F} \cup {RootKeep(first)}
  /\ \A i \in F : bucket[KeyAt[i]] = entry[i].content

\* An upload or a new content on its way: the object of its file is missing,
\* or has been replaced before the document says so.
StoringKnows(q) ==
  /\ q.id \in FilesKept /\ q.doc = entry[q.id]
  /\ q.pc = "put" => q.to = KeyAt[q.id]
  /\ q.pc # "save" /\ q.kind = "upload" =>
       Mirrored(FilesKept \ {q.id}) /\ entry[q.id].content = q.id
  /\ q.pc # "save" /\ q.kind = "content" => Mirrored(FilesKept)
  /\ q.pc = "save" =>
       /\ DOMAIN bucket = {KeyAt[i] : i \in FilesKept} \cup {RootKeep(first)}
       /\ \A i \in FilesKept : bucket[KeyAt[i]] = IF i = q.id THEN i ELSE entry[i].content

\* A rename: where the files were, which of them it moves, and where their
\* objects are by now.
OldKey(q) ==
  IF Stays(q.old.parent) THEN <<first, entry[q.old.parent].name, q.old.name>>
                         ELSE <<first, q.old.name>>
Was(q) == [i \in Entries |->
             IF i = q.id THEN OldKey(q)
             ELSE IF entry[i].parent = q.id THEN <<first, q.old.name, entry[i].name>> ELSE KeyAt[i]]
Moved(q) == {i \in FilesKept : i = q.id \/ entry[i].parent = q.id}

\* The old places are apart from each other and from all the new ones.
MoveKnows(q) ==
  /\ Stays(q.id) /\ q.doc = entry[q.id]
  /\ \A i, j \in FilesKept : Was(q)[i] = Was(q)[j] => i = j
  /\ \A i \in FilesKept : Was(q)[i] # RootKeep(first)
  /\ \A i \in Moved(q), j \in FilesKept : Was(q)[i] # KeyAt[j]
  /\ q.id \in Directories =>
       \A g \in Directories \ {q.id} : Stays(g) => entry[g].name # q.old.name
  /\ q.pc = "list" =>
       /\ DOMAIN bucket = {Was(q)[i] : i \in FilesKept} \cup {RootKeep(first)}
       /\ \A i \in FilesKept : bucket[Was(q)[i]] = entry[i].content
  /\ q.pc \in {"copy", "purge"} =>
       /\ q.todo \subseteq {Was(q)[i] : i \in Moved(q)}
       /\ \A i \in Moved(q) : NewKey(q, Was(q)[i]) = KeyAt[i]
       /\ DOMAIN bucket =
            {IF Was(q)[i] \in q.todo THEN Was(q)[i] ELSE KeyAt[i] : i \in FilesKept}
              \cup {RootKeep(first)} \cup (IF q.pc = "purge" THEN {q.now} ELSE {})
       /\ \A i \in FilesKept :
            bucket[IF Was(q)[i] \in q.todo THEN Was(q)[i] ELSE KeyAt[i]] = entry[i].content
  /\ q.pc = "purge" => q.now \in {Was(q)[i] : i \in Moved(q)} \ q.todo

\* A delete or the emptying of the bin: what has lost its object already.
Targets(q) == IF q.kind = "delete" THEN {q.id} ELSE {i \in Entries : entry[i].state = "bin"}
Emptied(q) == {j \in FilesKept : {j, entry[j].parent} \cap (Targets(q) \ q.todo) # {}}

EraseKnows(q) ==
  /\ q.seen = entry /\ q.todo \subseteq Targets(q)
  /\ q.kind = "delete" => Stays(q.id)
  /\ q.pc = "forget" => q.todo = {}
  /\ Mirrored(FilesKept \ Emptied(q))

MatchKnows(q) ==
  /\ q.pc \in {"resolve", "put", "save"} => StoringKnows(q)
  /\ q.pc \in Renaming => MoveKnows(q)
  /\ q.pc \in {"erase", "forget"} => EraseKnows(q)
  /\ q.pc = "check" => q.to = RootKeep(first)
  /\ q.pc \in {"check", "fetch", "insert"} => Mirrored(FilesKept)
  /\ q.pc \notin {"root", "fill"}

MatchInv ==
  mishaps = {} =>
    /\ KeysApart /\ ~BinMixed /\ strays = {}
    /\ ~Busy => Mirrored(FilesKept)
    /\ \A c \in Callers, q \in Call : q = call[c] => MatchKnows(q)

LEMMA MatchInvIsMatch == Typed /\ MatchInv => MirrorMatchesTree
<1> SUFFICES ASSUME Typed, MatchInv, ~Busy, mishaps = {}
             PROVE  /\ \A i \in FilesKept : ~Misplaced(i)
                    /\ DOMAIN bucket = {KeyOf(entry[i]) : i \in FilesKept} \cup {RootKeep(first)}
  BY DEF MirrorMatchesTree
<1>1. Mirrored(FilesKept)
  BY DEF MatchInv
<1>2. \A i \in FilesKept : KeyOf(entry[i]) = KeyAt[i]
  BY KeyAtIsKey DEF FilesKept
<1>3. \A i \in FilesKept : ~Misplaced(i)
  BY <1>1, <1>2 DEF Mirrored, Misplaced
<1>4. {KeyOf(entry[i]) : i \in FilesKept} = {KeyAt[i] : i \in FilesKept}
  BY <1>2
<1> QED
  BY <1>1, <1>3, <1>4 DEF Mirrored

LEMMA MatchInit == MirrorInit => MatchInv
<1> SUFFICES ASSUME MirrorInit PROVE MatchInv
  OBVIOUS
<1>1. \A i \in Entries : Stays(i) => i = Workspace
  BY DEF MirrorInit, Stays, AnyEntry
<1>2. FilesKept = {}
  BY <1>1, MirrorAssumption DEF FilesKept, MirrorAssumption
<1>3. KeysApart /\ ~BinMixed
  BY <1>1, <1>2 DEF KeysApart, BinMixed, Stays
<1>4. Mirrored(FilesKept)
  <2>1. DOMAIN bucket = {RootKeep(first)}
    BY DEF MirrorInit
  <2> QED
    BY <1>2, <2>1 DEF Mirrored
<1>5. \A c \in Callers, q \in Call : q = call[c] => MatchKnows(q)
  BY NoCallFields DEF MirrorInit, MatchKnows, Renaming
<1> QED
  BY <1>3, <1>4, <1>5 DEF MatchInv, MirrorInit

\* What nobody touches stays as it is known.
LEMMA KeysStay ==
  ASSUME UNCHANGED <<entry, first>>
  PROVE  KeyAt' = KeyAt /\ FilesKept' = FilesKept
BY DEF KeyAt, FilesKept, Stays

LEMMA MirroredStays ==
  ASSUME UNCHANGED <<entry, first, bucket>>, NEW F
  PROVE  Mirrored(F)' <=> Mirrored(F)
BY KeysStay DEF Mirrored

LEMMA MatchStays ==
  ASSUME UNCHANGED <<entry, first, bucket>>, NEW q \in Call, MatchKnows(q)
  PROVE  MatchKnows(q)'
<1>1. KeyAt' = KeyAt /\ FilesKept' = FilesKept
  BY KeysStay
<1>2. \A F : Mirrored(F)' <=> Mirrored(F)
  BY MirroredStays
<1>3. StoringKnows(q) => StoringKnows(q)'
  BY <1>1, <1>2 DEF StoringKnows, Mirrored
<1>4. Was(q)' = Was(q) /\ Moved(q)' = Moved(q)
  BY <1>1 DEF Was, Moved, OldKey, Stays
<1>5. MoveKnows(q) => MoveKnows(q)'
  <2>1. \A k : NewKey(q, k)' = NewKey(q, k)
    BY DEF NewKey
  <2>2. \A j : Stays(j)' <=> Stays(j)
    BY DEF Stays
  <2> QED
    BY <1>1, <1>4, <2>1, <2>2 DEF MoveKnows
<1>6. EraseKnows(q) => EraseKnows(q)'
  <2>1. Emptied(q)' = Emptied(q) /\ Targets(q)' = Targets(q)
    BY <1>1 DEF Emptied, Targets
  <2>2. Stays(q.id)' <=> Stays(q.id)
    BY DEF Stays
  <2> QED
    BY <1>1, <2>1, <2>2 DEF EraseKnows, Mirrored
<1>7. Mirrored(FilesKept) => Mirrored(FilesKept)'
  BY <1>1 DEF Mirrored
<1> QED
  BY <1>3, <1>5, <1>6, <1>7 DEF MatchKnows

\* Whatever changes the tree takes down what it leads to.
LEMMA TreeApart ==
  ASSUME Typed, Typed', MatchInv, [MirrorNext]_mirrorVars, mishaps' = {}
  PROVE  /\ mishaps = {} /\ UNCHANGED first /\ KeysApart' /\ ~BinMixed' /\ strays = {} /\ strays' = {}
         /\ KeysApart /\ ~BinMixed
<1>0. mishaps = {} /\ KeysApart /\ ~BinMixed /\ strays = {}
  BY MishapsStay DEF MatchInv
<1>1. UNCHANGED entry \/ TreeMishaps(FALSE) \subseteq mishaps'
  <2>1. ASSUME NEW c \in Callers, BeginCall(c)
        PROVE  UNCHANGED entry \/ TreeMishaps(FALSE) \subseteq mishaps'
    BY <2>1 DEF BeginCall, UploadFile, BeginSaveContent, RenameItem, RenameWorkspaceFolder, MoveItem,
                Relocate, BeginErase, BeginEmpty, BeginLogin, BeginPopulate, BeginSync, TreeMishaps,
                Mishap
  <2>2. ASSUME NEW c \in Callers, CallStep(c)
        PROVE  UNCHANGED entry \/ TreeMishaps(FALSE) \subseteq mishaps'
    BY <2>2 DEF CallStep, ResolvePath, PutObject, SaveEntry, ListObjects, CopyObject, PurgeObject,
                EraseObjects, ForgetEntries, CheckRoot, PutRoot, PutPlaceholder, FetchFile,
                InsertFromDisk, EndSync
  <2> QED
    BY <2>1, <2>2 DEF MirrorNext, SetBinned, PutStray, RestartServer, ChangeName, RunProgram,
                      mirrorVars, TreeMishaps, Mishap
<1>2. UNCHANGED first
  <2>1. \A n \in FirstNames : ~ChangeName(n)
    BY DEF ChangeName
  <2>2. ASSUME NEW c \in Callers, BeginCall(c) \/ CallStep(c)
        PROVE  UNCHANGED first
    BY <2>2 DEF BeginCall, UploadFile, BeginSaveContent, RenameItem, RenameWorkspaceFolder, MoveItem,
                Relocate, BeginErase, BeginEmpty, BeginLogin, BeginPopulate, BeginSync, CallStep,
                ResolvePath, PutObject, SaveEntry, ListObjects, CopyObject, PurgeObject,
                EraseObjects, ForgetEntries, CheckRoot, PutRoot, PutPlaceholder, FetchFile,
                InsertFromDisk, EndSync
  <2> QED
    BY <2>1, <2>2 DEF MirrorNext, SetBinned, PutStray, RestartServer, RunProgram, mirrorVars
<1>3. KeysApart' /\ ~BinMixed'
  <2>1. CASE UNCHANGED entry
    <3>1. KeyAt' = KeyAt /\ FilesKept' = FilesKept
      BY <1>2, <2>1, KeysStay
    <3>2. \A f : Stays(f)' <=> Stays(f)
      BY <2>1 DEF Stays
    <3> QED
      BY <1>0, <1>2, <2>1, <3>1, <3>2 DEF KeysApart, BinMixed
  <2>2. CASE TreeMishaps(FALSE) \subseteq mishaps'
    <3>1. ~PathShared' /\ ~BinMixed'
      BY <2>2 DEF TreeMishaps, Mishap
    <3> QED
      BY <3>1, PathsApartLater
  <2> QED
    BY <1>1, <2>1, <2>2
<1>4. strays' = {}
  <2>1. ASSUME NEW c \in Callers, BeginCall(c)
        PROVE  strays' = {}
    BY <1>0, <2>1 DEF BeginCall, UploadFile, BeginSaveContent, RenameItem, RenameWorkspaceFolder,
                      MoveItem, Relocate, BeginErase, BeginEmpty, BeginLogin, BeginPopulate, BeginSync
  <2>2. ASSUME NEW c \in Callers, CallStep(c)
        PROVE  strays' = {}
    BY <1>0, <2>2 DEF CallStep, ResolvePath, PutObject, SaveEntry, ListObjects, CopyObject, PurgeObject,
                      EraseObjects, ForgetEntries, CheckRoot, PutRoot, PutPlaceholder, FetchFile,
                      InsertFromDisk, EndSync
  <2> QED
    BY <1>0, <2>1, <2>2 DEF MirrorNext, SetBinned, PutStray, RestartServer, ChangeName, RunProgram, mirrorVars
<1> QED
  BY <1>0, <1>3, <1>2, <1>4

\* After a step of one call the others are at rest.
LEMMA MatchAfter ==
  ASSUME Typed', NEW c \in Callers, \A d \in Callers \ {c} : Free(d)', strays' = {}, KeysApart',
         ~BinMixed', NEW q \in Call, call'[c] = q, MatchKnows(q)',
         q.pc = "idle" => Mirrored(FilesKept)'
  PROVE  MatchInv'
<1>1. ASSUME NEW d \in Callers, NEW r \in Call, r = call'[d]
      PROVE  MatchKnows(r)'
  <2>1. CASE d = c
    BY <1>1, <2>1
  <2>2. CASE d # c
    <3>1. r.pc = "idle"
      BY <1>1, <2>2 DEF Free
    <3> QED
      BY <3>1 DEF MatchKnows, Renaming
  <2> QED
    BY <2>1, <2>2
<1>2. ~Busy' => Mirrored(FilesKept)'
  BY DEF Busy, Free
<1> QED
  BY <1>1, <1>2 DEF MatchInv

\* A request finds everybody at rest and the objects in their places.
LEMMA MatchBegins ==
  ASSUME Typed, Typed', MatchInv, Alone, NEW c \in Callers, BeginCall(c), [MirrorNext]_mirrorVars,
         mishaps' = {}
  PROVE  /\ Mirrored(FilesKept) /\ ~Busy /\ \A d \in Callers \ {c} : Free(d)'
<1>1. ~Busy /\ \A d \in Callers \ {c} : call'[d] = call[d] /\ Free(d)
  BY MishapsStay, BeginningsAlone
<1>2. mishaps = {}
  BY TreeApart
<1> QED
  BY <1>1, <1>2 DEF MatchInv, Free

LEMMA UploadMatches ==
  ASSUME Typed, Typed', Mirrored(FilesKept), NEW c \in Callers, NEW i \in Entries, NEW n \in Labels,
         NEW p \in Directories \cup {Top}, UploadFile(c, i, n, p), UNCHANGED first,
         NEW q \in Call, call'[c] = q
  PROVE  MatchKnows(q)' /\ q.pc # "idle"
<1>1. PICK d : d = [state |-> "live", name |-> n, parent |-> p, content |-> i]
  OBVIOUS
<1>2. PICK r : r = [NoCall EXCEPT !.kind = "upload", !.pc = "resolve", !.doc = d, !.id = i]
  OBVIOUS
<1>3. Becomes(c, r) /\ i \notin Directories /\ entry[i].state = "fresh" /\ UNCHANGED bucket
      /\ entry' = [entry EXCEPT ![i] = d]
  BY <1>1, <1>2 DEF UploadFile, StartCall, Becomes
<1>4. q = r
  BY <1>3, BecomesFields DEF Typed
<1>5. r.kind = "upload" /\ r.pc = "resolve" /\ r.doc = d /\ r.id = i
  BY <1>2 DEF NoCall
<1>6. Placed(i, d)
  BY <1>1, <1>3, MirrorAssumption DEF Placed, Entry, Contents, MirrorAssumption
<1>7. /\ entry'[i] = d /\ \A j \in Entries \ {i} : entry'[j] = entry[j] /\ KeyAt'[j] = KeyAt[j]
      /\ FilesKept' \ {i} = FilesKept \ {i}
  BY <1>3, <1>6, KeysWhenFileChanges
<1>8. i \notin FilesKept /\ i \in FilesKept'
  BY <1>1, <1>3, <1>7 DEF FilesKept, Stays
<1>9. FilesKept' \ {i} = FilesKept /\ FilesKept \subseteq Entries \ {i}
  BY <1>7, <1>8 DEF FilesKept
<1>10. Mirrored(FilesKept \ {i})'
  BY <1>3, <1>7, <1>9 DEF Mirrored
<1> QED
  BY <1>4, <1>1, <1>5, <1>7, <1>8, <1>10 DEF MatchKnows, StoringKnows, Renaming

LEMMA SaveBeginMatches ==
  ASSUME Typed, Typed', Mirrored(FilesKept), NEW c \in Callers, NEW i \in Entries,
         BeginSaveContent(c, i), NEW q \in Call, call'[c] = q
  PROVE  MatchKnows(q)' /\ q.pc # "idle"
<1>1. PICK d : d = entry[i]
  OBVIOUS
<1>2. PICK r : r = [NoCall EXCEPT !.kind = "content", !.pc = "resolve", !.doc = d, !.id = i]
  OBVIOUS
<1>3. Becomes(c, r) /\ i \in FilesKept /\ UNCHANGED <<entry, first, bucket>>
  BY <1>1, <1>2 DEF BeginSaveContent, StartCall, Becomes
<1>4. q = r
  BY <1>3, BecomesFields DEF Typed
<1>5. r.kind = "content" /\ r.pc = "resolve" /\ r.doc = d /\ r.id = i
  BY <1>2 DEF NoCall
<1>6. MatchKnows(q)
  BY <1>4, <1>1, <1>3, <1>5 DEF MatchKnows, StoringKnows, Renaming
<1> QED
  BY <1>4, <1>3, <1>5, <1>6, MatchStays

LEMMA QuietBeginMatches ==
  ASSUME Typed, Typed', Mirrored(FilesKept), NEW c \in Callers, NEW q \in Call, call'[c] = q,
         BeginEmpty(c) \/ BeginLogin(c) \/ BeginPopulate(c) \/ BeginSync(c)
           \/ \E i \in Entries : BeginErase(c, i)
  PROVE  MatchKnows(q)' /\ q.pc # "idle"
<1>0. \A r : StartCall(c, r) => call'[c] = r
  BY BecomesFields DEF Typed, StartCall, Becomes
<1>1. UNCHANGED <<entry, first, bucket>>
  BY DEF BeginEmpty, BeginLogin, BeginPopulate, BeginSync, BeginErase
<1>2. ASSUME q.pc = "erase", q.seen = entry, q.todo = Targets(q), q.kind = "delete" => Stays(q.id)
      PROVE  MatchKnows(q)
  <2>1. FilesKept \ Emptied(q) = FilesKept
    BY <1>2 DEF Emptied
  <2> QED
    BY <1>2, <2>1 DEF MatchKnows, EraseKnows, Renaming
<1>3. CASE BeginEmpty(c)
  <2>1. PICK e, t : e = entry /\ t = {i \in Entries : entry[i].state = "bin"}
    OBVIOUS
  <2>2. q = [NoCall EXCEPT !.kind = "emptyBin", !.pc = "erase", !.seen = e, !.todo = t]
    BY <1>0, <1>3, <2>1 DEF BeginEmpty
  <2>3. q.pc = "erase" /\ q.seen = e /\ q.todo = t /\ q.kind = "emptyBin"
    BY <2>2 DEF NoCall
  <2> QED
    BY <1>1, <1>2, <2>1, <2>3, MatchStays DEF Targets
<1>4. ASSUME NEW i \in Entries, BeginErase(c, i)
      PROVE  MatchKnows(q)' /\ q.pc # "idle"
  <2>1. PICK e : e = entry
    OBVIOUS
  <2>2. q = [NoCall EXCEPT !.kind = "delete", !.pc = "erase", !.id = i, !.seen = e, !.todo = {i}]
        /\ Stays(i)
    BY <1>0, <1>4, <2>1 DEF BeginErase
  <2>3. q.pc = "erase" /\ q.seen = e /\ q.todo = {i} /\ q.kind = "delete" /\ q.id = i
    BY <2>2 DEF NoCall
  <2> QED
    BY <1>1, <1>2, <2>1, <2>2, <2>3, MatchStays DEF Targets
<1>5. CASE BeginLogin(c)
  <2>1. PICK k : k = RootKeep(first)
    OBVIOUS
  <2>2. q = [NoCall EXCEPT !.kind = "login", !.pc = "check", !.to = k]
    BY <1>0, <1>5, <2>1 DEF BeginLogin
  <2>3. q.pc = "check" /\ q.to = k
    BY <2>2 DEF NoCall
  <2>4. MatchKnows(q)
    BY <2>1, <2>3 DEF MatchKnows, Renaming
  <2> QED
    BY <1>1, <2>3, <2>4, MatchStays
<1>6. CASE BeginPopulate(c) \/ BeginSync(c)
  <2>1. q.pc \in {"fetch", "insert"}
    <3>1. CASE BeginPopulate(c)
      BY <1>0, <3>1 DEF BeginPopulate, NoCall
    <3>2. CASE BeginSync(c)
      BY <1>0, <3>2 DEF BeginSync, NoCall
    <3> QED
      BY <1>6, <3>1, <3>2
  <2>2. MatchKnows(q)
    BY <2>1 DEF MatchKnows, Renaming
  <2> QED
    BY <1>1, <2>1, <2>2, MatchStays
<1> QED
  BY <1>3, <1>4, <1>5, <1>6

\* A rename finds the objects under the keys the files had before it.
LEMMA RelocateWas ==
  ASSUME Typed, Typed', NEW i \in Entries, NEW d, Placed(i, d), Stays(i), d.state = entry[i].state,
         entry' = [entry EXCEPT ![i] = d], UNCHANGED first,
         NEW q \in Call, q.id = i, q.old = entry[i]
  PROVE  /\ \A j \in Entries : Was(q)'[j] = KeyAt[j]
         /\ FilesKept' = FilesKept /\ Stays(i)'
<1>1. PICK e : e = entry[i] /\ Placed(i, e) /\ q.old = e
  BY DEF Typed, FlatTree
<1>2. \A j \in Entries : Was(q)'[j] =
        IF j = i THEN OldKey(q)'
        ELSE IF entry'[j].parent = i THEN <<first, e.name, entry'[j].name>> ELSE KeyAt'[j]
  BY <1>1 DEF Was
<1>3. OldKey(q)' = IF Stays(e.parent)' THEN <<first, entry'[e.parent].name, e.name>> ELSE <<first, e.name>>
  BY <1>1 DEF OldKey
<1>4. CASE i \notin Directories
  <2>1. /\ entry'[i] = d
        /\ \A j \in Entries \ {i} : /\ entry'[j] = entry[j] /\ (Stays(j)' <=> Stays(j))
                                    /\ KeyAt'[j] = KeyAt[j]
        /\ FilesKept' \ {i} = FilesKept \ {i}
    <3>1. i \in Entries \ Directories
      BY <1>4
    <3>2. /\ entry'[i] = d
          /\ \A j \in Entries \ {i} : /\ entry'[j] = entry[j] /\ (Stays(j)' <=> Stays(j))
                                      /\ KeyAt'[j] = KeyAt[j]
          /\ KeyAt'[i] = IF Stays(d.parent) THEN <<first, entry[d.parent].name, d.name>>
                                            ELSE <<first, d.name>>
          /\ FilesKept' \ {i} = FilesKept \ {i}
      BY <3>1, KeysWhenFileChanges
    <3> QED
      BY <3>2
  <2>2. Stays(i)' /\ FilesKept' = FilesKept
    <3>1. Stays(i)'
      BY <2>1 DEF Stays
    <3> QED
      BY <1>4, <2>1, <3>1 DEF FilesKept
  <2>3. e.parent \in Directories \cup {Top} /\ e.parent # i
    BY <1>1, <1>4, MirrorAssumption DEF Placed, MirrorAssumption
  <2>4. (Stays(e.parent)' <=> Stays(e.parent)) /\ (Stays(e.parent) => entry'[e.parent] = entry[e.parent])
    BY <2>1, <2>3 DEF Stays
  <2>5. OldKey(q)' = KeyAt[i]
    BY <1>1, <1>3, <2>4 DEF KeyAt
  <2>6. \A j \in Entries \ {i} : entry'[j].parent # i
    BY <1>4, <2>1, MirrorAssumption DEF Typed, FlatTree, Placed, MirrorAssumption
  <2> QED
    BY <1>2, <2>1, <2>2, <2>5, <2>6
<1>5. CASE i \in Directories
  <2>1. /\ entry'[i] = d
        /\ \A j \in Entries \ {i} : entry'[j] = entry[j]
        /\ \A j \in Entries : Stays(j)' <=> Stays(j)
        /\ \A j \in Entries \ {i} :
              IF entry[j].parent = i
                THEN /\ KeyAt[j] = <<first, entry[i].name, entry[j].name>>
                     /\ KeyAt'[j] = <<first, d.name, entry[j].name>>
                ELSE KeyAt'[j] = KeyAt[j]
        /\ KeyAt[i] = <<first, entry[i].name>>
        /\ FilesKept' = FilesKept
    BY <1>5, KeysWhenFolderChanges
  <2>2. ~Stays(e.parent)'
    BY <1>1, <1>5, MirrorAssumption DEF Placed, Stays, MirrorAssumption
  <2>3. OldKey(q)' = KeyAt[i]
    BY <1>1, <1>3, <2>1, <2>2
  <2>4. ASSUME NEW j \in Entries \ {i}
        PROVE  Was(q)'[j] = KeyAt[j]
    <3>1. entry'[j] = entry[j]
      BY <2>1
    <3>2. Was(q)'[j] = IF entry[j].parent = i THEN <<first, e.name, entry[j].name>> ELSE KeyAt'[j]
      BY <1>2, <3>1
    <3> QED
      BY <1>1, <2>1, <3>2
  <2> QED
    BY <1>2, <2>1, <2>3, <2>4
<1> QED
  BY <1>4, <1>5

\* The new places are not the old ones.
LEMMA RelocateParts ==
  ASSUME Typed, Typed', KeysApart, NEW i \in Entries, NEW d, Placed(i, d), Stays(i),
         d.state = entry[i].state, entry' = [entry EXCEPT ![i] = d], UNCHANGED first,
         PathOf(d) # PathOf(entry[i]),
         NEW m \in FilesKept, m = i \/ entry[m].parent = i, NEW j \in FilesKept
  PROVE  KeyAt[m] # KeyAt'[j]
<1>1. PICK e : e = entry[i] /\ Placed(i, e) /\ PathOf(d) # PathOf(e)
  BY DEF Typed, FlatTree
<1>2. KeyOf(d) # KeyOf(e)
  BY <1>1, KeysTellPaths
<1>3. KeyOf(e) = KeyAt[i]
  BY <1>1, KeyAtIsKey
<1>4. m \in Entries \ Directories /\ j \in Entries \ Directories
  BY DEF FilesKept
<1>5. CASE i \notin Directories
  <2>1. /\ \A l \in Entries \ {i} : KeyAt'[l] = KeyAt[l]
        /\ KeyAt'[i] = IF Stays(d.parent) THEN <<first, entry[d.parent].name, d.name>>
                                          ELSE <<first, d.name>>
    BY <1>5, KeysWhenFileChanges
  <2>2. KeyAt'[i] = KeyOf(d)
    BY <2>1, KeyForm DEF Typed
  <2>3. m = i
    BY <1>4, <1>5, MirrorAssumption DEF Typed, FlatTree, Placed, MirrorAssumption
  <2>4. CASE j = i
    BY <1>2, <1>3, <2>2, <2>3, <2>4
  <2>5. CASE j # i
    BY <1>4, <2>1, <2>3, <2>5 DEF KeysApart
  <2> QED
    BY <2>4, <2>5
<1>6. CASE i \in Directories
  <2>1. \A l \in Entries \ {i} :
          IF entry[l].parent = i
            THEN /\ KeyAt[l] = <<first, entry[i].name, entry[l].name>>
                 /\ KeyAt'[l] = <<first, d.name, entry[l].name>>
            ELSE KeyAt'[l] = KeyAt[l]
    BY <1>6, KeysWhenFolderChanges
  <2>2. d.name # e.name
    <3>1. ~Stays(d.parent) /\ ~Stays(e.parent)
      BY <1>1, <1>6, MirrorAssumption DEF Placed, Stays, MirrorAssumption
    <3>2. KeyOf(d) = <<first, d.name>> /\ KeyOf(e) = <<first, e.name>>
      BY <1>1, <3>1, KeyForm DEF Typed
    <3> QED
      BY <1>2, <3>2
  <2>3. m # i /\ j # i /\ entry[m].parent = i
    BY <1>4, <1>6
  <2>4. CASE entry[j].parent = i
    <3>1. KeyAt[m] = <<first, e.name, entry[m].name>> /\ KeyAt'[j] = <<first, d.name, entry[j].name>>
      BY <1>1, <1>4, <2>1, <2>3, <2>4
    <3> QED
      BY <2>2, <3>1
  <2>5. CASE entry[j].parent # i
    BY <1>4, <2>1, <2>3, <2>5 DEF KeysApart
  <2> QED
    BY <2>4, <2>5
<1> QED
  BY <1>5, <1>6

LEMMA RelocateMatches ==
  ASSUME Typed, Typed', KeysApart, Mirrored(FilesKept), mishaps' = {}, UNCHANGED first,
         NEW c \in Callers, NEW i \in Entries, NEW d, Placed(i, d), Relocate(c, i, d),
         d.state = entry[i].state, d.content = entry[i].content,
         NEW q \in Call, call'[c] = q
  PROVE  MatchKnows(q)' /\ q.pc # "idle"
<1>1. PICK e : e = entry[i]
  OBVIOUS
<1>2. PICK r : r = [NoCall EXCEPT !.kind = "rename", !.pc = "list", !.id = i, !.doc = d, !.old = e]
  OBVIOUS
<1>3. Becomes(c, r) /\ Stays(i) /\ UNCHANGED bucket /\ entry' = [entry EXCEPT ![i] = d]
      /\ PathOf(d) # PathOf(entry[i])
  BY <1>1, <1>2 DEF Relocate, StartCall, Becomes, Mishap
<1>4. q = r
  BY <1>3, BecomesFields DEF Typed
<1>5. r.pc = "list" /\ r.doc = d /\ r.id = i /\ r.old = e
  BY <1>2 DEF NoCall
<1>6. /\ \A j \in Entries : Was(q)'[j] = KeyAt[j]
      /\ FilesKept' = FilesKept /\ Stays(i)'
  BY <1>1, <1>3, <1>4, <1>5, RelocateWas
<1>7. /\ entry'[i] = d /\ \A j \in Entries \ {i} : entry'[j] = entry[j]
      /\ \A j \in Entries : entry'[j].content = entry[j].content
  BY <1>3 DEF Typed, FlatTree
<1>8. FilesKept \subseteq Entries
  BY DEF FilesKept
<1>9. Moved(q)' \subseteq {m \in FilesKept : m = i \/ entry[m].parent = i}
  BY <1>4, <1>5, <1>6, <1>7, <1>8 DEF Moved
<1>10. \A m \in Moved(q)', j \in FilesKept : Was(q)'[m] # KeyAt'[j]
  BY <1>3, <1>6, <1>8, <1>9, RelocateParts
<1>11. ASSUME i \in Directories, NEW g \in Directories \ {i}, Stays(g)'
       PROVE  entry'[g].name # e.name
  <2>1. Stays(g) /\ entry'[g] = entry[g] /\ g \in Entries
    BY <1>7, <1>11 DEF Stays
  <2> QED
    BY <1>1, <1>3, <1>11, <2>1 DEF KeysApart
<1>12. /\ DOMAIN bucket' = {Was(q)'[j] : j \in FilesKept} \cup {RootKeep(first)}
       /\ \A j \in FilesKept : bucket'[Was(q)'[j]] = entry'[j].content
  BY <1>3, <1>6, <1>7, <1>8 DEF Mirrored
<1>13. /\ \A j, k \in FilesKept : Was(q)'[j] = Was(q)'[k] => j = k
       /\ \A j \in FilesKept : Was(q)'[j] # RootKeep(first)
  BY <1>6, <1>8 DEF KeysApart
<1>14. MoveKnows(q)'
  BY <1>4, <1>5, <1>6, <1>7, <1>10, <1>11, <1>12, <1>13 DEF MoveKnows, RootKeep
<1> QED
  BY <1>4, <1>5, <1>14 DEF MatchKnows, Renaming

LEMMA MatchBegin ==
  ASSUME Typed, Typed', MatchInv, Alone, NEW c \in Callers, BeginCall(c), [MirrorNext]_mirrorVars,
         mishaps' = {}
  PROVE  MatchInv'
<1>1. Mirrored(FilesKept) /\ \A d \in Callers \ {c} : Free(d)'
  BY MatchBegins
<1>2. UNCHANGED first /\ KeysApart /\ KeysApart' /\ ~BinMixed' /\ strays' = {}
  BY TreeApart
<1>3. PICK q \in Call : call'[c] = q
  BY DEF Typed
<1>4. ASSUME NEW i \in Entries, NEW n \in Labels, RenameItem(c, i, n)
      PROVE  MatchKnows(q)' /\ q.pc # "idle"
  <2>1. PICK d : d = [entry[i] EXCEPT !.name = n] /\ Placed(i, d)
    BY RenamePlaced
  <2>2. Relocate(c, i, d)
    BY <1>4, <2>1 DEF RenameItem
  <2>3. d.state = entry[i].state /\ d.content = entry[i].content
    BY <2>1 DEF Typed, FlatTree, Entry
  <2> QED
    BY <1>1, <1>2, <1>3, <2>1, <2>2, <2>3, RelocateMatches
<1>5. ASSUME NEW i \in Entries, NEW p \in Directories \cup {Top}, MoveItem(c, i, p)
      PROVE  MatchKnows(q)' /\ q.pc # "idle"
  <2>1. PICK d : d = [entry[i] EXCEPT !.parent = p] /\ Placed(i, d)
    BY <1>5, MovePlaced DEF MoveItem
  <2>2. Relocate(c, i, d)
    BY <1>5, <2>1 DEF MoveItem
  <2>3. d.state = entry[i].state /\ d.content = entry[i].content
    BY <2>1 DEF Typed, FlatTree, Entry
  <2> QED
    BY <1>1, <1>2, <1>3, <2>1, <2>2, <2>3, RelocateMatches
<1>6. ASSUME NEW i \in Entries, NEW n \in Labels, RenameWorkspaceFolder(c, i, n)
      PROVE  FALSE
  BY <1>6 DEF RenameWorkspaceFolder
<1>7. MatchKnows(q)' /\ q.pc # "idle"
  BY <1>1, <1>2, <1>3, <1>4, <1>5, <1>6, UploadMatches, SaveBeginMatches, QuietBeginMatches
     DEF BeginCall
<1> QED
  BY <1>1, <1>2, <1>3, <1>7, MatchAfter

-------------------------------------------------------------------------------
(* The steps of a call that is alone *)

\* What a step starts from.
LEMMA MatchSteps ==
  ASSUME Typed, MatchInv, Alone, NEW c \in Callers, CallStep(c), [MirrorNext]_mirrorVars,
         mishaps' = {}
  PROVE  /\ \A d \in Callers \ {c} : Free(d)'
         /\ call[c] \in Call /\ \A q \in Call : q = call[c] => MatchKnows(q) /\ Fits(q)
         /\ \A q : Proceeds(c, q) => call'[c] = q
<1>1. mishaps = {} /\ ~Free(c) /\ \A d \in Callers \ {c} : call'[d] = call[d]
  BY MishapsStay, StepsOfOne
<1>2. \A d \in Callers \ {c} : Free(d)
  BY <1>1 DEF Alone, Solo
<1>3. \A q : Proceeds(c, q) => call'[c] = q
  BY BecomesFields DEF Typed, Proceeds, Becomes
<1> QED
  BY <1>1, <1>2, <1>3, CallFits DEF MatchInv, Free

LEMMA ResolveMatches ==
  ASSUME Typed, NEW c \in Callers, ResolvePath(c), NEW q \in Call, q = call[c], MatchKnows(q), Fits(q),
         NEW p \in Call, p = call'[c], \A r : Proceeds(c, r) => call'[c] = r
  PROVE  MatchKnows(p)' /\ p.pc # "idle"
<1>1. StoringKnows(q) /\ q.pc = "resolve" /\ UNCHANGED <<entry, first, bucket>>
  BY DEF ResolvePath, MatchKnows
<1>2. PICK k : k = KeyOf(q.doc)
  OBVIOUS
<1>3. k = KeyAt[q.id]
  BY <1>1, <1>2, KeyAtIsKey DEF StoringKnows, FilesKept
<1>4. p = [[q EXCEPT !.pc = "put"] EXCEPT !.to = k]
  BY <1>2 DEF ResolvePath, To
<1>5. p.pc = "put" /\ p.to = k /\ p.id = q.id /\ p.doc = q.doc /\ p.kind = q.kind
  BY <1>4 DEF Call
<1>6. MatchKnows(p)
  BY <1>1, <1>3, <1>5 DEF MatchKnows, StoringKnows, Renaming
<1> QED
  BY <1>1, <1>5, <1>6, MatchStays

LEMMA PutMatches ==
  ASSUME Typed, KeysApart, mishaps' = {}, NEW c \in Callers, NEW ok \in BOOLEAN, PutObject(c, ok),
         NEW q \in Call, q = call[c], MatchKnows(q), Fits(q),
         NEW p \in Call, p = call'[c], \A r : Proceeds(c, r) => call'[c] = r
  PROVE  MatchKnows(p)' /\ (p.pc = "idle" => Mirrored(FilesKept)')
<1>1. /\ StoringKnows(q) /\ q.pc = "put" /\ q.kind \in {"upload", "content"} /\ UNCHANGED <<entry, first>>
      /\ q.kind = "upload" => ok
  BY DEF PutObject, MatchKnows, Fits, Mishap
<1>2. KeyAt' = KeyAt /\ FilesKept' = FilesKept
  BY <1>1, KeysStay
<1>3. PICK k, i : k = q.to /\ i = q.id /\ k = KeyAt[i] /\ i \in FilesKept
  BY <1>1 DEF StoringKnows
<1>4. \A j \in FilesKept : KeyAt[j] = k => j = i
  BY <1>3 DEF KeysApart
<1>5. p = IF ok /\ q.kind = "content" THEN [q EXCEPT !.pc = "save"] ELSE NoCall
  BY DEF PutObject, To
<1>6. CASE ~ok
  <2>1. UNCHANGED bucket /\ p = NoCall /\ Mirrored(FilesKept)
    BY <1>1, <1>5, <1>6 DEF PutObject, StoringKnows
  <2> QED
    BY <1>1, <1>2, <2>1, NoCallFields DEF MatchKnows, Mirrored, Renaming
<1>7. CASE ok
  <2>1. bucket' = With(k, i)
    BY <1>3, <1>7 DEF PutObject
  <2>2. /\ DOMAIN bucket' = DOMAIN bucket \cup {k} /\ bucket'[k] = i
        /\ \A l \in DOMAIN bucket \ {k} : bucket'[l] = bucket[l]
    BY <2>1 DEF With, Overwrite
  <2>3. CASE q.kind = "upload"
    <3>1. Mirrored(FilesKept \ {i}) /\ entry[i].content = i
      BY <1>1, <1>3, <2>3 DEF StoringKnows
    <3>2. DOMAIN bucket' = {KeyAt[j] : j \in FilesKept} \cup {RootKeep(first)}
      BY <1>3, <2>2, <3>1 DEF Mirrored
    <3>3. \A j \in FilesKept : bucket'[KeyAt[j]] = entry[j].content
      BY <1>3, <1>4, <2>2, <3>1 DEF Mirrored
    <3>4. p = NoCall
      BY <1>5, <2>3
    <3>5. Mirrored(FilesKept)'
      BY <1>1, <1>2, <3>2, <3>3 DEF Mirrored, RootKeep
    <3> QED
      BY <3>4, <3>5, NoCallFields DEF MatchKnows, Renaming
  <2>4. CASE q.kind = "content"
    <3>1. Mirrored(FilesKept) /\ q.doc = entry[i]
      BY <1>1, <1>3, <2>4 DEF StoringKnows
    <3>2. DOMAIN bucket' = {KeyAt[j] : j \in FilesKept} \cup {RootKeep(first)}
      BY <1>3, <2>2, <3>1 DEF Mirrored
    <3>3. \A j \in FilesKept : bucket'[KeyAt[j]] = IF j = i THEN j ELSE entry[j].content
      BY <1>3, <1>4, <2>2, <3>1 DEF Mirrored
    <3>4. p.pc = "save" /\ p.id = i /\ p.doc = q.doc /\ p.kind = "content"
      BY <1>3, <1>5, <1>7, <2>4 DEF Call
    <3>5. StoringKnows(p)'
      BY <1>1, <1>2, <1>3, <3>1, <3>2, <3>3, <3>4 DEF StoringKnows, RootKeep
    <3> QED
      BY <3>4, <3>5 DEF MatchKnows, Renaming
  <2> QED
    BY <1>1, <2>3, <2>4
<1> QED
  BY <1>6, <1>7

LEMMA SaveMatches ==
  ASSUME Typed, NEW c \in Callers, SaveEntry(c),
         NEW q \in Call, q = call[c], MatchKnows(q), Fits(q),
         NEW p \in Call, p = call'[c], \A r : Proceeds(c, r) => call'[c] = r
  PROVE  MatchKnows(p)' /\ (p.pc = "idle" => Mirrored(FilesKept)')
<1>1. StoringKnows(q) /\ q.pc = "save" /\ UNCHANGED <<first, bucket>> /\ p = NoCall
  BY DEF SaveEntry, MatchKnows
<1>2. PICK i, e : i = q.id /\ e = entry[i] /\ i \in FilesKept /\ q.doc = e /\ Placed(i, e)
  BY <1>1 DEF StoringKnows, Fits
<1>3. PICK d : d = [e EXCEPT !.content = i]
  OBVIOUS
<1>4. /\ entry' = [entry EXCEPT ![i] = d] /\ i \in Entries \ Directories /\ e \in Entry /\ d \in Entry
      /\ d.name = e.name /\ d.parent = e.parent /\ d.state = e.state /\ d.content = i
  BY <1>2, <1>3 DEF SaveEntry, Placed, Entry, FilesKept, Contents
<1>5. Placed(i, d)
  BY <1>2, <1>4 DEF Placed
<1>6. /\ entry'[i] = d /\ \A j \in Entries \ {i} : entry'[j] = entry[j] /\ KeyAt'[j] = KeyAt[j]
      /\ KeyAt'[i] = (IF Stays(d.parent) THEN <<first, entry[d.parent].name, d.name>>
                                         ELSE <<first, d.name>>)
      /\ FilesKept' \ {i} = FilesKept \ {i}
  <2>1. UNCHANGED first /\ entry' = [entry EXCEPT ![i] = d] /\ i \in Entries \ Directories
    BY <1>1, <1>4
  <2>2. /\ entry'[i] = d
        /\ \A j \in Entries \ {i} : /\ entry'[j] = entry[j] /\ (Stays(j)' <=> Stays(j))
                                    /\ KeyAt'[j] = KeyAt[j]
        /\ KeyAt'[i] = IF Stays(d.parent) THEN <<first, entry[d.parent].name, d.name>>
                                          ELSE <<first, d.name>>
        /\ FilesKept' \ {i} = FilesKept \ {i}
    BY <1>5, <2>1, KeysWhenFileChanges
  <2> QED
    BY <2>2
<1>7. KeyAt'[i] = KeyAt[i]
  BY <1>2, <1>4, <1>6 DEF KeyAt
<1>8. FilesKept' = FilesKept
  <2>1. i \in FilesKept'
    BY <1>2, <1>4, <1>6 DEF FilesKept, Stays
  <2> QED
    BY <1>2, <1>6, <2>1
<1>9. FilesKept \subseteq Entries
  BY DEF FilesKept
<1>10. \A j \in FilesKept : KeyAt'[j] = KeyAt[j]
  BY <1>6, <1>7, <1>9
<1>11. \A j \in FilesKept : bucket[KeyAt[j]] = entry'[j].content
  BY <1>1, <1>2, <1>4, <1>6, <1>9 DEF StoringKnows
<1>12. Mirrored(FilesKept)'
  BY <1>1, <1>8, <1>10, <1>11 DEF Mirrored, StoringKnows
<1> QED
  BY <1>1, <1>12, NoCallFields DEF MatchKnows, Renaming

\* Two and three names: which keys lie in a folder, and what a rename of the
\* folder makes of them.
LEMMA PartsOfThree ==
  ASSUME NEW a, NEW b, NEW c
  PROVE  SubSeq(<<a, b, c>>, 1, 2) = <<a, b>> /\ SubSeq(<<a, b, c>>, 3, 3) = <<c>>
<1> DEFINE S == {a, b, c}
<1>0. PICK s : s = <<a, b, c>>
  OBVIOUS
<1>1. s = <<a, b, c>> /\ s[1] = a /\ s[2] = b /\ s[3] = c /\ \A i \in 1..3 : s[i] \in S
  BY <1>0
<1>2. a \in S /\ b \in S /\ c \in S
  OBVIOUS
<1> HIDE DEF S
<1>3. PICK t, u : t = SubSeq(s, 1, 2) /\ u = SubSeq(s, 3, 3)
  OBVIOUS
<1>4. /\ t \in Seq(S) /\ Len(t) = 2 /\ \A i \in 1..2 : t[i] = s[i]
  BY <1>1, <1>3, SubSeqProperties
<1>5. /\ u \in Seq(S) /\ Len(u) = 1 /\ \A i \in 1..1 : u[i] = s[3 + i - 1]
  BY <1>1, <1>3, SubSeqProperties
<1>6. t = <<a, b>>
  BY <1>1, <1>4, LengthTwo
<1>7. u = <<c>>
  BY <1>1, <1>5
<1> QED
  BY <1>1, <1>3, <1>6, <1>7

LEMMA InsideFolder ==
  ASSUME NEW x, NEW y
  PROVE  /\ \A a, b, c : Inside(<<a, b, c>>, <<x, y>>) <=> a = x /\ b = y
         /\ \A a, b : ~Inside(<<a, b>>, <<x, y>>)
<1>1. ASSUME NEW a, NEW b, NEW c
      PROVE  Inside(<<a, b, c>>, <<x, y>>) <=> a = x /\ b = y
  <2>0. PICK l, k : l = <<a, b, c>> /\ k = <<x, y>>
    OBVIOUS
  <2>1. l = <<a, b, c>> /\ k = <<x, y>> /\ Len(l) = 3 /\ Len(k) = 2
    BY <2>0
  <2>2. SubSeq(l, 1, 2) = <<a, b>>
    BY <2>1, PartsOfThree
  <2>3. <<a, b>> = <<x, y>> <=> a = x /\ b = y
    OBVIOUS
  <2> QED
    BY <2>1, <2>2, <2>3 DEF Inside
<1>2. ASSUME NEW a, NEW b
      PROVE  ~Inside(<<a, b>>, <<x, y>>)
  <2>0. PICK l, k : l = <<a, b>> /\ k = <<x, y>>
    OBVIOUS
  <2>1. l = <<a, b>> /\ k = <<x, y>> /\ Len(l) = 2 /\ Len(k) = 2
    BY <2>0
  <2> QED
    BY <2>1 DEF Inside
<1> QED
  BY <1>1, <1>2

LEMMA NewKeyInFolder ==
  ASSUME NEW q, NEW a, NEW b, NEW n, NEW c, q.from = <<a, b>>, q.to = <<a, n>>
  PROVE  NewKey(q, <<a, b, c>>) = <<a, n, c>>
<1>0. PICK f, l : f = q.from /\ l = <<a, b, c>>
  OBVIOUS
<1>1. f = q.from /\ l = <<a, b, c>> /\ Len(f) = 2 /\ Len(l) = 3
  BY <1>0
<1>2. SubSeq(l, 3, 3) = <<c>>
  BY <1>1, PartsOfThree
<1>3. NewKey(q, l) = <<a, n>> \o <<c>>
  BY <1>1, <1>2 DEF NewKey
<1> QED
  BY <1>1, <1>3, ConcatThree

\* A rename lists the objects of the files it moves, under their old keys, and
\* spells their new ones right.
LEMMA FolderHolds ==
  ASSUME Typed, NEW q \in Call, Fits(q), MoveKnows(q), q.id \in Directories, NEW i \in FilesKept
  PROVE  /\ Inside(Was(q)[i], <<first, q.old.name>>) <=> i \in Moved(q)
         /\ i \in Moved(q) => /\ Was(q)[i] = <<first, q.old.name, entry[i].name>>
                              /\ KeyAt[i] = <<first, entry[q.id].name, entry[i].name>>
<1>1. PICK f, x, g : f = first /\ x = q.old.name /\ g = q.id
  OBVIOUS
<1>2. i \in Entries \ Directories /\ i # g /\ Stays(g) /\ g \in Directories
  BY <1>1 DEF FilesKept, MoveKnows
<1>3. PICK e : e = entry[i] /\ Placed(i, e)
  BY <1>2 DEF Typed, FlatTree
<1>4. i \in Moved(q) <=> e.parent = g
  BY <1>1, <1>2, <1>3 DEF Moved
<1>5. Was(q)[i] = IF e.parent = g THEN <<f, x, e.name>> ELSE KeyAt[i]
  BY <1>1, <1>2, <1>3 DEF Was
<1>6. KeyAt[i] = IF Stays(e.parent) THEN <<f, entry[e.parent].name, e.name>> ELSE <<f, e.name>>
  BY <1>1, <1>2, <1>3 DEF KeyAt
<1>7. \A a, b, c : (Inside(<<a, b, c>>, <<f, x>>) <=> a = f /\ b = x) /\ ~Inside(<<a, b>>, <<f, x>>)
  BY InsideFolder
<1>8. CASE e.parent = g
  BY <1>1, <1>2, <1>3, <1>4, <1>5, <1>6, <1>7, <1>8
<1>9. CASE e.parent # g
  <2>1. Stays(e.parent) => entry[e.parent].name # x
    <3>1. Stays(e.parent) => e.parent \in Directories \ {g}
      BY <1>3, <1>9, MirrorAssumption DEF Placed, Stays, MirrorAssumption
    <3> QED
      BY <1>1, <1>2, <3>1 DEF MoveKnows
  <2>2. ~Inside(KeyAt[i], <<f, x>>)
    <3>1. CASE Stays(e.parent)
      BY <1>6, <1>7, <2>1, <3>1
    <3>2. CASE ~Stays(e.parent)
      BY <1>6, <1>7, <3>2
    <3> QED
      BY <3>1, <3>2
  <2> QED
    BY <1>1, <1>4, <1>5, <1>9, <2>2
<1> QED
  BY <1>8, <1>9

LEMMA FileMovesAlone ==
  ASSUME Typed, NEW q \in Call, Fits(q), MoveKnows(q), q.id \in Entries \ Directories
  PROVE  Moved(q) = {q.id} /\ Was(q)[q.id] = KeyOf(q.old) /\ KeyOf(q.doc) = KeyAt[q.id]
<1>1. \A j \in Entries : entry[j].parent # q.id
  BY MirrorAssumption DEF Typed, FlatTree, Placed, MirrorAssumption
<1>2. Moved(q) = {q.id}
  BY <1>1 DEF Moved, FilesKept, MoveKnows
<1>3. PICK d : d = q.old /\ Placed(q.id, d)
  BY DEF Fits
<1>4. KeyOf(d) = OldKey(q)
  BY <1>3, KeyForm DEF Typed, OldKey
<1>5. Was(q)[q.id] = OldKey(q)
  BY DEF Was
<1>6. KeyOf(q.doc) = KeyAt[q.id]
  BY KeyAtIsKey DEF MoveKnows
<1> QED
  BY <1>2, <1>3, <1>4, <1>5, <1>6

LEMMA ListsWhatMoves ==
  ASSUME Typed, NEW q \in Call, Fits(q), MoveKnows(q), q.pc = "list"
  PROVE  {Was(q)[i] : i \in Moved(q)} =
           IF q.id \in Directories THEN {k \in DOMAIN bucket : Inside(k, KeyOf(q.old))} ELSE {KeyOf(q.old)}
<1>1. CASE q.id \in Directories
  <2>1. PICK d : d = q.old /\ Placed(q.id, d)
    BY DEF Fits
  <2>2. ~Stays(d.parent)
    BY <1>1, <2>1, MirrorAssumption DEF Placed, Stays, MirrorAssumption
  <2>3. KeyOf(q.old) = <<first, q.old.name>>
    BY <2>1, <2>2, KeyForm DEF Typed
  <2>4. PICK f : f = KeyOf(q.old)
    OBVIOUS
  <2>5. \A i \in FilesKept : Inside(Was(q)[i], f) <=> i \in Moved(q)
    BY <1>1, <2>3, <2>4, FolderHolds
  <2>6. ~Inside(RootKeep(first), f)
    <3>1. PICK x, n : x = q.old.name /\ n = first
      OBVIOUS
    <3>2. \A a, b : ~Inside(<<a, b>>, <<n, x>>)
      BY InsideFolder
    <3> QED
      BY <2>3, <2>4, <3>1, <3>2 DEF RootKeep
  <2>7. DOMAIN bucket = {Was(q)[i] : i \in FilesKept} \cup {RootKeep(first)}
    BY DEF MoveKnows
  <2>8. Moved(q) \subseteq FilesKept
    BY DEF Moved
  <2>9. {k \in DOMAIN bucket : Inside(k, f)} = {Was(q)[i] : i \in Moved(q)}
    BY <2>5, <2>6, <2>7, <2>8
  <2> QED
    BY <1>1, <2>4, <2>9
<1>2. CASE q.id \notin Directories
  <2>1. q.id \in Entries \ Directories
    BY <1>2 DEF Fits
  <2> QED
    BY <1>2, <2>1, FileMovesAlone
<1> QED
  BY <1>1, <1>2

LEMMA SpellsWhatMoves ==
  ASSUME Typed, NEW q \in Call, Fits(q), MoveKnows(q), q.pc = "list", NEW p \in Call,
         p.from = KeyOf(q.old), p.to = KeyOf(q.doc), NEW i \in Moved(q)
  PROVE  NewKey(p, Was(q)[i]) = KeyAt[i]
<1>1. CASE q.id \in Directories
  <2>1. PICK d, e : d = q.old /\ e = q.doc /\ Placed(q.id, d) /\ Placed(q.id, e)
    BY DEF Fits
  <2>2. ~Stays(d.parent) /\ ~Stays(e.parent)
    BY <1>1, <2>1, MirrorAssumption DEF Placed, Stays, MirrorAssumption
  <2>3. p.from = <<first, d.name>> /\ p.to = <<first, e.name>>
    BY <2>1, <2>2, KeyForm DEF Typed
  <2>4. i \in FilesKept
    BY DEF Moved
  <2>5. Was(q)[i] = <<first, d.name, entry[i].name>> /\ KeyAt[i] = <<first, e.name, entry[i].name>>
    <3>1. e = entry[q.id]
      BY <2>1 DEF MoveKnows
    <3>2. Was(q)[i] = <<first, q.old.name, entry[i].name>> /\ KeyAt[i] = <<first, entry[q.id].name, entry[i].name>>
      BY <1>1, <2>4, FolderHolds
    <3> QED
      BY <2>1, <3>1, <3>2
  <2> QED
    BY <2>3, <2>5, NewKeyInFolder
<1>2. CASE q.id \notin Directories
  <2>1. q.id \in Entries \ Directories
    BY <1>2 DEF Fits
  <2>2. i = q.id /\ Was(q)[i] = p.from /\ KeyAt[i] = p.to
    BY <2>1, FileMovesAlone
  <2>3. PICK s, t : s = p.from /\ t = p.to /\ s \in Keys /\ t \in Keys
    BY DEF Call
  <2> QED
    BY <2>2, <2>3, AfterTheEnd DEF NewKey, Keys
<1> QED
  BY <1>1, <1>2

\* What the listing found stays what is moved while the call goes on.
LEMMA SameMove ==
  ASSUME NEW q, NEW p, p.id = q.id, p.old = q.old
  PROVE  Was(p) = Was(q) /\ Moved(p) = Moved(q)
BY DEF Was, Moved, OldKey

LEMMA WasWhereItIs ==
  ASSUME NEW q, NEW i \in FilesKept, i \notin Moved(q)
  PROVE  Was(q)[i] = KeyAt[i]
BY DEF Was, Moved, FilesKept

LEMMA IdleMatches ==
  ASSUME UNCHANGED <<entry, first, bucket>>, Mirrored(FilesKept)
  PROVE  MatchKnows(NoCall)' /\ Mirrored(FilesKept)'
BY KeysStay, NoCallFields DEF Mirrored, MatchKnows, Renaming

LEMMA ListMatches ==
  ASSUME Typed, NEW c \in Callers, ListObjects(c), NEW q \in Call, q = call[c], MatchKnows(q), Fits(q),
         NEW p \in Call, p = call'[c], \A r : Proceeds(c, r) => call'[c] = r
  PROVE  MatchKnows(p)' /\ (p.pc = "idle" => Mirrored(FilesKept)')
<1>1. MoveKnows(q) /\ q.pc = "list" /\ UNCHANGED <<entry, first, bucket>>
  BY DEF ListObjects, MatchKnows, Renaming
<1>2. PICK f, t : f = KeyOf(q.old) /\ t = KeyOf(q.doc)
  OBVIOUS
<1>3. PICK s : s = IF q.id \in Directories THEN {k \in DOMAIN bucket : Inside(k, f)} ELSE {f}
  OBVIOUS
<1>4. PICK W, M : W = Was(q) /\ M = Moved(q)
  OBVIOUS
<1>5. s = {W[i] : i \in M}
  BY <1>1, <1>2, <1>3, <1>4, ListsWhatMoves
<1>6. p = IF s = {} THEN NoCall ELSE [[q EXCEPT !.pc = "copy"] EXCEPT !.from = f, !.to = t, !.todo = s]
  BY <1>2, <1>3 DEF ListObjects, To
<1>7. /\ \A i \in FilesKept \ M : W[i] = KeyAt[i]
      /\ M \subseteq FilesKept
      /\ \A i, j \in FilesKept : W[i] = W[j] => i = j
      /\ DOMAIN bucket = {W[i] : i \in FilesKept} \cup {RootKeep(first)}
      /\ \A i \in FilesKept : bucket[W[i]] = entry[i].content
  BY <1>1, <1>4, WasWhereItIs DEF MoveKnows, Moved
<1>8. CASE s = {}
  <2>1. M = {}
    BY <1>5, <1>8
  <2>2. Mirrored(FilesKept)
    BY <1>7, <2>1 DEF Mirrored
  <2> QED
    BY <1>1, <1>6, <1>8, <2>2, IdleMatches
<1>9. CASE s # {}
  <2>1. p.id = q.id /\ p.old = q.old /\ p.doc = q.doc /\ p.pc = "copy" /\ p.from = f /\ p.to = t /\ p.todo = s
    BY <1>6, <1>9 DEF Call
  <2>2. Was(p) = W /\ Moved(p) = M
    BY <1>4, <2>1, SameMove
  <2>3. \A i \in M : NewKey(p, W[i]) = KeyAt[i]
    BY <1>1, <1>2, <1>4, <2>1, SpellsWhatMoves
  <2>4. \A i \in FilesKept : W[i] = IF W[i] \in s THEN W[i] ELSE KeyAt[i]
    BY <1>5, <1>7
  <2>5. /\ DOMAIN bucket = {IF W[i] \in s THEN W[i] ELSE KeyAt[i] : i \in FilesKept} \cup {RootKeep(first)}
        /\ \A i \in FilesKept : bucket[IF W[i] \in s THEN W[i] ELSE KeyAt[i]] = entry[i].content
    BY <1>7, <2>4
  <2>6. MoveKnows(p)
    BY <1>1, <1>4, <1>5, <2>1, <2>2, <2>3, <2>5 DEF MoveKnows
  <2>7. MatchKnows(p)
    BY <2>1, <2>6 DEF MatchKnows, Renaming
  <2> QED
    BY <1>1, <2>1, <2>7, MatchStays
<1> QED
  BY <1>8, <1>9

\* The places of a move while nobody touches the tree.
LEMMA PlacesStay ==
  ASSUME UNCHANGED <<entry, first>>, NEW q
  PROVE  /\ KeyAt' = KeyAt /\ FilesKept' = FilesKept /\ Was(q)' = Was(q) /\ Moved(q)' = Moved(q)
         /\ \A k : NewKey(q, k)' = NewKey(q, k)
         /\ \A j : Stays(j)' <=> Stays(j)
<1>1. KeyAt' = KeyAt /\ FilesKept' = FilesKept
  BY KeysStay
<1>2. Was(q)' = Was(q) /\ Moved(q)' = Moved(q)
  BY <1>1 DEF Was, Moved, OldKey, Stays
<1>3. \A k : NewKey(q, k)' = NewKey(q, k)
  BY DEF NewKey
<1>4. \A j : Stays(j)' <=> Stays(j)
  BY DEF Stays
<1> QED
  BY <1>1, <1>2, <1>3, <1>4

\* A copy: the object of one file is under its new key and its old one.
LEMMA CopyMatches ==
  ASSUME Typed, KeysApart, mishaps' = {}, NEW c \in Callers, NEW ok \in BOOLEAN, NEW k \in call[c].todo,
         CopyObject(c, k, ok), NEW q \in Call, q = call[c], MatchKnows(q), Fits(q),
         NEW p \in Call, p = call'[c], \A r : Proceeds(c, r) => call'[c] = r
  PROVE  MatchKnows(p)' /\ p.pc # "idle"
<1>1. MoveKnows(q) /\ q.pc = "copy" /\ UNCHANGED <<entry, first>> /\ ok /\ k \in q.todo
  BY DEF CopyObject, MatchKnows, Renaming, Mishap
<1>2. PICK W, M, T : W = Was(q) /\ M = Moved(q) /\ T = q.todo
  OBVIOUS
<1>3. /\ M \subseteq FilesKept
      /\ \A i, j \in FilesKept : W[i] = W[j] => i = j
      /\ \A i \in M, j \in FilesKept : W[i] # KeyAt[j]
      /\ T \subseteq {W[i] : i \in M}
      /\ \A i \in M : NewKey(q, W[i]) = KeyAt[i]
      /\ DOMAIN bucket = {IF W[i] \in T THEN W[i] ELSE KeyAt[i] : i \in FilesKept} \cup {RootKeep(first)}
      /\ \A i \in FilesKept : bucket[IF W[i] \in T THEN W[i] ELSE KeyAt[i]] = entry[i].content
  BY <1>1, <1>2 DEF MoveKnows, Moved
<1>4. PICK m \in M : W[m] = k
  BY <1>1, <1>2, <1>3
<1>5. PICK n, v : n = KeyAt[m] /\ v = bucket[k]
  OBVIOUS
<1>6. k \in DOMAIN bucket /\ NewKey(q, k) = n /\ v = entry[m].content /\ m \in FilesKept
  BY <1>1, <1>2, <1>3, <1>4, <1>5
<1>7. PICK r : r = [q EXCEPT !.todo = q.todo \ {k}, !.pc = IF q.todo \ {k} = {} THEN "idle" ELSE "copy"]
  OBVIOUS
<1>8. r = Left(c, q.todo \ {k}, "copy", "idle")
  BY <1>7 DEF Left
<1>9. bucket' = With(n, v) /\ p = [[r EXCEPT !.now = k] EXCEPT !.pc = "purge"]
  BY <1>1, <1>5, <1>6, <1>8 DEF CopyObject
<1>10. /\ p.pc = "purge" /\ p.now = k /\ p.from = q.from /\ p.to = q.to /\ p.todo = T \ {k}
       /\ p.id = q.id /\ p.old = q.old /\ p.doc = q.doc
  BY <1>2, <1>7, <1>9 DEF Call
<1>11. DOMAIN bucket' = DOMAIN bucket \cup {n} /\ bucket'[n] = v
       /\ \A l \in DOMAIN bucket \ {n} : bucket'[l] = bucket[l]
  BY <1>9 DEF With, Overwrite
<1>12. PICK U, F, K : U = T \ {k} /\ F = FilesKept /\ K = KeyAt
  OBVIOUS
<1>13. /\ W[m] \in T /\ W[m] \notin U /\ m \in F
       /\ \A i \in F \ {m} : (W[i] \in U <=> W[i] \in T) /\ K[i] # n
       /\ \A i \in F : W[i] \in T => W[i] # n
  <2>1. \A i \in F : W[i] \in T => i \in M
    BY <1>3, <1>12
  <2> QED
    BY <1>1, <1>2, <1>3, <1>4, <1>5, <1>6, <1>12, <2>1 DEF KeysApart
<1>14. DOMAIN bucket' = {IF W[i] \in U THEN W[i] ELSE K[i] : i \in F} \cup {RootKeep(first)} \cup {k}
  <2>1. DOMAIN bucket = {IF W[i] \in T THEN W[i] ELSE K[i] : i \in F} \cup {RootKeep(first)}
    BY <1>3, <1>12
  <2> QED
    BY <1>4, <1>5, <1>11, <1>12, <1>13, <2>1
<1>15. ASSUME NEW i \in F
       PROVE  bucket'[IF W[i] \in U THEN W[i] ELSE K[i]] = entry[i].content
  <2>1. CASE i = m
    BY <1>5, <1>6, <1>11, <1>12, <1>13, <2>1
  <2>2. CASE i # m
    <3>1. PICK x : x = IF W[i] \in T THEN W[i] ELSE K[i]
      OBVIOUS
    <3>2. x \in DOMAIN bucket /\ bucket[x] = entry[i].content /\ x # n
      BY <1>3, <1>12, <1>13, <2>2, <3>1
    <3> QED
      BY <1>11, <1>13, <2>2, <3>1, <3>2
  <2> QED
    BY <2>1, <2>2
<1>16. Was(p) = W /\ Moved(p) = M /\ \A l : NewKey(p, l) = NewKey(q, l)
  BY <1>2, <1>10, SameMove DEF NewKey
<1>17. /\ KeyAt' = K /\ FilesKept' = F /\ Was(p)' = W /\ Moved(p)' = M
       /\ \A l : NewKey(p, l)' = NewKey(q, l)
       /\ \A j : Stays(j)' <=> Stays(j)
  BY <1>1, <1>12, <1>16, PlacesStay
<1>18. MoveKnows(p)'
  <2>1. p.todo \subseteq {W[i] : i \in M} /\ p.now \in {W[i] : i \in M} \ p.todo /\ p.todo = U
    BY <1>3, <1>4, <1>10, <1>12
  <2> QED
    BY <1>1, <1>2, <1>3, <1>10, <1>12, <1>14, <1>15, <1>17, <2>1 DEF MoveKnows, RootKeep
<1> QED
  BY <1>10, <1>18 DEF MatchKnows, Renaming

\* A purge that hits nothing else: the object is under its new key only.
LEMMA PurgeMatches ==
  ASSUME Typed, mishaps' = {}, NEW c \in Callers, NEW ok \in BOOLEAN, PurgeObject(c, ok),
         NEW q \in Call, q = call[c], MatchKnows(q), Fits(q),
         NEW p \in Call, p = call'[c], \A r : Proceeds(c, r) => call'[c] = r
  PROVE  MatchKnows(p)' /\ (p.pc = "idle" => Mirrored(FilesKept)')
<1>1. MoveKnows(q) /\ q.pc = "purge" /\ UNCHANGED <<entry, first>> /\ ok
  BY DEF PurgeObject, MatchKnows, Renaming, Mishap
<1>2. PICK W, M, T, F, K, w : /\ W = Was(q) /\ M = Moved(q) /\ T = q.todo /\ F = FilesKept /\ K = KeyAt
                              /\ w = q.now
  OBVIOUS
<1>3. /\ M \subseteq F
      /\ \A i \in F : W[i] # RootKeep(first)
      /\ \A i \in M, j \in F : W[i] # K[j]
      /\ T \subseteq {W[i] : i \in M} /\ w \in {W[i] : i \in M} \ T
      /\ DOMAIN bucket = {IF W[i] \in T THEN W[i] ELSE K[i] : i \in F} \cup {RootKeep(first)} \cup {w}
      /\ \A i \in F : bucket[IF W[i] \in T THEN W[i] ELSE K[i]] = entry[i].content
  BY <1>1, <1>2 DEF MoveKnows, Moved
<1>4. PICK G : G = {k \in DOMAIN bucket : BeginsWith(k, w)}
  OBVIOUS
<1>5. bucket' = Without(G) /\ G \ {w} = {} /\ p = IF T = {} THEN NoCall ELSE [q EXCEPT !.pc = "copy"]
  BY <1>1, <1>2, <1>4 DEF PurgeObject, To, Mishap
<1>6. w \in G
  <2>1. w \in Keys
    BY <1>2 DEF Call
  <2>2. BeginsWith(w, w)
    BY <2>1 DEF BeginsWith, Keys
  <2> QED
    BY <1>3, <1>4, <2>2
<1>7. DOMAIN bucket' = DOMAIN bucket \ {w} /\ \A l \in DOMAIN bucket \ {w} : bucket'[l] = bucket[l]
  <2>1. G = {w}
    BY <1>5, <1>6
  <2>2. bucket' = Without({w})
    BY <1>5, <2>1
  <2> QED
    BY <2>2, WithoutFields
<1>8. \A i \in F : w # IF W[i] \in T THEN W[i] ELSE K[i]
  BY <1>3
<1>9. /\ DOMAIN bucket' = {IF W[i] \in T THEN W[i] ELSE K[i] : i \in F} \cup {RootKeep(first)}
      /\ \A i \in F : bucket'[IF W[i] \in T THEN W[i] ELSE K[i]] = entry[i].content
  <2>1. w # RootKeep(first)
    BY <1>3
  <2> QED
    BY <1>3, <1>7, <1>8, <2>1
<1>10. KeyAt' = K /\ FilesKept' = F
  BY <1>1, <1>2, KeysStay
<1>11. CASE T = {}
  <2>1. DOMAIN bucket' = {K[i] : i \in F} \cup {RootKeep(first)} /\ \A i \in F : bucket'[K[i]] = entry[i].content
    BY <1>9, <1>11
  <2>2. Mirrored(FilesKept)'
    BY <1>1, <1>10, <2>1 DEF Mirrored, RootKeep
  <2> QED
    BY <1>5, <1>11, <2>2, NoCallFields DEF MatchKnows, Renaming
<1>12. CASE T # {}
  <2>1. /\ p.pc = "copy" /\ p.from = q.from /\ p.to = q.to /\ p.todo = T
        /\ p.id = q.id /\ p.old = q.old /\ p.doc = q.doc
    BY <1>2, <1>5, <1>12 DEF Call
  <2>2. Was(p) = W /\ Moved(p) = M /\ \A l : NewKey(p, l) = NewKey(q, l)
    BY <1>2, <2>1, SameMove DEF NewKey
  <2>3. /\ Was(p)' = W /\ Moved(p)' = M
        /\ \A l : NewKey(p, l)' = NewKey(q, l)
        /\ \A j : Stays(j)' <=> Stays(j)
    BY <1>1, <2>2, PlacesStay
  <2>4. MoveKnows(p)'
    BY <1>1, <1>2, <1>3, <1>9, <1>10, <2>1, <2>3 DEF MoveKnows, RootKeep
  <2> QED
    BY <2>1, <2>4 DEF MatchKnows, Renaming
<1> QED
  BY <1>11, <1>12

\* The objects of a target are those of the file it is, or of the files in it.
LEMMA ErasesItsOwn ==
  ASSUME Typed, KeysApart, NEW i \in Entries, Stays(i)
  PROVE  /\ \A j \in FilesKept : KeyAt[j] \in DOMAIN bucket =>
              (KeyAt[j] \in Erased(entry[i], i \in Directories) <=> i \in {j, entry[j].parent})
         /\ RootKeep(first) \notin Erased(entry[i], i \in Directories)
<1>0. FilesKept \subseteq Entries \ Directories
  BY DEF FilesKept
<1>1. PICK d : d = entry[i] /\ Placed(i, d)
  BY DEF Typed, FlatTree
<1>2. CASE i \in Directories
  <2>1. ~Stays(d.parent)
    BY <1>1, <1>2, MirrorAssumption DEF Placed, Stays, MirrorAssumption
  <2>2. PICK f, x : f = first /\ x = d.name
    OBVIOUS
  <2>3. KeyOf(d) = <<f, x>>
    BY <1>1, <2>1, <2>2, KeyForm DEF Typed
  <2>4. \A a, b, c : (Inside(<<a, b, c>>, <<f, x>>) <=> a = f /\ b = x) /\ ~Inside(<<a, b>>, <<f, x>>)
    BY InsideFolder
  <2>5. Erased(entry[i], i \in Directories) = {k \in DOMAIN bucket : Inside(k, <<f, x>>)}
    BY <1>1, <1>2, <2>3 DEF Erased
  <2>6. ASSUME NEW j \in FilesKept
        PROVE  Inside(KeyAt[j], <<f, x>>) <=> i \in {j, entry[j].parent}
    <3>1. PICK e : e = entry[j] /\ Placed(j, e) /\ j \in Entries /\ j # i
      BY <1>0, <1>2 DEF Typed, FlatTree
    <3>2. KeyAt[j] = IF Stays(e.parent) THEN <<f, entry[e.parent].name, e.name>> ELSE <<f, e.name>>
      BY <2>2, <3>1 DEF KeyAt
    <3>3. CASE Stays(e.parent)
      <4>1. e.parent \in Directories
        BY <3>1, <3>3, MirrorAssumption DEF Placed, Stays, MirrorAssumption
      <4>2. entry[e.parent].name = x <=> e.parent = i
        BY <1>1, <1>2, <2>2, <3>3, <4>1 DEF KeysApart
      <4> QED
        BY <2>4, <3>1, <3>2, <3>3, <4>2
    <3>4. CASE ~Stays(e.parent)
      BY <2>4, <3>1, <3>2, <3>4
    <3> QED
      BY <3>3, <3>4
  <2>7. ~Inside(RootKeep(first), <<f, x>>)
    BY <2>4 DEF RootKeep
  <2> QED
    BY <2>5, <2>6, <2>7
<1>3. CASE i \notin Directories
  <2>1. Erased(entry[i], i \in Directories) = {KeyAt[i]}
    BY <1>3, KeyAtIsKey DEF Erased
  <2>2. i \in FilesKept
    BY <1>3 DEF FilesKept
  <2>3. \A j \in Entries : entry[j].parent # i
    BY <1>3, MirrorAssumption DEF Typed, FlatTree, Placed, MirrorAssumption
  <2> QED
    BY <1>0, <2>1, <2>2, <2>3 DEF KeysApart
<1> QED
  BY <1>2, <1>3

LEMMA EraseMatches ==
  ASSUME Typed, KeysApart, mishaps' = {}, NEW c \in Callers, NEW i \in call[c].todo, NEW ok \in BOOLEAN,
         EraseObjects(c, i, ok), NEW q \in Call, q = call[c], MatchKnows(q), Fits(q),
         NEW p \in Call, p = call'[c], \A r : Proceeds(c, r) => call'[c] = r
  PROVE  MatchKnows(p)' /\ p.pc # "idle"
<1>1. EraseKnows(q) /\ q.pc = "erase" /\ UNCHANGED <<entry, first>> /\ ok /\ i \in q.todo
  BY DEF EraseObjects, MatchKnows, Mishap
<1>2. q.seen = entry /\ q.todo \subseteq Targets(q) /\ (q.kind = "delete" => Stays(q.id))
      /\ Mirrored(FilesKept \ Emptied(q)) /\ q.todo \subseteq Entries
  BY <1>1 DEF EraseKnows, Fits
<1>3. i \in Entries /\ Stays(i) /\ i \in Targets(q)
  BY <1>1, <1>2 DEF Targets, Stays
<1>4. PICK G : G = Erased(entry[i], i \in Directories)
  OBVIOUS
<1>5. bucket' = Without(G)
  BY <1>1, <1>2, <1>4 DEF EraseObjects
<1>6. p = [q EXCEPT !.todo = q.todo \ {i}, !.pc = IF q.todo \ {i} = {} THEN "forget" ELSE "erase"]
  BY DEF EraseObjects, Left
<1>7. /\ p.pc \in {"forget", "erase"} /\ p.seen = q.seen /\ p.todo = q.todo \ {i}
      /\ p.kind = q.kind /\ p.id = q.id
      /\ p.pc = "forget" => p.todo = {}
  BY <1>6 DEF Call
<1>8. DOMAIN bucket' = DOMAIN bucket \ G /\ \A l \in DOMAIN bucket \ G : bucket'[l] = bucket[l]
  BY <1>5, WithoutFields
<1>9. PICK R, S, K : R = FilesKept \ Emptied(q) /\ S = FilesKept \ Emptied(p) /\ K = KeyAt
  OBVIOUS
<1>10. DOMAIN bucket = {K[j] : j \in R} \cup {RootKeep(first)} /\ \A j \in R : bucket[K[j]] = entry[j].content
  BY <1>2, <1>9 DEF Mirrored
<1>11. S = {j \in R : i \notin {j, entry[j].parent}}
  <2>1. Targets(p) = Targets(q)
    BY <1>7 DEF Targets
  <2>2. Targets(p) \ p.todo = (Targets(q) \ q.todo) \cup {i}
    BY <1>1, <1>2, <1>7, <2>1
  <2>3. \A j \in FilesKept : j \in Emptied(p) <=> j \in Emptied(q) \/ i \in {j, entry[j].parent}
    BY <2>2 DEF Emptied
  <2> QED
    BY <1>9, <2>3
<1>12. RootKeep(first) \notin G /\ \A j \in R : K[j] \in G <=> i \in {j, entry[j].parent}
  <2>1. R \subseteq FilesKept
    BY <1>9
  <2> QED
    BY <1>3, <1>4, <1>9, <1>10, <2>1, ErasesItsOwn
<1>13. DOMAIN bucket' = {K[j] : j \in S} \cup {RootKeep(first)} /\ \A j \in S : bucket'[K[j]] = entry[j].content
  BY <1>8, <1>10, <1>11, <1>12
<1>14. KeyAt' = K /\ FilesKept' = FilesKept
  BY <1>1, <1>9, KeysStay
<1>15. Targets(p)' = Targets(q) /\ Emptied(p)' = Emptied(p) /\ (Stays(q.id)' <=> Stays(q.id))
  BY <1>1, <1>7, <1>14 DEF Targets, Emptied, Stays
<1>16. Mirrored(FilesKept \ Emptied(p))'
  BY <1>1, <1>9, <1>13, <1>14, <1>15 DEF Mirrored, RootKeep
<1>17. EraseKnows(p)'
  BY <1>1, <1>2, <1>7, <1>15, <1>16 DEF EraseKnows
<1> QED
  BY <1>7, <1>17 DEF MatchKnows, Renaming

\* The documents go: those whose objects have gone, and no other.
LEMMA ForgetMatches ==
  ASSUME Typed, Typed', ~BinMixed, NEW c \in Callers, ForgetEntries(c),
         NEW q \in Call, q = call[c], MatchKnows(q), Fits(q),
         NEW p \in Call, p = call'[c], \A r : Proceeds(c, r) => call'[c] = r
  PROVE  MatchKnows(p)' /\ (p.pc = "idle" => Mirrored(FilesKept)')
<1>1. EraseKnows(q) /\ q.pc = "forget" /\ UNCHANGED <<first, bucket>> /\ p = NoCall
  BY DEF ForgetEntries, MatchKnows
<1>2. PICK G : G = IF q.kind = "delete" THEN WithBelow(q.id) ELSE {i \in Entries : entry[i].state = "bin"}
  OBVIOUS
<1>3. Mark(G, "gone") /\ (q.kind = "delete" => Stays(q.id)) /\ Mirrored(FilesKept \ Emptied(q)) /\ q.todo = {}
  BY <1>1, <1>2 DEF ForgetEntries, EraseKnows
<1>4. Emptied(q) = {j \in FilesKept : {j, entry[j].parent} \cap Targets(q) # {}}
  BY <1>3 DEF Emptied
<1>5. \A j \in G : Stays(j) /\ j \in Entries
  BY <1>2, <1>3 DEF WithBelow, Stays
<1>6. /\ \A j \in Entries : entry'[j].content = entry[j].content
      /\ FilesKept' = FilesKept \ G
      /\ \A j \in Entries : entry[j].parent \notin G => KeyAt'[j] = KeyAt[j]
  BY <1>1, <1>3, <1>5, KeysWhenMarked
<1>7. \A j \in FilesKept : j \in Entries /\ Placed(j, entry[j]) /\ Stays(j)
  BY DEF FilesKept, Typed, FlatTree
<1>8. FilesKept \ G = FilesKept \ Emptied(q)
  <2>1. CASE q.kind = "delete"
    BY <1>2, <1>4, <1>7, <2>1 DEF WithBelow, Targets
  <2>2. CASE q.kind # "delete"
    <3>1. G = Targets(q)
      BY <1>2, <2>2 DEF Targets
    <3>2. ASSUME NEW j \in FilesKept, entry[j].parent \in G
          PROVE  j \in G
      <4>1. entry[j].parent # Top /\ entry[entry[j].parent].state = "bin"
        BY <1>2, <2>2, <3>2, MirrorAssumption DEF MirrorAssumption
      <4>2. entry[j].state # "live"
        BY <3>2, <4>1 DEF BinMixed
      <4>3. entry[j].state = "bin" /\ j \in Entries
        BY <1>7, <4>2 DEF Stays
      <4> QED
        BY <1>2, <2>2, <4>3
    <3> QED
      BY <1>4, <3>1, <3>2
  <2> QED
    BY <2>1, <2>2
<1>9. \A j \in FilesKept \ Emptied(q) : entry[j].parent \notin G
  <2>1. CASE q.kind = "delete"
    <3>1. ASSUME NEW j \in FilesKept \ Emptied(q), entry[j].parent \in G
          PROVE  FALSE
      <4>1. entry[j].parent # q.id
        BY <1>4, <2>1, <3>1 DEF Targets
      <4>2. PICK g : g = entry[j].parent /\ g \in Entries /\ entry[g].parent = q.id
        BY <1>2, <2>1, <3>1, <4>1 DEF WithBelow
      <4>3. g \in Directories
        BY <1>7, <3>1, <4>2, MirrorAssumption DEF Placed, MirrorAssumption
      <4>4. entry[g].parent = Top
        BY <4>2, <4>3 DEF Typed, FlatTree, Placed
      <4> QED
        BY <1>3, <2>1, <4>2, <4>4, MirrorAssumption DEF Stays, MirrorAssumption
    <3> QED
      BY <3>1
  <2>2. CASE q.kind # "delete"
    BY <1>2, <1>4, <2>2 DEF Targets
  <2> QED
    BY <2>1, <2>2
<1>10. PICK R : R = FilesKept \ Emptied(q) /\ R \subseteq Entries /\ R = FilesKept'
  BY <1>6, <1>7, <1>8
<1>11. /\ DOMAIN bucket = {KeyAt[j] : j \in R} \cup {RootKeep(first)}
       /\ \A j \in R : bucket[KeyAt[j]] = entry[j].content
  BY <1>3, <1>10 DEF Mirrored
<1>12. \A j \in R : KeyAt'[j] = KeyAt[j] /\ entry'[j].content = entry[j].content
  BY <1>6, <1>9, <1>10
<1>13. Mirrored(FilesKept)'
  BY <1>1, <1>10, <1>11, <1>12 DEF Mirrored, RootKeep
<1> QED
  BY <1>1, <1>13, NoCallFields DEF MatchKnows, Renaming

\* The steps that touch neither tree nor objects.
LEMMA CheckMatches ==
  ASSUME Typed, mishaps' = {}, NEW c \in Callers, NEW ok \in BOOLEAN, CheckRoot(c, ok),
         NEW q \in Call, q = call[c], MatchKnows(q), Fits(q),
         NEW p \in Call, p = call'[c], \A r : Proceeds(c, r) => call'[c] = r
  PROVE  MatchKnows(p)' /\ (p.pc = "idle" => Mirrored(FilesKept)')
<1>1. q.pc = "check" /\ q.to = RootKeep(first) /\ Mirrored(FilesKept) /\ UNCHANGED <<entry, first, bucket>>
  BY DEF CheckRoot, MatchKnows
<1>2. q.to \in DOMAIN bucket
  BY <1>1 DEF Mirrored
<1>3. ok
  BY <1>2 DEF CheckRoot, Mishap
<1>4. p = NoCall
  BY <1>2, <1>3 DEF CheckRoot
<1> QED
  BY <1>1, <1>4, IdleMatches

LEMMA FetchMatches ==
  ASSUME Typed, NEW c \in Callers, NEW i \in call[c].todo, NEW ok \in BOOLEAN, FetchFile(c, i, ok),
         NEW q \in Call, q = call[c], MatchKnows(q), Fits(q),
         NEW p \in Call, p = call'[c], \A r : Proceeds(c, r) => call'[c] = r
  PROVE  MatchKnows(p)' /\ (p.pc = "idle" => Mirrored(FilesKept)')
<1>1. q.pc = "fetch" /\ Mirrored(FilesKept) /\ UNCHANGED <<entry, first, bucket>>
  BY DEF FetchFile, MatchKnows
<1>2. p = [q EXCEPT !.todo = q.todo \ {i}, !.pc = IF q.todo \ {i} = {} THEN "idle" ELSE "fetch"]
  BY DEF FetchFile, Left
<1>3. p.pc \in {"idle", "fetch"}
  BY <1>2 DEF Call
<1>4. Mirrored(FilesKept)'
  BY <1>1, IdleMatches
<1> QED
  BY <1>3, <1>4 DEF MatchKnows, Renaming

LEMMA EndSyncMatches ==
  ASSUME Typed, NEW c \in Callers, EndSync(c),
         NEW q \in Call, q = call[c], MatchKnows(q), Fits(q),
         NEW p \in Call, p = call'[c], \A r : Proceeds(c, r) => call'[c] = r
  PROVE  MatchKnows(p)' /\ (p.pc = "idle" => Mirrored(FilesKept)')
<1>1. q.pc = "insert" /\ Mirrored(FilesKept) /\ UNCHANGED <<entry, first, bucket>> /\ p = NoCall
  BY DEF EndSync, MatchKnows
<1> QED
  BY <1>1, IdleMatches

LEMMA MatchStep ==
  ASSUME Typed, Typed', MatchInv, Alone, NEW c \in Callers, CallStep(c), [MirrorNext]_mirrorVars,
         mishaps' = {}
  PROVE  MatchInv'
<1>1. /\ \A d \in Callers \ {c} : Free(d)'
      /\ call[c] \in Call /\ \A q \in Call : q = call[c] => MatchKnows(q) /\ Fits(q)
      /\ \A r : Proceeds(c, r) => call'[c] = r
  BY MatchSteps
<1>2. KeysApart /\ ~BinMixed /\ KeysApart' /\ ~BinMixed' /\ strays' = {}
  BY TreeApart
<1>3. PICK q \in Call : q = call[c] /\ MatchKnows(q) /\ Fits(q)
  BY <1>1
<1>4. PICK p \in Call : p = call'[c]
  BY DEF Typed
<1>5. \A ok \in BOOLEAN : ~PutRoot(c, ok)
  BY <1>3 DEF PutRoot, MatchKnows
<1>6. \A i \in call[c].todo, ok \in BOOLEAN : ~PutPlaceholder(c, i, ok)
  BY <1>3 DEF PutPlaceholder, MatchKnows
<1>7. \A n \in call[c].todo, i \in Entries : ~InsertFromDisk(c, n, i)
  BY DEF InsertFromDisk
<1>8. MatchKnows(p)' /\ (p.pc = "idle" => Mirrored(FilesKept)')
  <2>1. CASE ResolvePath(c)
    BY <1>1, <1>3, <1>4, <2>1, ResolveMatches
  <2>2. ASSUME NEW ok \in BOOLEAN, PutObject(c, ok)
        PROVE  MatchKnows(p)' /\ (p.pc = "idle" => Mirrored(FilesKept)')
    BY <1>1, <1>2, <1>3, <1>4, <2>2, PutMatches
  <2>3. CASE SaveEntry(c)
    BY <1>1, <1>3, <1>4, <2>3, SaveMatches
  <2>4. CASE ListObjects(c)
    BY <1>1, <1>3, <1>4, <2>4, ListMatches
  <2>5. ASSUME NEW k \in call[c].todo, NEW ok \in BOOLEAN, CopyObject(c, k, ok)
        PROVE  MatchKnows(p)' /\ (p.pc = "idle" => Mirrored(FilesKept)')
    BY <1>1, <1>2, <1>3, <1>4, <2>5, CopyMatches
  <2>6. ASSUME NEW ok \in BOOLEAN, PurgeObject(c, ok)
        PROVE  MatchKnows(p)' /\ (p.pc = "idle" => Mirrored(FilesKept)')
    BY <1>1, <1>3, <1>4, <2>6, PurgeMatches
  <2>7. ASSUME NEW i \in call[c].todo, NEW ok \in BOOLEAN, EraseObjects(c, i, ok)
        PROVE  MatchKnows(p)' /\ (p.pc = "idle" => Mirrored(FilesKept)')
    BY <1>1, <1>2, <1>3, <1>4, <2>7, EraseMatches
  <2>8. CASE ForgetEntries(c)
    BY <1>1, <1>2, <1>3, <1>4, <2>8, ForgetMatches
  <2>9. ASSUME NEW ok \in BOOLEAN, CheckRoot(c, ok)
        PROVE  MatchKnows(p)' /\ (p.pc = "idle" => Mirrored(FilesKept)')
    BY <1>1, <1>3, <1>4, <2>9, CheckMatches
  <2>10. ASSUME NEW i \in call[c].todo, NEW ok \in BOOLEAN, FetchFile(c, i, ok)
         PROVE  MatchKnows(p)' /\ (p.pc = "idle" => Mirrored(FilesKept)')
    BY <1>1, <1>3, <1>4, <2>10, FetchMatches
  <2>11. CASE EndSync(c)
    BY <1>1, <1>3, <1>4, <2>11, EndSyncMatches
  <2> QED
    BY <1>5, <1>6, <1>7, <2>1, <2>2, <2>3, <2>4, <2>5, <2>6, <2>7, <2>8, <2>9, <2>10, <2>11
       DEF CallStep
<1> QED
  BY <1>1, <1>2, <1>4, <1>8, MatchAfter

-------------------------------------------------------------------------------
(* Every step *)

\* Binning an item moves no object.
LEMMA BinMatches ==
  ASSUME Typed, NEW i \in Entries, SetBinned(i, "bin"), Mirrored(FilesKept), UNCHANGED first
  PROVE  Mirrored(FilesKept)'
<1>1. PICK S : S = WithBelow(i)
  OBVIOUS
<1>2. Mark(S, "bin") /\ UNCHANGED bucket /\ \A j \in S : Stays(j)
  BY <1>1 DEF SetBinned, WithBelow
<1>3. /\ \A j \in Entries : entry'[j].content = entry[j].content /\ KeyAt'[j] = KeyAt[j]
      /\ FilesKept' = FilesKept
  BY <1>2, KeysWhenMarked
<1>4. FilesKept \subseteq Entries
  BY DEF FilesKept
<1>5. PICK F : F = FilesKept /\ F \subseteq Entries
  BY <1>4
<1>6. /\ DOMAIN bucket = {KeyAt[j] : j \in F} \cup {RootKeep(first)}
      /\ \A j \in F : bucket[KeyAt[j]] = entry[j].content
  BY <1>5 DEF Mirrored
<1>7. \A j \in F : entry'[j].content = entry[j].content /\ KeyAt'[j] = KeyAt[j]
  BY <1>3, <1>5
<1> QED
  BY <1>2, <1>3, <1>5, <1>6, <1>7 DEF Mirrored, RootKeep

\* What no call does leaves tree and objects alone, or bins something while
\* everybody is at rest.
LEMMA MatchRest ==
  ASSUME Typed, Typed', MatchInv, Alone, [MirrorNext]_mirrorVars, mishaps' = {},
         \A c \in Callers : ~BeginCall(c) /\ ~CallStep(c)
  PROVE  MatchInv'
<1>1. /\ mishaps = {} /\ UNCHANGED first /\ KeysApart' /\ ~BinMixed' /\ strays = {} /\ strays' = {}
  BY TreeApart
<1>2. CASE RestartServer
  <2>1. ~Busy /\ UNCHANGED <<entry, first, bucket>> /\ \A c \in Callers : call'[c] = NoCall
    BY <1>2 DEF RestartServer, Mishap
  <2>2. Mirrored(FilesKept)
    BY <1>1, <2>1 DEF MatchInv
  <2>3. MatchKnows(NoCall)' /\ Mirrored(FilesKept)'
    BY <2>1, <2>2, IdleMatches
  <2>4. ASSUME NEW c \in Callers, NEW q \in Call, q = call'[c]
        PROVE  MatchKnows(q)'
    <3>1. q = NoCall
      BY <2>1, <2>4
    <3> QED
      BY <2>3, <3>1
  <2> QED
    BY <1>1, <2>3, <2>4 DEF MatchInv
<1>3. CASE \E i \in Entries, s \in {"live", "bin"} : SetBinned(i, s)
  <2>1. PICK i \in Entries : SetBinned(i, "bin") /\ ~Busy /\ UNCHANGED call
    BY <1>3 DEF SetBinned, TreeMishaps, Mishap
  <2>2. Mirrored(FilesKept)'
    BY <1>1, <2>1, BinMatches DEF MatchInv
  <2>3. ASSUME NEW c \in Callers, NEW q \in Call, q = call'[c]
        PROVE  MatchKnows(q)'
    <3>1. q.pc = "idle"
      BY <2>1, <2>3 DEF Busy, Free
    <3> QED
      BY <3>1 DEF MatchKnows, Renaming
  <2> QED
    BY <1>1, <2>2, <2>3 DEF MatchInv
<1>4. CASE ~RestartServer /\ ~\E i \in Entries, s \in {"live", "bin"} : SetBinned(i, s)
  <2>1. UNCHANGED <<entry, first, bucket, call>>
    BY <1>1, <1>4 DEF MirrorNext, PutStray, ChangeName, RunProgram, mirrorVars
  <2>2. Busy' <=> Busy
    BY <1>1, <2>1 DEF Busy, Free
  <2>3. ~Busy' => Mirrored(FilesKept)'
    <3>1. Mirrored(FilesKept) => Mirrored(FilesKept)'
      BY <2>1, IdleMatches
    <3> QED
      BY <1>1, <2>2, <3>1 DEF MatchInv
  <2>4. ASSUME NEW c \in Callers, NEW q \in Call, q = call'[c]
        PROVE  MatchKnows(q)'
    <3>1. MatchKnows(q)
      BY <1>1, <2>1, <2>4 DEF MatchInv
    <3> QED
      BY <2>1, <3>1, MatchStays
  <2> QED
    BY <1>1, <2>3, <2>4 DEF MatchInv
<1> QED
  BY <1>2, <1>3, <1>4

LEMMA MatchNext == Typed /\ Typed' /\ MatchInv /\ Alone /\ [MirrorNext]_mirrorVars => MatchInv'
<1> SUFFICES ASSUME Typed, Typed', MatchInv, Alone, [MirrorNext]_mirrorVars, mishaps' = {}
             PROVE  MatchInv'
  BY DEF MatchInv
<1>1. CASE \E c \in Callers : BeginCall(c)
  BY <1>1, MatchBegin
<1>2. CASE \E c \in Callers : CallStep(c)
  BY <1>2, MatchStep
<1>3. CASE \A c \in Callers : ~BeginCall(c) /\ ~CallStep(c)
  BY <1>3, MatchRest
<1> QED
  BY <1>1, <1>2, <1>3

\* Between requests the objects of the user are exactly those of the files of
\* his tree, each under the key its path spells and with what was uploaded for
\* it, unless a named mishap has parted them (the handlers of app/routes.py with
\* handle_b2_rename, handle_b2_move and handle_b2_delete).
THEOREM ObjectsFollowTheTree == MirrorSpec => []MirrorMatchesTree
<1>1. MirrorInit => Alone /\ MatchInv
  BY AloneInit, MatchInit
<1>2. Typed /\ Typed' /\ Alone /\ MatchInv /\ [MirrorNext]_mirrorVars => Alone' /\ MatchInv'
  BY AloneNext, MatchNext
<1>3. Typed /\ MatchInv => MirrorMatchesTree
  BY MatchInvIsMatch
<1> QED
  BY <1>1, <1>2, <1>3, AlwaysTyped, PTL DEF MirrorSpec
===============================================================================
