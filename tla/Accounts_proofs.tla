---------------------------- MODULE Accounts_proofs ----------------------------
(***************************************************************************)
(* Proofs about Accounts, for any accounts, roles and number of handlers:  *)
(* the types, that somebody administers the program, that a deleted        *)
(* account leaves nothing, and that the role of an account exists.         *)
(***************************************************************************)
EXTENDS Accounts, TLAPS

-------------------------------------------------------------------------------
(* Types *)

LEMMA NobodyType == Nobody \in Account
BY DEF Nobody, Account, RoleKeys, DefaultKeys

\* An account whose state is replaced, and one that is given a role.
LEMMA AccountUpdates ==
  /\ \A d \in Account : [d EXCEPT !.state = "live"] \in Account /\ [d EXCEPT !.state = "gone"] \in Account
  /\ \A q \in Errand : Appointed(q) \in Account /\ q.was \in Account
BY DEF Account, Errand, Appointed

\* A handler as it begins.
LEMMA AsksType ==
  ASSUME NEW kind \in ErrandKinds, NEW at \in Stages, NEW by \in SUBSET Users,
         NEW of \in SUBSET Users, NEW key \in RoleKeys
  PROVE  Asks(kind, at, by, of, key) \in Errand
<1>1. "items" \in Belongings /\ {} \in SUBSET RoleDocs
  BY DEF Belongings
<1>2. QED
  BY <1>1, NobodyType DEF Asks, Errand

LEMMA NoErrandType == NoErrand \in Errand
<1>1. "none" \in ErrandKinds /\ "idle" \in Stages /\ "individual" \in RoleKeys
  BY DEF ErrandKinds, Stages, RoleKeys, DefaultKeys
<1>2. QED
  BY <1>1, AsksType DEF NoErrand

\* A handler whose fields are replaced one at a time.
LEMMA ErrandUpdates ==
  ASSUME NEW q \in Errand
  PROVE  /\ \A at \in Stages : [q EXCEPT !.at = at] \in Errand
         /\ \A d \in Account : [q EXCEPT !.was = d] \in Errand
         /\ \A D \in SUBSET RoleDocs : [q EXCEPT !.doc = D] \in Errand
         /\ \A thing \in Belongings : [q EXCEPT !.thing = thing] \in Errand
BY DEF Errand

\* What Begin does to the bookkeeping.
LEMMA BeginType ==
  ASSUME AccountsTypeOK, NEW w \in Clerks, NEW q \in Errand, Begin(w, q)
  PROVE  /\ errand' = [errand EXCEPT ![w] = q]
         /\ errand' \in [Clerks -> Errand]
         /\ errands' \in 0..MaxErrands
         /\ clashes' \subseteq {"account", "admins", "role", "save"}
<1>1. errand' = [errand EXCEPT ![w] = q] /\ errand' \in [Clerks -> Errand]
  BY DEF AccountsTypeOK, Begin
<1>2. errands' \in 0..MaxErrands
  BY AccountsAssumption DEF AccountsTypeOK, Begin, AccountsAssumption
<1>3. Clashing(w, q) \subseteq {"account", "admins", "role"}
  BY DEF Clashing, Clash
<1>4. clashes' \subseteq {"account", "admins", "role", "save"}
  BY <1>3 DEF AccountsTypeOK, Begin
<1>5. QED
  BY <1>1, <1>2, <1>4

LEMMA TypeInitially == AccountsInit => AccountsTypeOK
<1> SUFFICES ASSUME AccountsInit PROVE AccountsTypeOK
  OBVIOUS
<1>1. [state |-> "live", key |-> "superAdmin", admin |-> TRUE] \in Account
  BY DEF Account, RoleKeys, DefaultKeys
<1>2. QED
  BY <1>1, NobodyType, NoErrandType, AccountsAssumption DEF AccountsInit, AccountsTypeOK, AccountsAssumption


-------------------------------------------------------------------------------
(* How handlers begin *)

\* What a stage says of the handler that has reached it.
StageFits(q) ==
  /\ q.at \in {"purge", "partitions", "drop"} <=> q.kind = "deleteUser"
  /\ q.at \in {"count", "remove"} <=> q.kind = "deleteRole"
  /\ q.at = "save" => q.kind \in {"setRole", "save"}
  /\ q.at = "check" => q.kind = "setRole"
  /\ q.kind = "setRole" => q.at \in {"check", "save"}
  /\ q.kind = "deleteRole" => q.key \in Keyed /\ \A d \in q.doc : RoleKey[d] = q.key

StagesOfKind == \A w \in Clerks : StageFits(errand[w])

\* What all handlers that begin have in common: only register changes an
\* account, and who demotes or deletes is an administrator and somebody else.
BeginsAs(w, q) ==
  /\ Begin(w, q) /\ UNCHANGED <<role, owned, deleted>>
  /\ \/ /\ q.kind = "register"
        /\ \E u \in Users :
             /\ q.of = {u} /\ user[u].state = "fresh"
             /\ user' = [user EXCEPT ![u] = [Nobody EXCEPT !.state = "live"]]
     \/ q.kind # "register" /\ UNCHANGED user /\ \A u \in q.of : Is(u)
  /\ q.kind \in {"setRole", "deleteUser"} => \E a \in Users : a \in q.by \ q.of /\ Administers(a)
  /\ StageFits(q)
  /\ q.at \notin {"partitions", "drop", "remove"}
  /\ q.kind = "setRole" => q.at = "check"

LEMMA BeginErrandEffect ==
  ASSUME AccountsTypeOK, NEW w \in Clerks, BeginErrand(w)
  PROVE  \E q \in Errand : BeginsAs(w, q)
<1>1. ASSUME NEW u \in Users, Register(w, u)
      PROVE  \E q \in Errand : BeginsAs(w, q)
  <2> DEFINE q == Asks("register", "seed", {}, {u}, "individual")
  <2>1. {u} \in SUBSET Users /\ {} \in SUBSET Users /\ "register" \in ErrandKinds
        /\ "seed" \in Stages /\ "individual" \in RoleKeys
    BY DEF ErrandKinds, Stages, RoleKeys, DefaultKeys
  <2>2. q \in Errand
    BY <2>1, AsksType
  <2>3. q.kind = "register" /\ q.at = "seed" /\ q.of = {u}
    BY DEF Asks
  <2>4. BeginsAs(w, q)
    BY <1>1, <2>3 DEF BeginsAs, StageFits, Register
  <2>5. QED
    BY <2>2, <2>4
<1>2. ASSUME NEW u \in Users, NEW thing \in Belongings, BeginStore(w, u, thing)
      PROVE  \E q \in Errand : BeginsAs(w, q)
  <2> DEFINE q == [Asks("store", "store", {}, {u}, "individual") EXCEPT !.thing = thing]
  <2>1. {u} \in SUBSET Users /\ {} \in SUBSET Users /\ "store" \in ErrandKinds
        /\ "store" \in Stages /\ "individual" \in RoleKeys
    BY DEF ErrandKinds, Stages, RoleKeys, DefaultKeys
  <2>2. q \in Errand
    BY <2>1, AsksType, ErrandUpdates
  <2>3. q.kind = "store" /\ q.at = "store" /\ q.of = {u}
    BY DEF Asks
  <2>4. BeginsAs(w, q)
    BY <1>2, <2>3 DEF BeginsAs, StageFits, BeginStore
  <2>5. QED
    BY <2>2, <2>4
<1>3. ASSUME NEW u \in Users, BeginSave(w, u)
      PROVE  \E q \in Errand : BeginsAs(w, q)
  <2> DEFINE q == [Asks("save", "save", {}, {u}, user[u].key) EXCEPT !.was = user[u]]
  <2>1. {u} \in SUBSET Users /\ {} \in SUBSET Users /\ "save" \in ErrandKinds /\ "save" \in Stages
    BY DEF ErrandKinds, Stages
  <2>2. user[u] \in Account /\ user[u].key \in RoleKeys
    BY DEF AccountsTypeOK, Account
  <2>3. q \in Errand
    BY <2>1, <2>2, AsksType, ErrandUpdates
  <2>4. q.kind = "save" /\ q.at = "save" /\ q.of = {u}
    BY DEF Asks
  <2>5. BeginsAs(w, q)
    BY <1>3, <2>4 DEF BeginsAs, StageFits, BeginSave
  <2>6. QED
    BY <2>3, <2>5
<1>4. ASSUME NEW a \in Users, NEW u \in Users, NEW k \in RoleKeys, BeginSetRole(w, a, u, k)
      PROVE  \E q \in Errand : BeginsAs(w, q)
  <2> DEFINE q == [Asks("setRole", "check", {a}, {u}, k) EXCEPT !.was = user[u]]
  <2>1. {u} \in SUBSET Users /\ {a} \in SUBSET Users /\ "setRole" \in ErrandKinds /\ "check" \in Stages
    BY DEF ErrandKinds, Stages
  <2>2. user[u] \in Account
    BY DEF AccountsTypeOK
  <2>3. q \in Errand
    BY <2>1, <2>2, AsksType, ErrandUpdates
  <2>4. q.kind = "setRole" /\ q.at = "check" /\ q.of = {u} /\ q.by = {a}
    BY DEF Asks
  <2>5. BeginsAs(w, q)
    BY <1>4, <2>4 DEF BeginsAs, StageFits, BeginSetRole, NotSelf
  <2>6. QED
    BY <2>3, <2>5
<1>5. ASSUME NEW a \in Users, NEW u \in Users, BeginDeleteUser(w, a, u)
      PROVE  \E q \in Errand : BeginsAs(w, q)
  <2> DEFINE q == Asks("deleteUser", "purge", {a}, {u}, "individual")
  <2>1. {u} \in SUBSET Users /\ {a} \in SUBSET Users /\ "deleteUser" \in ErrandKinds
        /\ "purge" \in Stages /\ "individual" \in RoleKeys
    BY DEF ErrandKinds, Stages, RoleKeys, DefaultKeys
  <2>2. q \in Errand
    BY <2>1, AsksType
  <2>3. q.kind = "deleteUser" /\ q.at = "purge" /\ q.of = {u} /\ q.by = {a}
    BY DEF Asks
  <2>4. BeginsAs(w, q)
    BY <1>5, <2>3 DEF BeginsAs, StageFits, BeginDeleteUser, NotSelf
  <2>5. QED
    BY <2>2, <2>4
<1>6. ASSUME NEW a \in Users, NEW d \in RoleDocs,
             BeginCreateRole(w, a, d) \/ BeginUpdateRole(w, a, d) \/ BeginDeleteRole(w, a, d)
      PROVE  \E q \in Errand : BeginsAs(w, q)
  <2>1. PICK kind, at :
          /\ \/ kind = "createRole" /\ at = "insert"
             \/ kind = "updateRole" /\ at = "write"
             \/ kind = "deleteRole" /\ at = "count"
          /\ Begin(w, [Asks(kind, at, {a}, {}, RoleKey[d]) EXCEPT !.doc = {d}])
          /\ UNCHANGED <<user, role, owned, deleted>>
    BY <1>6 DEF BeginCreateRole, BeginUpdateRole, BeginDeleteRole
  <2> DEFINE q == [Asks(kind, at, {a}, {}, RoleKey[d]) EXCEPT !.doc = {d}]
  <2>2. {a} \in SUBSET Users /\ {} \in SUBSET Users /\ {d} \in SUBSET RoleDocs
        /\ kind \in ErrandKinds /\ at \in Stages
    BY <2>1 DEF ErrandKinds, Stages
  <2>3. RoleKey[d] \in Keyed /\ RoleKey[d] \in RoleKeys
    BY DEF RoleKeys, Keyed
  <2>4. q \in Errand
    BY <2>2, <2>3, AsksType, ErrandUpdates
  <2>5. q.kind = kind /\ q.at = at /\ q.of = {} /\ q.doc = {d} /\ q.key = RoleKey[d]
    BY DEF Asks
  <2>6. StageFits(q)
    BY <2>1, <2>3, <2>5 DEF StageFits
  <2>7. BeginsAs(w, q)
    BY <2>1, <2>5, <2>6 DEF BeginsAs
  <2>8. QED
    BY <2>4, <2>7
<1>7. QED
  BY <1>1, <1>2, <1>3, <1>4, <1>5, <1>6 DEF BeginErrand

LEMMA BeginErrandType ==
  ASSUME AccountsTypeOK, NEW w \in Clerks, BeginErrand(w)
  PROVE  AccountsTypeOK'
<1>1. PICK q \in Errand : BeginsAs(w, q)
  BY BeginErrandEffect
<1>2. user' \in [Users -> Account]
  <2>1. [Nobody EXCEPT !.state = "live"] \in Account
    BY NobodyType, AccountUpdates
  <2>2. CASE UNCHANGED user
    BY <2>2 DEF AccountsTypeOK
  <2>3. CASE \E u \in Users : user' = [user EXCEPT ![u] = [Nobody EXCEPT !.state = "live"]]
    BY <2>1, <2>3 DEF AccountsTypeOK
  <2>4. QED
    BY <1>1, <2>2, <2>3 DEF BeginsAs
<1>3. QED
  BY <1>1, <1>2, BeginType DEF BeginsAs, AccountsTypeOK

\* A handler that goes on or ends.
LEMMA OnwardType ==
  ASSUME AccountsTypeOK, NEW w \in Clerks
  PROVE  /\ Done(w) => errand' \in [Clerks -> Errand]
         /\ \A at \in Stages : Onward(w, at) => errand' \in [Clerks -> Errand]
<1>1. Done(w) => errand' \in [Clerks -> Errand]
  BY NoErrandType DEF Done, AccountsTypeOK
<1>2. ASSUME NEW at \in Stages, Onward(w, at)
      PROVE  errand' \in [Clerks -> Errand]
  <2>1. errand[w] \in Errand
    BY DEF AccountsTypeOK
  <2>2. [errand[w] EXCEPT !.at = at] \in Errand
    BY <2>1, ErrandUpdates
  <2>3. errand' = [errand EXCEPT ![w] = [errand[w] EXCEPT !.at = at]]
    BY <1>2 DEF Onward
  <2>4. QED
    BY <2>2, <2>3 DEF AccountsTypeOK
<1>3. QED
  BY <1>1, <1>2

LEMMA RunErrandType ==
  ASSUME AccountsTypeOK, NEW w \in Clerks, RunErrand(w)
  PROVE  AccountsTypeOK'
<1> USE DEF Stages
<1>0. errand[w] \in Errand
  BY DEF AccountsTypeOK
<1>1. CASE SeedUserData(w)
  BY <1>1, <1>0, OnwardType DEF SeedUserData, AccountsTypeOK, Belongings
<1>2. CASE Store(w)
  <2>1. errand[w].thing \in Belongings
    BY <1>0 DEF Errand
  <2>2. QED
    BY <1>2, <2>1, OnwardType DEF Store, AccountsTypeOK
<1>3. CASE CheckRole(w)
  BY <1>3, OnwardType DEF CheckRole, ErrandOnly, AccountsTypeOK
<1>4. CASE SaveUser(w)
  <2>1. user' \in [Users -> Account]
    BY <1>4, <1>0, AccountUpdates DEF SaveUser, AccountsTypeOK
  <2>2. clashes' \subseteq {"account", "admins", "role", "save"}
    BY <1>4 DEF SaveUser, AccountsTypeOK, Clash
  <2>3. QED
    BY <1>4, <2>1, <2>2, OnwardType DEF SaveUser, AccountsTypeOK
<1>5. CASE Purge(w, "purge", "partitions", "items") \/ Purge(w, "partitions", "drop", "partitions")
  BY <1>5, OnwardType DEF Purge, AccountsTypeOK
<1>6. CASE DropUser(w)
  <2>1. user' \in [Users -> Account]
    BY <1>6, AccountUpdates DEF DropUser, AccountsTypeOK
  <2>2. deleted' \subseteq Users
    BY <1>6, <1>0 DEF DropUser, AccountsTypeOK, Errand
  <2>3. QED
    BY <1>6, <2>1, <2>2, OnwardType DEF DropUser, AccountsTypeOK
<1>7. CASE PutRole(w)
  BY <1>7, OnwardType DEF PutRole, AccountsTypeOK
<1>8. CASE CountAssigned(w)
  BY <1>8, OnwardType DEF CountAssigned, ErrandOnly, AccountsTypeOK
<1>9. CASE RemoveRole(w)
  BY <1>9, OnwardType DEF RemoveRole, AccountsTypeOK
<1>10. QED
  BY <1>1, <1>2, <1>3, <1>4, <1>5, <1>6, <1>7, <1>8, <1>9 DEF RunErrand

LEMMA TypeStep == AccountsTypeOK /\ [AccountsNext]_accountsVars => AccountsTypeOK'
<1> SUFFICES ASSUME AccountsTypeOK, [AccountsNext]_accountsVars PROVE AccountsTypeOK'
  OBVIOUS
<1>1. CASE LoseErrands
  BY <1>1, NoErrandType DEF LoseErrands, AccountsTypeOK
<1>2. CASE \E w \in Clerks : BeginErrand(w) \/ RunErrand(w)
  BY <1>2, BeginErrandType, RunErrandType
<1>3. CASE UNCHANGED accountsVars
  BY <1>3 DEF accountsVars, AccountsTypeOK
<1>4. QED
  BY <1>1, <1>2, <1>3 DEF AccountsNext

\* Accounts, roles and handlers keep their shape, whatever overlaps.
THEOREM AccountsTyped == AccountsSpec => []AccountsTypeOK
<1>1. QED
  BY TypeInitially, TypeStep, PTL DEF AccountsSpec

-------------------------------------------------------------------------------
(* Stages *)

LEMMA DoneFields ==
  ASSUME AccountsTypeOK, NEW w \in Clerks, Done(w)
  PROVE  /\ errand'[w] = NoErrand
         /\ errand'[w].kind = "none" /\ errand'[w].at = "idle" /\ errand'[w].of = {}
         /\ \A v \in Clerks \ {w} : errand'[v] = errand[v]
BY DEF Done, AccountsTypeOK, NoErrand, Asks

LEMMA OnwardFields ==
  ASSUME AccountsTypeOK, NEW w \in Clerks, NEW at \in Stages, Onward(w, at)
  PROVE  /\ errand'[w].at = at
         /\ errand'[w].kind = errand[w].kind /\ errand'[w].of = errand[w].of
         /\ errand'[w].key = errand[w].key /\ errand'[w].doc = errand[w].doc
         /\ \A v \in Clerks \ {w} : errand'[v] = errand[v]
<1>1. errand' = [errand EXCEPT ![w] = [errand[w] EXCEPT !.at = at]]
  BY DEF Onward
<1>2. errand'[w] = [errand[w] EXCEPT !.at = at] /\ \A v \in Clerks \ {w} : errand'[v] = errand[v]
  BY <1>1 DEF AccountsTypeOK
<1>3. errand[w] \in Errand
  BY DEF AccountsTypeOK
<1>4. QED
  BY <1>2, <1>3 DEF Errand

LEMMA BeginFields ==
  ASSUME AccountsTypeOK, NEW w \in Clerks, NEW q \in Errand, Begin(w, q)
  PROVE  errand'[w] = q /\ \A v \in Clerks \ {w} : errand'[v] = errand[v]
BY DEF Begin, AccountsTypeOK

\* A step of a handler that has begun ends it or takes it on by one stage.
LEMMA RunErrandStages ==
  ASSUME NEW w \in Clerks, RunErrand(w)
  PROVE  \/ Done(w)
         \/ errand[w].at = "check" /\ Onward(w, "save")
         \/ errand[w].at = "purge" /\ Onward(w, "partitions")
         \/ errand[w].at = "partitions" /\ Onward(w, "drop")
         \/ errand[w].at = "count" /\ Onward(w, "remove")
BY DEF RunErrand, SeedUserData, Store, CheckRole, SaveUser, Purge, DropUser, PutRole, CountAssigned, RemoveRole

\* No handler takes up another errand, or another account, on its way.
LEMMA RunErrandKeeps ==
  ASSUME AccountsTypeOK, NEW w \in Clerks, RunErrand(w)
  PROVE  /\ \A v \in Clerks \ {w} : errand'[v] = errand[v]
         /\ \/ errand'[w].kind = "none" /\ errand'[w].at = "idle" /\ errand'[w].of = {}
            \/ errand'[w].kind = errand[w].kind /\ errand'[w].of = errand[w].of /\ errand'[w].key = errand[w].key
<1>1. {"save", "partitions", "drop", "remove"} \subseteq Stages
  BY DEF Stages
<1>2. QED
  BY <1>1, RunErrandStages, DoneFields, OnwardFields

LEMMA NoErrandFits == StageFits(NoErrand)
BY DEF StageFits, NoErrand, Asks

LEMMA StagesInitially == AccountsInit => StagesOfKind
BY NoErrandFits DEF AccountsInit, StagesOfKind

LEMMA StagesStep == AccountsTypeOK /\ StagesOfKind /\ [AccountsNext]_accountsVars => StagesOfKind'
<1> SUFFICES ASSUME AccountsTypeOK, StagesOfKind, [AccountsNext]_accountsVars PROVE StagesOfKind'
  OBVIOUS
<1>1. CASE LoseErrands
  BY <1>1, NoErrandFits DEF LoseErrands, StagesOfKind, StageFits
<1>2. ASSUME NEW w \in Clerks, BeginErrand(w)
      PROVE  StagesOfKind'
  <2>1. PICK q \in Errand : BeginsAs(w, q)
    BY <1>2, BeginErrandEffect
  <2>2. errand'[w] = q /\ StageFits(q) /\ \A v \in Clerks \ {w} : errand'[v] = errand[v]
    BY <2>1, BeginFields DEF BeginsAs
  <2>3. QED
    BY <2>2 DEF StagesOfKind, StageFits
<1>3. ASSUME NEW w \in Clerks, RunErrand(w)
      PROVE  StagesOfKind'
  <2>1. CASE Done(w)
    BY <2>1, NoErrandFits, DoneFields DEF StagesOfKind, StageFits
  <2>2. ASSUME NEW at \in Stages, Onward(w, at),
               \/ errand[w].at = "check" /\ at = "save"
               \/ errand[w].at = "purge" /\ at = "partitions"
               \/ errand[w].at = "partitions" /\ at = "drop"
               \/ errand[w].at = "count" /\ at = "remove"
        PROVE  StagesOfKind'
    <3>1. StageFits(errand[w]) /\ errand[w].kind \in ErrandKinds
      BY DEF StagesOfKind, AccountsTypeOK, Errand
    <3>2. /\ errand'[w].at = at /\ errand'[w].kind = errand[w].kind
          /\ errand'[w].key = errand[w].key /\ errand'[w].doc = errand[w].doc
          /\ \A v \in Clerks \ {w} : errand'[v] = errand[v]
      BY <2>2, OnwardFields
    <3>3. StageFits(errand[w])'
      BY <2>2, <3>1, <3>2 DEF StageFits
    <3>4. QED
      BY <3>2, <3>3 DEF StagesOfKind, StageFits
  <2>3. {"save", "partitions", "drop", "remove"} \subseteq Stages
    BY DEF Stages
  <2>4. QED
    BY <1>3, <2>1, <2>2, <2>3, RunErrandStages
<1>4. CASE UNCHANGED accountsVars
  BY <1>4 DEF accountsVars, StagesOfKind, StageFits
<1>5. QED
  BY <1>1, <1>2, <1>3, <1>4 DEF AccountsNext

-------------------------------------------------------------------------------
(* Somebody administers the program *)

\* An administrator whom no handler is about to demote or delete.
Safe(u) ==
  /\ Administers(u)
  /\ \A w \in Clerks : errand[w].kind \in {"setRole", "deleteUser"} => u \notin errand[w].of

SafeAdministrator == clashes \cap {"admins", "save"} = {} => \E u \in Users : Safe(u)

LEMMA SafeInitially == AccountsInit => SafeAdministrator
<1> SUFFICES ASSUME AccountsInit PROVE \E u \in Users : Safe(u)
  BY DEF SafeAdministrator
<1>1. PICK u \in Users : u \in Managers
  BY AccountsAssumption DEF AccountsAssumption
<1>2. Administers(u)
  BY <1>1 DEF AccountsInit, Administers, Is
<1>3. \A w \in Clerks : errand[w].of = {}
  BY DEF AccountsInit, NoErrand, Asks
<1>4. QED
  BY <1>2, <1>3 DEF Safe

\* Who begins to demote or delete another is safe himself, if nobody is at work
\* on him; other handlers that begin leave the safe ones safe.
LEMMA SafeBegin ==
  ASSUME AccountsTypeOK, SafeAdministrator, NEW w \in Clerks, BeginErrand(w)
  PROVE  SafeAdministrator'
<1> SUFFICES ASSUME clashes' \cap {"admins", "save"} = {}
             PROVE  \E u \in Users : Safe(u)'
  BY DEF SafeAdministrator
<1>1. PICK q \in Errand : BeginsAs(w, q)
  BY BeginErrandEffect
<1>2. errand'[w] = q /\ \A v \in Clerks \ {w} : errand'[v] = errand[v]
  BY <1>1, BeginFields DEF BeginsAs
<1>3. clashes \cap {"admins", "save"} = {} /\ "admins" \notin Clashing(w, q)
  BY <1>1 DEF BeginsAs, Begin
<1>4. CASE q.kind \in {"setRole", "deleteUser"}
  <2>1. PICK a \in Users : a \in q.by \ q.of /\ Administers(a)
    BY <1>1, <1>4 DEF BeginsAs
  <2>2. \A v \in Clerks \ {w} : errand[v].kind \in {"setRole", "deleteUser"} => errand[v].of \cap q.by = {}
    BY <1>3 DEF Clashing, Clash, Other
  <2>3. UNCHANGED user
    BY <1>1, <1>4 DEF BeginsAs
  <2>4. Administers(a)'
    BY <2>1, <2>3 DEF Administers, Is
  <2>5. Safe(a)'
    BY <1>2, <2>1, <2>2, <2>4 DEF Safe
  <2>6. QED
    BY <2>5
<1>5. CASE q.kind \notin {"setRole", "deleteUser"}
  <2>1. PICK u \in Users : Safe(u)
    BY <1>3 DEF SafeAdministrator
  <2>2. user'[u] = user[u]
    BY <1>1, <2>1 DEF BeginsAs, Safe, Administers, Is, AccountsTypeOK
  <2>3. Administers(u)'
    BY <2>1, <2>2 DEF Safe, Administers, Is
  <2>4. Safe(u)'
    BY <1>2, <1>5, <2>1, <2>3 DEF Safe
  <2>5. QED
    BY <2>4
<1>6. QED
  BY <1>4, <1>5

\* A save that meets the document as it was read changes only the account it
\* demotes, and a deletion only the one it deletes.
LEMMA SafeRun ==
  ASSUME AccountsTypeOK, StagesOfKind, SafeAdministrator, NEW w \in Clerks, RunErrand(w)
  PROVE  SafeAdministrator'
<1> SUFFICES ASSUME clashes' \cap {"admins", "save"} = {}
             PROVE  \E u \in Users : Safe(u)'
  BY DEF SafeAdministrator
<1>1. clashes \cap {"admins", "save"} = {}
  BY DEF RunErrand, SeedUserData, Store, CheckRole, SaveUser, Purge, DropUser, PutRole,
         CountAssigned, RemoveRole, ErrandOnly
<1>2. PICK u \in Users : Safe(u)
  BY <1>1 DEF SafeAdministrator
<1>3. user'[u] = user[u]
  <2>1. CASE SaveUser(w)
    <3>1. CASE u \in errand[w].of
      <4>1. errand[w].kind # "setRole" /\ errand[w].was = user[u]
        BY <1>2, <2>1, <3>1 DEF Safe, SaveUser, Clash
      <4>2. QED
        BY <2>1, <3>1, <4>1 DEF SaveUser
    <3>2. CASE u \notin errand[w].of
      BY <2>1, <3>2 DEF SaveUser
    <3>3. QED
      BY <3>1, <3>2
  <2>2. CASE DropUser(w)
    <3>1. u \notin errand[w].of
      BY <1>2, <2>2 DEF Safe, DropUser, StagesOfKind, StageFits
    <3>2. QED
      BY <2>2, <3>1 DEF DropUser
  <2>3. CASE ~SaveUser(w) /\ ~DropUser(w)
    BY <2>3 DEF RunErrand, SeedUserData, Store, CheckRole, Purge, PutRole, CountAssigned, RemoveRole, ErrandOnly
  <2>4. QED
    BY <2>1, <2>2, <2>3
<1>4. Administers(u)'
  BY <1>2, <1>3 DEF Safe, Administers, Is
<1>5. Safe(u)'
  BY <1>2, <1>4, RunErrandKeeps DEF Safe
<1>6. QED
  BY <1>5

LEMMA SafeStep ==
  AccountsTypeOK /\ StagesOfKind /\ SafeAdministrator /\ [AccountsNext]_accountsVars => SafeAdministrator'
<1> SUFFICES ASSUME AccountsTypeOK, StagesOfKind, SafeAdministrator, [AccountsNext]_accountsVars
             PROVE  SafeAdministrator'
  OBVIOUS
<1>1. CASE LoseErrands
  <2>1. UNCHANGED <<user, clashes>> /\ \A w \in Clerks : errand'[w].of = {}
    BY <1>1 DEF LoseErrands, NoErrand, Asks
  <2>2. QED
    BY <2>1 DEF SafeAdministrator, Safe, Administers, Is
<1>2. CASE UNCHANGED accountsVars
  BY <1>2 DEF accountsVars, SafeAdministrator, Safe, Administers, Is
<1>3. QED
  BY <1>1, <1>2, SafeBegin, SafeRun DEF AccountsNext

\* Administrators may demote and delete each other as they like, one is left,
\* unless one was at work while he was being demoted or deleted, or a save
\* undid another's: the one who asked last is there.
THEOREM SomebodyIsLeft == AccountsSpec => []SomebodyAdministers
<1>1. SafeAdministrator => SomebodyAdministers
  BY DEF SafeAdministrator, Safe, SomebodyAdministers
<1>2. QED
  BY TypeInitially, StagesInitially, SafeInitially, TypeStep, StagesStep, SafeStep, <1>1, PTL DEF AccountsSpec

-------------------------------------------------------------------------------
(* What a deletion leaves *)

\* Nothing but another deletion is about an account that is being deleted,
\* which loses its belongings step by step, and nothing at all about a deleted one.
DeletionIsAlone == "account" \notin clashes =>
  /\ \A v, w \in Clerks :
       errand[w].kind = "deleteUser" /\ errand[v].of \cap errand[w].of # {} => errand[v].kind = "deleteUser"
  /\ \A w \in Clerks : \A u \in errand[w].of :
       /\ errand[w].at = "partitions" => "items" \notin owned[u]
       /\ errand[w].at = "drop" => owned[u] = {}
  /\ \A u \in deleted :
       /\ user[u].state = "gone" /\ owned[u] = {}
       /\ \A w \in Clerks : u \in errand[w].of => errand[w].kind = "deleteUser"

LEMMA AloneInitially == AccountsInit => DeletionIsAlone
BY DEF AccountsInit, DeletionIsAlone, NoErrand, Asks

LEMMA AloneBegin ==
  ASSUME AccountsTypeOK, DeletionIsAlone, NEW w \in Clerks, BeginErrand(w)
  PROVE  DeletionIsAlone'
<1> SUFFICES ASSUME "account" \notin clashes' PROVE DeletionIsAlone'
  BY DEF DeletionIsAlone
<1>1. PICK q \in Errand : BeginsAs(w, q)
  BY BeginErrandEffect
<1>2. errand'[w] = q /\ \A v \in Clerks \ {w} : errand'[v] = errand[v]
  BY <1>1, BeginFields DEF BeginsAs
<1>3. "account" \notin clashes /\ "account" \notin Clashing(w, q)
  BY <1>1 DEF BeginsAs, Begin
<1>4. \A v \in Clerks \ {w} : errand[v].of \cap q.of # {}
        => (errand[v].kind = "deleteUser" <=> q.kind = "deleteUser")
  BY <1>3 DEF Clashing, Clash, Other
<1>5. \A u, v \in Clerks : errand'[v].kind = "deleteUser" /\ errand'[u].of \cap errand'[v].of # {}
        => errand'[u].kind = "deleteUser"
  <2>1. \A u, v \in Clerks \ {w} : errand[v].kind = "deleteUser" /\ errand[u].of \cap errand[v].of # {}
          => errand[u].kind = "deleteUser"
    BY <1>3 DEF DeletionIsAlone
  <2>2. QED
    BY <1>2, <1>4, <2>1
<1>6. \A v \in Clerks : \A u \in errand'[v].of :
        /\ errand'[v].at = "partitions" => "items" \notin owned'[u]
        /\ errand'[v].at = "drop" => owned'[u] = {}
  BY <1>1, <1>2, <1>3 DEF BeginsAs, DeletionIsAlone
<1>7. ASSUME NEW u \in deleted'
      PROVE  /\ user'[u].state = "gone" /\ owned'[u] = {}
             /\ \A v \in Clerks : u \in errand'[v].of => errand'[v].kind = "deleteUser"
  <2>1. /\ u \in deleted /\ user[u].state = "gone" /\ owned[u] = {}
        /\ \A v \in Clerks : u \in errand[v].of => errand[v].kind = "deleteUser"
    BY <1>1, <1>3 DEF BeginsAs, DeletionIsAlone
  <2>2. user'[u] = user[u] /\ u \notin q.of /\ owned'[u] = owned[u]
    BY <1>1, <2>1 DEF BeginsAs, Is, AccountsTypeOK
  <2>3. QED
    BY <1>2, <2>1, <2>2
<1>8. QED
  BY <1>5, <1>6, <1>7 DEF DeletionIsAlone

\* What a handler writes to an account that is being deleted takes something
\* away, as it is a deletion itself.
LEMMA AloneRun ==
  ASSUME AccountsTypeOK, StagesOfKind, DeletionIsAlone, NEW w \in Clerks, RunErrand(w)
  PROVE  DeletionIsAlone'
<1> SUFFICES ASSUME "account" \notin clashes' PROVE DeletionIsAlone'
  BY DEF DeletionIsAlone
<1>1. "account" \notin clashes
  BY DEF RunErrand, SeedUserData, Store, CheckRole, SaveUser, Purge, DropUser, PutRole,
         CountAssigned, RemoveRole, ErrandOnly
<1>2. \A u, v \in Clerks : errand'[v].kind = "deleteUser" /\ errand'[u].of \cap errand'[v].of # {}
        => errand'[u].kind = "deleteUser"
  <2>1. \A u, v \in Clerks : errand[v].kind = "deleteUser" /\ errand[u].of \cap errand[v].of # {}
          => errand[u].kind = "deleteUser"
    BY <1>1 DEF DeletionIsAlone
  <2>2. QED
    BY <2>1, RunErrandKeeps
<1>3. StageFits(errand[w]) /\ errand[w].of \subseteq Users
  BY DEF StagesOfKind, AccountsTypeOK, Errand
<1>4. ASSUME NEW u \in Users, u \notin errand[w].of \/ errand[w].kind = "deleteUser"
      PROVE  owned'[u] \subseteq owned[u]
  BY <1>3, <1>4 DEF RunErrand, SeedUserData, Store, CheckRole, SaveUser, Purge, DropUser, PutRole,
         CountAssigned, RemoveRole, ErrandOnly, StageFits
<1>5. ASSUME NEW v \in Clerks, NEW u \in errand'[v].of
      PROVE  /\ errand'[v].at = "partitions" => "items" \notin owned'[u]
             /\ errand'[v].at = "drop" => owned'[u] = {}
  <2>1. CASE v = w
    <3>1. u \in errand[w].of
      BY <1>5, <2>1, RunErrandKeeps
    <3>2. u \in Users /\ owned[u] \subseteq {"items", "partitions"}
      BY <1>3, <3>1 DEF AccountsTypeOK, Belongings
    <3>3. "idle" \notin {"partitions", "drop"} /\ "save" \notin {"partitions", "drop"}
          /\ "remove" \notin {"partitions", "drop"} /\ {"save", "remove", "partitions", "drop"} \subseteq Stages
      BY DEF Stages
    <3>4. CASE errand'[w].at = "partitions"
      <4>1. Purge(w, "purge", "partitions", "items")
        BY <3>3, <3>4, DoneFields, OnwardFields DEF RunErrand, SeedUserData, Store, CheckRole, SaveUser,
           Purge, DropUser, PutRole, CountAssigned, RemoveRole
      <4>2. QED
        BY <2>1, <3>1, <3>2, <3>4, <4>1 DEF Purge
    <3>5. CASE errand'[w].at = "drop"
      <4>1. Purge(w, "partitions", "drop", "partitions")
        BY <3>3, <3>5, DoneFields, OnwardFields DEF RunErrand, SeedUserData, Store, CheckRole, SaveUser,
           Purge, DropUser, PutRole, CountAssigned, RemoveRole
      <4>2. "items" \notin owned[u]
        BY <1>1, <3>1, <4>1 DEF Purge, DeletionIsAlone
      <4>3. QED
        BY <2>1, <3>1, <3>2, <3>5, <4>1, <4>2 DEF Purge
    <3>6. QED
      BY <2>1, <3>4, <3>5
  <2>2. CASE v # w /\ errand[v].at \in {"partitions", "drop"}
    <3>1. errand'[v] = errand[v] /\ u \in errand[v].of /\ errand[v].kind = "deleteUser" /\ u \in Users
      BY <1>5, <2>2, RunErrandKeeps DEF StagesOfKind, StageFits, AccountsTypeOK, Errand
    <3>2. u \notin errand[w].of \/ errand[w].kind = "deleteUser"
      BY <1>1, <3>1 DEF DeletionIsAlone
    <3>3. owned'[u] \subseteq owned[u]
      BY <1>4, <3>1, <3>2
    <3>4. QED
      BY <1>1, <3>1, <3>3 DEF DeletionIsAlone
  <2>3. CASE v # w /\ errand[v].at \notin {"partitions", "drop"}
    BY <2>3, RunErrandKeeps
  <2>4. QED
    BY <2>1, <2>2, <2>3
<1>6. ASSUME NEW u \in deleted'
      PROVE  /\ user'[u].state = "gone" /\ owned'[u] = {}
             /\ \A v \in Clerks : u \in errand'[v].of => errand'[v].kind = "deleteUser"
  <2>1. CASE u \in deleted
    <3>1. /\ u \in Users /\ user[u].state = "gone" /\ owned[u] = {}
          /\ \A v \in Clerks : u \in errand[v].of => errand[v].kind = "deleteUser"
      BY <1>1, <2>1 DEF DeletionIsAlone, AccountsTypeOK
    <3>2. owned'[u] = {}
      BY <1>4, <3>1
    <3>3. user'[u].state = "gone"
      <4>1. CASE SaveUser(w)
        BY <1>3, <3>1, <4>1 DEF SaveUser, StageFits
      <4>2. CASE DropUser(w)
        BY <3>1, <4>2 DEF DropUser, AccountsTypeOK, Account
      <4>3. CASE ~SaveUser(w) /\ ~DropUser(w)
        BY <3>1, <4>3 DEF RunErrand, SeedUserData, Store, CheckRole, Purge, PutRole, CountAssigned,
           RemoveRole, ErrandOnly
      <4>4. QED
        BY <4>1, <4>2, <4>3
    <3>4. QED
      BY <3>1, <3>2, <3>3, RunErrandKeeps
  <2>2. CASE u \notin deleted
    <3>1. DropUser(w) /\ u \in errand[w].of /\ u \in Users
      BY <1>3, <2>2 DEF RunErrand, SeedUserData, Store, CheckRole, SaveUser, Purge, DropUser, PutRole,
         CountAssigned, RemoveRole, ErrandOnly
    <3>2. errand[w].at = "drop" /\ errand[w].kind = "deleteUser" /\ owned[u] = {}
      BY <1>1, <1>3, <3>1 DEF DropUser, StageFits, DeletionIsAlone
    <3>3. user'[u].state = "gone" /\ owned'[u] = {}
      BY <3>1, <3>2 DEF DropUser, AccountsTypeOK, Account
    <3>4. \A v \in Clerks : u \in errand[v].of => errand[v].kind = "deleteUser"
      BY <1>1, <3>1, <3>2 DEF DeletionIsAlone
    <3>5. QED
      BY <3>3, <3>4, RunErrandKeeps
  <2>3. QED
    BY <2>1, <2>2
<1>7. QED
  BY <1>2, <1>5, <1>6 DEF DeletionIsAlone

LEMMA AloneStep ==
  AccountsTypeOK /\ StagesOfKind /\ DeletionIsAlone /\ [AccountsNext]_accountsVars => DeletionIsAlone'
<1> SUFFICES ASSUME AccountsTypeOK, StagesOfKind, DeletionIsAlone, [AccountsNext]_accountsVars
             PROVE  DeletionIsAlone'
  OBVIOUS
<1>1. CASE LoseErrands
  <2>1. UNCHANGED <<user, owned, deleted, clashes>> /\ \A w \in Clerks : errand'[w].of = {}
    BY <1>1 DEF LoseErrands, NoErrand, Asks
  <2>2. QED
    BY <2>1 DEF DeletionIsAlone
<1>2. CASE UNCHANGED accountsVars
  BY <1>2 DEF accountsVars, DeletionIsAlone
<1>3. QED
  BY <1>1, <1>2, AloneBegin, AloneRun DEF AccountsNext

\* A deleted account stays away and leaves nothing behind, unless a handler of
\* it overlapped with the deletion; a crash between two steps makes no difference.
THEOREM DeletionIsFinal == AccountsSpec => []DeletedLeavesNothing
<1>1. DeletionIsAlone => DeletedLeavesNothing
  BY DEF DeletionIsAlone, DeletedLeavesNothing
<1>2. QED
  BY TypeInitially, StagesInitially, AloneInitially, TypeStep, StagesStep, AloneStep, <1>1, PTL DEF AccountsSpec

-------------------------------------------------------------------------------
(* Roles in use *)

\* A role that is about to be assigned exists, one that is about to be removed
\* is unassigned, and no two handlers do both.
RolesSettled == clashes \cap {"role", "save"} = {} =>
  /\ \A u \in Users : Is(u) => RoleThere(user[u].key)
  /\ \A v, w \in Clerks : errand[v].kind = "setRole" /\ errand[w].kind = "deleteRole"
       => errand[v].key # errand[w].key
  /\ \A w \in Clerks : errand[w].kind = "setRole" /\ errand[w].at = "save" => RoleThere(errand[w].key)
  /\ \A w \in Clerks : errand[w].at = "remove" => Unassigned(errand[w].key)

LEMMA RolesInitially == AccountsInit => RolesSettled
<1> SUFFICES ASSUME AccountsInit PROVE RolesSettled
  OBVIOUS
<1>1. \A u \in Users : Is(u) => user[u].key = "superAdmin"
  BY DEF AccountsInit, Is, Nobody
<1>2. \A w \in Clerks : errand[w].kind = "none" /\ errand[w].at = "idle"
  BY DEF AccountsInit, NoErrand, Asks
<1>3. RoleThere("superAdmin")
  BY DEF RoleThere, DefaultKeys
<1>4. QED
  BY <1>1, <1>2, <1>3 DEF RolesSettled

LEMMA RolesBegin ==
  ASSUME AccountsTypeOK, StagesOfKind, RolesSettled, NEW w \in Clerks, BeginErrand(w)
  PROVE  RolesSettled'
<1> SUFFICES ASSUME clashes' \cap {"role", "save"} = {} PROVE RolesSettled'
  BY DEF RolesSettled
<1>1. PICK q \in Errand : BeginsAs(w, q)
  BY BeginErrandEffect
<1>2. errand'[w] = q /\ \A v \in Clerks \ {w} : errand'[v] = errand[v]
  BY <1>1, BeginFields DEF BeginsAs
<1>3. clashes \cap {"role", "save"} = {} /\ "role" \notin Clashing(w, q)
  BY <1>1 DEF BeginsAs, Begin
<1>4. \A v \in Clerks \ {w} : errand[v].key = q.key => {errand[v].kind, q.kind} # {"setRole", "deleteRole"}
  BY <1>3 DEF Clashing, Clash, Other
<1>5. \A k : RoleThere(k)' <=> RoleThere(k)
  BY <1>1 DEF BeginsAs, RoleThere
<1>6. \A u \in Users : user'[u] = user[u] \/ user'[u].key = "individual"
  BY <1>1 DEF BeginsAs, AccountsTypeOK, Nobody
<1>7. \A u \in Users : Is(u)' => RoleThere(user[u].key)'
  <2>1. \A u \in Users : Is(u) => RoleThere(user[u].key)
    BY <1>3 DEF RolesSettled
  <2>2. RoleThere("individual")
    BY DEF RoleThere, DefaultKeys
  <2>3. ASSUME NEW u \in Users, user'[u].state = "live"
        PROVE  RoleThere(user'[u].key)
    BY <1>6, <2>1, <2>2, <2>3 DEF Is
  <2>4. QED
    BY <1>1, <2>3 DEF Is, RoleThere, BeginsAs
<1>8. \A u, v \in Clerks : errand'[u].kind = "setRole" /\ errand'[v].kind = "deleteRole"
        => errand'[u].key # errand'[v].key
  <2>1. \A u, v \in Clerks : errand[u].kind = "setRole" /\ errand[v].kind = "deleteRole"
          => errand[u].key # errand[v].key
    BY <1>3 DEF RolesSettled
  <2>2. QED
    BY <1>2, <1>4, <2>1
<1>9. \A v \in Clerks : errand'[v].kind = "setRole" /\ errand'[v].at = "save" => RoleThere(errand[v].key)'
  <2>1. \A v \in Clerks : errand[v].kind = "setRole" /\ errand[v].at = "save" => RoleThere(errand[v].key)
    BY <1>3 DEF RolesSettled
  <2>2. q.kind = "setRole" => q.at = "check"
    BY <1>1 DEF BeginsAs
  <2>3. QED
    BY <1>1, <1>2, <2>1, <2>2 DEF RoleThere, BeginsAs
<1>10. \A v \in Clerks : errand'[v].at = "remove" => Unassigned(errand[v].key)'
  <2>1. ASSUME NEW v \in Clerks, errand'[v].at = "remove"
        PROVE  Unassigned(errand[v].key)'
    <3>1. errand'[v] = errand[v] /\ errand[v].at = "remove"
      BY <1>1, <1>2, <2>1 DEF BeginsAs
    <3>2. errand[v].key \in Keyed /\ errand[v].key # "individual"
      BY <3>1, AccountsAssumption DEF StagesOfKind, StageFits, AccountsAssumption, DefaultKeys
    <3>3. Unassigned(errand[v].key)
      BY <1>3, <3>1 DEF RolesSettled
    <3>4. QED
      BY <1>6, <3>1, <3>2, <3>3 DEF Unassigned, Is
  <2>2. QED
    BY <2>1
<1>11. QED
  BY <1>7, <1>8, <1>9, <1>10 DEF RolesSettled

\* An account only changes to a role that is being assigned, and a role only
\* goes when it is being removed.
LEMMA RolesRun ==
  ASSUME AccountsTypeOK, StagesOfKind, RolesSettled, NEW w \in Clerks, RunErrand(w)
  PROVE  RolesSettled'
<1> SUFFICES ASSUME clashes' \cap {"role", "save"} = {} PROVE RolesSettled'
  BY DEF RolesSettled
<1>1. clashes \cap {"role", "save"} = {}
  BY DEF RunErrand, SeedUserData, Store, CheckRole, SaveUser, Purge, DropUser, PutRole,
         CountAssigned, RemoveRole, ErrandOnly
<1>2. StageFits(errand[w])
  BY DEF StagesOfKind
<1>3. ASSUME NEW u \in Users, user'[u].state = "live"
      PROVE  \/ user[u].state = "live" /\ user'[u].key = user[u].key
             \/ errand[w].kind = "setRole" /\ errand[w].at = "save" /\ user'[u].key = errand[w].key
  <2>1. CASE SaveUser(w)
    <3>1. u \in errand[w].of => errand[w].was = user[u]
      BY <2>1 DEF SaveUser, Clash
    <3>2. QED
      BY <1>3, <2>1, <3>1 DEF SaveUser, Appointed
  <2>2. CASE DropUser(w)
    BY <1>3, <2>2 DEF DropUser, AccountsTypeOK, Account
  <2>3. CASE ~SaveUser(w) /\ ~DropUser(w)
    BY <1>3, <2>3 DEF RunErrand, SeedUserData, Store, CheckRole, Purge, PutRole, CountAssigned,
       RemoveRole, ErrandOnly
  <2>4. QED
    BY <2>1, <2>2, <2>3
<1>4. ASSUME NEW k, RoleThere(k), ~RoleThere(k)'
      PROVE  errand[w].kind = "deleteRole" /\ errand[w].at = "remove" /\ k = errand[w].key
  <2>1. CASE RemoveRole(w)
    <3>1. errand[w].kind = "deleteRole" /\ \A d \in errand[w].doc : RoleKey[d] = errand[w].key
      BY <1>2, <2>1 DEF RemoveRole, StageFits
    <3>2. QED
      BY <1>4, <2>1, <3>1 DEF RemoveRole, RoleThere
  <2>2. CASE PutRole(w)
    BY <1>4, <2>2 DEF PutRole, RoleThere
  <2>3. CASE ~RemoveRole(w) /\ ~PutRole(w)
    BY <1>4, <2>3 DEF RunErrand, SeedUserData, Store, CheckRole, SaveUser, Purge, DropUser,
       CountAssigned, ErrandOnly, RoleThere
  <2>4. QED
    BY <2>1, <2>2, <2>3
<1>5. \A u \in Users : Is(u) => RoleThere(user[u].key)
  BY <1>1 DEF RolesSettled
<1>6. \A u, v \in Clerks : errand[u].kind = "setRole" /\ errand[v].kind = "deleteRole"
        => errand[u].key # errand[v].key
  BY <1>1 DEF RolesSettled
<1>7. \A v \in Clerks : errand[v].kind = "setRole" /\ errand[v].at = "save" => RoleThere(errand[v].key)
  BY <1>1 DEF RolesSettled
<1>8. \A v \in Clerks : errand[v].at = "remove" => Unassigned(errand[v].key)
  BY <1>1 DEF RolesSettled
<1>9. ASSUME NEW u \in Users, user'[u].state = "live"
      PROVE  RoleThere(user[u].key)'
  <2>1. RoleThere(user'[u].key)
    BY <1>3, <1>5, <1>7, <1>9 DEF Is
  <2>2. CASE ~RoleThere(user[u].key)'
    <3>1. errand[w].kind = "deleteRole" /\ errand[w].at = "remove" /\ user'[u].key = errand[w].key
      BY <1>4, <2>1, <2>2 DEF RoleThere
    <3>2. QED
      BY <1>3, <1>8, <1>9, <3>1 DEF Unassigned, Is
  <2>3. QED
    BY <2>2
<1>10. ASSUME NEW v \in Clerks, errand'[v].kind = "setRole", errand'[v].at = "save"
       PROVE  RoleThere(errand[v].key)'
  <2>1. errand[v].kind = "setRole" /\ errand'[v].key = errand[v].key
    BY <1>10, RunErrandKeeps
  <2>2. RoleThere(errand[v].key)
    <3>1. CASE errand[v].at = "save"
      BY <1>7, <2>1, <3>1
    <3>2. CASE errand[v].at # "save"
      <4>1. v = w
        BY <1>10, <3>2, RunErrandKeeps
      <4>2. CheckRole(w)
        BY <1>2, <1>10, <2>1, <3>2, <4>1, DoneFields DEF StageFits, RunErrand, SeedUserData, Store,
           SaveUser, Purge, DropUser, PutRole, CountAssigned, RemoveRole
      <4>3. QED
        BY <1>10, <4>1, <4>2, DoneFields DEF CheckRole
    <3>3. QED
      BY <3>1, <3>2
  <2>3. CASE ~RoleThere(errand[v].key)'
    <3>1. errand[w].kind = "deleteRole" /\ errand[v].key = errand[w].key
      BY <1>4, <2>1, <2>2, <2>3 DEF RoleThere
    <3>2. QED
      BY <1>6, <2>1, <3>1
  <2>4. QED
    BY <2>3
<1>11. ASSUME NEW v \in Clerks, errand'[v].at = "remove"
       PROVE  Unassigned(errand[v].key)'
  <2>1. errand'[v].key = errand[v].key /\ errand[v].kind = "deleteRole" /\ Unassigned(errand[v].key)
    <3>1. CASE v # w \/ errand[v].at = "remove"
      BY <1>8, <1>11, <3>1, RunErrandKeeps DEF StagesOfKind, StageFits
    <3>2. CASE v = w /\ errand[v].at # "remove"
      <4>1. CountAssigned(w)
        <5>1. "remove" \notin {"save", "partitions", "drop", "idle"} /\ {"save", "partitions", "drop"} \subseteq Stages
          BY DEF Stages
        <5>2. QED
          BY <1>11, <3>2, <5>1, DoneFields, OnwardFields DEF RunErrand, SeedUserData, Store, CheckRole, SaveUser,
             Purge, DropUser, PutRole, RemoveRole
      <4>2. Unassigned(errand[w].key)
        BY <1>11, <3>2, <4>1, DoneFields DEF CountAssigned
      <4>3. QED
        BY <1>2, <1>11, <3>2, <4>1, <4>2, RunErrandKeeps DEF CountAssigned, StageFits
    <3>3. QED
      BY <3>1, <3>2
  <2>2. ASSUME NEW u \in Users, user'[u].state = "live" PROVE user'[u].key # errand[v].key
    BY <1>3, <1>6, <2>1, <2>2 DEF Unassigned, Is
  <2>3. QED
    BY <2>1, <2>2 DEF Unassigned, Is
<1>12. \A u, v \in Clerks : errand'[u].kind = "setRole" /\ errand'[v].kind = "deleteRole"
         => errand'[u].key # errand'[v].key
  BY <1>6, RunErrandKeeps
<1>13. QED
  BY <1>9, <1>10, <1>11, <1>12 DEF RolesSettled, Is

LEMMA RolesStep ==
  AccountsTypeOK /\ StagesOfKind /\ RolesSettled /\ [AccountsNext]_accountsVars => RolesSettled'
<1> SUFFICES ASSUME AccountsTypeOK, StagesOfKind, RolesSettled, [AccountsNext]_accountsVars
             PROVE  RolesSettled'
  OBVIOUS
<1>1. CASE LoseErrands
  <2>1. UNCHANGED <<user, role, clashes>>
        /\ \A w \in Clerks : errand'[w].kind = "none" /\ errand'[w].at = "idle"
    BY <1>1 DEF LoseErrands, NoErrand, Asks
  <2>2. QED
    BY <2>1 DEF RolesSettled, Is, RoleThere
<1>2. CASE UNCHANGED accountsVars
  BY <1>2 DEF accountsVars, RolesSettled, Is, RoleThere, Unassigned
<1>3. QED
  BY <1>1, <1>2, RolesBegin, RolesRun DEF AccountsNext

\* Whoever holds a role holds one that exists, unless the role was assigned and
\* deleted at the same time or a save brought an old one back.
THEOREM RolesExist == AccountsSpec => []AssignedRoleExists
<1>1. RolesSettled => AssignedRoleExists
  BY DEF RolesSettled, AssignedRoleExists
<1>2. QED
  BY TypeInitially, StagesInitially, RolesInitially, TypeStep, StagesStep, RolesStep, <1>1, PTL DEF AccountsSpec
===============================================================================
