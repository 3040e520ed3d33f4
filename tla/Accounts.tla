------------------------------- MODULE Accounts -------------------------------
(***************************************************************************)
(* Accounts and roles: registration, the administrator's changes of users  *)
(* and roles and his deletion of an account, beside what users store and   *)
(* what other handlers save of them (app/auth_routes.py, app/seed.py,      *)
(* app/admin_routes.py).                                                   *)
(*                                                                         *)
(* A handler checks who asks once, when it begins, reads the documents it  *)
(* is about and saves them some awaits later, whole: save() of a document  *)
(* that was deleted meanwhile inserts it again.  Nothing relates the       *)
(* collections but the checks in the handlers.                             *)
(*                                                                         *)
(* The permissions listed in a role are left out: they refuse requests and *)
(* change nothing.  So is what an account has in B2 and in billing, which  *)
(* its deletion ignores or tries once.                                     *)
(***************************************************************************)
EXTENDS Naturals, FiniteSets

CONSTANTS
  Users,       \* ids of accounts
  Managers,    \* the accounts that are there from the start, administrators
  RoleDocs,    \* ids of documents of custom roles
  RoleKey,     \* the key each of them is given
  Clerks,      \* handlers in flight at once
  MaxErrands   \* bound: handlers that begin

DefaultKeys == {"superAdmin", "admin", "individual"}
Keyed == {RoleKey[d] : d \in RoleDocs}

AccountsAssumption ==
  /\ IsFiniteSet(Users) /\ Managers \subseteq Users /\ Managers # {}
  /\ DefaultKeys \cap Keyed = {} /\ DOMAIN RoleKey = RoleDocs
  /\ MaxErrands \in Nat
ASSUME AccountsAssumption

VARIABLES
  user,      \* user_type and is_admin of each account
  role,      \* the documents of custom roles
  owned,     \* what is stored for the id of an account
  errand,    \* local state of each handler
  errands,   \* handlers begun so far
  deleted,   \* history: accounts that delete_user has removed
  clashes    \* history: handlers about one account or role that overlapped

accountsVars == <<user, role, owned, errand, errands, deleted, clashes>>

-------------------------------------------------------------------------------
(* Documents and handlers *)

RoleKeys == DefaultKeys \cup Keyed
Account == [state: {"fresh", "live", "gone"}, key: RoleKeys, admin: BOOLEAN]
Nobody == [state |-> "fresh", key |-> "individual", admin |-> FALSE]
Belongings == {"items", "partitions"}

Is(u) == user[u].state = "live"
Administers(u) == Is(u) /\ user[u].admin
RoleThere(k) == k \in DefaultKeys \/ \E d \in RoleDocs : role[d] = "live" /\ RoleKey[d] = k

\* Faulty: only administrators are counted.
UnassignedToAdmins(k) == \A u \in Users : ~(Administers(u) /\ user[u].key = k)

Unassigned(k) == \A u \in Users : ~(Is(u) /\ user[u].key = k)

ErrandKinds == {"none", "register", "save", "setRole", "deleteUser",
                "store", "createRole", "updateRole", "deleteRole"}
Stages == {"idle", "seed", "save", "check", "purge", "partitions", "drop",
           "store", "insert", "write", "count", "remove"}

\* by asks, of is the account it is about and was the document as it was read.
Errand == [kind: ErrandKinds, at: Stages, by: SUBSET Users, of: SUBSET Users,
           was: Account, key: RoleKeys, doc: SUBSET RoleDocs, thing: Belongings]
Asks(kind, at, by, of, key) ==
  [kind |-> kind, at |-> at, by |-> by, of |-> of, was |-> Nobody,
   key |-> key, doc |-> {}, thing |-> "items"]
NoErrand == Asks("none", "idle", {}, {}, "individual")

Other(w) == {errand[v] : v \in Clerks \ {w}}
Clash(name, happens) == IF happens THEN {name} ELSE {}

\* What a handler that begins meets: one that deletes its account or saves it,
\* an administrator at work on the one who asks, a role on its way out.
Clashing(w, q) ==
  Clash("account", \E o \in Other(w) : o.of \cap q.of # {} /\ {o.kind, q.kind} # {"deleteUser"}
                                        /\ "deleteUser" \in {o.kind, q.kind})
  \cup Clash("admins", \E o \in Other(w) : o.kind \in {"setRole", "deleteUser"} /\ o.of \cap q.by # {})
  \cup Clash("role", \E o \in Other(w) : o.key = q.key /\ {o.kind, q.kind} = {"setRole", "deleteRole"})

Begin(w, q) ==
  /\ errand[w].at = "idle" /\ errands < MaxErrands
  /\ errands' = errands + 1
  /\ errand' = [errand EXCEPT ![w] = q]
  /\ clashes' = clashes \cup Clashing(w, q)

Onward(w, stage) == errand' = [errand EXCEPT ![w].at = stage]
Done(w) == errand' = [errand EXCEPT ![w] = NoErrand]
ErrandOnly == UNCHANGED <<user, role, owned, errands, deleted, clashes>>

-------------------------------------------------------------------------------
(* Users *)

\* register and the first login with Google: the account, then its folders.
\* Two of them with one address at once are not told apart here.
Register(w, u) ==
  /\ user[u].state = "fresh"
  /\ Begin(w, Asks("register", "seed", {}, {u}, "individual"))
  /\ user' = [user EXCEPT ![u] = [Nobody EXCEPT !.state = "live"]]
  /\ UNCHANGED <<role, owned, deleted>>

SeedUserData(w) ==
  LET q == errand[w] IN
  /\ q.at = "seed"
  /\ owned' = [u \in Users |-> IF u \in q.of THEN owned[u] \cup {"items"} ELSE owned[u]]
  /\ Done(w)
  /\ UNCHANGED <<user, role, errands, deleted, clashes>>

\* An upload or a partition of one's own.
BeginStore(w, u, thing) ==
  /\ Is(u) /\ thing \notin owned[u]
  /\ Begin(w, [Asks("store", "store", {}, {u}, "individual") EXCEPT !.thing = thing])
  /\ UNCHANGED <<user, role, owned, deleted>>

Store(w) ==
  LET q == errand[w] IN
  /\ q.at = "store"
  /\ owned' = [u \in Users |-> IF u \in q.of THEN owned[u] \cup {q.thing} ELSE owned[u]]
  /\ Done(w)
  /\ UNCHANGED <<user, role, errands, deleted, clashes>>

\* edit_user_limit and record_user_cancellation, and what billing saves of its
\* user: fields of their own, in a document saved whole.
BeginSave(w, u) ==
  /\ Is(u)
  /\ Begin(w, [Asks("save", "save", {}, {u}, user[u].key) EXCEPT !.was = user[u]])
  /\ UNCHANGED <<user, role, owned, deleted>>

\* Faulty: an administrator may take himself for another.
AnyOther(a, u) == TRUE

NotSelf(a, u) == a # u

\* edit_user_role.  A plain administrator makes nobody a super administrator.
BeginSetRole(w, a, u, k) ==
  /\ Administers(a) /\ Is(u) /\ NotSelf(a, u)
  /\ k = "superAdmin" => user[a].key = "superAdmin"
  /\ Begin(w, [Asks("setRole", "check", {a}, {u}, k) EXCEPT !.was = user[u]])
  /\ UNCHANGED <<user, role, owned, deleted>>

CheckRole(w) ==
  /\ errand[w].at = "check"
  /\ IF RoleThere(errand[w].key) THEN Onward(w, "save") ELSE Done(w)
  /\ ErrandOnly

\* Faulty: the default role is saved by its name.
AppointedByName(q) ==
  [state |-> q.was.state, key |-> IF q.key = "admin" THEN "Admin" ELSE q.key,
   admin |-> q.key \in {"superAdmin", "admin"}]

Appointed(q) ==
  [state |-> q.was.state, key |-> q.key, admin |-> q.key \in {"superAdmin", "admin"}]

SaveUser(w) ==
  LET q == errand[w]
      doc == IF q.kind = "setRole" THEN Appointed(q) ELSE q.was
  IN
  /\ q.at = "save"
  /\ user' = [u \in Users |-> IF u \in q.of THEN doc ELSE user[u]]
  /\ Done(w)
  /\ clashes' = clashes \cup Clash("save", \E u \in q.of : user[u] # q.was)
  /\ UNCHANGED <<role, owned, errands, deleted>>

\* delete_user: the objects in B2, then the items, the partitions, the account.
BeginDeleteUser(w, a, u) ==
  /\ Administers(a) /\ Is(u) /\ NotSelf(a, u)
  /\ Begin(w, Asks("deleteUser", "purge", {a}, {u}, "individual"))
  /\ UNCHANGED <<user, role, owned, deleted>>

\* Faulty: the partitions stay.
PurgeItemsOnly(w, at, next, thing) ==
  /\ errand[w].at = at
  /\ owned' = [u \in Users |->
       IF u \in errand[w].of /\ thing = "items" THEN owned[u] \ {thing} ELSE owned[u]]
  /\ Onward(w, next)
  /\ UNCHANGED <<user, role, errands, deleted, clashes>>

Purge(w, at, next, thing) ==
  /\ errand[w].at = at
  /\ owned' = [u \in Users |-> IF u \in errand[w].of THEN owned[u] \ {thing} ELSE owned[u]]
  /\ Onward(w, next)
  /\ UNCHANGED <<user, role, errands, deleted, clashes>>

DropUser(w) ==
  LET q == errand[w] IN
  /\ q.at = "drop"
  /\ user' = [u \in Users |-> IF u \in q.of THEN [user[u] EXCEPT !.state = "gone"] ELSE user[u]]
  /\ deleted' = deleted \cup q.of
  /\ Done(w)
  /\ UNCHANGED <<role, owned, errands, clashes>>

-------------------------------------------------------------------------------
(* Roles *)

\* create_role looks for the key and inserts the document some time later.
BeginCreateRole(w, a, d) ==
  /\ Administers(a) /\ role[d] = "fresh" /\ ~RoleThere(RoleKey[d])
  /\ Begin(w, [Asks("createRole", "insert", {a}, {}, RoleKey[d]) EXCEPT !.doc = {d}])
  /\ UNCHANGED <<user, role, owned, deleted>>

\* update_role saves name, description and permissions, in a document that may
\* have been deleted.
BeginUpdateRole(w, a, d) ==
  /\ Administers(a) /\ role[d] = "live"
  /\ Begin(w, [Asks("updateRole", "write", {a}, {}, RoleKey[d]) EXCEPT !.doc = {d}])
  /\ UNCHANGED <<user, role, owned, deleted>>

PutRole(w) ==
  LET q == errand[w] IN
  /\ q.at \in {"insert", "write"}
  /\ role' = [d \in RoleDocs |-> IF d \in q.doc THEN "live" ELSE role[d]]
  /\ Done(w)
  /\ UNCHANGED <<user, owned, errands, deleted, clashes>>

BeginDeleteRole(w, a, d) ==
  /\ Administers(a) /\ role[d] = "live"
  /\ Begin(w, [Asks("deleteRole", "count", {a}, {}, RoleKey[d]) EXCEPT !.doc = {d}])
  /\ UNCHANGED <<user, role, owned, deleted>>

CountAssigned(w) ==
  /\ errand[w].at = "count"
  /\ IF Unassigned(errand[w].key) THEN Onward(w, "remove") ELSE Done(w)
  /\ ErrandOnly

RemoveRole(w) ==
  LET q == errand[w] IN
  /\ q.at = "remove"
  /\ role' = [d \in RoleDocs |-> IF d \in q.doc THEN "gone" ELSE role[d]]
  /\ Done(w)
  /\ UNCHANGED <<user, owned, errands, deleted, clashes>>

-------------------------------------------------------------------------------
(* The program *)

\* The process dies: what its handlers have done so far stays.
LoseErrands ==
  /\ \E w \in Clerks : errand[w].at # "idle"
  /\ errand' = [w \in Clerks |-> NoErrand]
  /\ UNCHANGED <<user, role, owned, errands, deleted, clashes>>

AccountsInit ==
  /\ user = [u \in Users |->
       IF u \in Managers THEN [state |-> "live", key |-> "superAdmin", admin |-> TRUE] ELSE Nobody]
  /\ role = [d \in RoleDocs |-> "fresh"]
  /\ owned = [u \in Users |-> {}]
  /\ errand = [w \in Clerks |-> NoErrand]
  /\ errands = 0 /\ deleted = {} /\ clashes = {}

BeginErrand(w) ==
  \/ \E u \in Users : Register(w, u)
  \/ \E u \in Users, thing \in Belongings : BeginStore(w, u, thing)
  \/ \E u \in Users : BeginSave(w, u)
  \/ \E a, u \in Users, k \in RoleKeys : BeginSetRole(w, a, u, k)
  \/ \E a, u \in Users : BeginDeleteUser(w, a, u)
  \/ \E a \in Users, d \in RoleDocs : BeginCreateRole(w, a, d)
  \/ \E a \in Users, d \in RoleDocs : BeginUpdateRole(w, a, d)
  \/ \E a \in Users, d \in RoleDocs : BeginDeleteRole(w, a, d)

RunErrand(w) ==
  \/ SeedUserData(w)
  \/ Store(w)
  \/ CheckRole(w)
  \/ SaveUser(w)
  \/ Purge(w, "purge", "partitions", "items")
  \/ Purge(w, "partitions", "drop", "partitions")
  \/ DropUser(w)
  \/ PutRole(w)
  \/ CountAssigned(w)
  \/ RemoveRole(w)

AccountsNext == LoseErrands \/ \E w \in Clerks : BeginErrand(w) \/ RunErrand(w)

AccountsSpec == AccountsInit /\ [][AccountsNext]_accountsVars

-------------------------------------------------------------------------------
(* Properties *)

\* Accounts, roles and handlers keep their shape.
AccountsTypeOK ==
  /\ user \in [Users -> Account]
  /\ role \in [RoleDocs -> {"fresh", "live", "gone"}]
  /\ owned \in [Users -> SUBSET Belongings]
  /\ errand \in [Clerks -> Errand]
  /\ errands \in 0..MaxErrands
  /\ deleted \subseteq Users
  /\ clashes \subseteq {"account", "admins", "role", "save"}

\* Administrators demote and delete each other, yet there is always one left,
\* as none of them can do it to himself - unless one was at work who was himself
\* being demoted or deleted, or a save undid another's.
SomebodyAdministers ==
  clashes \cap {"admins", "save"} = {} => \E u \in Users : Administers(u)

\* The role of an account exists: one that is in use is not deleted, one that
\* is gone not assigned - unless both happened at once, or a save undid
\* another's and brought an old role back.
AssignedRoleExists ==
  clashes \cap {"role", "save"} = {} => \A u \in Users : Is(u) => RoleThere(user[u].key)

\* A deleted account does not come back, and leaves no item and no partition
\* that nobody can reach - unless a handler of the account was under way.
DeletedLeavesNothing ==
  "account" \notin clashes => \A u \in deleted : user[u].state = "gone" /\ owned[u] = {}
===============================================================================
