------------------------------ MODULE MCServices ------------------------------
(***************************************************************************)
(* Four components that share no state, checked in one run: turn says      *)
(* which of them a behaviour is about, and the others stay in an initial   *)
(* state.  Their product would only multiply the states.                   *)
(***************************************************************************)
EXTENDS StorageQuota, ObjectMirror, Accounts, BillingMigration, TLC

CONSTANTS
  w, x, y, a, ab,                             \* ObjectMirror
  plansCol, paysCol, planIdx, keyIdx, payIdx  \* BillingMigration

VARIABLE turn

MCTargetOf == [v \in Uploads |-> NoPart]
\* Nothing in StorageQuota tells one file, partition or handler from another.
QuotaSymmetry == Permutations(Files) \cup Permutations(Parts) \cup Permutations(Workers)

MCExtends == {<<a, ab>>}
MCRoleKey == [d \in RoleDocs |-> "custom"]
MCOf == [i \in Indexes |-> IF i = planIdx THEN plansCol ELSE paysCol]

\* Whoever has not the turn starts in one state of its initial states.
Init ==
  /\ QuotaInit /\ MirrorInit /\ AccountsInit /\ MigrationInit
  /\ turn \in {"quota", "mirror", "accounts", "migration"}
  /\ turn # "quota" => limit = CHOOSE l \in Limits : TRUE
  /\ turn # "mirror" => first = CHOOSE n \in FirstNames : TRUE
  /\ turn # "migration" => made = {}

Next ==
  \/ /\ turn = "quota" /\ QuotaNext
     /\ UNCHANGED <<turn, mirrorVars, accountsVars, migrationVars>>
  \/ /\ turn = "mirror" /\ MirrorNext
     /\ UNCHANGED <<turn, quotaVars, accountsVars, migrationVars>>
  \/ /\ turn = "accounts" /\ AccountsNext
     /\ UNCHANGED <<turn, quotaVars, mirrorVars, migrationVars>>
  \/ /\ turn = "migration" /\ MigrationNext
     /\ UNCHANGED <<turn, quotaVars, mirrorVars, accountsVars>>

Spec == Init /\ [][Next]_<<quotaVars, mirrorVars, accountsVars, migrationVars, turn>>

\* The state of each component keeps its shape, bounds included.
ServicesTypeOK ==
  QuotaTypeOK /\ MirrorTypeOK /\ AccountsTypeOK /\ MigrationTypeOK
===============================================================================
