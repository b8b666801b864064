------------------------------- MODULE RoleAdmin -------------------------------
(***************************************************************************)
(* Roles, their section grants, the users who hold them, and the in-memory *)
(* grants cache of one process (roles-admin.service.ts,                    *)
(* section-access.service.ts, admin-users.service.ts updateUserRole).      *)
(* Names and descriptions of roles are left out: a clash of names is one   *)
(* of the reasons for which Refuse ends a transaction.                     *)
(***************************************************************************)
EXTENDS Integers, FiniteSets, EntitySave

CONSTANTS
  RoleIds,       \* ids roles have or may be given
  AdminRole,     \* the role that isAdminRoleName recognizes
  StaffIds,      \* users
  Sections,      \* GRANTABLE_SECTION_KEYS
  Transactions,  \* role edits at one time
  Assignments,   \* saves of a user entity at one time
  Lookups,       \* section checks at one time
  GrantTtl,      \* CACHE_TTL_MS in ticks
  StartRoles,    \* roles and holders a behaviour starts with
  NoRole,
  MaxEdits,      \* bound: role edits
  MaxAssignments \* bound: saves of a user entity

ASSUME GrantAssumption ==
  GrantTtl \in Nat /\ MaxEdits \in Nat /\ MaxAssignments \in Nat
ASSUME RoleAssumption == AdminRole \in RoleIds

VARIABLES
  roles,    \* [RoleIds -> [group, sections] or NoRole], committed
  staff,    \* [StaffIds -> [role, version]], committed
  edit,     \* [Transactions -> a createRole, updateRole or deleteRole]
  assign,   \* [Assignments -> a whole-entity save of a user]
  grants,   \* the cache: [Keys -> [sections, left]], left = 0 means no entry
  lookup,   \* [Lookups -> a canAccessSection]
  spare,    \* ids the sequence has not given yet
  edits, assigned   \* counters of the bounds

roleVars == <<roles, staff, edit, assign, grants, lookup, spare, edits, assigned>>

RoleGroups == {"INTERNAL", "EXTERNAL"}
RoleRow == [group : RoleGroups, sections : SUBSET Sections]

\* The users of the model have a role, which the foreign key of users.role_id keeps
\* in existence.
ASSUME StartRolesAssumption ==
  /\ NoRole \notin RoleRow
  /\ \A start \in StartRoles :
       /\ start.roles \in [RoleIds -> RoleRow \cup {NoRole}]
       /\ start.staff \in [StaffIds -> [role : RoleIds, version : Nat \ {0}]]
       /\ \A u \in StaffIds : start.roles[start.staff[u].role] # NoRole

\* cacheKey: user, role and session version.
Keys == StaffIds \X RoleIds \X (1 .. MaxAssignments + 1)
KeyOf(u, entity) == <<u, entity.role, entity.version>>

NoEdit == [op |-> "none"]
NoAssignment == [pc |-> "none"]
NoLookup == [pc |-> "none"]
NoGrants == [sections |-> {}, left |-> 0]

RolesInit ==
  /\ \E start \in StartRoles : roles = start.roles /\ staff = start.staff
  /\ edit = [t \in Transactions |-> NoEdit]
  /\ assign = [a \in Assignments |-> NoAssignment]
  /\ grants = [k \in Keys |-> NoGrants]
  /\ lookup = [l \in Lookups |-> NoLookup]
  /\ spare = {r \in RoleIds : roles[r] = NoRole}
  /\ edits = 0 /\ assigned = 0

Holders(r) == {u \in StaffIds : staff[u].role = r}

-----------------------------------------------------------------------------
(* createRole, updateRole, deleteRole.                                     *)

\* Mutant of Locked: findOne without a lock mode.
LockedNever(r) == FALSE

\* A transaction has the row FOR UPDATE until it ends.
Locked(r) ==
  \E t \in Transactions : edit[t].op \in {"update", "delete"} /\ edit[t].role = r

\* replaceSections drops the role's cached grants before the commit.
Dropped(r) == [k \in Keys |-> IF k[2] = r THEN NoGrants ELSE grants[k]]

BeginCreate(t, r, group, sections) ==
  /\ edit[t].op = "none" /\ edits < MaxEdits
  /\ r \in spare /\ spare' = spare \ {r}
  /\ group = "EXTERNAL" => sections = {}
  /\ edit' = [edit EXCEPT ![t] =
       [op |-> "create", role |-> r, dropped |-> TRUE,
        new |-> [group |-> group, sections |-> sections]]]
  /\ edits' = edits + 1
  /\ grants' = Dropped(r)
  /\ UNCHANGED <<roles, staff, assign, lookup, assigned>>

\* The configuration updateRole accepts: the administrator keeps identity,
\* group and access; external roles have no sections; a role somebody holds
\* keeps its group.  Moving a role out of INTERNAL clears its sections.
BeginUpdate(t, r, group, sections) ==
  /\ edit[t].op = "none" /\ edits < MaxEdits
  /\ roles[r] # NoRole /\ ~Locked(r)
  /\ r # AdminRole
  /\ group = "EXTERNAL" => sections = {}
  /\ group # roles[r].group => Holders(r) = {}
  /\ edit' = [edit EXCEPT ![t] =
       [op |-> "update", role |-> r,
        dropped |-> (sections = roles[r].sections /\ group = "INTERNAL"),
        new |-> [group |-> group, sections |-> sections]]]
  /\ edits' = edits + 1
  /\ UNCHANGED <<roles, staff, assign, grants, lookup, spare, assigned>>

\* replaceSections inside the transaction.
ReplaceSections(t) ==
  /\ edit[t].op = "update" /\ ~edit[t].dropped
  /\ grants' = Dropped(edit[t].role)
  /\ edit' = [edit EXCEPT ![t].dropped = TRUE]
  /\ UNCHANGED <<roles, staff, assign, lookup, spare, edits, assigned>>

BeginDelete(t, r) ==
  /\ edit[t].op = "none" /\ edits < MaxEdits
  /\ roles[r] # NoRole /\ ~Locked(r)
  /\ r # AdminRole /\ Holders(r) = {}
  /\ edit' = [edit EXCEPT ![t] = [op |-> "delete", role |-> r, dropped |-> TRUE,
                                   new |-> NoRole]]
  /\ edits' = edits + 1
  /\ UNCHANGED <<roles, staff, assign, grants, lookup, spare, assigned>>

\* The commit; the foreign key of users.role_id keeps a role in use.
CommitEdit(t) ==
  LET r == edit[t].role IN
  /\ edit[t].op # "none" /\ edit[t].dropped
  /\ edit[t].op = "delete" => Holders(r) = {}
  /\ roles' = [roles EXCEPT ![r] = edit[t].new]
  /\ edit' = [edit EXCEPT ![t] = NoEdit]
  /\ UNCHANGED <<staff, assign, grants, lookup, spare, edits, assigned>>

\* Any error: the transaction is rolled back, what was dropped stays dropped.
Refuse(t) ==
  /\ edit[t].op # "none"
  /\ edit' = [edit EXCEPT ![t] = NoEdit]
  /\ UNCHANGED <<roles, staff, assign, grants, lookup, spare, edits, assigned>>

-----------------------------------------------------------------------------
(* updateUserRole, and the other saves of a whole user entity.             *)

\* The user is loaded with its role.
LoadUser(a, u, target) ==
  /\ assign[a].pc = "none" /\ assigned < MaxAssignments
  /\ assign' = [assign EXCEPT ![a] =
       [pc |-> IF target = NoRole THEN "save" ELSE "find", user |-> u,
        entity |-> staff[u], group |-> roles[staff[u].role].group,
        target |-> target, columns |-> {}]]
  /\ assigned' = assigned + 1
  /\ UNCHANGED <<roles, staff, edit, grants, lookup, spare, edits>>

\* The new role must exist and belong to the same group.
FindRole(a) ==
  LET r == assign[a].target IN
  /\ assign[a].pc = "find"
  /\ assign' =
       IF roles[r] # NoRole /\ roles[r].group = assign[a].group
       THEN [assign EXCEPT ![a].pc = "save", ![a].entity.role = r,
                           ![a].entity.version = @ + 1]
       ELSE [assign EXCEPT ![a] = NoAssignment]
  /\ UNCHANGED <<roles, staff, edit, grants, lookup, spare, edits, assigned>>

ReloadUser(a) ==
  /\ assign[a].pc = "save"
  /\ assign' = [assign EXCEPT ![a].pc = "flush",
        ![a].columns = Differing(assign[a].entity, staff[assign[a].user])]
  /\ UNCHANGED <<roles, staff, edit, grants, lookup, spare, edits, assigned>>

\* The UPDATE.  A new role_id waits for the role's row lock and is refused
\* when the role is gone.
FlushUser(a) ==
  LET u == assign[a].user
      r == assign[a].entity.role
      assigns == "role" \in assign[a].columns
  IN /\ assign[a].pc = "flush"
     /\ assigns => ~Locked(r)
     /\ staff' = IF assigns /\ roles[r] = NoRole THEN staff
                 ELSE [staff EXCEPT ![u] =
                        Overwritten(@, assign[a].entity, assign[a].columns)]
     /\ assign' = [assign EXCEPT ![a] = NoAssignment]
     /\ UNCHANGED <<roles, edit, grants, lookup, spare, edits, assigned>>

-----------------------------------------------------------------------------
(* canAccessSection and its cache.                                         *)

\* JwtStrategy attaches the user with its role.
Ask(l, u) ==
  /\ lookup[l].pc \in {"none", "answered"}
  /\ lookup' = [lookup EXCEPT ![l] =
       [pc |-> "asked", user |-> u, entity |-> staff[u],
        group |-> roles[staff[u].role].group, sections |-> {}]]
  /\ UNCHANGED <<roles, staff, edit, assign, grants, spare, edits, assigned>>

CacheKey(u, entity) == KeyOf(u, entity)

Answered(l, sections) ==
  [lookup EXCEPT ![l].pc = "answered", ![l].sections = sections]

\* External roles have nothing, the administrator everything, the others what
\* the cache holds for them, if it does.
Consult(l) ==
  LET entry == grants[CacheKey(lookup[l].user, lookup[l].entity)] IN
  /\ lookup[l].pc = "asked"
  /\ lookup' =
       CASE lookup[l].group # "INTERNAL" -> Answered(l, {})
         [] lookup[l].entity.role = AdminRole -> Answered(l, Sections)
         [] entry.left > 0 -> Answered(l, entry.sections)
         [] OTHER -> [lookup EXCEPT ![l].pc = "query"]
  /\ UNCHANGED <<roles, staff, edit, assign, grants, spare, edits, assigned>>

\* getSectionKeysForRole; a deleted role has no rows.
Query(l) ==
  LET r == lookup[l].entity.role IN
  /\ lookup[l].pc = "query"
  /\ lookup' = [lookup EXCEPT ![l].pc = "store",
                  ![l].sections = IF roles[r] = NoRole THEN {}
                                  ELSE roles[r].sections]
  /\ UNCHANGED <<roles, staff, edit, assign, grants, spare, edits, assigned>>

Store(l) ==
  /\ lookup[l].pc = "store"
  /\ grants' = [grants EXCEPT ![CacheKey(lookup[l].user, lookup[l].entity)] =
                  [sections |-> lookup[l].sections, left |-> GrantTtl]]
  /\ lookup' = Answered(l, lookup[l].sections)
  /\ UNCHANGED <<roles, staff, edit, assign, spare, edits, assigned>>

\* Mutant of Aged: a hit renews the entry for ever.
AgedNever(entry) == entry

\* A moment passes: an entry that has expired counts for nothing.
Aged(entry) ==
  IF entry.left <= 1 THEN NoGrants ELSE [entry EXCEPT !.left = @ - 1]

Pass ==
  /\ grants' = [k \in Keys |-> Aged(grants[k])]
  /\ UNCHANGED <<roles, staff, edit, assign, lookup, spare, edits, assigned>>

EditStep(t) == ReplaceSections(t) \/ CommitEdit(t) \/ Refuse(t)
AssignStep(a) == FindRole(a) \/ ReloadUser(a) \/ FlushUser(a)
LookupStep(l) == Consult(l) \/ Query(l) \/ Store(l)

RolesNext ==
  \/ \E t \in Transactions :
       \/ EditStep(t)
       \/ \E r \in RoleIds :
            \/ BeginDelete(t, r)
            \/ \E group \in RoleGroups, sections \in SUBSET Sections :
                 \/ BeginCreate(t, r, group, sections)
                 \/ BeginUpdate(t, r, group, sections)
  \/ \E a \in Assignments :
       \/ AssignStep(a)
       \/ \E u \in StaffIds, r \in RoleIds \cup {NoRole} : LoadUser(a, u, r)
  \/ \E l \in Lookups : LookupStep(l) \/ (\E u \in StaffIds : Ask(l, u))
  \/ Pass

\* Transactions and queries come to an end, and time passes.
RolesFairness ==
  /\ \A t \in Transactions : WF_roleVars(EditStep(t))
  /\ \A a \in Assignments : WF_roleVars(AssignStep(a))
  /\ \A l \in Lookups : WF_roleVars(LookupStep(l))
  /\ WF_roleVars(Pass)

RolesSpec == RolesInit /\ [][RolesNext]_roleVars /\ RolesFairness

-----------------------------------------------------------------------------
RolesTypeOK ==
  /\ roles \in [RoleIds -> RoleRow \cup {NoRole}]
  /\ staff \in [StaffIds -> [role : RoleIds, version : Nat \ {0}]]
  /\ grants \in [Keys -> [sections : SUBSET Sections, left : 0 .. GrantTtl]]

\* Nobody is moved between the internal and the external group, or loses the
\* role, because the role changes while the user holds it: not even when the
\* role is given to the user while it is edited.
UsedRolesKeepTheirGroup ==
  [][\A u \in StaffIds :
       /\ roles'[staff[u].role] # NoRole
       /\ roles'[staff[u].role].group = roles[staff[u].role].group]_roleVars

\* When the edits are over the cache comes to agree with the grants for good,
\* although it may be filled between the invalidation and the commit.
GrantsConverge ==
  <>[](\A k \in Keys : grants[k].left > 0 /\ roles[k[2]] # NoRole =>
         grants[k].sections = roles[k[2]].sections)
=============================================================================
