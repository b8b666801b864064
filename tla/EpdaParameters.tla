---------------------------- MODULE EpdaParameters ----------------------------
(***************************************************************************)
(* The tariff parameters behind an EPDA: one set per area, named groups of *)
(* ports inside an area, one override per port, and the ports of a group.  *)
(* Staff save what they edited on a page that showed an earlier version;   *)
(* every save names the version it replaces (expectedVersion).             *)
(*                                                                         *)
(* Area and port sets are read and written without a lock: the UPDATE and  *)
(* the DELETE look at the version again.  Whatever concerns a group runs   *)
(* under an advisory lock of the group's area until its transaction ends.  *)
(***************************************************************************)
EXTENDS Integers, FiniteSets

CONSTANTS
  EpdaAreas,      \* areas of provinces
  EpdaPorts,
  EpdaClerks,     \* concurrently running requests
  Amounts,        \* values of a tariff
  DefaultAmount,  \* defaultValuesForArea
  Unset,          \* a tariff a document does not mention
  NoSet,          \* there is no such set, expectedVersion = null
  MaxSetId,       \* bound: rows the sequence can number
  MaxEpdaSaves,   \* bound: requests
  MaxPortMoves,   \* bound: ports that get another province
  StartGroups     \* groups there are at first: [ids -> areas]

ASSUME EpdaAssumption ==
  /\ DefaultAmount \in Amounts /\ Unset \notin Amounts
  /\ {MaxSetId, MaxEpdaSaves, MaxPortMoves} \subseteq Nat
  /\ StartGroups \in [DOMAIN StartGroups -> EpdaAreas]
  /\ \E n \in 0 .. MaxSetId : DOMAIN StartGroups = 1 .. n

SetIds  == 1 .. MaxSetId
Targets == ({"AREA"} \X EpdaAreas) \cup ({"PORT"} \X EpdaPorts)
             \cup ({"GROUP"} \X SetIds)
Tariffs == Amounts \cup {Unset}

\* A row of epda_parameter_set; only groups have an area of their own here.
ParameterSet == [id : SetIds, version : Nat, values : Tariffs,
                 area : EpdaAreas \cup {NoSet}]

ASSUME NoSetAssumption == NoSet \notin ParameterSet \cup EpdaAreas

VARIABLES
  sets,      \* [Targets -> ParameterSet or NoSet], committed
  members,   \* epda_parameter_group_members: pairs <<group, port>>
  portArea,  \* the area of each port's province
  clerk,     \* [EpdaClerks -> the request]
  nextSetId, \* the sequence
  saves, moves

epdaVars == <<sets, members, portArea, clerk, nextSetId, saves, moves>>

NoSave == [pc |-> "none"]
GroupOps == {"createGroup", "updateGroup", "deleteGroup", "setGroupMembers"}

EpdaInit ==
  /\ sets = [t \in Targets |->
       IF t[1] = "GROUP" /\ t[2] \in DOMAIN StartGroups
       THEN [id |-> t[2], version |-> 1, values |-> Unset,
             area |-> StartGroups[t[2]]]
       ELSE NoSet]
  /\ nextSetId = Cardinality(DOMAIN StartGroups) + 1
  /\ members = {}
  /\ portArea \in [EpdaPorts -> EpdaAreas]
  /\ clerk = [c \in EpdaClerks |-> NoSave]
  /\ saves = 0 /\ moves = 0

-----------------------------------------------------------------------------
(* The page shows a set, or that there is none; the request it sends       *)
(* arrives later.                                                          *)

Send(c, op, target, body) ==
  /\ clerk[c].pc = "none" /\ saves < MaxEpdaSaves
  /\ saves' = saves + 1
  /\ clerk' = [clerk EXCEPT ![c] =
       [pc |-> "arrived", op |-> op, target |-> target, body |-> body,
        seen |-> sets[target], cur |-> NoSet, gone |-> {}]]
  /\ UNCHANGED <<sets, members, portArea, nextSetId, moves>>

SendArea(c, a) == \E v \in Tariffs : Send(c, "upsertArea", <<"AREA", a>>, v)

\* An override that mentions nothing is refused.
SendPort(c, p) == \E v \in Amounts : Send(c, "upsertPort", <<"PORT", p>>, v)

SendDeletePort(c, p) == /\ sets[<<"PORT", p>>] # NoSet
                        /\ Send(c, "deletePort", <<"PORT", p>>, Unset)

SendGroup(c, g) ==
  /\ sets[<<"GROUP", g>>] # NoSet
  /\ \/ \E v \in Tariffs : Send(c, "updateGroup", <<"GROUP", g>>, v)
     \/ Send(c, "deleteGroup", <<"GROUP", g>>, Unset)
     \/ \E ports \in SUBSET EpdaPorts :
          Send(c, "setGroupMembers", <<"GROUP", g>>, ports)

-----------------------------------------------------------------------------
(* EpdaParameterVersionControl                                             *)

\* assertExpectedVersion, createAfterVersionCheck: in production the version
\* must be given, and null says that there was no set.
VersionFits(row, seen) ==
  IF row = NoSet THEN seen = NoSet
                 ELSE seen # NoSet /\ seen.version = row.version

\* Mutant of StillCurrent: UPDATE ... WHERE id.
SameRow(t, cur) == sets[t] # NoSet /\ sets[t].id = cur.id

\* The UPDATE and the DELETE compare the version the transaction has read.
StillCurrent(t, cur) ==
  sets[t] # NoSet /\ sets[t].id = cur.id /\ sets[t].version = cur.version

Bumped(row, values) == [row EXCEPT !.values = values, !.version = @ + 1]

FinishSave(c) == clerk' = [clerk EXCEPT ![c] = NoSave]

RefuseSave(c) ==
  FinishSave(c) /\ UNCHANGED <<sets, members, portArea, nextSetId, saves, moves>>

CommitSet(c, t, row) ==
  /\ sets' = [sets EXCEPT ![t] = row]
  /\ FinishSave(c)
  /\ UNCHANGED <<portArea, saves, moves>>

-----------------------------------------------------------------------------
(* upsertArea, upsertPort, deletePort                                      *)

\* getAreaSet and findPortOverride; what deletePort does not find is deleted.
FindSet(c) ==
  LET row == sets[clerk[c].target] IN
  /\ clerk[c].pc = "arrived" /\ clerk[c].op \notin GroupOps
  /\ IF VersionFits(row, clerk[c].seen)
     THEN clerk' = [clerk EXCEPT ![c].pc = "write", ![c].cur = row]
     ELSE FinishSave(c)
  /\ UNCHANGED <<sets, members, portArea, nextSetId, saves, moves>>

\* An area keeps what the body does not mention (resolveEpdaParameterValues),
\* a port's override is replaced as a whole.
NewValues(op, old, body) ==
  IF op # "upsertArea" \/ body # Unset THEN body
  ELSE IF old = NoSet THEN DefaultAmount ELSE old.values

\* Whether the statement affects a row: the INSERT, unless the unique index on
\* area or port objects, the UPDATE, and the DELETE, which names the port and
\* the version but not the id.
Applies(q) ==
  IF q.cur = NoSet THEN sets[q.target] = NoSet
  ELSE IF q.op = "deletePort"
       THEN /\ sets[q.target] # NoSet
            /\ sets[q.target].version = q.cur.version
       ELSE StillCurrent(q.target, q.cur)

InsertSet(c) ==
  LET q == clerk[c] IN
  /\ q.pc = "write" /\ q.op \notin GroupOps /\ q.cur = NoSet
  /\ Applies(q) /\ nextSetId \in SetIds
  /\ CommitSet(c, q.target,
       [id |-> nextSetId, version |-> 1, area |-> NoSet,
        values |-> NewValues(q.op, NoSet, q.body)])
  /\ nextSetId' = nextSetId + 1 /\ UNCHANGED members

UpdateSet(c) ==
  LET q == clerk[c] IN
  /\ q.pc = "write" /\ q.op \in {"upsertArea", "upsertPort"} /\ q.cur # NoSet
  /\ Applies(q)
  /\ CommitSet(c, q.target,
       Bumped(sets[q.target], NewValues(q.op, q.cur, q.body)))
  /\ UNCHANGED <<members, nextSetId>>

DeletePortSet(c) ==
  LET q == clerk[c] IN
  /\ q.pc = "write" /\ q.op = "deletePort" /\ Applies(q)
  /\ CommitSet(c, q.target, NoSet)
  /\ UNCHANGED <<members, nextSetId>>

\* throwVersionConflict, or the index's error: the transaction rolls back.
ConflictSave(c) ==
  /\ clerk[c].pc = "write" /\ clerk[c].op \notin GroupOps
  /\ ~Applies(clerk[c])
  /\ RefuseSave(c)

-----------------------------------------------------------------------------
(* Groups                                                                  *)

AreaOf(q) == IF q.op = "createGroup" THEN q.body ELSE q.seen.area

HoldsArea(c) == clerk[c].pc \in {"replace", "write"} /\ clerk[c].op \in GroupOps

\* Mutant of AreaFree: no advisory lock.
AreaAlwaysFree(c) == TRUE

\* pg_advisory_xact_lock of the area: free until its holder's transaction ends.
AreaFree(c) ==
  \A d \in EpdaClerks \ {c} :
    HoldsArea(d) => AreaOf(clerk[d]) # AreaOf(clerk[c])

\* createGroup
SendCreateGroup(c, a) ==
  /\ clerk[c].pc = "none" /\ saves < MaxEpdaSaves
  /\ saves' = saves + 1
  /\ clerk' = [clerk EXCEPT ![c] =
       [pc |-> "arrived", op |-> "createGroup", target |-> NoSet, body |-> a,
        seen |-> NoSet, cur |-> NoSet, gone |-> {}]]
  /\ UNCHANGED <<sets, members, portArea, nextSetId, moves>>

CreateGroup(c) ==
  LET q == clerk[c] IN
  /\ q.pc = "arrived" /\ q.op = "createGroup" /\ AreaFree(c)
  /\ nextSetId \in SetIds
  /\ CommitSet(c, <<"GROUP", nextSetId>>,
       [id |-> nextSetId, version |-> 1, values |-> Unset, area |-> q.body])
  /\ nextSetId' = nextSetId + 1 /\ UNCHANGED members

\* Under the lock the group is read again and its version compared; the ports
\* to be its members must be ports of its area.
LockGroup(c) ==
  LET q == clerk[c] row == sets[q.target] IN
  /\ q.pc = "arrived" /\ q.op \in GroupOps \ {"createGroup"} /\ AreaFree(c)
  /\ IF /\ row # NoSet /\ VersionFits(row, q.seen)
        /\ q.op = "setGroupMembers" => \A p \in q.body : portArea[p] = row.area
     THEN clerk' = [clerk EXCEPT ![c].cur = row, ![c].pc =
            IF q.op = "setGroupMembers" THEN "replace" ELSE "write"]
     ELSE FinishSave(c)
  /\ UNCHANGED <<sets, members, portArea, nextSetId, saves, moves>>

\* The DELETEs of setGroupMembers remove the memberships committed by now, of
\* the group and of its new ports in any group.
ReplaceMembers(c) ==
  LET q == clerk[c] IN
  /\ q.pc = "replace"
  /\ clerk' = [clerk EXCEPT ![c].pc = "write", ![c].gone =
       {m \in members : m[1] = q.target[2] \/ m[2] \in q.body}]
  /\ UNCHANGED <<sets, members, portArea, nextSetId, saves, moves>>

CommitMembers(c) ==
  LET q == clerk[c] IN
  /\ q.pc = "write" /\ q.op = "setGroupMembers"
  /\ IF StillCurrent(q.target, q.cur)
     THEN /\ members' = (members \ q.gone) \cup ({q.target[2]} \X q.body)
          /\ CommitSet(c, q.target, Bumped(q.cur, sets[q.target].values))
          /\ UNCHANGED nextSetId
     ELSE RefuseSave(c)

UpdateGroup(c) ==
  LET q == clerk[c] IN
  /\ q.pc = "write" /\ q.op = "updateGroup"
  /\ IF StillCurrent(q.target, q.cur)
     THEN /\ CommitSet(c, q.target, Bumped(sets[q.target], q.body))
          /\ UNCHANGED <<members, nextSetId>>
     ELSE RefuseSave(c)

\* The memberships go with the group: ON DELETE CASCADE.
DeleteGroup(c) ==
  LET q == clerk[c] IN
  /\ q.pc = "write" /\ q.op = "deleteGroup"
  /\ IF StillCurrent(q.target, q.cur)
     THEN /\ members' = {m \in members : m[1] # q.target[2]}
          /\ CommitSet(c, q.target, NoSet)
          /\ UNCHANGED nextSetId
     ELSE RefuseSave(c)

-----------------------------------------------------------------------------
\* A port gets a province of another area, or its province another area.
MovePort(p) ==
  /\ moves < MaxPortMoves
  /\ moves' = moves + 1
  /\ \E a \in EpdaAreas \ {portArea[p]} : portArea' = [portArea EXCEPT ![p] = a]
  /\ UNCHANGED <<sets, members, clerk, nextSetId, saves>>

\* An error or a crash: the transaction rolls back.
DropSave(c) == clerk[c].pc # "none" /\ RefuseSave(c)

SendSave(c) == \/ \E a \in EpdaAreas : SendArea(c, a) \/ SendCreateGroup(c, a)
               \/ \E p \in EpdaPorts : SendPort(c, p) \/ SendDeletePort(c, p)
               \/ \E g \in SetIds : SendGroup(c, g)

SaveStep(c) == \/ FindSet(c) \/ InsertSet(c) \/ UpdateSet(c)
               \/ DeletePortSet(c) \/ ConflictSave(c) \/ CreateGroup(c)
               \/ LockGroup(c) \/ ReplaceMembers(c) \/ CommitMembers(c)
               \/ UpdateGroup(c) \/ DeleteGroup(c)

EpdaNext == \/ \E c \in EpdaClerks : SendSave(c) \/ SaveStep(c) \/ DropSave(c)
            \/ \E p \in EpdaPorts : MovePort(p)

EpdaSpec == EpdaInit /\ [][EpdaNext]_epdaVars

-----------------------------------------------------------------------------
(* Properties                                                              *)

\* A port is in at most one group of an area, so its effective tariffs are the
\* same however findGroupForPort comes across the group: also when two groups
\* take the port at once, and although ports move between areas.
OneGroupPerAreaAndPort ==
  \A m, n \in members :
    /\ m[2] = n[2]
    /\ sets[<<"GROUP", m[1]>>].area = sets[<<"GROUP", n[1]>>].area
    => m = n

\* A save of an area or of a group replaces what its sender saw on the page,
\* or is refused: no edit of a colleague is overwritten unseen.  (Of a port's
\* override the code cannot promise it: a deleted override's version 1 comes
\* back with the next one.)
SavesReplaceWhatWasSeen ==
  [][\A c \in EpdaClerks :
       LET q == clerk[c] IN
       q.pc # "none" /\ clerk'[c].pc = "none" /\ sets' # sets
         /\ q.op \in {"upsertArea", "updateGroup", "deleteGroup",
                      "setGroupMembers"} =>
         q.seen = sets[q.target]]_epdaVars
=============================================================================
