------------------------ MODULE EpdaParameters_proofs ------------------------
(***************************************************************************)
(* Proofs about EpdaParameters for any number of areas, ports, groups and  *)
(* requests: a port has one group per area, and a save replaces what its   *)
(* sender saw.                                                             *)
(***************************************************************************)
EXTENDS EpdaParameters, FiniteSetTheorems, TLAPS

Rows == ParameterSet \cup {NoSet}
GroupSaves == {"updateGroup", "deleteGroup", "setGroupMembers"}
Watched == GroupSaves \cup {"upsertArea"}
Saves == Watched \cup {"upsertPort", "deletePort", "createGroup"}

Request ==
  [pc : {"arrived", "replace", "write"}, op : Saves, target : Targets \cup {NoSet},
   body : Tariffs \cup EpdaAreas \cup SUBSET EpdaPorts,
   seen : Rows, cur : Rows, gone : SUBSET (SetIds \X EpdaPorts)]

\* What the operation makes of the other fields.  Past the comparison of the
\* versions the row that was read is the row that was seen.
Shaped(q) ==
  /\ q \in Request
  /\ q.op = "createGroup" => q.pc = "arrived" /\ q.body \in EpdaAreas
  /\ q.op = "upsertArea" => q.target \in {"AREA"} \X EpdaAreas
  /\ q.op \in {"upsertPort", "deletePort"} => q.target \in {"PORT"} \X EpdaPorts
  /\ q.op \in GroupSaves => /\ q.target \in {"GROUP"} \X SetIds
                            /\ q.seen \in ParameterSet /\ q.seen.area \in EpdaAreas
  /\ q.op = "setGroupMembers" => q.body \subseteq EpdaPorts
  /\ q.op \notin {"setGroupMembers", "createGroup"} => q.body \in Tariffs
  /\ q.pc = "replace" => q.op = "setGroupMembers"
  /\ q.pc # "arrived" /\ q.op \in Watched => q.cur = q.seen

\* A later row of the same set: equal, or of a later version.
Follows(old, row) ==
  old # NoSet /\ row # NoSet =>
    row = old \/ (row.area = old.area /\ row.version > old.version)

\* The memberships of the area that a replacement of members concerns.
Concerned(q) ==
  {m \in members : /\ sets[<<"GROUP", m[1]>>].area = q.seen.area
                   /\ m[1] = q.target[2] \/ m[2] \in q.body}

\* Nothing a request has seen comes back with other values under a version
\* that was used; a replacement has deleted every membership it concerns.
Timely(q) ==
  /\ q.op \in GroupSaves => q.target[2] < nextSetId
  /\ q.op = "upsertArea" /\ q.seen # NoSet => sets[q.target] # NoSet
  /\ q.op \in Watched => Follows(q.seen, sets[q.target])
  /\ q.op = "setGroupMembers" /\ q.pc = "write" => Concerned(q) \subseteq q.gone

Fits(q) == q = NoSave \/ (Shaped(q) /\ Timely(q))

SetsInv ==
  /\ sets \in [Targets -> Rows] /\ nextSetId \in Nat \ {0}
  /\ \A g \in SetIds : sets[<<"GROUP", g>>] # NoSet =>
       g < nextSetId /\ sets[<<"GROUP", g>>].area \in EpdaAreas
  /\ members \subseteq SetIds \X EpdaPorts
  /\ \A m \in members : sets[<<"GROUP", m[1]>>] # NoSet

ClerksInv ==
  /\ clerk = [c \in EpdaClerks |-> clerk[c]]
  /\ \A c \in EpdaClerks : Fits(clerk[c])

\* Two requests that hold advisory locks hold those of different areas.
LocksApart ==
  \A c, d \in EpdaClerks :
    HoldsArea(c) /\ HoldsArea(d) /\ c # d => AreaOf(clerk[c]) # AreaOf(clerk[d])

EpdaInv == SetsInv /\ ClerksInv /\ LocksApart /\ OneGroupPerAreaAndPort

LEMMA EpdaInitInv == EpdaInit => EpdaInv
<1> SUFFICES ASSUME EpdaInit PROVE EpdaInv
  OBVIOUS
<1>1. PICK n \in 0 .. MaxSetId : DOMAIN StartGroups = 1 .. n
  BY EpdaAssumption
<1>2. Cardinality(1 .. n) = n
  <2>1. n \in Nat
    BY <1>1, EpdaAssumption
  <2>2. Cardinality(1 .. n) = IF 1 > n THEN 0 ELSE n - 1 + 1
    BY <2>1, FS_Interval
  <2>3. QED
    BY <2>1, <2>2
<1>3. nextSetId = n + 1 /\ nextSetId \in Nat \ {0}
  BY <1>1, <1>2, EpdaAssumption DEF EpdaInit
<1>4. \A g \in SetIds : g \in DOMAIN StartGroups => g < nextSetId
  BY <1>1, <1>3, EpdaAssumption DEF SetIds
<1>5. ASSUME NEW t \in Targets
      PROVE  /\ sets[t] \in Rows
             /\ t[1] = "GROUP" /\ sets[t] # NoSet =>
                  t[2] < nextSetId /\ sets[t].area \in EpdaAreas
  <2>1. CASE t[1] = "GROUP" /\ t[2] \in DOMAIN StartGroups
    <3> DEFINE row == [id |-> t[2], version |-> 1, values |-> Unset,
                       area |-> StartGroups[t[2]]]
    <3>1. sets[t] = row
      BY <2>1 DEF EpdaInit
    <3>2. t[2] \in SetIds
      BY <1>1, <2>1, EpdaAssumption DEF SetIds
    <3>3. StartGroups[t[2]] \in EpdaAreas
      BY <2>1, EpdaAssumption
    <3>4. row \in ParameterSet /\ row.area \in EpdaAreas
      BY <3>2, <3>3 DEF ParameterSet, Tariffs
    <3> HIDE DEF row
    <3>5. QED
      BY <1>4, <2>1, <3>1, <3>2, <3>4 DEF Rows
  <2>2. CASE ~(t[1] = "GROUP" /\ t[2] \in DOMAIN StartGroups)
    BY <2>2 DEF EpdaInit, Rows
  <2>3. QED
    BY <2>1, <2>2
<1>6. \A g \in SetIds : <<"GROUP", g>> \in Targets
  BY DEF Targets
<1>7. SetsInv
  <2>1. sets \in [Targets -> Rows]
    BY <1>5 DEF EpdaInit
  <2>2. \A g \in SetIds : sets[<<"GROUP", g>>] # NoSet =>
          g < nextSetId /\ sets[<<"GROUP", g>>].area \in EpdaAreas
    BY <1>5, <1>6
  <2>3. members = {}
    BY DEF EpdaInit
  <2>4. QED
    BY <1>3, <2>1, <2>2, <2>3 DEF SetsInv
<1>8. ClerksInv
  BY DEF EpdaInit, ClerksInv, Fits
<1>9. LocksApart /\ OneGroupPerAreaAndPort
  BY DEF EpdaInit, LocksApart, OneGroupPerAreaAndPort, HoldsArea, NoSave
<1>10. QED
  BY <1>7, <1>8, <1>9 DEF EpdaInv

\* What a step may do to the rows: a new version of the same area, a new group
\* under an unused number, a removal; an area's set is never removed.
RowsFollow ==
  \A t \in Targets :
    t[1] # "PORT" => /\ Follows(sets[t], sets'[t])
                     /\ t[1] = "AREA" /\ sets[t] # NoSet => sets'[t] # NoSet
                     /\ t[1] = "GROUP" /\ t[2] < nextSetId /\ sets[t] = NoSet =>
                          sets'[t] = NoSet

\* A request that does not move stays timely if no membership of its area is
\* added.
LEMMA StaysTimely ==
  ASSUME SetsInv, SetsInv', RowsFollow, nextSetId <= nextSetId',
         NEW q, Shaped(q), Timely(q),
         q.op = "setGroupMembers" /\ q.pc = "write" =>
           \A m \in members' \ members :
             sets'[<<"GROUP", m[1]>>].area # q.seen.area
  PROVE  Timely(q)'
<1>1. q.op \in GroupSaves => q.target[2] < nextSetId'
  <2>1. q.op \in GroupSaves => q.target[2] \in Nat
    BY DEF Shaped, SetIds
  <2>2. QED
    BY <2>1 DEF Timely, SetsInv
<1>2. q.op = "upsertArea" => /\ q.target \in Targets /\ q.target[1] = "AREA"
  BY DEF Shaped, Targets
<1>3. q.op \in GroupSaves => /\ q.target \in Targets /\ q.target[1] = "GROUP"
                             /\ q.target[2] < nextSetId
  BY DEF Shaped, Targets, Timely
<1>4. q.op = "upsertArea" /\ q.seen # NoSet => sets'[q.target] # NoSet
  BY <1>2 DEF Timely, RowsFollow
<1>5. q.op \in Watched => Follows(q.seen, sets'[q.target])
  <2>1. SUFFICES ASSUME q.op \in Watched, q.seen # NoSet, sets'[q.target] # NoSet
                 PROVE  Follows(q.seen, sets'[q.target])
    BY DEF Follows
  <2> DEFINE row == sets[q.target]
             next == sets'[q.target]
  <2>2. q.target \in Targets /\ q.target[1] # "PORT"
    BY <1>2, <1>3, <2>1 DEF Watched
  <2>3. row # NoSet
    BY <1>2, <1>3, <2>1 DEF Watched, RowsFollow, Timely
  <2>4. Follows(q.seen, row) /\ Follows(row, next)
    BY <2>1, <2>2 DEF Timely, RowsFollow
  <2>5. row.version \in Nat /\ next.version \in Nat /\ q.seen.version \in Nat
    BY <2>1, <2>2, <2>3 DEF SetsInv, Rows, ParameterSet, Shaped, Request
  <2> HIDE DEF row, next
  <2>6. Follows(q.seen, next)
    BY <2>3, <2>4, <2>5 DEF Follows
  <2>7. QED
    BY <2>6 DEF next
<1>6. ASSUME q.op = "setGroupMembers", q.pc = "write",
             NEW m \in members', sets'[<<"GROUP", m[1]>>].area = q.seen.area,
             m[1] = q.target[2] \/ m[2] \in q.body
      PROVE  m \in q.gone
  <2> DEFINE t == <<"GROUP", m[1]>>
  <2>1. m \in members
    BY <1>6
  <2>2. t \in Targets /\ t[1] = "GROUP"
    BY <2>1 DEF SetsInv, Targets
  <2>3. sets[t] # NoSet /\ sets'[t] # NoSet
    BY <1>6, <2>1 DEF SetsInv
  <2>4. sets'[t].area = sets[t].area
    BY <2>2, <2>3 DEF RowsFollow, Follows
  <2>5. QED
    BY <1>6, <2>1, <2>4 DEF Timely, Concerned
<1>7. q.op = "setGroupMembers" /\ q.pc = "write" => Concerned(q)' \subseteq q.gone
  BY <1>6 DEF Concerned
<1>8. QED
  BY <1>1, <1>4, <1>5, <1>7 DEF Timely

\* The memberships that stay are of groups that keep their areas.
LEMMA OneGroupKept ==
  ASSUME SetsInv, SetsInv', RowsFollow, OneGroupPerAreaAndPort,
         members' \subseteq members
  PROVE  OneGroupPerAreaAndPort'
<1>1. ASSUME NEW m \in members'
      PROVE  sets'[<<"GROUP", m[1]>>].area = sets[<<"GROUP", m[1]>>].area
  <2> DEFINE t == <<"GROUP", m[1]>>
  <2>1. t \in Targets /\ t[1] = "GROUP" /\ sets[t] # NoSet /\ sets'[t] # NoSet
    BY DEF SetsInv, Targets
  <2>2. QED
    BY <2>1 DEF RowsFollow, Follows
<1>2. QED
  BY <1>1 DEF OneGroupPerAreaAndPort

LEMMA LocksStep ==
  ASSUME ClerksInv, LocksApart, NEW c \in EpdaClerks, NEW q,
         clerk' = [clerk EXCEPT ![c] = q],
         q.pc \in {"replace", "write"} /\ q.op \in GroupOps =>
           /\ HoldsArea(c) \/ AreaFree(c)
           /\ AreaOf(q) = AreaOf(clerk[c])
  PROVE  LocksApart'
<1>1. clerk'[c] = q /\ \A d \in EpdaClerks \ {c} : clerk'[d] = clerk[d]
  BY DEF ClerksInv
<1>2. ASSUME NEW d \in EpdaClerks \ {c}, HoldsArea(d), HoldsArea(c)'
      PROVE  AreaOf(clerk[d]) # AreaOf(q)
  BY <1>1, <1>2 DEF HoldsArea, LocksApart, AreaFree
<1>3. ASSUME NEW x \in EpdaClerks, NEW y \in EpdaClerks, HoldsArea(x)',
             HoldsArea(y)', x # y
      PROVE  AreaOf(clerk'[x]) # AreaOf(clerk'[y])
  <2>1. CASE x = c
    BY <1>1, <1>2, <1>3, <2>1 DEF HoldsArea
  <2>2. CASE y = c
    BY <1>1, <1>2, <1>3, <2>2 DEF HoldsArea
  <2>3. CASE x # c /\ y # c
    BY <1>1, <1>3, <2>3 DEF HoldsArea, LocksApart
  <2>4. QED
    BY <2>1, <2>2, <2>3
<1>4. QED
  BY <1>3 DEF LocksApart, AreaOf

\* A step of one request that writes nothing.
LEMMA ReadStep ==
  ASSUME EpdaInv, NEW c \in EpdaClerks, NEW q, clerk' = [clerk EXCEPT ![c] = q],
         UNCHANGED <<sets, members, nextSetId>>, Fits(q),
         q.pc \in {"replace", "write"} /\ q.op \in GroupOps =>
           /\ HoldsArea(c) \/ AreaFree(c)
           /\ AreaOf(q) = AreaOf(clerk[c])
  PROVE  EpdaInv'
<1> USE DEF EpdaInv
<1>1. SetsInv' /\ OneGroupPerAreaAndPort'
  BY DEF SetsInv, OneGroupPerAreaAndPort
<1>2. LocksApart'
  BY LocksStep
<1>3. \A d \in EpdaClerks : Fits(clerk'[d])
  BY DEF ClerksInv
<1>4. \A d \in EpdaClerks : Fits(clerk[d])'
  BY <1>3 DEF Fits, Timely, Concerned
<1>5. clerk' = [d \in EpdaClerks |-> clerk'[d]]
  BY DEF ClerksInv
<1>6. QED
  BY <1>1, <1>2, <1>4, <1>5 DEF ClerksInv

\* The commit of a request.
LEMMA WriteStep ==
  ASSUME EpdaInv, NEW c \in EpdaClerks, FinishSave(c), SetsInv', RowsFollow,
         nextSetId <= nextSetId', OneGroupPerAreaAndPort',
         \A d \in EpdaClerks \ {c}, m \in members' \ members : HoldsArea(d) =>
           sets'[<<"GROUP", m[1]>>].area # AreaOf(clerk[d])
  PROVE  EpdaInv'
<1> USE DEF EpdaInv
<1>1. clerk' = [clerk EXCEPT ![c] = NoSave] /\ NoSave.pc = "none"
  BY DEF FinishSave, NoSave
<1>2. LocksApart'
  BY <1>1, LocksStep
<1>3. ASSUME NEW d \in EpdaClerks PROVE Fits(clerk[d])'
  <2>1. CASE clerk'[d] = NoSave
    BY <2>1 DEF Fits
  <2>2. CASE clerk'[d] # NoSave
    <3>1. PICK q : q = clerk[d]
      OBVIOUS
    <3>2. d # c /\ clerk'[d] = q
      BY <1>1, <2>2, <3>1 DEF ClerksInv
    <3>3. Shaped(q) /\ Timely(q)
      BY <2>2, <3>1, <3>2 DEF ClerksInv, Fits
    <3>4. q.op = "setGroupMembers" /\ q.pc = "write" =>
            HoldsArea(d) /\ AreaOf(clerk[d]) = q.seen.area
      BY <3>1 DEF HoldsArea, AreaOf, GroupOps
    <3>5. Timely(q)'
      BY <3>2, <3>3, <3>4, StaysTimely
    <3>6. QED
      BY <3>2, <3>3, <3>5 DEF Fits, Timely, Concerned
  <2>3. QED
    BY <2>1, <2>2
<1>4. clerk' = [d \in EpdaClerks |-> clerk'[d]]
  BY <1>1 DEF ClerksInv
<1>5. QED
  BY <1>2, <1>3, <1>4 DEF ClerksInv

LEMMA CommitTyped ==
  ASSUME SetsInv, NEW t \in Targets, NEW row \in Rows,
         sets' = [sets EXCEPT ![t] = row],
         nextSetId' \in Nat, nextSetId <= nextSetId',
         t[1] = "GROUP" /\ row # NoSet =>
           t[2] < nextSetId' /\ row.area \in EpdaAreas,
         members' \subseteq SetIds \X EpdaPorts,
         \A m \in members' : sets'[<<"GROUP", m[1]>>] # NoSet
  PROVE  SetsInv'
<1>1. \A g \in SetIds : <<"GROUP", g>> \in Targets /\ g \in Nat
  BY EpdaAssumption DEF Targets, SetIds
<1>2. ASSUME NEW g \in SetIds, sets'[<<"GROUP", g>>] # NoSet
      PROVE  g < nextSetId' /\ sets'[<<"GROUP", g>>].area \in EpdaAreas
  <2>1. CASE t = <<"GROUP", g>>
    BY <1>1, <1>2, <2>1 DEF SetsInv
  <2>2. CASE t # <<"GROUP", g>>
    <3>1. sets'[<<"GROUP", g>>] = sets[<<"GROUP", g>>]
      BY <1>1, <2>2 DEF SetsInv
    <3>2. QED
      BY <1>1, <1>2, <3>1 DEF SetsInv
  <2>3. QED
    BY <2>1, <2>2
<1>3. sets' \in [Targets -> Rows] /\ nextSetId' \in Nat \ {0}
  BY DEF SetsInv
<1>4. QED
  BY <1>2, <1>3 DEF SetsInv

LEMMA CommitFollows ==
  ASSUME SetsInv, NEW t \in Targets, NEW row,
         sets' = [sets EXCEPT ![t] = row],
         t[1] # "PORT" => /\ Follows(sets[t], row)
                          /\ t[1] = "AREA" /\ sets[t] # NoSet => row # NoSet
                          /\ t[1] = "GROUP" /\ t[2] < nextSetId /\ sets[t] = NoSet =>
                               row = NoSet
  PROVE  RowsFollow
<1> SUFFICES ASSUME NEW x \in Targets, x[1] # "PORT"
             PROVE  /\ Follows(sets[x], sets'[x])
                    /\ x[1] = "AREA" /\ sets[x] # NoSet => sets'[x] # NoSet
                    /\ x[1] = "GROUP" /\ x[2] < nextSetId /\ sets[x] = NoSet =>
                         sets'[x] = NoSet
  BY DEF RowsFollow
<1>1. CASE x = t
  BY <1>1 DEF SetsInv
<1>2. CASE x # t
  <2>1. sets'[x] = sets[x]
    BY <1>2 DEF SetsInv
  <2>2. QED
    BY <2>1 DEF Follows
<1>3. QED
  BY <1>1, <1>2

LEMMA BumpedType ==
  ASSUME NEW row \in ParameterSet, NEW v \in Tariffs
  PROVE  /\ Bumped(row, v) \in ParameterSet /\ Bumped(row, v) # NoSet
         /\ Bumped(row, v).area = row.area /\ Follows(row, Bumped(row, v))
<1> DEFINE first == [row EXCEPT !.values = v]
           b == [first EXCEPT !.version = row.version + 1]
<1>1. first \in ParameterSet /\ first.area = row.area /\ first.version = row.version
  BY DEF ParameterSet
<1>2. row.version \in Nat
  BY DEF ParameterSet
<1>3. Bumped(row, v) = b
  BY <1>1 DEF Bumped, ParameterSet
<1> HIDE DEF first
<1>4. b \in ParameterSet /\ b.area = row.area /\ b.version = row.version + 1
  BY <1>1, <1>2 DEF ParameterSet
<1> HIDE DEF b
<1>5. b # NoSet /\ b.version > row.version
  BY <1>2, <1>4, NoSetAssumption
<1>6. QED
  BY <1>3, <1>4, <1>5 DEF Follows

-----------------------------------------------------------------------------
(* Requests are sent, compare versions and take locks.                     *)

LEMMA NoSaveFits == Fits(NoSave) /\ NoSave.pc = "none"
BY DEF Fits, NoSave

LEMMA RefuseInv ==
  ASSUME EpdaInv, NEW c \in EpdaClerks, RefuseSave(c) PROVE EpdaInv'
BY NoSaveFits, ReadStep DEF RefuseSave, FinishSave

LEMMA BusyFits ==
  ASSUME EpdaInv, NEW c \in EpdaClerks, clerk[c].pc # "none"
  PROVE  Shaped(clerk[c]) /\ Timely(clerk[c])
BY NoSaveFits DEF EpdaInv, ClerksInv, Fits

\* What a page shows is the current row.
LEMMA SendInv ==
  ASSUME EpdaInv, NEW c \in EpdaClerks, NEW op \in Saves \ {"createGroup"},
         NEW t \in Targets, NEW body, Send(c, op, t, body),
         op = "upsertArea" => t \in {"AREA"} \X EpdaAreas,
         op \in {"upsertPort", "deletePort"} => t \in {"PORT"} \X EpdaPorts,
         op \in GroupSaves => t \in {"GROUP"} \X SetIds /\ sets[t] # NoSet,
         IF op = "setGroupMembers" THEN body \in SUBSET EpdaPorts ELSE body \in Tariffs
  PROVE  EpdaInv'
<1> PICK q : q = [pc |-> "arrived", op |-> op, target |-> t, body |-> body,
                  seen |-> sets[t], cur |-> NoSet, gone |-> {}]
  OBVIOUS
<1>1. /\ q.pc = "arrived" /\ q.op = op /\ q.target = t /\ q.body = body
      /\ q.seen = sets[t]
  OBVIOUS
<1>2. sets[t] \in Rows /\ NoSet \in Rows
  BY DEF EpdaInv, SetsInv, Rows
<1>3. q \in Request
  BY <1>2 DEF Request
<1>4. op \in GroupSaves => /\ sets[t] \in ParameterSet /\ sets[t].area \in EpdaAreas
                          /\ t[2] < nextSetId
  BY <1>2 DEF EpdaInv, SetsInv, Rows
<1>5. Shaped(q)
  BY <1>1, <1>3, <1>4 DEF Shaped
<1>6. Timely(q)
  BY <1>1, <1>4 DEF Timely, Follows
<1>7. clerk' = [clerk EXCEPT ![c] = q] /\ UNCHANGED <<sets, members, nextSetId>>
  BY DEF Send
<1>8. QED
  BY <1>1, <1>5, <1>6, <1>7, ReadStep DEF Fits

LEMMA SendCreateInv ==
  ASSUME EpdaInv, NEW c \in EpdaClerks, NEW a \in EpdaAreas, SendCreateGroup(c, a)
  PROVE  EpdaInv'
<1> PICK q : q = [pc |-> "arrived", op |-> "createGroup", target |-> NoSet,
                  body |-> a, seen |-> NoSet, cur |-> NoSet, gone |-> {}]
  OBVIOUS
<1>1. q.pc = "arrived" /\ q.op = "createGroup" /\ q.body = a
  OBVIOUS
<1>2. q \in Request
  BY DEF Request, Rows, Saves, Watched, GroupSaves
<1>3. Shaped(q) /\ Timely(q)
  BY <1>1, <1>2 DEF Shaped, Timely, Watched, GroupSaves
<1>4. clerk' = [clerk EXCEPT ![c] = q] /\ UNCHANGED <<sets, members, nextSetId>>
  BY DEF SendCreateGroup
<1>5. QED
  BY <1>1, <1>3, <1>4, ReadStep DEF Fits

LEMMA SendSaveInv ==
  ASSUME EpdaInv, NEW c \in EpdaClerks, SendSave(c) PROVE EpdaInv'
<1> USE DEF Saves, Watched, GroupSaves
<1>1. ASSUME NEW a \in EpdaAreas, SendArea(c, a) PROVE EpdaInv'
  <2>1. PICK v \in Tariffs : Send(c, "upsertArea", <<"AREA", a>>, v)
    BY <1>1 DEF SendArea
  <2>2. <<"AREA", a>> \in Targets
    BY DEF Targets
  <2>3. QED
    BY <2>1, <2>2, SendInv
<1>2. ASSUME NEW p \in EpdaPorts, SendPort(c, p) \/ SendDeletePort(c, p)
      PROVE  EpdaInv'
  <2>1. PICK o \in {"upsertPort", "deletePort"}, v \in Tariffs :
          Send(c, o, <<"PORT", p>>, v)
    BY <1>2 DEF SendPort, SendDeletePort, Tariffs
  <2>2. <<"PORT", p>> \in Targets
    BY DEF Targets
  <2>3. QED
    BY <2>1, <2>2, SendInv
<1>3. ASSUME NEW g \in SetIds, SendGroup(c, g) PROVE EpdaInv'
  <2>1. <<"GROUP", g>> \in Targets /\ <<"GROUP", g>> \in {"GROUP"} \X SetIds
    BY DEF Targets
  <2>2. sets[<<"GROUP", g>>] # NoSet
    BY <1>3 DEF SendGroup
  <2>3. CASE \E v \in Tariffs, o \in {"updateGroup", "deleteGroup"} :
               Send(c, o, <<"GROUP", g>>, v)
    BY <2>1, <2>2, <2>3, SendInv
  <2>4. CASE \E ports \in SUBSET EpdaPorts :
               Send(c, "setGroupMembers", <<"GROUP", g>>, ports)
    BY <2>1, <2>2, <2>4, SendInv
  <2>5. QED
    BY <1>3, <2>3, <2>4 DEF SendGroup, Tariffs
<1>4. QED
  BY <1>1, <1>2, <1>3, SendCreateInv DEF SendSave

\* A version that fits is that of the row the page has shown.
LEMMA SameVersionSameRow ==
  ASSUME NEW seen \in Rows, NEW row \in Rows, Follows(seen, row),
         VersionFits(row, seen)
  PROVE  row = seen
BY DEF VersionFits, Follows, Rows, ParameterSet

LEMMA FindSetInv ==
  ASSUME EpdaInv, NEW c \in EpdaClerks, FindSet(c) PROVE EpdaInv'
<1> DEFINE old == clerk[c]
           row == sets[old.target]
<1>1. old.pc = "arrived" /\ old.op \notin GroupOps /\ Shaped(old) /\ Timely(old)
  BY BusyFits DEF FindSet
<1>2. CASE VersionFits(row, old.seen)
  <2>1. PICK q : q = [old EXCEPT !.pc = "write", !.cur = row]
    OBVIOUS
  <2>2. clerk' = [clerk EXCEPT ![c] = q] /\ UNCHANGED <<sets, members, nextSetId>>
    BY <1>2, <2>1 DEF FindSet, EpdaInv, ClerksInv
  <2>3. old \in Request /\ old.op \in {"upsertArea", "upsertPort", "deletePort"}
    BY <1>1 DEF Shaped, Request, Saves, Watched, GroupSaves, GroupOps
  <2>4. old.target \in Targets
    BY <1>1, <2>3 DEF Shaped, Targets
  <2>5. row \in Rows /\ old.seen \in Rows
    BY <2>3, <2>4 DEF EpdaInv, SetsInv, Request
  <2>6. old.op = "upsertArea" => row = old.seen
    BY <1>1, <1>2, <2>5, SameVersionSameRow DEF Timely, Watched
  <2> HIDE DEF row
  <2>7. /\ q \in Request /\ q.pc = "write" /\ q.op = old.op /\ q.target = old.target
        /\ q.body = old.body /\ q.seen = old.seen /\ q.cur = row
    BY <2>1, <2>3, <2>5 DEF Request
  <2>8. Shaped(q)
    BY <1>1, <2>3, <2>6, <2>7 DEF Shaped, Watched, GroupSaves
  <2>9. Timely(q)
    BY <1>1, <2>3, <2>7 DEF Timely, GroupSaves
  <2>10. QED
    BY <1>1, <2>2, <2>7, <2>8, <2>9, ReadStep DEF Fits
<1>3. CASE ~VersionFits(row, old.seen)
  BY <1>3, RefuseInv DEF FindSet, RefuseSave
<1>4. QED
  BY <1>2, <1>3

LEMMA LockGroupInv ==
  ASSUME EpdaInv, NEW c \in EpdaClerks, LockGroup(c) PROVE EpdaInv'
<1> DEFINE old == clerk[c]
           row == sets[old.target]
           pc == IF old.op = "setGroupMembers" THEN "replace" ELSE "write"
<1>1. /\ old.pc = "arrived" /\ old.op \in GroupSaves /\ AreaFree(c)
      /\ Shaped(old) /\ Timely(old)
  BY BusyFits DEF LockGroup, GroupOps, GroupSaves
<1>2. CASE clerk' = [clerk EXCEPT ![c].cur = row, ![c].pc = pc]
           /\ VersionFits(row, old.seen)
  <2>1. PICK q : q = [old EXCEPT !.cur = row, !.pc = pc]
    OBVIOUS
  <2>2. clerk' = [clerk EXCEPT ![c] = q] /\ UNCHANGED <<sets, members, nextSetId>>
    BY <1>2, <2>1 DEF LockGroup, EpdaInv, ClerksInv
  <2>3. old \in Request /\ old.target \in Targets
    BY <1>1 DEF Shaped, Targets
  <2>4. row \in Rows /\ old.seen \in Rows
    BY <2>3 DEF EpdaInv, SetsInv, Request
  <2>5. row = old.seen
    BY <1>1, <1>2, <2>4, SameVersionSameRow DEF Timely, Watched
  <2>6. pc \in {"replace", "write"} /\ (pc = "replace" <=> old.op = "setGroupMembers")
    OBVIOUS
  <2> HIDE DEF row, pc
  <2>7. /\ q \in Request /\ q.pc = pc /\ q.op = old.op /\ q.target = old.target
        /\ q.body = old.body /\ q.seen = old.seen /\ q.cur = row
    BY <2>1, <2>3, <2>4, <2>6 DEF Request
  <2>8. Shaped(q)
    BY <1>1, <2>5, <2>6, <2>7 DEF Shaped, GroupSaves
  <2>9. Timely(q)
    BY <1>1, <2>6, <2>7 DEF Timely
  <2>10. AreaOf(q) = AreaOf(clerk[c])
    BY <2>7 DEF AreaOf
  <2>11. QED
    BY <1>1, <2>2, <2>8, <2>9, <2>10, ReadStep DEF Fits
<1>3. CASE FinishSave(c)
  BY <1>3, RefuseInv DEF LockGroup, RefuseSave
<1>4. QED
  BY <1>2, <1>3 DEF LockGroup

\* The DELETEs find every membership there is; the lock keeps new ones out.
LEMMA ReplaceMembersInv ==
  ASSUME EpdaInv, NEW c \in EpdaClerks, ReplaceMembers(c) PROVE EpdaInv'
<1> DEFINE old == clerk[c]
           gone == {m \in members : m[1] = old.target[2] \/ m[2] \in old.body}
<1>1. old.pc = "replace" /\ Shaped(old) /\ Timely(old)
  BY BusyFits DEF ReplaceMembers
<1>2. PICK q : q = [old EXCEPT !.pc = "write", !.gone = gone]
  OBVIOUS
<1>3. clerk' = [clerk EXCEPT ![c] = q] /\ UNCHANGED <<sets, members, nextSetId>>
  BY <1>2 DEF ReplaceMembers, EpdaInv, ClerksInv
<1>4. old \in Request /\ old.op = "setGroupMembers"
  BY <1>1 DEF Shaped
<1>5. gone \in SUBSET (SetIds \X EpdaPorts)
  BY DEF EpdaInv, SetsInv
<1>6. Concerned(old) \subseteq gone
  BY DEF Concerned
<1> HIDE DEF gone
<1>7. /\ q \in Request /\ q.pc = "write" /\ q.op = old.op /\ q.target = old.target
      /\ q.body = old.body /\ q.seen = old.seen /\ q.cur = old.cur /\ q.gone = gone
  BY <1>2, <1>4, <1>5 DEF Request
<1>8. Shaped(q)
  BY <1>1, <1>4, <1>7 DEF Shaped
<1>9. Timely(q)
  BY <1>1, <1>6, <1>7 DEF Timely, Concerned
<1>10. AreaOf(q) = AreaOf(clerk[c]) /\ HoldsArea(c)
  BY <1>1, <1>4, <1>7 DEF AreaOf, HoldsArea, GroupOps
<1>11. QED
  BY <1>3, <1>8, <1>9, <1>10, ReadStep DEF Fits

-----------------------------------------------------------------------------
(* Requests commit.                                                        *)

\* A commit that adds no membership.
LEMMA PlainCommit ==
  ASSUME EpdaInv, NEW c \in EpdaClerks, NEW t \in Targets, NEW row \in Rows,
         CommitSet(c, t, row), nextSetId' \in Nat, nextSetId <= nextSetId',
         t[1] = "GROUP" /\ row # NoSet =>
           t[2] < nextSetId' /\ row.area \in EpdaAreas,
         t[1] # "PORT" => /\ Follows(sets[t], row)
                          /\ t[1] = "AREA" /\ sets[t] # NoSet => row # NoSet
                          /\ t[1] = "GROUP" /\ t[2] < nextSetId /\ sets[t] = NoSet =>
                               row = NoSet,
         members' \subseteq members,
         row = NoSet => \A m \in members' : t # <<"GROUP", m[1]>>
  PROVE  EpdaInv'
<1>1. sets' = [sets EXCEPT ![t] = row] /\ FinishSave(c)
  BY DEF CommitSet
<1>2. ASSUME NEW m \in members' PROVE sets'[<<"GROUP", m[1]>>] # NoSet
  <2>1. <<"GROUP", m[1]>> \in Targets /\ sets[<<"GROUP", m[1]>>] # NoSet
    BY DEF EpdaInv, SetsInv, Targets
  <2>2. QED
    BY <1>1, <2>1 DEF EpdaInv, SetsInv
<1>3. members' \subseteq SetIds \X EpdaPorts
  BY DEF EpdaInv, SetsInv
<1>4. SetsInv'
  BY <1>1, <1>2, <1>3, CommitTyped DEF EpdaInv
<1>5. RowsFollow
  BY <1>1, CommitFollows DEF EpdaInv
<1>6. OneGroupPerAreaAndPort'
  BY <1>4, <1>5, OneGroupKept DEF EpdaInv
<1>7. QED
  BY <1>1, <1>4, <1>5, <1>6, WriteStep

LEMMA InsertSetInv ==
  ASSUME EpdaInv, NEW c \in EpdaClerks, InsertSet(c)
  PROVE  EpdaInv' /\ (clerk[c].op \in Watched => clerk[c].seen = sets[clerk[c].target])
<1> DEFINE q == clerk[c]
           values == NewValues(q.op, NoSet, q.body)
           row == [id |-> nextSetId, version |-> 1, area |-> NoSet, values |-> values]
<1>1. /\ q.pc = "write" /\ q.op \notin GroupOps /\ q.cur = NoSet
      /\ sets[q.target] = NoSet /\ nextSetId \in SetIds
      /\ CommitSet(c, q.target, row) /\ nextSetId' = nextSetId + 1 /\ members' = members
  BY DEF InsertSet, Applies
<1>2. Shaped(q) /\ Timely(q)
  BY <1>1, BusyFits
<1>3. /\ q.op \in {"upsertArea", "upsertPort", "deletePort"}
      /\ q.target \in Targets /\ q.target[1] # "GROUP" /\ q.body \in Tariffs
  BY <1>1, <1>2 DEF Shaped, Request, Saves, Watched, GroupSaves, GroupOps, Targets
<1>4. values \in Tariffs
  BY <1>3, EpdaAssumption DEF NewValues, Tariffs
<1> HIDE DEF values
<1>5. row \in Rows /\ row # NoSet
  BY <1>1, <1>4, NoSetAssumption DEF Rows, ParameterSet
<1> HIDE DEF row
<1>6. nextSetId' \in Nat /\ nextSetId <= nextSetId'
  BY <1>1 DEF EpdaInv, SetsInv
<1>7. Follows(sets[q.target], row)
  BY <1>1 DEF Follows
<1>8. EpdaInv'
  BY <1>1, <1>3, <1>5, <1>6, <1>7, PlainCommit
<1>9. q.op \in Watched => q.seen = sets[q.target]
  BY <1>1, <1>2 DEF Shaped
<1>10. QED
  BY <1>8, <1>9

\* A row that is still current is the row that was seen.
LEMMA CurrentWasSeen ==
  ASSUME EpdaInv, NEW c \in EpdaClerks, clerk[c].pc = "write",
         clerk[c].op \in Watched, clerk[c].cur # NoSet,
         StillCurrent(clerk[c].target, clerk[c].cur)
  PROVE  /\ clerk[c].cur = sets[clerk[c].target]
         /\ clerk[c].seen = sets[clerk[c].target]
<1> DEFINE q == clerk[c]
           row == sets[q.target]
<1>1. Shaped(q) /\ Timely(q)
  BY BusyFits
<1>2. q.cur = q.seen /\ row # NoSet /\ row.version = q.cur.version
      /\ Follows(q.seen, row)
  BY <1>1 DEF Shaped, Timely, StillCurrent
<1>3. q.target \in Targets
  BY <1>1 DEF Shaped, Watched, GroupSaves, Targets
<1>4. row \in ParameterSet
  BY <1>2, <1>3 DEF EpdaInv, SetsInv, Rows
<1>5. QED
  BY <1>2, <1>4 DEF Follows, ParameterSet

LEMMA UpdateSetInv ==
  ASSUME EpdaInv, NEW c \in EpdaClerks, UpdateSet(c)
  PROVE  EpdaInv' /\ (clerk[c].op \in Watched => clerk[c].seen = sets[clerk[c].target])
<1> DEFINE q == clerk[c]
           old == sets[q.target]
           values == NewValues(q.op, q.cur, q.body)
           row == Bumped(old, values)
<1>1. /\ q.pc = "write" /\ q.op \in {"upsertArea", "upsertPort"} /\ q.cur # NoSet
      /\ StillCurrent(q.target, q.cur)
      /\ CommitSet(c, q.target, row) /\ nextSetId' = nextSetId /\ members' = members
  BY DEF UpdateSet, Applies
<1>2. Shaped(q) /\ Timely(q)
  BY <1>1, BusyFits
<1>3. q.target \in Targets /\ q.target[1] # "GROUP" /\ q.body \in Tariffs
  BY <1>1, <1>2 DEF Shaped, Targets
<1>4. old \in ParameterSet
  BY <1>1, <1>3 DEF StillCurrent, EpdaInv, SetsInv, Rows
<1>5. q.cur \in ParameterSet
  BY <1>1, <1>2 DEF Shaped, Request, Rows
<1>6. values \in Tariffs
  BY <1>3, <1>5, EpdaAssumption DEF NewValues, ParameterSet, Tariffs
<1> HIDE DEF values
<1>7. row \in Rows /\ row # NoSet /\ Follows(old, row)
  BY <1>4, <1>6, BumpedType DEF Rows
<1> HIDE DEF row
<1>8. nextSetId' \in Nat /\ nextSetId <= nextSetId'
  BY <1>1 DEF EpdaInv, SetsInv
<1>9. EpdaInv'
  BY <1>1, <1>3, <1>7, <1>8, PlainCommit
<1>10. q.op \in Watched => q.seen = sets[q.target]
  BY <1>1, CurrentWasSeen
<1>11. QED
  BY <1>9, <1>10

LEMMA DeletePortSetInv ==
  ASSUME EpdaInv, NEW c \in EpdaClerks, DeletePortSet(c)
  PROVE  EpdaInv' /\ clerk[c].op \notin Watched
<1> DEFINE q == clerk[c]
<1>1. /\ q.pc = "write" /\ q.op = "deletePort" /\ CommitSet(c, q.target, NoSet)
      /\ nextSetId' = nextSetId /\ members' = members
  BY DEF DeletePortSet
<1>2. q.target \in Targets /\ q.target[1] = "PORT" /\ \A g : q.target # <<"GROUP", g>>
  BY <1>1, BusyFits DEF Shaped, Targets
<1>3. nextSetId' \in Nat /\ nextSetId <= nextSetId' /\ NoSet \in Rows
  BY <1>1 DEF EpdaInv, SetsInv, Rows
<1>4. EpdaInv'
  BY <1>1, <1>2, <1>3, PlainCommit
<1>5. QED
  BY <1>1, <1>4 DEF Watched, GroupSaves

LEMMA CreateGroupInv ==
  ASSUME EpdaInv, NEW c \in EpdaClerks, CreateGroup(c)
  PROVE  EpdaInv' /\ clerk[c].op \notin Watched
<1> DEFINE q == clerk[c]
           t == <<"GROUP", nextSetId>>
           row == [id |-> nextSetId, version |-> 1, values |-> Unset, area |-> q.body]
<1>1. /\ q.pc = "arrived" /\ q.op = "createGroup" /\ nextSetId \in SetIds
      /\ CommitSet(c, t, row) /\ nextSetId' = nextSetId + 1 /\ members' = members
  BY DEF CreateGroup
<1>2. q.body \in EpdaAreas
  BY <1>1, BusyFits DEF Shaped
<1>3. row \in ParameterSet /\ row.area \in EpdaAreas
  BY <1>1, <1>2 DEF ParameterSet, Tariffs
<1> HIDE DEF row
<1>4. row \in Rows /\ row # NoSet
  BY <1>3, NoSetAssumption DEF Rows
<1>5. nextSetId \in Nat /\ nextSetId' \in Nat /\ nextSetId <= nextSetId'
      /\ nextSetId < nextSetId'
  BY <1>1 DEF EpdaInv, SetsInv
<1>6. t \in Targets /\ t[1] = "GROUP" /\ t[2] = nextSetId
  BY <1>1 DEF Targets
<1>7. sets[t] = NoSet
  BY <1>1, <1>5 DEF EpdaInv, SetsInv
<1> HIDE DEF t
<1>8. Follows(sets[t], row) /\ ~(t[2] < nextSetId) /\ t[1] # "AREA"
  BY <1>5, <1>6, <1>7 DEF Follows
<1>9. EpdaInv'
  BY <1>1, <1>3, <1>4, <1>5, <1>6, <1>8, PlainCommit
<1>10. QED
  BY <1>1, <1>9 DEF Watched, GroupSaves

\* What the saves of a group have in common.
LEMMA GroupSaveFacts ==
  ASSUME EpdaInv, NEW c \in EpdaClerks, clerk[c].pc = "write",
         clerk[c].op \in GroupSaves, StillCurrent(clerk[c].target, clerk[c].cur)
  PROVE  /\ Shaped(clerk[c]) /\ Timely(clerk[c]) /\ HoldsArea(c)
         /\ clerk[c].target \in {"GROUP"} \X SetIds
         /\ clerk[c].target \in Targets /\ clerk[c].target[2] < nextSetId
         /\ clerk[c].cur = sets[clerk[c].target]
         /\ clerk[c].seen = sets[clerk[c].target]
         /\ sets[clerk[c].target] \in ParameterSet
         /\ sets[clerk[c].target].area \in EpdaAreas
<1>1. Shaped(clerk[c]) /\ Timely(clerk[c])
  BY BusyFits
<1>2. /\ clerk[c].target \in {"GROUP"} \X SetIds /\ clerk[c].target[2] < nextSetId
      /\ clerk[c].cur = clerk[c].seen /\ clerk[c].seen \in ParameterSet
      /\ clerk[c].seen.area \in EpdaAreas
  BY <1>1 DEF Shaped, Timely, Watched
<1>3. clerk[c].cur = sets[clerk[c].target] /\ clerk[c].seen = sets[clerk[c].target]
  BY <1>2, CurrentWasSeen, NoSetAssumption DEF Watched
<1>4. clerk[c].target \in Targets /\ HoldsArea(c)
  BY <1>2 DEF Targets, HoldsArea, GroupOps, GroupSaves
<1>5. QED
  BY <1>1, <1>2, <1>3, <1>4

LEMMA UpdateGroupInv ==
  ASSUME EpdaInv, NEW c \in EpdaClerks, UpdateGroup(c)
  PROVE  EpdaInv' /\ (sets' # sets => clerk[c].seen = sets[clerk[c].target])
<1> DEFINE q == clerk[c]
           old == sets[q.target]
           row == Bumped(old, q.body)
<1>1. q.pc = "write" /\ q.op = "updateGroup" /\ q.op \in GroupSaves
  BY DEF UpdateGroup, GroupSaves
<1>2. CASE StillCurrent(q.target, q.cur)
  <2>1. CommitSet(c, q.target, row) /\ nextSetId' = nextSetId /\ members' = members
    BY <1>2 DEF UpdateGroup
  <2>2. /\ q.target \in Targets /\ q.target[1] = "GROUP" /\ q.target[2] < nextSetId
        /\ q.seen = old /\ old \in ParameterSet /\ old.area \in EpdaAreas
        /\ q.body \in Tariffs /\ old # NoSet
    BY <1>1, <1>2, GroupSaveFacts, NoSetAssumption DEF Shaped
  <2>3. row \in Rows /\ row # NoSet /\ Follows(old, row) /\ row.area \in EpdaAreas
    BY <2>2, BumpedType DEF Rows
  <2> HIDE DEF row
  <2>4. nextSetId' \in Nat /\ nextSetId <= nextSetId'
    BY <2>1 DEF EpdaInv, SetsInv
  <2>5. EpdaInv'
    BY <2>1, <2>2, <2>3, <2>4, PlainCommit
  <2>6. QED
    BY <2>2, <2>5
<1>3. CASE ~StillCurrent(q.target, q.cur)
  <2>1. RefuseSave(c)
    BY <1>3 DEF UpdateGroup
  <2>2. QED
    BY <2>1, RefuseInv DEF RefuseSave
<1>4. QED
  BY <1>2, <1>3

LEMMA DeleteGroupInv ==
  ASSUME EpdaInv, NEW c \in EpdaClerks, DeleteGroup(c)
  PROVE  EpdaInv' /\ (sets' # sets => clerk[c].seen = sets[clerk[c].target])
<1> DEFINE q == clerk[c]
<1>1. q.pc = "write" /\ q.op = "deleteGroup" /\ q.op \in GroupSaves
  BY DEF DeleteGroup, GroupSaves
<1>2. CASE StillCurrent(q.target, q.cur)
  <2>1. /\ CommitSet(c, q.target, NoSet) /\ nextSetId' = nextSetId
        /\ members' = {m \in members : m[1] # q.target[2]}
    BY <1>2 DEF DeleteGroup
  <2>2. /\ q.target \in Targets /\ q.target[1] = "GROUP" /\ q.target[2] < nextSetId
        /\ q.seen = sets[q.target]
    BY <1>1, <1>2, GroupSaveFacts
  <2>3. NoSet \in Rows /\ Follows(sets[q.target], NoSet)
        /\ nextSetId' \in Nat /\ nextSetId <= nextSetId'
    BY <2>1 DEF EpdaInv, SetsInv, Rows, Follows
  <2>4. \A m \in members' : q.target # <<"GROUP", m[1]>>
    BY <2>1, <2>2
  <2>5. EpdaInv'
    BY <2>1, <2>2, <2>3, <2>4, PlainCommit
  <2>6. QED
    BY <2>2, <2>5
<1>3. CASE ~StillCurrent(q.target, q.cur)
  <2>1. RefuseSave(c)
    BY <1>3 DEF DeleteGroup
  <2>2. QED
    BY <2>1, RefuseInv DEF RefuseSave
<1>4. QED
  BY <1>2, <1>3

\* The new memberships take the place of every one of the area that concerns
\* the group or its ports.
LEMMA CommitMembersInv ==
  ASSUME EpdaInv, NEW c \in EpdaClerks, CommitMembers(c)
  PROVE  EpdaInv' /\ (sets' # sets => clerk[c].seen = sets[clerk[c].target])
<1> DEFINE q == clerk[c]
           t == q.target
           old == sets[t]
           row == Bumped(q.cur, old.values)
<1>1. q.pc = "write" /\ q.op = "setGroupMembers" /\ q.op \in GroupSaves
  BY DEF CommitMembers, GroupSaves
<1>2. CASE StillCurrent(q.target, q.cur)
  <2>1. /\ members' = (members \ q.gone) \cup ({t[2]} \X q.body)
        /\ CommitSet(c, t, row) /\ nextSetId' = nextSetId
    BY <1>2 DEF CommitMembers
  <2>2. /\ Shaped(q) /\ Timely(q) /\ HoldsArea(c) /\ t \in Targets
        /\ t \in {"GROUP"} \X SetIds /\ t[2] < nextSetId
        /\ q.cur = old /\ q.seen = old /\ old \in ParameterSet /\ old # NoSet
        /\ old.area \in EpdaAreas
    BY <1>1, <1>2, GroupSaveFacts, NoSetAssumption
  <2>3. q.body \subseteq EpdaPorts /\ old.values \in Tariffs
    BY <1>1, <2>2 DEF Shaped, ParameterSet
  <2>4. row \in Rows /\ row # NoSet /\ Follows(old, row) /\ row.area = old.area
    BY <2>2, <2>3, BumpedType DEF Rows
  <2>5. sets' = [sets EXCEPT ![t] = row] /\ FinishSave(c)
    BY <2>1 DEF CommitSet
  <2> HIDE DEF row
  <2>6. t = <<"GROUP", t[2]>> /\ t[2] \in SetIds /\ t[1] = "GROUP"
    BY <2>2
  <2>7. sets'[t] = row /\ \A x \in Targets : x # t => sets'[x] = sets[x]
    BY <2>2, <2>5 DEF EpdaInv, SetsInv
  <2>8. members' \subseteq SetIds \X EpdaPorts
    BY <2>1, <2>3, <2>6 DEF EpdaInv, SetsInv
  <2>9. ASSUME NEW m \in members' PROVE sets'[<<"GROUP", m[1]>>] # NoSet
    <3>1. <<"GROUP", m[1]>> \in Targets
      BY <2>8 DEF Targets
    <3>2. CASE m[1] = t[2]
      BY <2>4, <2>6, <2>7, <3>2
    <3>3. CASE m[1] # t[2]
      <4>1. m \in members /\ <<"GROUP", m[1]>> # t
        BY <2>1, <2>6, <3>3
      <4>2. QED
        BY <2>7, <3>1, <4>1 DEF EpdaInv, SetsInv
    <3>4. QED
      BY <3>2, <3>3
  <2>10. nextSetId' \in Nat /\ nextSetId <= nextSetId'
    BY <2>1 DEF EpdaInv, SetsInv
  <2>11. t[1] = "GROUP" /\ t[2] < nextSetId' /\ row.area \in EpdaAreas
    BY <2>1, <2>2, <2>4, <2>6
  <2> HIDE DEF t
  <2>12. SetsInv'
    BY <2>2, <2>4, <2>5, <2>8, <2>9, <2>10, <2>11, CommitTyped DEF EpdaInv
  <2>13. RowsFollow
    BY <2>2, <2>4, <2>5, <2>11, CommitFollows DEF EpdaInv
  <2>14. ASSUME NEW m \in members'
         PROVE  /\ sets'[<<"GROUP", m[1]>>].area =
                     IF m[1] = t[2] THEN old.area ELSE sets[<<"GROUP", m[1]>>].area
                /\ m[1] = t[2] \/ m \in members \ q.gone
    <3>1. <<"GROUP", m[1]>> \in Targets
      BY <2>8 DEF Targets
    <3>2. m[1] = t[2] \/ m \in members \ q.gone
      BY <2>1
    <3>3. CASE m[1] = t[2]
      BY <2>4, <2>6, <2>7, <3>2, <3>3
    <3>4. CASE m[1] # t[2]
      BY <2>6, <2>7, <3>1, <3>2, <3>4
    <3>5. QED
      BY <3>3, <3>4
  <2>15. Concerned(q) \subseteq q.gone
    BY <1>1, <2>2 DEF Timely
  <2>16. \A m \in members' : m[1] = t[2] => m \in {t[2]} \X q.body
    <3>1. SUFFICES ASSUME NEW m \in members \ q.gone, m[1] = t[2] PROVE FALSE
      BY <2>1
    <3>2. sets[<<"GROUP", m[1]>>].area = q.seen.area
      BY <2>2, <2>6, <3>1
    <3>3. m \in Concerned(q)
      BY <3>1, <3>2 DEF Concerned, t
    <3>4. QED
      BY <2>15, <3>1, <3>3
  <2>17. ASSUME NEW m \in members', NEW n \in members', m[2] = n[2],
                sets'[<<"GROUP", m[1]>>].area = sets'[<<"GROUP", n[1]>>].area,
                m[1] = t[2], n[1] # t[2]
         PROVE  FALSE
    <3>1. m[2] \in q.body
      BY <2>16, <2>17
    <3>2. n \in members \ q.gone /\ sets[<<"GROUP", n[1]>>].area = old.area
      BY <2>14, <2>17
    <3>3. n \in Concerned(q)
      BY <2>2, <2>17, <3>1, <3>2 DEF Concerned
    <3>4. QED
      BY <2>15, <3>2, <3>3
  <2>18. ASSUME NEW m \in members', NEW n \in members', m[2] = n[2],
                sets'[<<"GROUP", m[1]>>].area = sets'[<<"GROUP", n[1]>>].area
         PROVE  m = n
    <3>1. CASE m[1] = t[2] /\ n[1] = t[2]
      BY <2>8, <2>18, <3>1
    <3>2. CASE m[1] # t[2] /\ n[1] # t[2]
      BY <2>14, <2>18, <3>2 DEF EpdaInv, OneGroupPerAreaAndPort
    <3>3. QED
      BY <2>17, <2>18, <3>1, <3>2
  <2>19. OneGroupPerAreaAndPort'
    BY <2>18 DEF OneGroupPerAreaAndPort
  <2>20. ASSUME NEW d \in EpdaClerks \ {c}, NEW m \in members' \ members, HoldsArea(d)
         PROVE  sets'[<<"GROUP", m[1]>>].area # AreaOf(clerk[d])
    <3>1. AreaOf(clerk[c]) = old.area
      BY <1>1, <2>2 DEF AreaOf
    <3>2. AreaOf(clerk[d]) # old.area
      BY <2>2, <2>20, <3>1 DEF EpdaInv, LocksApart
    <3>3. QED
      BY <2>14, <2>20, <3>2
  <2>21. EpdaInv'
    BY <2>5, <2>10, <2>12, <2>13, <2>19, <2>20, WriteStep
  <2>22. QED
    BY <2>2, <2>21 DEF t
<1>3. CASE ~StillCurrent(q.target, q.cur)
  <2>1. RefuseSave(c)
    BY <1>3 DEF CommitMembers
  <2>2. QED
    BY <2>1, RefuseInv DEF RefuseSave
<1>4. QED
  BY <1>2, <1>3

\* A step of a request, and what it may have replaced.
LEMMA SaveStepInv ==
  ASSUME EpdaInv, NEW c \in EpdaClerks, SaveStep(c)
  PROVE  /\ EpdaInv'
         /\ sets' # sets /\ clerk[c].op \in Watched =>
              clerk[c].seen = sets[clerk[c].target]
<1>1. CASE FindSet(c) \/ LockGroup(c) \/ ReplaceMembers(c) \/ ConflictSave(c)
  <2>1. EpdaInv'
    BY <1>1, FindSetInv, LockGroupInv, ReplaceMembersInv, RefuseInv DEF ConflictSave
  <2>2. sets' = sets
    BY <1>1 DEF FindSet, LockGroup, ReplaceMembers, ConflictSave, RefuseSave
  <2>3. QED
    BY <2>1, <2>2
<1>2. CASE InsertSet(c) \/ UpdateSet(c)
  BY <1>2, InsertSetInv, UpdateSetInv
<1>3. CASE DeletePortSet(c) \/ CreateGroup(c)
  BY <1>3, DeletePortSetInv, CreateGroupInv
<1>4. CASE CommitMembers(c) \/ UpdateGroup(c) \/ DeleteGroup(c)
  BY <1>4, CommitMembersInv, UpdateGroupInv, DeleteGroupInv
<1>5. QED
  BY <1>1, <1>2, <1>3, <1>4 DEF SaveStep

LEMMA EpdaRest ==
  ASSUME EpdaInv, UNCHANGED <<sets, members, nextSetId, clerk>> PROVE EpdaInv'
BY DEF EpdaInv, SetsInv, ClerksInv, Fits, Timely, Concerned, LocksApart, HoldsArea,
       OneGroupPerAreaAndPort

LEMMA EpdaNextInv == EpdaInv /\ [EpdaNext]_epdaVars => EpdaInv'
<1> SUFFICES ASSUME EpdaInv, [EpdaNext]_epdaVars PROVE EpdaInv'
  OBVIOUS
<1>1. CASE UNCHANGED epdaVars
  BY <1>1, EpdaRest DEF epdaVars
<1>2. ASSUME NEW p \in EpdaPorts, MovePort(p) PROVE EpdaInv'
  BY <1>2, EpdaRest DEF MovePort
<1>3. ASSUME NEW c \in EpdaClerks, SendSave(c) \/ SaveStep(c) \/ DropSave(c)
      PROVE  EpdaInv'
  BY <1>3, SendSaveInv, SaveStepInv, RefuseInv DEF DropSave
<1>4. QED
  BY <1>1, <1>2, <1>3 DEF EpdaNext

\* A port has at most one group of an area: the advisory lock keeps two
\* replacements of members from missing each other's rows.
THEOREM OneGroupPerAreaAndPortHolds == EpdaSpec => []OneGroupPerAreaAndPort
<1>1. EpdaInv => OneGroupPerAreaAndPort
  BY DEF EpdaInv
<1>2. QED
  BY <1>1, EpdaInitInv, EpdaNextInv, PTL DEF EpdaSpec

\* A save of an area or of a group replaces exactly the row its sender saw,
\* however many others save at the same time.
THEOREM SavesReplaceWhatWasSeenHolds == EpdaSpec => SavesReplaceWhatWasSeen
<1> DEFINE Step == \A c \in EpdaClerks :
             LET q == clerk[c] IN
             q.pc # "none" /\ clerk'[c].pc = "none" /\ sets' # sets
               /\ q.op \in {"upsertArea", "updateGroup", "deleteGroup",
                            "setGroupMembers"} =>
               q.seen = sets[q.target]
<1>1. EpdaInv /\ [EpdaNext]_epdaVars => [Step]_epdaVars
  <2> SUFFICES ASSUME EpdaInv, EpdaNext, NEW c \in EpdaClerks,
                      clerk[c].pc # "none", clerk'[c].pc = "none", sets' # sets,
                      clerk[c].op \in Watched
               PROVE  clerk[c].seen = sets[clerk[c].target]
    BY DEF Watched, GroupSaves
  <2>1. PICK d \in EpdaClerks : SaveStep(d)
    BY DEF EpdaNext, MovePort, SendSave, SendArea, SendPort, SendDeletePort, SendGroup,
           SendCreateGroup, Send, DropSave, RefuseSave
  <2>2. \A x \in EpdaClerks \ {d} : clerk'[x] = clerk[x]
    <3>1. \/ FinishSave(d)
          \/ \E q : clerk' = [clerk EXCEPT ![d] = q]
      BY <2>1 DEF SaveStep, CommitSet, FindSet, LockGroup, ReplaceMembers, ConflictSave,
                  RefuseSave, InsertSet, UpdateSet, DeletePortSet, CreateGroup,
                  CommitMembers, UpdateGroup, DeleteGroup
    <3>2. QED
      BY <3>1 DEF FinishSave, EpdaInv, ClerksInv
  <2>3. d = c
    BY <2>2
  <2>4. QED
    BY <2>1, <2>3, SaveStepInv
<1>2. QED
  BY <1>1, EpdaInitInv, EpdaNextInv, PTL DEF EpdaSpec, SavesReplaceWhatWasSeen
=============================================================================
