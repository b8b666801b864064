------------------------------ MODULE TypeCodes ------------------------------
(***************************************************************************)
(* Commodity Types on their way from a code to an id: the candidates that  *)
(* commodity-types-data takes from the old groups and cargo types, the     *)
(* identity phase that writes Type ids beside the codes inquiries and      *)
(* tariff rates carry, and the contract that removes the codes, with staff *)
(* editing Types, rates and inquiries in between.  Each phase reads, plans *)
(* and writes in one transaction that locks the tables it reads.           *)
(*                                                                         *)
(* Four normal forms of a text matter and differ: Folded (trimmed, one     *)
(* case: unique indexes, stored codes, the legacy lookup), Key (letters    *)
(* and digits of any alphabet: the plan), SqlKey (A to Z and digits: the   *)
(* SQL), and CodeOf (the code the backfill derives).                    *)
(***************************************************************************)
EXTENDS Integers, Sequences, FiniteSets

CONSTANTS
  TypeServices, Agency,  \* services; Shipping Agency
  TypeIds,               \* ids the sequence of Types can hand out
  Texts, NoText,         \* codes, names, cargo types; none or blank
  Folded, Key, SqlKey, CodeOf,  \* [Texts -> normal form, or NoText]
  TypeInquiries,         \* inquiries of the Shipping Agency service
  TariffSets,            \* EPDA parameter sets that hold rates
  StartTypes, StartSources, StartCargo, StartRates,
  MaxRates, MaxEdits     \* bounds

VARIABLES
  types,      \* set of rows [id, service, code, name]
  sources,    \* groups and cargo types, as what the backfill reads of each
  cargo,      \* [TypeInquiries -> [id, text]]: stored Type id, 0 for none
  rates,      \* [TariffSets -> sequence of rates]
  codeless,   \* the contract has dropped the code of Types
  issuedType, \* the last id the sequence of Types has handed out
  renaming,   \* Types loaded by a rename under way
  edits       \* counter of the bound

typeVars == <<types, sources, cargo, rates, codeless, issuedType, renaming, edits>>

Type == [id : TypeIds, service : TypeServices, code : Texts \cup {NoText}, name : Texts]
Source == [service : TypeServices \cup {NoText}, text : Texts, name : Texts, rank : Nat]
Cargo == [id : TypeIds \cup {0}, text : Texts \cup {NoText}]

\* A rate's amount is a number, a text that reads as one, or neither.
Rate == [id : TypeIds \cup {0}, code : Texts \cup {NoText}, named : BOOLEAN,
         amount : {"number", "text", "junk"}]
Rates == UNION {[1..n -> Rate] : n \in 0..MaxRates}

\* Ids are handed out one after the other; each row of a reading has its rank;
\* texts alike but for case and blanks around them have the same letters.
ASSUME CodesAreTyped ==
  /\ TypeIds \subseteq Nat \ {0} /\ \A n \in TypeIds : 1..n \subseteq TypeIds
  /\ NoText \notin Texts /\ MaxRates \in Nat
  /\ Folded \in [Texts -> Texts]
  /\ {Key, SqlKey, CodeOf} \subseteq [Texts -> Texts \cup {NoText}]
  /\ \A a, b \in Texts : Folded[a] = Folded[b] => Key[a] = Key[b]
ASSUME StartsAreTyped ==
  /\ \A start \in StartTypes : start \subseteq Type /\ IsFiniteSet(start)
  /\ \A start \in StartSources :
       /\ start \subseteq Source /\ IsFiniteSet(start)
       /\ \A s, u \in start : s.rank = u.rank => s = u
  /\ StartCargo \subseteq [TypeInquiries -> Cargo]
  /\ StartRates \subseteq [TariffSets -> Rates]

-----------------------------------------------------------------------------
(* The backfill.                                                           *)

Code(s) == CodeOf[s.text]

\* One candidate for a service and code: groups first, in the order read.
Candidates ==
  {s \in sources :
     /\ s.service # NoText /\ Code(s) # NoText
     /\ \A other \in sources :
          other.service = s.service /\ Code(other) # NoText
            /\ Folded[Code(other)] = Folded[Code(s)] => s.rank <= other.rank}

SameCode(a, b) ==
  a.service = b.service
    /\ (IF a.code = NoText THEN b.code = NoText
        ELSE b.code # NoText /\ Folded[a.code] = Folded[b.code])
SameTypeName(a, b) == a.service = b.service /\ Folded[a.name] = Folded[b.name]

\* The row a candidate becomes.
AsType(s, id) == [id |-> id, service |-> s.service, code |-> Code(s), name |-> s.name]
Missing(rows) == {s \in Candidates : \A t \in rows : ~SameCode(AsType(s, 0), t)}

\* Mutant of BackfillAccepts: the candidates' own names are not compared.
BackfillAcceptsNames(rows) ==
  /\ \A s \in sources : s.service # NoText
  /\ \A s \in Missing(rows), t \in rows : ~SameTypeName(AsType(s, 0), t)
  /\ \A t, u \in rows : t # u => ~SameCode(t, u) /\ ~SameTypeName(t, u)

\* validateCommodityTypeBackfillPreflight: every source has a service, no
\* missing candidate has the name of another Type, no two candidates share a
\* name, and the catalogue has no duplicates.
BackfillAccepts(rows) ==
  /\ \A s \in sources : s.service # NoText
  /\ \A s \in Missing(rows), t \in rows : ~SameTypeName(AsType(s, 0), t)
  /\ \A s, u \in Candidates :
       SameTypeName(AsType(s, 0), AsType(u, 0)) => Code(s) = Code(u)
  /\ \A t, u \in rows : t # u => ~SameCode(t, u) /\ ~SameTypeName(t, u)

\* INSERT ... ON CONFLICT DO NOTHING of the candidates: whichever are added,
\* the rest clash with a row that is there.  NULL codes do not clash.
Clash(a, b) == SameTypeName(a, b) \/ (a.code # NoText /\ SameCode(a, b))
Added(chosen) ==
  {AsType(s, issuedType + Cardinality({u \in chosen : u.rank <= s.rank})) : s \in chosen}
Fills(chosen) ==
  /\ \A s \in chosen : \A t \in types : ~Clash(AsType(s, 0), t)
  /\ \A s, u \in chosen : s # u => ~Clash(AsType(s, 0), AsType(u, 0))
  /\ \A s \in Candidates \ chosen :
       \E t \in types \cup Added(chosen) : Clash(AsType(s, 0), t)

BackfillComplete(after) ==
  /\ BackfillAccepts(after)
  /\ Missing(after) = {}
  /\ Cardinality(after) = Cardinality(types) + Cardinality(Missing(types))

Backfill ==
  /\ ~codeless /\ BackfillAccepts(types)
  /\ \E chosen \in SUBSET Candidates :
       /\ Fills(chosen) /\ BackfillComplete(types \cup Added(chosen))
       /\ issuedType + Cardinality(chosen) \in TypeIds \cup {0}  \* bound
       /\ types' = types \cup Added(chosen)
       /\ issuedType' = issuedType + Cardinality(chosen)
  /\ UNCHANGED <<sources, cargo, rates, codeless, renaming, edits>>

-----------------------------------------------------------------------------
(* The identity phase.                                                     *)

Form(normal, text) == IF text = NoText THEN NoText ELSE normal[text]
AgencyTypes == {t \in types : t.service = Agency}

\* The Types a text stands for, to the plan and to the SQL: the SQL lets a
\* text without Latin letters match a code without any.
Resolves ==
  [text \in Texts \cup {NoText} |->
     {t \in AgencyTypes : Form(Key, text) # NoText /\ Form(Key, t.code) = Form(Key, text)}]
SqlResolves ==
  [text \in Texts \cup {NoText} |->
     {t \in AgencyTypes : t.code # NoText /\ SqlKey[t.code] = Form(SqlKey, text)}]

Stands(found, id) == \E t \in found : found = {t} /\ id \in {0, t.id}
RateIndexes == {i \in TariffSets \X (1..MaxRates) : i[2] <= Len(rates[i[1]])}

\* The report of buildCommodityTypeCodeRemovalPreflight names no blocker.
\* It looks at the Types of every service, takes an amount written as text,
\* and does not look at the ids rates carry.
ReportClear ==
  /\ \A t, u \in types :
       t # u /\ t.service = u.service => Form(Key, t.code) # Form(Key, u.code)
  /\ \A i \in TypeInquiries : Stands(Resolves[cargo[i].text], cargo[i].id)
  /\ \A at \in RateIndexes :
       /\ Stands(Resolves[rates[at[1]][at[2]].code], 0)
       /\ rates[at[1]][at[2]].amount # "junk"

\* buildCodeIdentityPlan finds one Type for everything, or throws.
PlanBuilds ==
  /\ \A t \in AgencyTypes :
       /\ Form(Key, t.code) # NoText
       /\ \A u \in AgencyTypes : Form(Key, u.code) = Form(Key, t.code) => u = t
  /\ \A i \in TypeInquiries : Stands(Resolves[cargo[i].text], cargo[i].id)
  /\ \A at \in RateIndexes :
       LET rate == rates[at[1]][at[2]] IN
         rate.amount = "number" /\ Stands(Resolves[rate.code], rate.id)

\* What the SQL checks again before it writes.
SqlAccepts ==
  /\ \A t, u \in AgencyTypes :
       t # u => t.code # NoText \/ u.code # NoText
  /\ \A t, u \in AgencyTypes :
       t # u /\ t.code # NoText /\ u.code # NoText => SqlKey[t.code] # SqlKey[u.code]
  /\ \A i \in TypeInquiries : Stands(SqlResolves[cargo[i].text], cargo[i].id)
  /\ \A at \in RateIndexes :
       LET rate == rates[at[1]][at[2]] IN
         /\ rate.amount = "number" /\ rate.code # NoText
         /\ Stands(SqlResolves[rate.code], rate.id)

\* Every inquiry and rate with the id of the Type its text stands for.
IdOf(found) == (CHOOSE t \in found : TRUE).id
Identified(found) ==
  [cargo |-> [i \in TypeInquiries |-> [cargo[i] EXCEPT !.id = IdOf(found[cargo[i].text])]],
   rates |-> [s \in TariffSets |-> [k \in 1..Len(rates[s]) |->
                [rates[s][k] EXCEPT !.id = IdOf(found[rates[s][k].code]),
                                    !.named = TRUE]]]]

\* The postflight compares what the SQL has written with the plan.
Identity ==
  /\ ~codeless /\ ReportClear /\ PlanBuilds /\ SqlAccepts
  /\ Identified(SqlResolves) = Identified(Resolves)
  /\ cargo' = Identified(SqlResolves).cargo
  /\ rates' = Identified(SqlResolves).rates
  /\ UNCHANGED <<types, sources, codeless, issuedType, renaming, edits>>

-----------------------------------------------------------------------------
(* The contract of the codes, and the lookup they were for.                *)

\* contractRates: every rate names a Type by id, and no two the same.
TwoOfOneType(set) ==
  \E j, k \in 1..Len(set) : j # k /\ set[j].id = set[k].id

\* Mutant of ContractTakes: a rate without a Type is let through.
ContractTakesAny(sets) == types # {} /\ \A s \in TariffSets : ~TwoOfOneType(sets[s])

ContractTakes(sets) ==
  /\ types # {}
  /\ \A s \in TariffSets :
       /\ ~TwoOfOneType(sets[s])
       /\ \A k \in 1..Len(sets[s]) :
            /\ \E t \in types : sets[s][k].id = t.id
            /\ sets[s][k].named /\ sets[s][k].amount = "number"

ContractCodes ==
  /\ ~codeless /\ ContractTakes(rates)
  /\ types' = {[t EXCEPT !.code = NoText] : t \in types}
  /\ rates' = [s \in TariffSets |-> [k \in 1..Len(rates[s]) |->
                 [rates[s][k] EXCEPT !.code = NoText]]]
  /\ codeless' = TRUE
  /\ UNCHANGED <<sources, cargo, issuedType, renaming, edits>>

\* resolveCargoAgencyRate, with the legacy fallback: the first rate with the
\* Type's id, else the first without an id whose code is the inquiry's text.
OfType(i, s) == {k \in 1..Len(rates[s]) : cargo[i].id # 0 /\ rates[s][k].id = cargo[i].id}
OfCode(i, s) ==
  {k \in 1..Len(rates[s]) :
     /\ rates[s][k].id = 0 /\ Form(Folded, rates[s][k].code) # NoText
     /\ Form(Folded, rates[s][k].code) = Form(Folded, cargo[i].text)}
Fitting(i, s) == IF OfType(i, s) # {} THEN OfType(i, s) ELSE OfCode(i, s)
Charges(i, s, k) == k \in Fitting(i, s) /\ \A j \in Fitting(i, s) : k <= j

-----------------------------------------------------------------------------
(* Staff, on the version of the application that no longer writes codes.   *)

Edit == edits < MaxEdits /\ edits' = edits + 1

NameFree(s, name, but) ==
  \A t \in types : t.service = s /\ Folded[t.name] = Folded[name] => t.id = but

CreateType(s, name) ==
  /\ Edit /\ issuedType + 1 \in TypeIds /\ NameFree(s, name, 0)
  /\ issuedType' = issuedType + 1
  /\ types' = types \cup
       {[id |-> issuedType + 1, service |-> s, code |-> NoText, name |-> name]}
  /\ UNCHANGED <<sources, cargo, rates, codeless, renaming>>

LoadType(t) ==
  /\ t \in types /\ renaming = {} /\ renaming' = {t}
  /\ UNCHANGED <<types, sources, cargo, rates, codeless, issuedType, edits>>

\* The entity is saved whole, without its code, which it does not map: an
\* UPDATE of the name; if the row is gone an INSERT, or, if it went after
\* TypeORM reloaded it, nothing.
SaveType(t, name) ==
  /\ Edit /\ t \in renaming /\ renaming' = {}
  /\ NameFree(t.service, name, t.id)
  /\ \/ /\ \E u \in types : u.id = t.id
        /\ types' = {IF u.id = t.id THEN [u EXCEPT !.name = name] ELSE u : u \in types}
     \/ /\ \A u \in types : u.id # t.id
        /\ \/ types' = types \cup {[t EXCEPT !.name = name, !.code = NoText]}
           \/ types' = types
  /\ UNCHANGED <<sources, cargo, rates, codeless, issuedType>>

\* Inquiries keep a Type by a foreign key; rates name it inside a document.
DeleteType(t) ==
  /\ t \in types
  /\ \A i \in TypeInquiries : cargo[i].id # t.id
  /\ types' = types \ {t}
  /\ UNCHANGED <<sources, cargo, rates, codeless, issuedType, renaming, edits>>

\* validateEpdaParameterValues: positive ids, no two the same; that a Type
\* has the id is not checked.
SaveRates(s, ids) ==
  /\ Edit /\ \A j, k \in DOMAIN ids : ids[j] = ids[k] => j = k
  /\ rates' = [rates EXCEPT ![s] = [k \in DOMAIN ids |->
       [id |-> ids[k], code |-> NoText, named |-> TRUE, amount |-> "number"]]]
  /\ UNCHANGED <<types, sources, cargo, codeless, issuedType, renaming>>

\* An EPDA is given a Type, whose name becomes its cargo type, or a text.
ChooseType(i, t) ==
  /\ Edit /\ t \in AgencyTypes
  /\ cargo' = [cargo EXCEPT ![i] = [id |-> t.id, text |-> t.name]]
  /\ UNCHANGED <<types, sources, rates, codeless, issuedType, renaming>>

WriteCargo(i, text) ==
  /\ Edit /\ cargo' = [cargo EXCEPT ![i].text = text]
  /\ UNCHANGED <<types, sources, rates, codeless, issuedType, renaming>>

-----------------------------------------------------------------------------

TypesInit ==
  /\ types \in StartTypes /\ sources \in StartSources
  /\ cargo \in StartCargo /\ rates \in StartRates
  /\ \A i \in TypeInquiries : cargo[i].id # 0 => \E t \in types : t.id = cargo[i].id
  /\ codeless = FALSE /\ renaming = {} /\ edits = 0
  /\ issuedType \in TypeIds \cup {0}
  /\ \A t \in types : t.id <= issuedType

StaffEdit ==
  \/ \E s \in TypeServices, name \in Texts : CreateType(s, name)
  \/ \E t \in types : LoadType(t) \/ DeleteType(t)
  \/ \E t \in renaming, name \in Texts : SaveType(t, name)
  \/ \E s \in TariffSets : \E n \in 0..MaxRates :
       \E ids \in [1..n -> TypeIds] : SaveRates(s, ids)
  \/ \E i \in TypeInquiries, t \in types : ChooseType(i, t)
  \/ \E i \in TypeInquiries, text \in Texts \cup {NoText} : WriteCargo(i, text)

TypesNext == Backfill \/ Identity \/ ContractCodes \/ StaffEdit

TypesTypeOK ==
  /\ types \subseteq Type /\ sources \subseteq Source
  /\ \A t, u \in types : t.id = u.id => t = u
  /\ cargo \in [TypeInquiries -> Cargo]
  /\ rates \in [TariffSets -> Rates]
  /\ codeless \in BOOLEAN
  /\ issuedType \in TypeIds \cup {0}
  /\ \A t \in types \cup renaming : t.id <= issuedType
  /\ renaming \subseteq Type
  /\ edits \in 0..MaxEdits

-----------------------------------------------------------------------------

\* A preflight that lets a phase start is enough for it to end well, whatever
\* staff has made of the data: the INSERT of the backfill can leave no
\* candidate out, its postflight passes; and what the identity phase plans
\* passes the preflight of the contract, unless two rates of one set come to
\* the same Type, which only the contract looks for.
PreflightSuffices ==
  /\ BackfillAccepts(types) =>
       \A chosen \in SUBSET Candidates :
         Fills(chosen) => BackfillComplete(types \cup Added(chosen))
  /\ PlanBuilds /\ types # {} =>
       \/ ContractTakes(Identified(Resolves).rates)
       \/ \E s \in TariffSets : TwoOfOneType(Identified(Resolves).rates[s])

\* Neither the identity phase nor the contract changes what an inquiry is
\* charged: the rate the lookup finds before is the rate it finds after,
\* unless two rates of the set come to the same Type.
TariffsSurvive ==
  [][Identity \/ ContractCodes =>
       \A i \in TypeInquiries, s \in TariffSets : ~TwoOfOneType(rates'[s]) =>
         \A k \in 1..Len(rates[s]) : Charges(i, s, k) => Charges(i, s, k)']_typeVars
=============================================================================
