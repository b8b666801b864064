---------------------------- MODULE MCMigrations ----------------------------
(* The migration scripts of the repository, and small instances of the two  *)
(* catalogue migrations, for TLC.                                           *)
EXTENDS Maintenance, PlatformMigrations, CatalogueMigrations,
        EpdaMigrations, BookingMigrations, TLC

CONSTANTS r1, r2, n1, n2, image1, document1, editor1, inquiry1, tariff1, agency, none

AllScripts == PlatformScripts @@ CatalogueScripts @@ EpdaScripts @@ BookingScripts
AllNames == DOMAIN AllScripts
AllPrevents ==
  {p : p \in PlatformPrevents \cup CataloguePrevents \cup EpdaPrevents
               \cup BookingPrevents}
AllFamilies ==
  PlatformFamilies \cup CatalogueFamilies \cup EpdaFamilies \cup BookingFamilies
AllStarts ==
  [f \in AllFamilies |->
     IF f \in PlatformFamilies THEN PlatformStarts(f)
     ELSE IF f \in CatalogueFamilies THEN CatalogueStarts(f)
     ELSE IF f \in EpdaFamilies THEN EpdaStarts
     ELSE BookingStarts(f)]
Named(s) ==
  AllScripts[s].needs \cup AllScripts[s].blocks \cup AllScripts[s].adds
    \cup AllScripts[s].builds \cup AllScripts[s].removes \cup AllScripts[s].goal
AllFacts ==
  {f : f \in UNION {Named(s) : s \in AllNames}
               \cup UNION {UNION AllStarts[g] : g \in AllFamilies}}

\* TLC evaluates a definition that replaces a constant at every use, and one
\* that is used by it only once.
MCRunners == {r1, r2}
MCScript == AllScripts
MCScripts == AllNames
MCPrevents == AllPrevents
MCFamilies == AllFamilies
MCStarts == AllStarts
MCFacts == AllFacts
MCAppFacts == {"role duplicates", "email duplicates", "username duplicates",
               "oauth duplicates", "orphans", "commodity duplicates",
               "unresolved cargo types", "malformed rates",
               "duplicate group names", "empty overrides", "booking rows",
               "same numbers", "weights edited", "duplicate referenced",
               "other rows"}

-----------------------------------------------------------------------------
(* The catalogue of Types.  Of the texts the second is the first in another *)
(* case, the third the first with a hyphen, and the fourth has no Latin     *)
(* letter.                                                                  *)

MCTexts == {"coil", "COIL", "coil-", "other", "PLATE"}
MCFolded == [text \in MCTexts |-> IF text = "COIL" THEN "coil" ELSE text]
MCKey == [text \in MCTexts |-> IF text \in {"COIL", "coil-"} THEN "coil" ELSE text]
MCSqlKey == [MCKey EXCEPT !["other"] = none]
MCCodeOf == [text \in MCTexts |->
               CASE text = "PLATE" -> "PLATE" [] text = "other" -> none [] OTHER -> "COIL"]

MCType(id, code, name) == [id |-> id, service |-> agency, code |-> code, name |-> name]
MCStartTypes ==
  {{}} \cup {{MCType(1, code, name)} : code \in MCTexts \cup {none}, name \in {"COIL", "other"}}
    \cup {{MCType(1, "coil", "coil"), MCType(2, code, "other")} : code \in MCTexts \ {"COIL"}}

MCSource(text, name, rank) == [service |-> agency, text |-> text, name |-> name, rank |-> rank]
MCStartSources ==
  {{}, {MCSource("coil", "coil", 1)},
   {MCSource("coil", "coil", 1), MCSource("coil-", "other", 2)},
   {MCSource("coil", "coil", 1), MCSource("PLATE", "COIL", 2)},
   {MCSource("coil", "coil", 1), MCSource("PLATE", "other", 2)}}

MCStartCargo == [TypeInquiries -> [id : 0..1, text : {none, "coil", "other"}]]

MCRate(id, code, amount) == [id |-> id, code |-> code, named |-> FALSE, amount |-> amount]
MCStartRates ==
  [TariffSets -> {<<>>, <<MCRate(0, "COIL", "number"), MCRate(0, "other", "number")>>}
                   \cup {<<MCRate(id, code, amount)>> : id \in 0..1, code \in {"COIL", "other"},
                                                       amount \in {"number", "junk"}}]
=============================================================================
