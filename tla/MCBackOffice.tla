----------------------------- MODULE MCBackOffice -----------------------------
(* Small instances of the back office for TLC.                             *)
EXTENDS BackOffice, TLC

CONSTANTS none, unset, a, b, f, c1, c2, p1

\* A customer id of another system.
MCLegacyIds == {-1}

\* Two groups in one area.
MCGroups == 1 :> 1 @@ 2 :> 1

\* Two folders and a third inside the first; a file in each of the two.
MCFolders == {<<1>>, <<2>>, <<1, 9>>}
MCFiles == {<<1, 2>>, <<2, 2>>}

\* A folder with its own object, a file and a file in the folder inside.
MCBuckets == {<<1, 0>> :> 0 @@ <<1, 2>> :> 1 @@ <<1, 9, 2>> :> 2}
=============================================================================
