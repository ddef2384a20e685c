----------------------------- MODULE MCConsole -----------------------------
(* Instances of Console for TLC.                                           *)
EXTENDS Console, TLC

\* Three tables in two catalogs; two tables have the same name, and their names
\* make the same key.
SomeTables == {<<<<"a">>, <<"b", ".", "c">>, <<"d">>>>, <<<<"a", ".", "b">>, <<"c">>, <<"d">>>>,
               <<<<"a", ".", "b">>, <<"c">>, <<"e">>>>}

\* No folder, and one.
SomeFolders == {<<>>, <<"Reports">>}

\* Flows, requests and notebooks are only compared for equality.
Symmetry == Permutations(Slots) \cup Permutations(Ids)
=============================================================================
