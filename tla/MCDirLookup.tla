----------------------------- MODULE MCDirLookup -----------------------------
(***************************************************************************)
(* Two files or directories besides the root, directories of five entries, *)
(* of which a listing's page holds four; of the long names one begins like *)
(* another, so that a fragment too many or too few makes a wrong name of a *)
(* right one.  A file holds fragments without end, or an entry of its own  *)
(* behind one that has no number: the search goes through both, a listing  *)
(* that nothing has failed for only through directories.                   *)
(***************************************************************************)
EXTENDS DirLookup

MCLongNames  == {<<"a">>, <<"a", "b">>, <<"b", "b">>}
MCShortNames == {<<"s">>}
MCFileData ==
  {[k \in Index |-> Long(1, "a")],
   [k \in Index |-> CASE k = 0 -> Long(0, "a")
                      [] k = 1 -> Short(<<"s">>, Node(0, "dir"))
                      [] OTHER -> EndMark]}
MCPaths == {<<n>> : n \in Names} \cup {<<n, m>> : n \in Names, m \in {<<"a">>, <<"s">>}}
             \cup {<<<<"b", "b">>, <<"s">>, <<"a">>>>}
=============================================================================
