------------------------------- MODULE MCBFS -------------------------------
(* Trees of up to three levels: directories, tables and contracts compete  *)
(* for the same paths, some written with doubled or trailing slashes.      *)
EXTENDS BFS

MCDirPaths ==
  {Root, <<"apps", "x">>, <<"apps", "x", "y">>, <<"apps", "x", "">>, <<"tables", "x">>,
   <<"tables", "x", "y">>, <<"apps", "bad">>, <<"", "apps">>, <<"sys", "x">>}
MCTableNames == {<<>>, <<"">>, <<"x">>, <<"x", "y">>, <<"x", "", "y">>}
MCDeployments == {<<"apps", "x">>, <<"apps", "x", "y">>}
============================================================================
