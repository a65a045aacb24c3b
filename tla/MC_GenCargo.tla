----------------------------- MODULE MC_GenCargo -----------------------------
(***************************************************************************)
(* A small instance of GenCargo: a directory a, its subdirectory a/b and   *)
(* an unrelated directory c, and two target names, so that the current     *)
(* directory can have its own cargo target, one above it, one elsewhere,  *)
(* or two that the name filter tells apart.                                *)
(***************************************************************************)
EXTENDS GenCargo

MCPaths == {<<"a">>, <<"a", "b">>, <<"c">>}

MCTNames == {"a", "t"}
=============================================================================
