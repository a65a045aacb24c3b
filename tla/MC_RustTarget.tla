---------------------------- MODULE MC_RustTarget ----------------------------
(***************************************************************************)
(* A small instance of RustTarget: two target directories, and names that  *)
(* tell rstrip("_build") apart from removing the suffix: "x_build" (same   *)
(* result), "lib_build" (stripped to nothing), and "x_copy" (not a build   *)
(* rule).                                                                  *)
(***************************************************************************)
EXTENDS RustTarget

MCPaths == {"a", "b"}

MCNames == {<<"x", "_", "b", "u", "i", "l", "d">>,
            <<"l", "i", "b", "_", "b", "u", "i", "l", "d">>,
            <<"x", "_", "c", "o", "p", "y">>}
=============================================================================
