--------------------------- MODULE GenCargoAbstract ---------------------------
(***************************************************************************)
(* What gen-cargo promises, as its help text and the comments of rust.py   *)
(* state it, in one step from its inputs to its outcome.  "." (or          *)
(* ".:name") stands for the one cargo target of the current directory or   *)
(* of a directory above it (with that name); no such target or several is *)
(* an error.  The link made points to the target's Fuchsia Cargo.toml,     *)
(* falling back to the host one (rust.py lines 85-86), under               *)
(* gen/<path>/<name>, where a missing name is the last directory (lines    *)
(* 75-80).  When neither Cargo.toml exists nothing is linked; when the     *)
(* output path is a directory the link cannot be made.  The targets of "." *)
(* are listed by fx, which may fail; the run then ends with that error.    *)
(***************************************************************************)
EXTENDS Integers, Sequences

CONSTANT NoName     \* the missing ":name" part of a target

VARIABLES
    arg,            \* the gn_target argument
    cwd,            \* the current directory, relative to FUCHSIA_DIR
    listing,        \* the targets the build knows
    targetBuilt,    \* the Fuchsia Cargo.toml of a target exists
    hostBuilt,      \* the host Cargo.toml of a target exists
    output,         \* what the output path holds
    outcome,        \* "running", then "done", "fx_error", "value_error",
                    \* "os_error" or "internal_error"
    link            \* the Cargo.toml the output links to, once done

absVars == <<arg, cwd, listing, targetBuilt, hostBuilt, output, outcome, link>>

NoLink == [variant |-> "none", rel |-> <<>>]

\* The listed cargo targets at the directory or above it, with the name.
CargoTargetsHere ==
    {k \in DOMAIN listing :
        LET l == listing[k]
        IN  /\ l.colon /\ l.suffix = "_cargo"
            /\ Len(l.path) <= Len(cwd)
            /\ \A d \in 1..Len(l.path) : l.path[d] = cwd[d]
            /\ arg.name \in {NoName, l.base}}

\* The argument names a target: explicitly, or as the only one here.
Resolvable == ~arg.dot \/ \E k \in DOMAIN listing : CargoTargetsHere = {k}

ResolvedTarget ==
    IF arg.dot
      THEN LET k == CHOOSE k \in DOMAIN listing : CargoTargetsHere = {k}
           IN  [path |-> listing[k].path, name |-> listing[k].base]
      ELSE [path |-> arg.path, name |-> arg.name]

\* gen/<path>/<name>, the name defaulting to the last directory.
ManifestOf(t) ==
    t.path \o <<IF t.name = NoName THEN t.path[Len(t.path)] ELSE t.name>>

AbsInit ==
    /\ outcome = "running"
    /\ link = NoLink

\* The whole run, from the argument to the outcome.
Finish ==
    /\ outcome = "running"
    /\ \/ /\ arg.dot
          /\ outcome' = "fx_error"
          /\ UNCHANGED <<output, link>>
       \/ /\ ~Resolvable
          /\ outcome' = "value_error"
          /\ UNCHANGED <<output, link>>
       \/ /\ Resolvable
          /\ ~targetBuilt /\ ~hostBuilt
          /\ outcome' = "internal_error"
          /\ UNCHANGED <<output, link>>
       \/ /\ Resolvable
          /\ targetBuilt \/ hostBuilt
          /\ output = "dir"
          /\ outcome' = "os_error"
          /\ UNCHANGED <<output, link>>
       \/ /\ Resolvable
          /\ targetBuilt \/ hostBuilt
          /\ output # "dir"
          /\ outcome' = "done"
          /\ output' = "link"
          /\ link' = [variant |-> IF targetBuilt THEN "target" ELSE "host",
                      rel |-> ManifestOf(ResolvedTarget)]
    /\ UNCHANGED <<arg, cwd, listing, targetBuilt, hostBuilt>>

AbsSpec == AbsInit /\ [][Finish]_absVars

=============================================================================
