------------------------------- MODULE GenCargo -------------------------------
(***************************************************************************)
(* main() of tools/devshell/contrib/lib/rust/gen-cargo.py (lines 16-58),   *)
(* with what it calls in rust.py: the GnTarget constructor (40-62), the    *)
(* discovery of the cargo target of the current directory                  *)
(* (_find_cargo_target and _walk_up_path, 14-38), GnTarget.path (67-69)    *)
(* and GnTarget.manifest_path (71-92).                                     *)
(*                                                                         *)
(* The argument names a GN target: "path", "path:name", "." or ".:name".   *)
(* For the "." forms the targets of "fx build -t targets" are scanned for  *)
(* one "<name>_cargo" at the current directory or above it; exactly one    *)
(* must be found.  The Cargo.toml generated for the target (for Fuchsia,   *)
(* or else for the host) is then linked to from <path>/Cargo.toml, or      *)
(* from the --output path, after removing what was there.                  *)
(*                                                                         *)
(* Paths are sequences of directory names relative to FUCHSIA_DIR, so      *)
(* that "at the directory or above it" and basename() are what they are in *)
(* the code.  A line of the targets listing is a record: whether it has a  *)
(* colon, its path, and its name as a base and a suffix ("_cargo" or       *)
(* another one); name[:name.rindex("_")] of a name ending in "_cargo" is   *)
(* its base.  The file system is the environment: whether each Cargo.toml  *)
(* exists, and what the output path holds, are chosen freely.              *)
(***************************************************************************)
EXTENDS Integers, Sequences, FiniteSets

CONSTANTS
    Paths,          \* directories of GN targets, non-empty sequences of names
    TNames,         \* target base names
    NoName,         \* the missing ":name" part of an argument
    MaxTargets      \* the most lines of the targets listing

ASSUME GenCargoAssumption ==
    /\ MaxTargets \in Nat
    /\ NoName \notin TNames
    /\ \A p \in Paths : p \in Seq(STRING) /\ p # <<>>

VARIABLES
    pc,             \* "discover", "resolved", "linking", then "done",
                    \* "fx_error", "value_error", "os_error" or "internal_error"
    arg,            \* the gn_target argument, after lstrip("/")
    cwd,            \* os.path.relpath(os.path.abspath("."), ROOT_PATH)
    listing,        \* the lines of "fx build -t targets"
    i,              \* the next line of the listing to scan
    found,          \* the targets _find_cargo_target has yielded so far
    gnTarget,       \* self.parts of the constructed GnTarget
    manifest,       \* the path manifest_path() returned
    targetBuilt,    \* the Fuchsia Cargo.toml of the target exists
    hostBuilt,      \* the host_x64 Cargo.toml of the target exists
    output,         \* what the output path holds
    exitCode        \* the process exit status, once the program ends

vars == <<pc, arg, cwd, listing, i, found, gnTarget, manifest, targetBuilt,
          hostBuilt, output, exitCode>>

Args == [dot : {TRUE}, path : {<<>>}, name : TNames \cup {NoName}]
          \cup [dot : {FALSE}, path : Paths, name : TNames \cup {NoName}]

ListingLines == [colon : BOOLEAN, path : Paths, base : TNames,
                 suffix : {"_cargo", "_other"}]

Targets == [path : Paths, name : TNames \cup {NoName}]

\* What the output path can hold before the link is made.
OutputStates == {"absent", "file", "link", "dir"}

\* _walk_up_path (lines 14-21): the path and every directory above it.
\* For the top directory relpath is ".", which no listed path equals.
WalkUp(p) == {SubSeq(p, 1, k) : k \in 1..Len(p)}

\* Mutant: the target filter of lines 33-34 is not applied.
MatchesNoFilter(l) ==
    /\ l.colon
    /\ l.path \in WalkUp(cwd)
    /\ l.suffix = "_cargo"

\* Lines 27-34: a line of the listing names a cargo target here or above.
Matches(l) ==
    /\ l.colon
    /\ l.path \in WalkUp(cwd)
    /\ l.suffix = "_cargo"
    /\ arg.name = NoName \/ arg.name = l.base

\* Lines 75-80: foo/bar becomes foo/bar/bar, foo/bar:baz becomes foo/bar/baz.
ManifestRel(t) ==
    Append(t.path, IF t.name = NoName THEN t.path[Len(t.path)] ELSE t.name)

Init ==
    /\ pc = "discover"
    /\ arg \in Args
    /\ cwd \in Paths
    /\ listing \in UNION {[1..n -> ListingLines] : n \in 0..MaxTargets}
    /\ i = 1
    /\ found = <<>>
    /\ gnTarget = [path |-> <<>>, name |-> NoName]
    /\ manifest = [variant |-> "none", rel |-> <<>>]
    /\ targetBuilt \in BOOLEAN
    /\ hostBuilt \in BOOLEAN
    /\ output \in OutputStates
    /\ exitCode = -1

\* Lines 41-44 and 61-62: an explicit target is only split at its colon.
ParseLabel ==
    /\ pc = "discover"
    /\ ~arg.dot
    /\ gnTarget' = [path |-> arg.path, name |-> arg.name]
    /\ pc' = "resolved"
    /\ UNCHANGED <<arg, cwd, listing, i, found, manifest, targetBuilt, hostBuilt, output, exitCode>>

(***************************************************************************)
(* rust.py line 25: "fx build -t targets" exits non-zero when the          *)
(* generator is first advanced, before any line is read.  check_output     *)
(* raises CalledProcessError, which argparse does not catch (it converts   *)
(* only ValueError, TypeError and ArgumentTypeError): a traceback, exit    *)
(* status 1.                                                                *)
(***************************************************************************)
ListingFails ==
    /\ pc = "discover"
    /\ arg.dot
    /\ i = 1
    /\ pc' = "fx_error"
    /\ exitCode' = 1
    /\ UNCHANGED <<arg, cwd, listing, i, found, gnTarget, manifest, targetBuilt, hostBuilt, output>>

\* Mutant: the name yielded without cutting off "_cargo" (line 32 dropped).
DiscoverLineKeepSuffix ==
    /\ pc = "discover"
    /\ arg.dot
    /\ i <= Len(listing)
    /\ found' = IF Matches(listing[i])
                  THEN Append(found, [path |-> listing[i].path,
                                      name |-> listing[i].base \o listing[i].suffix])
                  ELSE found
    /\ i' = i + 1
    /\ UNCHANGED <<pc, arg, cwd, listing, gnTarget, manifest, targetBuilt, hostBuilt, output, exitCode>>

\* rust.py lines 26-38: one line of the listing; a match is yielded as path:base.
DiscoverLine ==
    /\ pc = "discover"
    /\ arg.dot
    /\ i <= Len(listing)
    /\ found' = IF Matches(listing[i])
                  THEN Append(found, [path |-> listing[i].path, name |-> listing[i].base])
                  ELSE found
    /\ i' = i + 1
    /\ UNCHANGED <<pc, arg, cwd, listing, gnTarget, manifest, targetBuilt, hostBuilt, output, exitCode>>

(***************************************************************************)
(* rust.py lines 48-59: list(...) is complete.  No target or more than one *)
(* raise ValueError, which argparse turns into a usage error (exit status  *)
(* 2); one target becomes the GnTarget.                                    *)
(***************************************************************************)
DiscoverEnd ==
    /\ pc = "discover"
    /\ arg.dot
    /\ i > Len(listing)
    /\ IF Len(found) = 1
         THEN /\ gnTarget' = found[1]
              /\ pc' = "resolved"
              /\ UNCHANGED exitCode
         ELSE /\ pc' = "value_error"
              /\ exitCode' = 2
              /\ UNCHANGED gnTarget
    /\ UNCHANGED <<arg, cwd, listing, i, found, manifest, targetBuilt, hostBuilt, output>>

\* Mutant: "if not os.path.isfile(target_manifest_path) and prefer_host".
ManifestPathAnd ==
    /\ pc = "resolved"
    /\ manifest' = [variant |-> IF ~targetBuilt /\ FALSE THEN "host" ELSE "target",
                    rel |-> ManifestRel(gnTarget)]
    /\ pc' = "linking"
    /\ UNCHANGED <<arg, cwd, listing, i, found, gnTarget, targetBuilt, hostBuilt, output, exitCode>>

(***************************************************************************)
(* gen-cargo.py line 40 and rust.py lines 71-92 (no prefer_host is passed, *)
(* so False): the Fuchsia Cargo.toml if it is a file, else the host one.   *)
(***************************************************************************)
ManifestPath ==
    /\ pc = "resolved"
    /\ manifest' = [variant |-> IF ~targetBuilt \/ FALSE THEN "host" ELSE "target",
                    rel |-> ManifestRel(gnTarget)]
    /\ pc' = "linking"
    /\ UNCHANGED <<arg, cwd, listing, i, found, gnTarget, targetBuilt, hostBuilt, output, exitCode>>

\* Mutant: the os.path.exists(path) check of line 47 left out.
LinkNoExistsCheck ==
    /\ pc = "linking"
    /\ IF output = "dir"
         THEN /\ pc' = "os_error"
              /\ exitCode' = 1
              /\ UNCHANGED output
         ELSE /\ output' = "link"
              /\ pc' = "done"
              /\ exitCode' = 0
    /\ UNCHANGED <<arg, cwd, listing, i, found, gnTarget, manifest, targetBuilt, hostBuilt>>

(***************************************************************************)
(* gen-cargo.py lines 47-53: os.path.exists(path) holds.                   *)
(* os.remove(output) succeeds on a file or a link, and its OSError is      *)
(* swallowed when there is nothing or a directory; os.symlink then fails   *)
(* on the directory with an uncaught OSError (exit status 1).              *)
(***************************************************************************)
Link ==
    /\ pc = "linking"
    /\ \/ manifest.variant = "target" /\ targetBuilt
       \/ manifest.variant = "host" /\ hostBuilt
    /\ IF output = "dir"
         THEN /\ pc' = "os_error"
              /\ exitCode' = 1
              /\ UNCHANGED output
         ELSE /\ output' = "link"
              /\ pc' = "done"
              /\ exitCode' = 0
    /\ UNCHANGED <<arg, cwd, listing, i, found, gnTarget, manifest, targetBuilt, hostBuilt>>

\* gen-cargo.py lines 54-55: the manifest does not exist; main() returns None.
NoManifest ==
    /\ pc = "linking"
    /\ \/ manifest.variant = "target" /\ ~targetBuilt
       \/ manifest.variant = "host" /\ ~hostBuilt
    /\ pc' = "internal_error"
    /\ exitCode' = 0
    /\ UNCHANGED <<arg, cwd, listing, i, found, gnTarget, manifest, targetBuilt, hostBuilt, output>>

Next ==
    \/ ParseLabel \/ ListingFails \/ DiscoverLine \/ DiscoverEnd
    \/ ManifestPath \/ Link \/ NoManifest

Spec == Init /\ [][Next]_vars

-----------------------------------------------------------------------------
(***************************************************************************)
(* Properties                                                              *)
(***************************************************************************)

TypeOK ==
    /\ pc \in {"discover", "resolved", "linking", "done", "fx_error",
               "value_error", "os_error", "internal_error"}
    /\ arg \in Args
    /\ i \in 1..Len(listing) + 1
    /\ found \in Seq(Targets)
    /\ gnTarget \in Targets \cup {[path |-> <<>>, name |-> NoName]}
    /\ manifest.variant \in {"none", "target", "host"}
    /\ output \in OutputStates
    /\ exitCode \in {-1, 0, 1, 2}

\* The listing lines that name a cargo target at or above the directory,
\* with the requested name if there is one.
Candidates ==
    {k \in DOMAIN listing :
        LET l == listing[k]
        IN  /\ l.colon /\ l.suffix = "_cargo"
            /\ Len(l.path) <= Len(cwd)
            /\ \A d \in 1..Len(l.path) : l.path[d] = cwd[d]
            /\ arg.name \in {NoName, l.base}}

(***************************************************************************)
(* Once fx has listed the targets, "." resolves exactly when one line of    *)
(* the listing names a "_cargo" target at the current directory or above   *)
(* it (and with the requested name, if one was given), and then to that    *)
(* target with "_cargo" cut off.  About the generator of lines 23-38 and    *)
(* the checks of 48-59.                                                     *)
(***************************************************************************)
DiscoveryMatchesSpec ==
    arg.dot /\ pc \notin {"discover", "fx_error"} =>
        \/ \E k \in DOMAIN listing :
              /\ Candidates = {k}
              /\ pc # "value_error"
              /\ gnTarget = [path |-> listing[k].path, name |-> listing[k].base]
        \/ /\ ~\E k \in DOMAIN listing : Candidates = {k}
           /\ pc = "value_error"

(***************************************************************************)
(* A link is made exactly when one of the target's Cargo.toml files        *)
(* exists and the output path is not a directory, and it points at the     *)
(* Fuchsia one when that exists, else at the host one, under               *)
(* gen/<path>/<name>, the name defaulting to the last directory.  About    *)
(* manifest_path (lines 71-92) and the exists check of gen-cargo.py 47-53. *)
(***************************************************************************)
LinkMatchesManifests ==
    pc \in {"done", "internal_error", "os_error"} =>
        /\ (pc = "internal_error") <=> ~targetBuilt /\ ~hostBuilt
        /\ pc = "done" =>
             /\ output = "link"
             /\ manifest.variant = IF targetBuilt THEN "target" ELSE "host"
             /\ manifest.rel = gnTarget.path \o
                  <<IF gnTarget.name = NoName THEN gnTarget.path[Len(gnTarget.path)]
                    ELSE gnTarget.name>>

(***************************************************************************)
(* The output path is changed by one step only, the last one: it becomes   *)
(* a link, the exit status 0, and the link points at the Cargo.toml of the *)
(* resolved target that exists, the Fuchsia one if it does, else the host  *)
(* one.  About the order of manifest_path() (rust.py 71-92), the exists    *)
(* check (gen-cargo.py 47) and os.remove/os.symlink (48-53).               *)
(***************************************************************************)
OutputOnlyLinkedToBuiltManifest ==
    [][output' # output =>
         /\ output' = "link"
         /\ pc' = "done"
         /\ exitCode' = 0
         /\ manifest.rel = ManifestRel(gnTarget)
         /\ IF targetBuilt THEN manifest.variant = "target"
                           ELSE manifest.variant = "host" /\ hostBuilt]_vars

(***************************************************************************)
(* Refinement: main() implements the one-step promise of GenCargoAbstract. *)
(* The run is "running" until it reaches a final state, and the output     *)
(* links to the chosen manifest once it is done.                           *)
(***************************************************************************)
Outcome == IF pc \in {"discover", "resolved", "linking"} THEN "running" ELSE pc

LinkedManifest == IF pc = "done" THEN manifest ELSE [variant |-> "none", rel |-> <<>>]

Abs == INSTANCE GenCargoAbstract WITH outcome <- Outcome, link <- LinkedManifest

(***************************************************************************)
(* The discovery, the choice of manifest and the link of gen-cargo.py      *)
(* 40-55 (with GnTarget and manifest_path, rust.py 40-92) together do what *)
(* the help text and the comments promise: every step but the last leaves  *)
(* the outcome open and the output untouched, and the last one ends the    *)
(* run with the outcome and the link that the argument, the listing and    *)
(* the file system call for.                                               *)
(***************************************************************************)
GenCargoImplementsAbstract == Abs!AbsSpec

(***************************************************************************)
(* gen-cargo.py reports "Internal error" when no Cargo.toml exists (line   *)
(* 55); a run that reports an error should not exit with status 0, which   *)
(* sys.exit(main()) gives it since main() returns None.                    *)
(***************************************************************************)
ErrorExitsNonZero ==
    pc = "internal_error" => exitCode # 0
=============================================================================
