------------------------------ MODULE ImportClosure ------------------------------
(***************************************************************************)
(* What loading a program promises, whatever the order: sources are loaded *)
(* that the main one or a loaded one imports, each of them once, until     *)
(* nothing that is imported is missing, or one of them is not accepted.    *)
(***************************************************************************)
EXTENDS Integers, Sequences

CONSTANTS
  MainPath,
  Unit(_)      \* what a parser makes of a text: its outcome, declarations and imports

VARIABLES
  files,       \* the texts by their paths
  loaded,      \* the paths of the accepted sources
  status

closureVars == <<files, loaded, status>>

\* A file that cannot be read is as good as an empty one.
TextAt(path) == IF path \in DOMAIN files THEN files[path] ELSE ""
UnitAt(path) == Unit(TextAt(path))

ImportedBy(path) == {UnitAt(path).imports[k] : k \in DOMAIN UnitAt(path).imports}
Wanted(paths) == {MainPath} \cup UNION {ImportedBy(p) : p \in paths}

ClosureInit == loaded = {} /\ status = "loading"

Load ==
  /\ status = "loading"
  /\ \E p \in Wanted(loaded) \ loaded :
       UnitAt(p).outcome = "parsed" /\ loaded' = loaded \cup {p}
  /\ UNCHANGED <<files, status>>

Refuse ==
  /\ status = "loading"
  /\ \E p \in Wanted(loaded) \ loaded :
       UnitAt(p).outcome # "parsed" /\ status' = UnitAt(p).outcome
  /\ UNCHANGED <<files, loaded>>

Close ==
  /\ status = "loading"
  /\ Wanted(loaded) \subseteq loaded
  /\ status' = "loaded"
  /\ UNCHANGED <<files, loaded>>

ClosureNext == Load \/ Refuse \/ Close

ClosureSpec == ClosureInit /\ [][ClosureNext]_closureVars

================================================================================
