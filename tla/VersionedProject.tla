-------------------------- MODULE VersionedProject --------------------------
(***************************************************************************)
(* What a project's version promises those who remember it: compilations,  *)
(* reviews and working-tree comparisons (docs/DESIGN.md:111).  The files   *)
(* change in one step, together with the version, and a version is never   *)
(* used twice.  An operation that fails half-way may leave some files      *)
(* changed without a new version; those files are dirty until a recorded   *)
(* change gives them one.                                                  *)
(***************************************************************************)
EXTENDS Integers

CONSTANTS Paths

VARIABLES files,     \* the source files
          main,      \* the main document
          version,   \* the project version
          dirty      \* files whose content no version stands for

vars == <<files, main, version, dirty>>

Changed == {p \in Paths : files'[p] # files[p]}

\* Any change of the project, of its files or of its settings, is a new version.
\* It makes no file dirty, unless a dirty file is moved.
Change ==
  /\ version' = version + 1
  /\ dirty' \subseteq dirty \cup (IF dirty \cap Changed = {} THEN {} ELSE Changed)

\* A failure spoils some files and nothing else.
Spoil ==
  /\ \E S \in SUBSET Paths : Changed \subseteq S /\ dirty' = dirty \cup S
  /\ UNCHANGED <<version, main>>

Init == version = 1 /\ dirty = {}
Next == Change \/ Spoil
Spec == Init /\ [][Next]_vars
=============================================================================
