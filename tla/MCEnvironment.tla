---------------------------- MODULE MCEnvironment ----------------------------
(***************************************************************************)
(* The lists of environments that the runs of Environment begin with.      *)
(***************************************************************************)
EXTENDS Environment

\* An excluded name with and without a value, the name of a path without one, and a
\* bad string.
MCStrings == {EnvElement(1, 0), EnvElement(1, 1), EnvElement(2, 0)} \cup BadStrings
MCEnvLists == UNION {[1 .. n -> MCStrings] : n \in 0 .. 2}
=============================================================================
