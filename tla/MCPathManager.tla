--------------------------- MODULE MCPathManager ---------------------------
(***************************************************************************)
(* Instances of PathManager for TLC: configuration files with one or both  *)
(* of a static and a regular expression configuration.                     *)
(***************************************************************************)
EXTENDS PathManager

CONSTANTS n1, n2, j1, j2, m1, m2

File(S, major, minor) == [n \in S |-> [name |-> n, major |-> major, minor |-> minor]]

Files == {File({n1, Wildcard}, j1, m1), File({n1, Wildcard}, j1, m2),
          File({Wildcard}, j1, m1), File({n1}, j2, m1)}

(* The secondary camera is served by the regular expression, its primary   *)
(* has a configuration of its own.                                         *)
Primaries == [n \in {n2} |-> n1]
=============================================================================
