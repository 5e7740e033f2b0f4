----------------------------- MODULE MCMigrate -----------------------------
(***************************************************************************)
(* Six builds of one program: the first release, the next one, a branch    *)
(* that was cut without the index, one that numbers its file before the    *)
(* index, a build in which an applied file was edited and lost its         *)
(* directive, and one that holds a version twice.                          *)
(***************************************************************************)
EXTENDS Migrate

CONSTANTS first, second, branch, early, edited, twice

M(v, b, n) == [version |-> v, body |-> b, noTx |-> n]

MCFiles ==
  [r \in Release |->
     CASE r = first  -> {M(1, 1, FALSE), M(3, 1, TRUE)}
       [] r = second -> {M(1, 1, FALSE), M(3, 1, TRUE), M(4, 1, FALSE)}
       [] r = branch -> {M(1, 1, FALSE), M(4, 1, FALSE)}
       [] r = early  -> {M(1, 1, FALSE), M(2, 1, FALSE)}
       [] r = edited -> {M(1, 1, FALSE), M(3, 2, FALSE), M(4, 1, FALSE)}
       [] r = twice  -> {M(1, 1, FALSE), M(1, 2, FALSE)}]
=============================================================================
