---------------------------- MODULE MCMigrations ----------------------------
(* A small instance of Migrations for TLC. *)
EXTENDS Migrations, TLC

\* Commands are interchangeable.
CommandSymmetry == Permutations(Cmd)
=============================================================================
