---------------------------- MODULE MCMigrations ----------------------------
(***************************************************************************)
(* Instance of the migrations for TLC: two programs of the newest version  *)
(* and one that lacks its last migration.                                  *)
(***************************************************************************)
EXTENDS Migrations

CONSTANTS run, api, old

MCKnown == [o \in Openers |-> IF o = old THEN 1 ELSE Newest]
=============================================================================
