------------------------------ MODULE MCImporter ------------------------------
(* Importer for TLC: two run ids, one of which begins like the other's backups. *)
EXTENDS Importer

CONSTANTS pay, backup2

NamedAlike == {<<pay, backup2>>}
=============================================================================
