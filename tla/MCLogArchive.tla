----------------------------- MODULE MCLogArchive -----------------------------
(* Small instances of LogArchive for TLC. *)
EXTENDS LogArchive

===============================================================================
