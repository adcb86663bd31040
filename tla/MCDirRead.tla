------------------------------ MODULE MCDirRead ------------------------------
(* Instances of DirRead for TLC. *)
EXTENDS DirRead

(* An entry that is left out between two entries of 2 and 3 bytes. *)
MCStart == <<0, 2, 2, 5>>
==============================================================================
