------------------------------ MODULE MCP9Srv ------------------------------
(* Instances of P9Srv for TLC. *)
EXTENDS P9SrvPaths, TLC

CONSTANTS root, dir, file

MCNode == {root, dir, file}
MCDir  == {root, dir}
MCName == {DOT, DOTDOT, "d", "f"}

Ent(s, c) == [name |-> s, node |-> c]

(* A root with a directory and a file in it. *)
MCEntries == [n \in MCDir |-> IF n = root THEN <<Ent("d", dir), Ent("f", file)>>
                                          ELSE <<Ent("f", file)>>]

(* Property lists with entries that getFileHandle() refuses, one of them    *)
(* between two others, with two entries of one name, and with one named    *)
(* ".".                                                                     *)
MCOddName    == {DOT, DOTDOT, "d"}
MCOddEntries ==
  [n \in MCDir |->
     IF n = root THEN <<Ent("d", dir), Ent("d", NoNode), Ent("d", file)>>
                 ELSE <<Ent("d", NoNode), Ent(DOT, dir)>>]

Symmetry == Permutations(Fid)
=============================================================================
