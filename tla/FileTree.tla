------------------------------ MODULE FileTree ------------------------------
(***************************************************************************)
(* The file tree an application serves, as the handlers see it: what an    *)
(* ops.lookup() answers.  A directory is a property list, an array of      *)
(* entries that ends at the entry without a name.  An entry yields a file  *)
(* handle for its node, or none when its getFileHandle() returns NULL.     *)
(***************************************************************************)
EXTENDS Integers, Sequences

CONSTANTS
  Node,       \* what a handle can denote: the ops and priv fields it carries
  Dir,        \* the nodes whose ops have a lookup()
  Root,       \* the node openRoot() returns
  NoNode,     \* the NULL that getFileHandle() may return
  Name,       \* the names in walk requests and in property lists
  Entries     \* the property list of each directory

DOT    == "."
DOTDOT == ".."

Entry == [name : Name, node : Node \cup {NoNode}]

ASSUME TreeAssumption ==
  /\ Dir \subseteq Node
  /\ Root \in Dir
  /\ NoNode \notin Node
  /\ {DOT, DOTDOT} \subseteq Name
  /\ Entries \in [Dir -> Seq(Entry)]

(* Entry x is the one at which the scan for name s stops. *)
FirstMatch(d, s, x) ==
  /\ x \in DOMAIN Entries[d]
  /\ Entries[d][x].name = s
  /\ \A y \in 1..(x - 1) : Entries[d][y].name # s

(* Looking name s up in node n yields a handle for node c. *)
Finds(n, s, c) ==
  /\ n \in Dir
  /\ c \in Node
  /\ \E x \in DOMAIN Entries[n] : FirstMatch(n, s, x) /\ Entries[n][x].node = c
==============================================================================
