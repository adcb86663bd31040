------------------------------ MODULE P9SrvPaths ------------------------------
(***************************************************************************)
(* P9Srv implements FidPaths: the handles a fid reaches over "next" are a  *)
(* path, and a walk, which takes many steps there, is one step here.       *)
(***************************************************************************)
EXTENDS P9Srv

(* The nodes of the handles from p down to the root. *)
PathFrom(nx, nd, p) ==
  LET path[h \in Chain(nx, p) \cup {NULL}] ==
        IF h = NULL THEN <<>> ELSE <<nd[h]>> \o path[nx[h]]
  IN  path[p]

PathOf ==
  [x \in Fid |-> IF x \in fids THEN PathFrom(next, node, aux[x]) ELSE <<>>]

(* A walk is being served until its answer is sent: when newfid has its    *)
(* stack, or when a failed walk has dropped its references.                *)
Walking == pc \in {"walk", "release"} /\ req.op = "walk"

CallOf ==
  IF Walking
  THEN [op |-> "walk", fid |-> req.fid, newfid |-> req.newfid,
        names |-> req.names]
  ELSE [op |-> "none"]

Paths == INSTANCE FidPaths WITH path <- PathOf, call <- CallOf

(* Clients see paths: what each walk, clunk and attach answers depends only *)
(* on the paths of the fids, is computed as if at once, and touches no      *)
(* other fid, although the stacks share handles that are recycled.          *)
ImplementsPaths == Paths!Safety

(* Every request is answered, and so a walk that p9srv_ops_walk() has begun *)
(* is: with a new stack, or after a failed one gave its references back.    *)
AllAnswered == Answered /\ Paths!Answers

(* What a running walk has done so far: f leads to the path that the names  *)
(* taken so far lead to, from the path its fid has now as it had at the     *)
(* start; once a name is missing the whole walk leads nowhere.              *)
WalkOK ==
  /\ pc = "walk" => /\ req.op = "walk"
                    /\ req.fid \in fids
                    /\ req.i \in 0..Len(req.names)
                    /\ PathFrom(next, node, f) =
                         Paths!Steps(PathOf[req.fid], req.names)[req.i]
  /\ pc = "list" => req.op # "walk"
  /\ pc = "release" /\ req.op = "walk" =>
       /\ req.newfid \notin fids
       /\ Paths!Resolve(PathOf[req.fid], req.names) = <<>>

(* The list a directory read makes has a handle for each entry, in the      *)
(* order of the property list, as long as getFileHandle() refused none:     *)
(* the sequence of entries that the module DirRead starts from.             *)
ListInOrder ==
  pc = "list" /\ (\A x \in 1..req.i : Listed[x].node # NoNode) =>
    LET made == PathFrom(next, node, f)
    IN  /\ fh = NULL <=> req.i = 0
        /\ Len(made) = req.i
        /\ \A x \in 1..req.i : made[x] = Listed[x].node
==============================================================================
