------------------------------- MODULE FidPaths -------------------------------
(***************************************************************************)
(* What the fid operations of p9srv_ops.c promise a client, without file   *)
(* handles: a fid stands for a path from the root, attach gives it the     *)
(* root, a walk computes a new path from it in one step or fails and       *)
(* changes nothing, a clunk ends it, and no operation on one fid changes   *)
(* the path of another.                                                    *)
(***************************************************************************)
EXTENDS FileTree

CONSTANTS Fid, MaxName

VARIABLES
  path,   \* of each fid, the node it stands for first; <<>> if not in use
  call    \* the walk being served

vars == <<path, call>>

NoCall == [op |-> "none"]

(* The path one name leads to from p; <<>> if there is none. *)
WalkName(p, s) ==
  IF p = <<>> THEN <<>>
  ELSE IF s = DOTDOT THEN IF Len(p) > 1 THEN Tail(p) ELSE p
  ELSE IF \A c \in Node : ~Finds(p[1], s, c) THEN <<>>
  ELSE IF s = DOT THEN p
  ELSE <<CHOOSE c \in Node : Finds(p[1], s, c)>> \o p

(* The paths a walk from p over the names ns goes through: the one after i *)
(* names.                                                                  *)
Steps(p, ns) ==
  LET s[i \in 0..Len(ns)] == IF i = 0 THEN p ELSE WalkName(s[i - 1], ns[i])
  IN  s

Resolve(p, ns) == Steps(p, ns)[Len(ns)]

Init ==
  /\ path = [x \in Fid |-> <<>>]
  /\ call = NoCall

Attach(x) ==
  /\ call = NoCall
  /\ path[x] = <<>>
  /\ path' = [path EXCEPT ![x] = <<Root>>]
  /\ UNCHANGED call

Names == UNION {[1..k -> Name] : k \in 0..MaxName}

BeginWalk(x, y) ==
  /\ call = NoCall
  /\ path[x] # <<>>
  /\ path[y] = <<>>
  /\ \E ns \in Names :
       call' = [op |-> "walk", fid |-> x, newfid |-> y, names |-> ns]
  /\ UNCHANGED path

EndWalk ==
  /\ call # NoCall
  /\ path' = [path EXCEPT ![call.newfid] = Resolve(path[call.fid], call.names)]
  /\ call' = NoCall

Clunk(x) ==
  /\ call = NoCall
  /\ path[x] # <<>>
  /\ path' = [path EXCEPT ![x] = <<>>]
  /\ UNCHANGED call

Next ==
  \/ \E x \in Fid : Attach(x) \/ Clunk(x) \/ \E y \in Fid : BeginWalk(x, y)
  \/ EndWalk

Safety == Init /\ [][Next]_vars

(* A walk that was begun is answered. *)
Answers == call # NoCall ~> call = NoCall

Spec == Safety /\ Answers
==============================================================================
