----------------------------- MODULE HandleChain -----------------------------
(***************************************************************************)
(* File handles and the singly linked lists they form.                     *)
(*                                                                         *)
(* A MIXPSRV_FILE_HANDLE carries a "next" pointer with three uses: the     *)
(* stack of a fid (the open file on top, its parent directory under it,    *)
(* the root at the bottom), the list a lookup(NULL) returns for a          *)
(* directory, and the list of recycled handles free_fileid.  All three are *)
(* walked with  for(; f; f = f->next).  This module says which handles     *)
(* such a loop visits.                                                     *)
(***************************************************************************)
EXTENDS Integers

CONSTANT MaxHandle      \* model bound: handles that calloc() can ever supply

ASSUME MaxHandleAssumption == MaxHandle \in Nat \ {0}

NULL   == 0             \* the null pointer
Handle == 1..MaxHandle
Ptr    == 0..MaxHandle

(* S contains the successor of each of its members. *)
IsClosed(next, S) == \A h \in S : next[h] # NULL => next[h] \in S

(***************************************************************************)
(* The handles a loop over "next" visits when it starts at p: the least    *)
(* set that contains p and is closed.  (Stated as a least fixed point      *)
(* because a proof can instantiate it with any closed set.)                *)
(***************************************************************************)
Chain(next, p) ==
  LET closed == {S \in SUBSET Handle : p \in S /\ IsClosed(next, S)}
  IN  {h \in Handle : p # NULL /\ \A S \in closed : h \in S}

(* No loop that starts at p ever comes back to a handle it has visited. *)
Acyclic(next, p) ==
  \A h \in Chain(next, p) : next[h] # NULL => h \notin Chain(next, next[h])
==============================================================================
