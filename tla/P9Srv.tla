-------------------------------- MODULE P9Srv --------------------------------
(***************************************************************************)
(* The fid side of p9srv_ops.c: which file handles a fid stands for, how   *)
(* walk, attach, clunk and a directory read take, share and give back      *)
(* handles, and the pool they come from.                                   *)
(*                                                                         *)
(* The server is one thread that serves one request at a time, so a        *)
(* request starts only in pc = "idle".  A handler that loops is split into *)
(* one step per iteration; while it runs its steps are the only ones       *)
(* enabled.  Requests of several connections interleave at "idle": they    *)
(* share the pool, and fids of different connections are different         *)
(* members of Fid.                                                         *)
(***************************************************************************)
EXTENDS HandleChain, FileTree, FiniteSets

CONSTANTS
  Fid,          \* the fids clients use, over all connections
  Block,        \* handles per calloc() in p9srv_get_file() (15 in the code)
  RefMod,       \* width of the unsigned short nref (65536 in the code)
  MaxName,      \* model bound: names in one walk request
  SameFidWalk,  \* may a client walk with newfid = fid ?
  Server        \* the running handler, which holds references like a fid

ASSUME PoolAssumption ==
  /\ Block \in Nat \ {0}
  /\ RefMod \in Nat /\ RefMod >= 2
  /\ MaxName \in Nat
  /\ SameFidWalk \in BOOLEAN
  /\ IsFiniteSet(Fid)
  /\ Server \notin Fid

VARIABLES
  free_fileid,  \* head of the list of recycled handles
  top,          \* handles 1..top have been allocated by calloc()
  next,         \* MIXPSRV_FILE_HANDLE.next
  nref,         \* MIXPSRV_FILE_HANDLE.nref
  node,         \* what a handle denotes; stale once the handle is free
  fids,         \* the fids the library has in use
  aux,          \* MIXP_FID.aux, the top of the stack of the fid
  pc,           \* where the server is
  req,          \* the request it serves
  f,            \* the local variable f of the handler
  fh            \* the tail pointer of mixp_propertylist_ops_lookup_list()

pool    == <<free_fileid, top, next, nref, node>>
table   == <<fids, aux>>
handler == <<pc, req, f, fh>>
vars    == <<pool, table, handler>>

Names == UNION {[1..k -> Name] : k \in 0..MaxName}

Request == [op : {"walk", "clunk", "read"}, fid : Fid, newfid : Fid,
            names : Seq(Name), i : Nat]

Idle == [op |-> "none"]
-----------------------------------------------------------------------------
(* The pool: p9srv_get_file() and p9srv_free_file() *)

NeedBlock == free_fileid = NULL

(* The head of the free list, after a block of new handles if it was empty. *)
FreeHead == IF NeedBlock THEN top + Block ELSE free_fileid

(* "next" after that block is linked: each new handle points to the one    *)
(* before it, so that the last one is the head.                            *)
Linked ==
  [h \in Handle |->
     IF NeedBlock /\ h \in (top + 1)..(top + Block)
     THEN IF h = top + 1 THEN NULL ELSE h - 1
     ELSE next[h]]

(* Model bound: n more handles fit into the pool. *)
Room(n) == Cardinality(Chain(next, free_fileid)) + MaxHandle - top >= n

(* A slip: the count of a handle from the pool is left as it is. *)
GetFileStale(h, c) ==
  /\ NeedBlock => top + Block <= MaxHandle
  /\ h = FreeHead
  /\ free_fileid' = Linked[h]
  /\ top' = IF NeedBlock THEN top + Block ELSE top
  /\ node' = [node EXCEPT ![h] = c]
  /\ UNCHANGED nref

(* h is taken from the pool for node c; the caller links it. *)
GetFile(h, c) ==
  /\ NeedBlock => top + Block <= MaxHandle
  /\ h = FreeHead
  /\ free_fileid' = Linked[h]
  /\ top' = IF NeedBlock THEN top + Block ELSE top
  /\ nref' = [nref EXCEPT ![h] = 1]
  /\ node' = [node EXCEPT ![h] = c]

(* Slips the properties have to notice: assert(f->nref++) compiled away by *)
(* NDEBUG, a signed counter, and a file freed whatever its count.          *)
IncNDEBUG(n) == n
DecSigned(n) == n - 1
FreeFileAlways(h) ==
  /\ nref' = [nref EXCEPT ![h] = IF @ = 0 THEN RefMod - 1 ELSE @ - 1]
  /\ next' = [next EXCEPT ![h] = free_fileid]
  /\ free_fileid' = h
  /\ UNCHANGED <<top, node>>

(* ++ and -- on an unsigned short *)
Inc(n) == IF n = RefMod - 1 THEN 0 ELSE n + 1
Dec(n) == IF n = 0 THEN RefMod - 1 ELSE n - 1

(* One reference to h is dropped; the last one recycles it. *)
FreeFile(h) ==
  LET left == Dec(nref[h])
  IN  /\ nref' = [nref EXCEPT ![h] = left]
      /\ next' = IF left = 0 THEN [next EXCEPT ![h] = free_fileid] ELSE next
      /\ free_fileid' = IF left = 0 THEN h ELSE free_fileid
      /\ UNCHANGED <<top, node>>
-----------------------------------------------------------------------------
Init ==
  /\ free_fileid = NULL
  /\ top = 0
  /\ next = [h \in Handle |-> NULL]
  /\ nref = [h \in Handle |-> 0]
  /\ node = [h \in Handle |-> NoNode]
  /\ fids = {}
  /\ aux = [x \in Fid |-> NULL]
  /\ pc = "idle"
  /\ req = Idle
  /\ f = NULL
  /\ fh = NULL

(* p9srv_ops_attach(): fid x stands for a handle of the root. *)
Attach(x) ==
  /\ pc = "idle"
  /\ x \notin fids
  /\ Room(1)
  /\ \E h \in Handle :
       /\ GetFile(h, Root)
       /\ next' = [Linked EXCEPT ![h] = NULL]
       /\ aux' = [aux EXCEPT ![x] = h]
  /\ fids' = fids \cup {x}
  /\ UNCHANGED handler

(* p9srv_ops_walk() takes a reference to every handle of the stack of x.   *)
Walk(x, y, ns) ==
  LET stack == Chain(next, aux[x])
  IN  /\ pc = "idle"
      /\ x \in fids
      /\ y \notin fids \/ (SameFidWalk /\ y = x)
      /\ Room(Len(ns))
      /\ \A h \in stack : nref[h] # 0
      /\ nref' = [h \in Handle |->
                    IF h \in stack THEN Inc(nref[h]) ELSE nref[h]]
      /\ f' = aux[x]
      /\ pc' = "walk"
      /\ req' = [op |-> "walk", fid |-> x, newfid |-> y, names |-> ns, i |-> 0]
      /\ UNCHANGED <<free_fileid, top, next, node, table, fh>>

(* assert(f->nref++) in p9srv_clone_files() meets a count that is zero. *)
CloneAborts(x) ==
  /\ pc = "idle"
  /\ x \in fids
  /\ \E h \in Chain(next, aux[x]) : nref[h] = 0
  /\ pc' = "abort"
  /\ UNCHANGED <<pool, table, req, f, fh>>

NextName == req.names[req.i + 1]
InWalk   == pc = "walk" /\ req.i < Len(req.names)
Advance  == req' = [req EXCEPT !.i = @ + 1]

(* Slips in walk: ".." past the root, a miss that keeps its references,    *)
(* the new stack given to the old fid.                                     *)
WalkUpPastRoot ==
  /\ InWalk /\ f # NULL
  /\ NextName = DOTDOT
  /\ FreeFile(f) /\ f' = next[f]
  /\ Advance
  /\ UNCHANGED <<table, pc, fh>>

WalkMissKeeps ==
  /\ InWalk /\ f # NULL
  /\ NextName # DOTDOT
  /\ \A c \in Node : ~Finds(node[f], NextName, c)
  /\ pc' = "idle" /\ req' = Idle /\ f' = NULL
  /\ UNCHANGED <<pool, table, fh>>

WalkDoneOldFid ==
  /\ pc = "walk" /\ req.i = Len(req.names)
  /\ req.newfid # req.fid
  /\ aux' = [aux EXCEPT ![req.fid] = f]
  /\ fids' = fids \cup {req.newfid}
  /\ pc' = "idle" /\ req' = Idle /\ f' = NULL
  /\ UNCHANGED <<pool, fh>>

(* "..": the top of the stack is given back unless it is the last one. *)
WalkUp ==
  /\ InWalk /\ f # NULL
  /\ NextName = DOTDOT
  /\ IF next[f] # NULL
       THEN FreeFile(f) /\ f' = next[f]
       ELSE UNCHANGED <<pool, f>>
  /\ Advance
  /\ UNCHANGED <<table, pc, fh>>

(* A name that is found: its handle goes on top of the stack.  The handle  *)
(* a lookup of "." returns is not pushed, and no reference to it is kept.  *)
WalkInto ==
  /\ InWalk /\ f # NULL
  /\ NextName # DOTDOT
  /\ \E h \in Handle, c \in Node :
       /\ Finds(node[f], NextName, c)
       /\ GetFile(h, c)
       /\ next' = [Linked EXCEPT ![h] = IF NextName = DOT THEN NULL ELSE f]
       /\ f' = IF NextName = DOT THEN f ELSE h
  /\ Advance
  /\ UNCHANGED <<table, pc, fh>>

(* A name that is not found: the references taken so far are dropped. *)
WalkMiss ==
  /\ InWalk /\ f # NULL
  /\ NextName # DOTDOT
  /\ \A c \in Node : ~Finds(node[f], NextName, c)
  /\ pc' = "release"
  /\ UNCHANGED <<pool, table, req, f, fh>>

(* The fid has no handle: f->next and f->ops are read through NULL. *)
WalkNull ==
  /\ InWalk /\ f = NULL
  /\ pc' = "segv"
  /\ UNCHANGED <<pool, table, req, f, fh>>

(* All names are walked: newfid gets the new stack.                        *)
WalkDone ==
  /\ pc = "walk" /\ req.i = Len(req.names)
  /\ req.newfid # req.fid
  /\ aux' = [aux EXCEPT ![req.newfid] = f]
  /\ fids' = fids \cup {req.newfid}
  /\ pc' = "idle" /\ req' = Idle /\ f' = NULL
  /\ UNCHANGED <<pool, fh>>

(* If newfid = fid, the loop that is to drop the old stack of fid starts   *)
(* from f, the new one, and leaves f = NULL for newfid->aux.  (fid->aux is *)
(* the same location; its value in between is never read.)                 *)
WalkDoneSameFid ==
  /\ pc = "walk" /\ req.i = Len(req.names)
  /\ req.newfid = req.fid
  /\ aux' = [aux EXCEPT ![req.fid] = NULL]
  /\ pc' = "release"
  /\ UNCHANGED <<pool, fids, req, f, fh>>

(* p9srv_ops_freefid(): a clunk or a lost connection ends fid x. *)
Clunk(x) ==
  /\ pc = "idle"
  /\ x \in fids
  /\ fids' = fids \ {x}
  /\ aux' = [aux EXCEPT ![x] = NULL]
  /\ f' = aux[x]
  /\ pc' = "release"
  /\ req' = [op |-> "clunk", fid |-> x, newfid |-> x, names |-> <<>>, i |-> 0]
  /\ UNCHANGED <<pool, fh>>

(* Slips in the loop that releases a stack: f = f->next after the handle   *)
(* is back in the pool, and no advance at all.                             *)
ReleaseFreesFirst ==
  /\ pc = "release" /\ f # NULL
  /\ FreeFile(f)
  /\ f' = next'[f]
  /\ UNCHANGED <<table, pc, req, fh>>

ReleaseStays ==
  /\ pc = "release" /\ f # NULL
  /\ FreeFile(f)
  /\ f' = f
  /\ UNCHANGED <<table, pc, req, fh>>

(* while((nf = f)) { f = f->next; p9srv_free_file(nf); } *)
Release ==
  /\ pc = "release" /\ f # NULL
  /\ FreeFile(f)
  /\ f' = next[f]
  /\ UNCHANGED <<table, pc, req, fh>>

Released ==
  /\ pc = "release" /\ f = NULL
  /\ pc' = "idle" /\ req' = Idle
  /\ UNCHANGED <<pool, table, f, fh>>

(* p9srv_ops_read_dir(): lookup(f, NULL) makes a list of all entries, and  *)
(* the handler gives it back once the entries are packed.                  *)
ReadDir(x) ==
  /\ pc = "idle"
  /\ x \in fids
  /\ aux[x] # NULL
  /\ node[aux[x]] \in Dir
  /\ Room(Len(Entries[node[aux[x]]]))
  /\ pc' = "list"
  /\ req' = [op |-> "read", fid |-> x, newfid |-> x, names |-> <<>>, i |-> 0]
  /\ UNCHANGED <<pool, table, f, fh>>

Listed == Entries[node[aux[req.fid]]]
InList == pc = "list" /\ req.i < Len(Listed)

(* A slip: each new handle goes to the front of the list. *)
ListEntryInFront ==
  /\ InList
  /\ \E h \in Handle, c \in Node :
       /\ Listed[req.i + 1].node = c
       /\ GetFile(h, c)
       /\ next' = [Linked EXCEPT ![h] = f]
       /\ f' = h
       /\ fh' = h
  /\ Advance
  /\ UNCHANGED <<table, pc>>

(* A handle is appended at fh; when fh is NULL it becomes the list. *)
ListEntry ==
  /\ InList
  /\ \E h \in Handle, c \in Node :
       /\ Listed[req.i + 1].node = c
       /\ GetFile(h, c)
       /\ next' = [k \in Handle |-> IF k = h THEN NULL
                                    ELSE IF k = fh THEN h ELSE Linked[k]]
       /\ f' = IF fh = NULL THEN h ELSE f
       /\ fh' = h
  /\ Advance
  /\ UNCHANGED <<table, pc>>

(* getFileHandle() returns NULL: so is the tail, and the next handle will  *)
(* be taken for the first one.                                             *)
ListNothing ==
  /\ InList
  /\ Listed[req.i + 1].node = NoNode
  /\ f' = IF fh = NULL THEN NULL ELSE f
  /\ fh' = NULL
  /\ Advance
  /\ UNCHANGED <<pool, table, pc>>

(* A slip: the tail pointer outlives the list. *)
ListDoneKeepsTail ==
  /\ pc = "list" /\ req.i = Len(Listed)
  /\ pc' = "release"
  /\ UNCHANGED <<pool, table, req, f, fh>>

ListDone ==
  /\ pc = "list" /\ req.i = Len(Listed)
  /\ pc' = "release"
  /\ fh' = NULL
  /\ UNCHANGED <<pool, table, req, f>>

(* write and open take r->fid->aux and read what it points to without a     *)
(* test, and so do remove, stat and read.                                  *)
UseNull(x) ==
  /\ pc = "idle"
  /\ x \in fids
  /\ aux[x] = NULL
  /\ pc' = "segv"
  /\ UNCHANGED <<pool, table, req, f, fh>>

RemoveNull(x) == UseNull(x)
StatNull(x)   == UseNull(x)
ReadNull(x)   == UseNull(x)

Serve ==
  \/ WalkUp \/ WalkInto \/ WalkMiss \/ WalkNull \/ WalkDone \/ WalkDoneSameFid
  \/ Release \/ Released
  \/ ListEntry \/ ListNothing \/ ListDone

Next ==
  \/ \E x \in Fid : \/ Attach(x) \/ Clunk(x) \/ ReadDir(x) \/ CloneAborts(x)
                    \/ UseNull(x) \/ RemoveNull(x) \/ StatNull(x) \/ ReadNull(x)
                    \/ \E y \in Fid, ns \in Names : Walk(x, y, ns)
  \/ Serve

Spec == Init /\ [][Next]_vars

(* A handler that has started runs: the thread has nothing else to do. *)
FairSpec == Spec /\ WF_vars(Serve)
-----------------------------------------------------------------------------
(* Properties *)

TypeOK ==
  /\ free_fileid \in Ptr
  /\ top \in Ptr
  /\ next \in [Handle -> Ptr]
  /\ nref \in [Handle -> 0..(RefMod - 1)]
  /\ node \in [Handle -> Node \cup {NoNode}]
  /\ fids \subseteq Fid
  /\ aux \in [Fid -> Ptr]
  /\ pc \in {"idle", "walk", "release", "list", "abort", "segv"}
  /\ req \in Request \cup {Idle}
  /\ f \in Ptr
  /\ fh \in Ptr

(* The references to handle h: one for each fid whose stack contains it,   *)
(* and one if the running handler can reach it from f.                     *)
Holder == Fid \cup {Server}
Roots  == [x \in Holder |-> IF x = Server THEN f ELSE aux[x]]

HeldBy(nx, rt, h) == {x \in Holder : h \in Chain(nx, rt[x])}
Holders(h) == HeldBy(next, Roots, h)
Refs(h)    == Cardinality(Holders(h))

(* What nref stands for: a count of 0 on a handle in use is RefMod, since  *)
(* the assertion in p9srv_clone_files() lets no count go further.          *)
Counted(n, refs) == IF n = 0 /\ refs > 0 THEN RefMod ELSE n
Count(h) == Counted(nref[h], Refs(h))

(* No reference is missing from a count, whatever clients do: not after a  *)
(* failed walk, a "..", a walk onto the same fid, or a wrap of nref.       *)
Covered == \A h \in Handle : Count(h) >= Refs(h)

(* A handle that a fid or the running handler can still reach is never on  *)
(* the free list, so p9srv_get_file() cannot hand it out a second time.    *)
NotRecycledInUse ==
  \A h \in Chain(next, free_fileid) : Holders(h) = {}

(* While a fid stands for a stack, no step of any handler changes what a   *)
(* handle of that stack denotes or what lies under it: requests on one fid *)
(* do not disturb another that shares handles with it.                     *)
FrozenWhileHeld ==
  [][\A h \in Handle : Holders(h) \cap Fid # {}
        => next'[h] = next[h] /\ node'[h] = node[h]]_vars

(* Every count is the number of references, no more and no less: a handle  *)
(* is closed by the request that drops the last one (ChangeLog: "files are *)
(* really closed on clunk").                                               *)
Exact == \A h \in Handle : Count(h) = Refs(h)

(* Between requests an allocated handle is on the free list or belongs to  *)
(* the stack of a fid: none is lost to both.                               *)
NothingLost ==
  pc = "idle" =>
    \A h \in 1..top : (h \in Chain(next, free_fileid)) <=> (Holders(h) = {})

(* A count comes to exceed the references in three places and in no other   *)
(* step of any handler: the handle of "." a walk drops, a walk onto the     *)
(* same fid, and a list that starts anew behind a refused entry.           *)
Excess(h) == Count(h) - Refs(h)

Loses ==
  \/ InWalk /\ NextName = DOT
  \/ pc = "walk" /\ req.i = Len(req.names) /\ req.newfid = req.fid
  \/ pc = "list" /\ fh = NULL /\ f # NULL

LossesKnown == [][~Loses => \A h \in Handle : Excess(h)' <= Excess(h)]_vars

(* A request reads through NULL only where a fid is bare, and a fid in use  *)
(* becomes bare only by a walk onto itself, or as the newfid of a walk      *)
(* from such a fid: not by "..", a failed walk, a clunk of another fid.     *)
Bare == {x \in fids : aux[x] = NULL}

NullUseTraced ==
  [][/\ pc' = "segv" => Bare # {}
     /\ \/ Bare' \subseteq Bare
        \/ pc = "walk" /\ (req.newfid = req.fid \/ req.fid \in Bare)]_vars

(* assert(f->nref++) in p9srv_clone_files() holds: a handle that a fid can   *)
(* still walk from has a count, as long as nref is wide enough for the fids. *)
NoAbort == pc # "abort"

(* What a running handler has still to do: its loop over names or entries,  *)
(* with so many of them left, then its loop over handles to give back.      *)
Stage == CASE pc \in {"walk", "list"} -> 2
           [] pc = "release" -> 1
           [] OTHER -> 0
Left  == CASE pc = "walk" -> Len(req.names) - req.i
           [] pc = "list" -> Len(Listed) - req.i
           [] pc = "release" -> Cardinality(Chain(next, f))
           [] OTHER -> 0

(* No loop over a handle list goes round in circles, whatever clients do:  *)
(* each step of a handler enters a later loop or leaves less to its own.   *)
HandlersEnd ==
  [][Stage # 0 => \/ Stage' < Stage
                  \/ Stage' = Stage /\ 0 <= Left' /\ Left' < Left]_vars

(* Every request is answered: the loops over handle lists end. *)
Answered == pc \in {"walk", "list", "release"} ~> pc = "idle"
-----------------------------------------------------------------------------
(* The inductive invariant behind Covered, NotRecycledInUse, FrozenWhileHeld *)
(* and Exact.  Its heap part is stated for any heap, so that one lemma per   *)
(* way of changing the heap serves every action that changes it that way.    *)

(* Under these assumptions no reference is lost: see WalkDoneSameFid,      *)
(* WalkInto for ".", and ListNothing.                                      *)
Clean ==
  /\ ~SameFidWalk
  /\ \A d \in Dir : \A x \in DOMAIN Entries[d] :
       Entries[d][x].name # DOT /\ Entries[d][x].node # NoNode

(* Every pointer in use leads to an allocated handle. *)
Bounded(fr, tp, nx, rt) ==
  /\ fr <= tp
  /\ \A x \in Holder : rt[x] <= tp
  /\ \A h \in 1..tp : nx[h] <= tp

(* The count of each handle covers its holders, and equals their number    *)
(* where no reference is lost.                                             *)
CountsOK(nx, nr, rt) ==
  \A h \in Handle :
    LET refs == Cardinality(HeldBy(nx, rt, h))
    IN  /\ Counted(nr[h], refs) >= refs
        /\ Clean => Counted(nr[h], refs) = refs

HeapOK(fr, tp, nx, nr, rt) ==
  /\ Bounded(fr, tp, nx, rt)
  /\ Acyclic(nx, fr)
  /\ \A x \in Holder : Acyclic(nx, rt[x])
  /\ \A h \in Chain(nx, fr) : HeldBy(nx, rt, h) = {}
  /\ CountsOK(nx, nr, rt)

(* What the fid table and the local variables of a handler say. *)
ServingOK ==
  /\ \A x \in Fid \ fids : aux[x] = NULL
  /\ pc = "idle" => f = NULL
  /\ pc # "list" => fh = NULL
  /\ pc \in {"walk", "release", "list"} => req \in Request
  /\ pc = "walk" => \/ req.newfid \notin fids
                    \/ SameFidWalk /\ req.newfid = req.fid
  /\ pc = "walk" /\ f = NULL => req.fid \in Bare

(* The list a lookup(NULL) builds is nobody else's, and fh is its end. *)
ListOK ==
  pc = "list" =>
    /\ aux[req.fid] # NULL
    /\ node[aux[req.fid]] \in Dir
    /\ \A h \in Chain(next, f) : Holders(h) = {Server}
    /\ fh # NULL => fh \in Chain(next, f) /\ next[fh] = NULL
    /\ Clean /\ fh = NULL => f = NULL

(* Where no client walks onto the same fid, a fid in use has a handle. *)
StacksOK ==
  ~SameFidWalk =>
    /\ \A x \in fids : aux[x] # NULL
    /\ pc = "walk" => f # NULL
    /\ pc # "segv"

(* The heap, the fid table and the local variables stay consistent at      *)
(* every step of every handler, whatever the clients request.              *)
IInv ==
  /\ HeapOK(free_fileid, top, next, nref, Roots)
  /\ ServingOK
  /\ ListOK
  /\ StacksOK
==============================================================================
