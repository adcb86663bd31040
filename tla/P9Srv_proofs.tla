----------------------------- MODULE P9Srv_proofs -----------------------------
(***************************************************************************)
(* Theorems about P9Srv, for any number of fids, handles and names, any    *)
(* file tree, any block size and any width of nref.                        *)
(***************************************************************************)
EXTENDS P9SrvHeap_proofs

(* A handler that runs serves a request. *)
Serving == pc \in {"walk", "release", "list"} => req \in Request

(* A counter stays within its width. *)
LEMMA CounterType ==
  ASSUME NEW n \in 0..(RefMod - 1)
  PROVE  /\ Inc(n) \in 0..(RefMod - 1)
         /\ Dec(n) \in 0..(RefMod - 1)
BY PoolAssumption DEF Inc, Dec

(* The list of recycled handles stays a list of handles. *)
LEMMA LinkedType ==
  ASSUME TypeOK, NeedBlock => top + Block <= MaxHandle
  PROVE  /\ Linked \in [Handle -> Ptr]
         /\ FreeHead \in Handle
<1>1. FreeHead \in Handle
  BY PoolAssumption, MaxHandleAssumption
     DEF TypeOK, FreeHead, NeedBlock, Handle, Ptr, NULL
<1>2. ASSUME NEW h \in Handle, NeedBlock, h \in (top + 1)..(top + Block), h # top + 1
      PROVE  h - 1 \in Ptr
  BY <1>2, PoolAssumption, MaxHandleAssumption DEF TypeOK, Handle, Ptr
<1>3. \A h \in Handle : next[h] \in Ptr
  BY DEF TypeOK
<1>4. Linked \in [Handle -> Ptr]
  BY <1>2, <1>3, HandlePtr DEF Linked
<1> QED
  BY <1>1, <1>4

LEMMA GetFileType ==
  ASSUME TypeOK, NEW h \in Handle, NEW c \in Node, GetFile(h, c)
  PROVE  /\ free_fileid' \in Ptr
         /\ top' \in Ptr
         /\ nref' \in [Handle -> 0..(RefMod - 1)]
         /\ node' \in [Handle -> Node \cup {NoNode}]
         /\ Linked \in [Handle -> Ptr]
<1>1. Linked \in [Handle -> Ptr]
  BY LinkedType DEF GetFile
<1>2. free_fileid' \in Ptr
  BY <1>1 DEF GetFile
<1>3. top' \in Ptr
  BY PoolAssumption, MaxHandleAssumption DEF GetFile, TypeOK, Ptr
<1>4. 1 \in 0..(RefMod - 1)
  BY PoolAssumption
<1>5. nref' \in [Handle -> 0..(RefMod - 1)]
  BY <1>4 DEF GetFile, TypeOK
<1>6. node' \in [Handle -> Node \cup {NoNode}]
  BY DEF GetFile, TypeOK
<1> QED
  BY <1>1, <1>2, <1>3, <1>5, <1>6

LEMMA FreeFileType ==
  ASSUME TypeOK, NEW h \in Handle, FreeFile(h)
  PROVE  /\ free_fileid' \in Ptr
         /\ top' \in Ptr
         /\ next' \in [Handle -> Ptr]
         /\ nref' \in [Handle -> 0..(RefMod - 1)]
         /\ node' \in [Handle -> Node \cup {NoNode}]
<1>1. nref[h] \in 0..(RefMod - 1)
  BY DEF TypeOK
<1>2. Dec(nref[h]) \in 0..(RefMod - 1)
  BY <1>1, CounterType
<1>3. nref' \in [Handle -> 0..(RefMod - 1)]
  BY <1>2 DEF TypeOK, FreeFile
<1>4. next' \in [Handle -> Ptr] /\ free_fileid' \in Ptr
  BY HandlePtr DEF TypeOK, FreeFile
<1> QED
  BY <1>3, <1>4 DEF TypeOK, FreeFile

(* The part of the state the pool lemmas do not speak of. *)
LEMMA InitTyped ==
  ASSUME Init
  PROVE  TypeOK /\ Serving
BY PoolAssumption, MaxHandleAssumption
   DEF Init, TypeOK, Serving, Ptr, NULL

LEMMA AdvanceType ==
  ASSUME req \in Request, Advance
  PROVE  req' \in Request
BY DEF Request, Advance

LEMMA StepTyped ==
  ASSUME TypeOK, Serving, [Next]_vars
  PROVE  TypeOK' /\ Serving'
<1> USE DEF Serving
<1>1. ASSUME NEW x \in Fid, Attach(x)
      PROVE  TypeOK' /\ Serving'
  <2>1. PICK h \in Handle : /\ GetFile(h, Root)
                            /\ next' = [Linked EXCEPT ![h] = NULL]
                            /\ aux' = [aux EXCEPT ![x] = h]
    BY <1>1 DEF Attach
  <2>2. Root \in Node
    BY TreeAssumption
  <2>3. next' \in [Handle -> Ptr] /\ aux' \in [Fid -> Ptr]
    BY <2>1, <2>2, GetFileType, HandlePtr DEF TypeOK
  <2> QED
    BY <1>1, <2>1, <2>2, <2>3, GetFileType DEF TypeOK, Attach, handler
<1>2. ASSUME NEW x \in Fid, Clunk(x)
      PROVE  TypeOK' /\ Serving'
  <2>1. req' \in Request
    BY <1>2 DEF Clunk, Request
  <2> QED
    BY <1>2, <2>1, HandlePtr DEF TypeOK, Clunk, pool
<1>3. ASSUME NEW x \in Fid, ReadDir(x)
      PROVE  TypeOK' /\ Serving'
  <2>1. req' \in Request
    BY <1>3 DEF ReadDir, Request
  <2> QED
    BY <1>3, <2>1 DEF TypeOK, ReadDir, pool, table
<1>4. ASSUME NEW x \in Fid, UseNull(x) \/ CloneAborts(x)
      PROVE  TypeOK' /\ Serving'
  BY <1>4 DEF TypeOK, UseNull, CloneAborts, pool, table
<1>5. ASSUME NEW x \in Fid, NEW y \in Fid, NEW ns \in Names, Walk(x, y, ns)
      PROVE  TypeOK' /\ Serving'
  <2>1. ns \in Seq(Name)
    BY DEF Names
  <2>2. req' \in Request
    BY <1>5, <2>1 DEF Walk, Request
  <2>3. \A h \in Handle : Inc(nref[h]) \in 0..(RefMod - 1)
    BY CounterType DEF TypeOK
  <2>4. nref' \in [Handle -> 0..(RefMod - 1)]
    BY <1>5, <2>3 DEF TypeOK, Walk
  <2>5. f' \in Ptr
    BY <1>5 DEF TypeOK, Walk
  <2> QED
    BY <1>5, <2>2, <2>4, <2>5 DEF TypeOK, Walk, table
<1>6. CASE WalkUp
  <2>1. /\ req' \in Request
        /\ f \in Handle
    BY <1>6, AdvanceType, HandlePtr DEF WalkUp, InWalk, TypeOK
  <2>2. CASE next[f] # NULL
    <3>1. /\ FreeFile(f)
          /\ f' = next[f]
          /\ f' \in Ptr
      BY <1>6, <2>1, <2>2 DEF WalkUp, TypeOK
    <3> QED
      BY <1>6, <2>1, <3>1, FreeFileType DEF TypeOK, WalkUp, table
  <2>3. CASE next[f] = NULL
    BY <1>6, <2>1, <2>3 DEF TypeOK, WalkUp, table, pool
  <2> QED
    BY <2>2, <2>3
<1>7. CASE WalkInto
  <2>1. req' \in Request
    BY <1>7, AdvanceType DEF WalkInto, InWalk
  <2>2. PICK h \in Handle, c \in Node :
          /\ GetFile(h, c)
          /\ next' = [Linked EXCEPT ![h] = IF NextName = DOT THEN NULL ELSE f]
          /\ f' = IF NextName = DOT THEN f ELSE h
    BY <1>7 DEF WalkInto
  <2>3. next' \in [Handle -> Ptr] /\ f' \in Ptr
    BY <2>2, GetFileType, HandlePtr DEF TypeOK
  <2> QED
    BY <1>7, <2>1, <2>2, <2>3, GetFileType DEF TypeOK, WalkInto, table
<1>8. CASE WalkMiss \/ WalkNull
  BY <1>8 DEF TypeOK, WalkMiss, WalkNull, InWalk, pool, table
<1>9. CASE WalkDone
  <2>1. req.newfid \in Fid
    BY <1>9 DEF WalkDone, Request
  <2> QED
    BY <1>9, <2>1, HandlePtr DEF TypeOK, WalkDone, pool
<1>10. CASE WalkDoneSameFid
  BY <1>10, HandlePtr DEF TypeOK, WalkDoneSameFid, pool
<1>11. CASE Release
  <2>1. /\ FreeFile(f)
        /\ f \in Handle
        /\ f' \in Ptr
    BY <1>11, HandlePtr DEF Release, TypeOK
  <2> QED
    BY <1>11, <2>1, FreeFileType DEF TypeOK, Release, table
<1>12. CASE Released
  BY <1>12 DEF TypeOK, Released, pool, table
<1>13. CASE ListEntry
  <2>1. req' \in Request
    BY <1>13, AdvanceType DEF ListEntry, InList
  <2>2. PICK h \in Handle, c \in Node :
          /\ GetFile(h, c)
          /\ next' = [k \in Handle |-> IF k = h THEN NULL
                                       ELSE IF k = fh THEN h ELSE Linked[k]]
          /\ f' = IF fh = NULL THEN h ELSE f
          /\ fh' = h
    BY <1>13 DEF ListEntry
  <2>3. \A k \in Handle : Linked[k] \in Ptr
    BY <2>2, GetFileType
  <2>4. next' \in [Handle -> Ptr]
    BY <2>2, <2>3, HandlePtr
  <2>5. f' \in Ptr /\ fh' \in Ptr
    BY <2>2, HandlePtr DEF TypeOK
  <2> QED
    BY <1>13, <2>1, <2>2, <2>4, <2>5, GetFileType DEF TypeOK, ListEntry, table
<1>14. CASE ListNothing
  <2>1. req' \in Request
    BY <1>14, AdvanceType DEF ListNothing, InList
  <2> QED
    BY <1>14, <2>1, HandlePtr DEF TypeOK, ListNothing, pool, table
<1>15. CASE ListDone
  BY <1>15, HandlePtr DEF TypeOK, ListDone, pool, table
<1>16. CASE UNCHANGED vars
  BY <1>16 DEF TypeOK, vars, pool, table, handler
<1> QED
  BY <1>1, <1>2, <1>3, <1>4, <1>5, <1>6, <1>7, <1>8, <1>9, <1>10, <1>11,
     <1>12, <1>13, <1>14, <1>15, <1>16 DEF Next, Serve, RemoveNull,
         StatNull, ReadNull

(* Every variable keeps its type: every pointer is NULL or an allocatable  *)
(* handle, every count is an unsigned short, every request one of the      *)
(* three kinds p9srv_ops.c splits into steps.                              *)
THEOREM Typed == Spec => [](TypeOK /\ Serving)
<1>1. Init => TypeOK /\ Serving
  BY InitTyped
<1>2. (TypeOK /\ Serving) /\ [Next]_vars => (TypeOK /\ Serving)'
  BY StepTyped
<1> QED
  BY <1>1, <1>2, PTL DEF Spec
-----------------------------------------------------------------------------
(* The heap of P9Srv, and its roots before and after a step. *)
Heap == HeapOK(free_fileid, top, next, nref, Roots)

LEMMA HeapTypes ==
  ASSUME TypeOK
  PROVE  /\ free_fileid \in Ptr
         /\ top \in Ptr
         /\ next \in Nexts
         /\ nref \in Counts
         /\ Roots \in RootsT
         /\ Roots[Server] = f
         /\ \A x \in Fid : Roots[x] = aux[x]
         /\ \A x \in Fid : x \in Holder /\ x # Server
         /\ Server \in Holder
<1>1. /\ \A x \in Fid : x \in Holder /\ x # Server
      /\ Server \in Holder
  BY PoolAssumption DEF Holder
<1>2. \A x \in Holder : (IF x = Server THEN f ELSE aux[x]) \in Ptr
  BY DEF TypeOK, Holder
<1>3. /\ Roots \in RootsT
      /\ Roots[Server] = f
      /\ \A x \in Fid : Roots[x] = aux[x]
  BY <1>1, <1>2 DEF Roots, RootsT
<1> QED
  BY <1>1, <1>3 DEF TypeOK, Nexts, Counts

LEMMA HeapTypesNext ==
  ASSUME TypeOK'
  PROVE  /\ free_fileid' \in Ptr
         /\ top' \in Ptr
         /\ next' \in Nexts
         /\ nref' \in Counts
         /\ Roots' \in RootsT
         /\ Roots'[Server] = f'
         /\ \A x \in Fid : Roots'[x] = aux'[x]
<1>1. /\ \A x \in Fid : x \in Holder /\ x # Server
      /\ Server \in Holder
  BY PoolAssumption DEF Holder
<1>2. \A x \in Holder : (IF x = Server THEN f' ELSE aux'[x]) \in Ptr
  BY DEF TypeOK, Holder
<1>3. /\ Roots' \in RootsT
      /\ Roots'[Server] = f'
      /\ \A x \in Fid : Roots'[x] = aux'[x]
  BY <1>1, <1>2 DEF Roots, RootsT
<1> QED
  BY <1>3 DEF TypeOK, Nexts, Counts

(* No count exceeds its references by more than before the step. *)
Tight == NoMore(next, nref, Roots, next', nref', Roots')

(* p9srv_get_file(): the handle it returns is the head of a free list that *)
(* is as good as the one before, and no list in use has changed.           *)
LEMMA Allocated ==
  ASSUME TypeOK, Heap, NEW h \in Handle, NEW c \in Node, GetFile(h, c)
  PROVE  /\ Linked \in Nexts
         /\ HeapOK(h, top', Linked, nref, Roots)
         /\ h # NULL
         /\ top' \in Ptr
         /\ free_fileid' = Linked[h]
         /\ nref'[h] = 1
         /\ \A k \in Handle \ {h} : nref'[k] = nref[k] /\ node'[k] = node[k]
         /\ \A x \in Holder : \A k \in Chain(next, Roots[x]) : Linked[k] = next[k]
         /\ NoMore(next, nref, Roots, Linked, nref, Roots)
<1>1. /\ Linked \in Nexts
      /\ top' \in Ptr
      /\ h # NULL
  BY GetFileType, MaxHandleAssumption DEF Nexts, Handle, NULL
<1>2. /\ free_fileid' = Linked[h]
      /\ nref'[h] = 1
      /\ \A k \in Handle \ {h} : nref'[k] = nref[k] /\ node'[k] = node[k]
  BY DEF GetFile, TypeOK
<1>3. CASE NeedBlock
  <2>1. /\ h = top + Block
        /\ top' = top + Block
        /\ top + Block <= MaxHandle
    BY <1>3 DEF GetFile, FreeHead
  <2>2. HeapOK(NULL, top, next, nref, Roots)
    BY <1>3 DEF NeedBlock, Heap
  <2>3. \A k \in Handle :
          Linked[k] = IF k \in (top + 1)..(top + Block)
                      THEN IF k = top + 1 THEN NULL ELSE k - 1
                      ELSE next[k]
    BY <1>3 DEF Linked
  <2>4. /\ HeapOK(top + Block, top + Block, Linked, nref, Roots)
        /\ \A x \in Holder : \A k \in Chain(next, Roots[x]) : Linked[k] = next[k]
        /\ NoMore(next, nref, Roots, Linked, nref, Roots)
    <3>1. /\ top \in Ptr
          /\ next \in Nexts
          /\ nref \in Counts
          /\ Roots \in RootsT
      BY HeapTypes
    <3> QED
      BY <1>1, <2>1, <2>2, <2>3, <3>1, HeapBlock, SMTT(60)
  <2> QED
    BY <1>1, <1>2, <2>1, <2>4
<1>4. CASE ~NeedBlock
  <2>1. /\ h = free_fileid
        /\ top' = top
    BY <1>4 DEF GetFile, FreeHead
  <2>2. Linked = next
    BY <1>4 DEF Linked, TypeOK
  <2>3. NoMore(next, nref, Roots, next, nref, Roots)
    BY HeapTypes, NoMoreSame
  <2> QED
    BY <1>1, <1>2, <2>1, <2>2, <2>3 DEF Heap
<1> QED
  BY <1>3, <1>4

LEMMA AttachHeap ==
  ASSUME TypeOK, TypeOK', IInv, NEW x \in Fid, Attach(x)
  PROVE  Heap' /\ Tight
<1>1. PICK h \in Handle : /\ GetFile(h, Root)
                          /\ next' = [Linked EXCEPT ![h] = NULL]
                          /\ aux' = [aux EXCEPT ![x] = h]
  BY DEF Attach
<1>2. Root \in Node /\ Heap
  BY TreeAssumption DEF IInv, Heap
<1>3. /\ Linked \in Nexts
      /\ HeapOK(h, top', Linked, nref, Roots)
      /\ h # NULL
      /\ h \in Ptr
      /\ top' \in Ptr
      /\ free_fileid' = Linked[h]
      /\ nref'[h] = 1
      /\ \A k \in Handle \ {h} : nref'[k] = nref[k]
      /\ NoMore(next, nref, Roots, Linked, nref, Roots)
  BY <1>1, <1>2, Allocated, HandlePtr
<1>4. /\ Roots[x] = NULL
      /\ Roots'[x] = h
      /\ f' = f
      /\ \A y \in Holder \ {x} : Roots'[y] = Roots[y]
  BY <1>1, HeapTypes, HeapTypesNext
     DEF Attach, IInv, ServingOK, TypeOK, handler, Holder
<1>5. /\ next'[h] = Roots[x]
      /\ \A k \in Handle \ {h} : next'[k] = Linked[k]
  BY <1>1, <1>3, <1>4 DEF Nexts
<1>6. /\ HeapOK(Linked[h], top', next', nref', Roots')
      /\ NoMore(Linked, nref, Roots, next', nref', Roots')
  BY <1>3, <1>4, <1>5, HeapTypes, HeapTypesNext, HeapPush
<1>7. Tight
  BY <1>3, <1>6, HeapTypes, HeapTypesNext, NoMoreTrans DEF Tight
<1> QED
  BY <1>3, <1>6, <1>7 DEF Heap

LEMMA WalkHeap ==
  ASSUME TypeOK, TypeOK', IInv, NEW x \in Fid, NEW y \in Fid, NEW ns \in Names,
         Walk(x, y, ns)
  PROVE  Heap' /\ Tight
<1>1. /\ Roots[x] = aux[x]
      /\ Roots[Server] = NULL
      /\ Roots'[Server] = Roots[x]
      /\ \A z \in Holder \ {Server} : Roots'[z] = Roots[z]
  BY HeapTypes, HeapTypesNext DEF Walk, IInv, ServingOK, table, Holder
<1>2. /\ \A h \in Chain(next, Roots[x]) : nref[h] # 0
      /\ nref' = [h \in Handle |-> IF h \in Chain(next, Roots[x])
                                   THEN Inc(nref[h]) ELSE nref[h]]
      /\ UNCHANGED <<free_fileid, top, next>>
  BY <1>1 DEF Walk
<1>3. /\ HeapOK(free_fileid, top, next, nref', Roots')
      /\ NoMore(next, nref, Roots, next, nref', Roots')
  BY <1>1, <1>2, HeapTypes, HeapTypesNext, HeapShare DEF IInv
<1> QED
  BY <1>2, <1>3 DEF Heap, Tight

(* f is freed and the handler goes on with f->next. *)
LEMMA FreeHeap ==
  ASSUME TypeOK, TypeOK', IInv, f # NULL, FreeFile(f), f' = next[f], aux' = aux
  PROVE  Heap' /\ Tight
<1> DEFINE left == Dec(nref[f])
<1>1. /\ f \in Handle
      /\ Roots[Server] = f
      /\ Roots'[Server] = next[f]
      /\ \A z \in Holder \ {Server} : Roots'[z] = Roots[z]
  BY HeapTypes, HeapTypesNext, HandlePtr DEF TypeOK, Holder
<1>2. /\ nref'[f] = left
      /\ \A k \in Handle \ {f} : nref'[k] = nref[k]
      /\ left # 0 => next' = next
      /\ left = 0 => next'[f] = free_fileid
      /\ \A k \in Handle \ {f} : next'[k] = next[k]
      /\ free_fileid' = IF left = 0 THEN f ELSE free_fileid
      /\ top' = top
  BY <1>1 DEF FreeFile, TypeOK
<1>3. /\ HeapOK(free_fileid', top, next', nref', Roots')
      /\ NoMore(next, nref, Roots, next', nref', Roots')
  <2> HIDE DEF left
  <2>1. left = Dec(nref[Roots[Server]])
    BY <1>1 DEF left
  <2> QED
    BY <1>1, <1>2, <2>1, HeapTypes, HeapTypesNext, HeapFree DEF IInv
<1> QED
  BY <1>2, <1>3 DEF Heap, Tight

LEMMA WalkIntoHeap ==
  ASSUME TypeOK, TypeOK', IInv, WalkInto
  PROVE  Heap' /\ (~Loses => Tight)
<1>1. PICK h \in Handle, c \in Node :
        /\ Finds(node[f], NextName, c)
        /\ GetFile(h, c)
        /\ next' = [Linked EXCEPT ![h] = IF NextName = DOT THEN NULL ELSE f]
        /\ f' = IF NextName = DOT THEN f ELSE h
  BY DEF WalkInto
<1>2. Heap
  BY DEF IInv, Heap
<1>3. /\ Linked \in Nexts
      /\ HeapOK(h, top', Linked, nref, Roots)
      /\ h # NULL
      /\ h \in Ptr
      /\ top' \in Ptr
      /\ free_fileid' = Linked[h]
      /\ nref'[h] = 1
      /\ \A k \in Handle \ {h} : nref'[k] = nref[k]
      /\ NoMore(next, nref, Roots, Linked, nref, Roots)
  BY <1>1, <1>2, Allocated, HandlePtr
<1>4. \A k \in Handle \ {h} : next'[k] = Linked[k]
  BY <1>1, <1>3 DEF Nexts
<1>5. aux' = aux
  BY DEF WalkInto, table
<1>6. CASE NextName = DOT
  <2>1. ~Clean
    BY <1>1, <1>6 DEF Clean, Finds, FirstMatch
  <2>2. next'[h] = NULL
    BY <1>1, <1>3, <1>6 DEF Nexts
  <2>3. Roots' = Roots
    BY <1>1, <1>5, <1>6 DEF Roots
  <2>4. HeapOK(Linked[h], top', next', nref', Roots)
    BY <1>3, <1>4, <2>1, <2>2, HeapTypes, HeapTypesNext, HeapLeak
  <2>5. Loses
    BY <1>6 DEF Loses, WalkInto
  <2> QED
    BY <1>3, <2>3, <2>4, <2>5 DEF Heap
<1>7. CASE NextName # DOT
  <2>1. next'[h] = Roots[Server]
    BY <1>1, <1>3, <1>7, HeapTypes DEF Nexts
  <2>2. /\ Server \in Holder
        /\ Roots'[Server] = h
        /\ \A z \in Holder \ {Server} : Roots'[z] = Roots[z]
    BY <1>1, <1>5, <1>7, HeapTypes, HeapTypesNext DEF Holder
  <2>3. /\ HeapOK(Linked[h], top', next', nref', Roots')
        /\ NoMore(Linked, nref, Roots, next', nref', Roots')
    BY <1>3, <1>4, <2>1, <2>2, HeapTypes, HeapTypesNext, HeapPush
  <2>4. Tight
    BY <1>3, <2>3, HeapTypes, HeapTypesNext, NoMoreTrans DEF Tight
  <2> QED
    BY <1>3, <2>3, <2>4 DEF Heap
<1> QED
  BY <1>6, <1>7

LEMMA WalkDoneHeap ==
  ASSUME TypeOK, TypeOK', IInv, WalkDone
  PROVE  Heap' /\ Tight
<1> DEFINE y == req.newfid
<1>1. /\ req \in Request
      /\ y \notin fids
  BY DEF WalkDone, IInv, ServingOK
<1>2. /\ y \in Fid
      /\ y \in Holder
      /\ y # Server
      /\ Server \in Holder
      /\ aux[y] = NULL
  BY <1>1, HeapTypes DEF Request, IInv, ServingOK
<1>3. /\ Roots[y] = NULL
      /\ Roots'[Server] = NULL
      /\ Roots'[y] = Roots[Server]
      /\ \A z \in Holder \ {Server, y} : Roots'[z] = Roots[z]
  BY <1>2, HeapTypes, HeapTypesNext DEF WalkDone, TypeOK, Holder
<1>4. UNCHANGED <<free_fileid, top, next, nref>>
  BY DEF WalkDone, pool
<1>5. /\ HeapOK(free_fileid, top, next, nref, Roots')
      /\ NoMore(next, nref, Roots, next, nref, Roots')
  BY <1>2, <1>3, HeapTypes, HeapTypesNext, HeapMove DEF IInv
<1> QED
  BY <1>4, <1>5 DEF Heap, Tight

LEMMA WalkDoneSameFidHeap ==
  ASSUME TypeOK, TypeOK', IInv, WalkDoneSameFid
  PROVE  Heap'
<1> DEFINE x == req.fid
<1>1. /\ req \in Request
      /\ x \notin fids \/ SameFidWalk
  BY DEF WalkDoneSameFid, IInv, ServingOK
<1>2. /\ x \in Fid
      /\ x \in Holder
      /\ x # Server
      /\ aux[x] = NULL \/ ~Clean
  BY <1>1, HeapTypes DEF Request, IInv, ServingOK, Clean
<1>3. /\ Roots[x] = aux[x]
      /\ Roots'[x] = NULL
      /\ \A z \in Holder \ {x} : Roots'[z] = Roots[z]
  BY <1>2, HeapTypes, HeapTypesNext DEF WalkDoneSameFid, TypeOK, Holder
<1>4. UNCHANGED <<free_fileid, top, next, nref>>
  BY DEF WalkDoneSameFid, pool
<1>5. HeapOK(free_fileid, top, next, nref, Roots')
  BY <1>2, <1>3, HeapTypes, HeapTypesNext, HeapForget DEF IInv
<1> QED
  BY <1>4, <1>5 DEF Heap

LEMMA ClunkHeap ==
  ASSUME TypeOK, TypeOK', IInv, NEW x \in Fid, Clunk(x)
  PROVE  Heap' /\ Tight
<1>1. /\ Roots[Server] = NULL
      /\ Roots'[x] = NULL
      /\ Roots'[Server] = Roots[x]
      /\ \A z \in Holder \ {x, Server} : Roots'[z] = Roots[z]
      /\ x \in Holder
      /\ x # Server
      /\ Server \in Holder
  BY HeapTypes, HeapTypesNext DEF Clunk, IInv, ServingOK, TypeOK, Holder
<1>2. UNCHANGED <<free_fileid, top, next, nref>>
  BY DEF Clunk, pool
<1>3. /\ HeapOK(free_fileid, top, next, nref, Roots')
      /\ NoMore(next, nref, Roots, next, nref, Roots')
  BY <1>1, HeapTypes, HeapTypesNext, HeapMove DEF IInv
<1> QED
  BY <1>2, <1>3 DEF Heap, Tight

(* A step that changes neither the pool nor a root. *)
LEMMA SameHeap ==
  ASSUME TypeOK, IInv, UNCHANGED <<pool, aux, f>>
  PROVE  Heap' /\ Tight
<1>1. Roots' = Roots
  BY DEF Roots
<1>2. NoMore(next, nref, Roots, next, nref, Roots)
  BY HeapTypes, NoMoreSame
<1> QED
  BY <1>1, <1>2 DEF IInv, Heap, pool, Tight

(* The list a lookup(NULL) builds, after one more handle: still nobody     *)
(* else's, with fh at its end.                                             *)
ListKept ==
  /\ \A h \in Chain(next, f) : Holders(h) = {Server}
  /\ fh # NULL
  /\ fh \in Chain(next, f) /\ next[fh] = NULL

LEMMA ListEntryHeap ==
  ASSUME TypeOK, TypeOK', IInv, ListEntry
  PROVE  Heap' /\ ListKept' /\ (~Loses => Tight)
<1>1. PICK h \in Handle, c \in Node :
        /\ GetFile(h, c)
        /\ next' = [k \in Handle |-> IF k = h THEN NULL
                                     ELSE IF k = fh THEN h ELSE Linked[k]]
        /\ f' = IF fh = NULL THEN h ELSE f
        /\ fh' = h
  BY DEF ListEntry
<1>2. Heap
  BY DEF IInv, Heap
<1>3. /\ Linked \in Nexts
      /\ HeapOK(h, top', Linked, nref, Roots)
      /\ h # NULL
      /\ h \in Ptr
      /\ top' \in Ptr
      /\ free_fileid' = Linked[h]
      /\ nref'[h] = 1
      /\ \A k \in Handle \ {h} : nref'[k] = nref[k]
      /\ \A x \in Holder : \A k \in Chain(next, Roots[x]) : Linked[k] = next[k]
      /\ NoMore(next, nref, Roots, Linked, nref, Roots)
  BY <1>1, <1>2, Allocated, HandlePtr
<1>4. aux' = aux
  BY DEF ListEntry, table
<1>5. /\ \A h_1 \in Chain(next, f) : Holders(h_1) = {Server}
      /\ fh # NULL => fh \in Chain(next, f) /\ next[fh] = NULL
      /\ Clean /\ fh = NULL => f = NULL
  BY DEF ListEntry, InList, IInv, ListOK
<1>6. /\ next'[h] = NULL
      /\ \A k \in Handle \ {h, fh} : next'[k] = Linked[k]
      /\ fh \in Handle \ {h} => next'[fh] = h
  BY <1>1
<1>7. CASE fh = NULL
  <2> DEFINE rt == [Roots EXCEPT ![Server] = NULL]
  <2>1. /\ rt \in RootsT
        /\ rt[Server] = NULL
        /\ \A x \in Holder \ {Server} : rt[x] = Roots[x]
        /\ ~Clean \/ Roots[Server] = NULL
        /\ Server \in Holder
    BY <1>5, <1>7, HeapTypes, HandlePtr DEF RootsT
  <2>2. /\ Roots'[Server] = h
        /\ \A x \in Holder \ {Server} : Roots'[x] = Roots[x]
    BY <1>1, <1>4, <1>7, HeapTypes, HeapTypesNext DEF Holder
  <2> HIDE DEF rt
  <2>3. /\ HeapOK(h, top', Linked, nref, rt)
        /\ Roots[Server] = NULL => NoMore(Linked, nref, Roots, Linked, nref, rt)
    BY <1>3, <2>1, HeapTypes, HeapForget
  <2>4. /\ Roots'[Server] = h
        /\ \A x \in Holder \ {Server} : Roots'[x] = rt[x]
        /\ next'[h] = rt[Server]
        /\ \A k \in Handle \ {h} : next'[k] = Linked[k]
    BY <1>6, <1>7, <2>1, <2>2, HandlePtr, PtrHandle
  <2>5. /\ HeapOK(Linked[h], top', next', nref', Roots')
        /\ Chain(next', h) = {h} \cup Chain(Linked, rt[Server])
        /\ HeldBy(next', Roots', h) = {Server}
        /\ NoMore(Linked, nref, rt, next', nref', Roots')
    <3>1. /\ Linked \in Nexts /\ nref \in Counts
          /\ next' \in Nexts /\ nref' \in Counts /\ Roots' \in RootsT
      BY <1>3, HeapTypes, HeapTypesNext
    <3> QED
      BY <1>3, <2>1, <2>3, <2>4, <3>1, HeapPush, SMTT(60)
  <2>6. Chain(Linked, rt[Server]) = {}
    BY <1>3, <2>1, ChainNull DEF Nexts
  <2>7. ListKept'
    BY <1>1, <1>3, <1>6, <1>7, <2>5, <2>6 DEF ListKept, Holders
  <2>8. ASSUME ~Loses
        PROVE  Tight
    <3>1. Roots[Server] = NULL
      BY <1>7, <2>8, HeapTypes DEF Loses, ListEntry, InList
    <3>2. NoMore(next, nref, Roots, Linked, nref, rt)
      BY <1>3, <2>1, <2>3, <3>1, HeapTypes, NoMoreTrans
    <3> QED
      BY <1>3, <2>1, <2>5, <3>2, HeapTypes, HeapTypesNext, NoMoreTrans DEF Tight
  <2> QED
    BY <1>3, <2>5, <2>7, <2>8 DEF Heap
<1>8. CASE fh # NULL
  <2>1. Roots' = Roots
    BY <1>1, <1>4, <1>8 DEF Roots
  <2>2. Roots[Server] = f /\ Server \in Holder /\ f \in Ptr
    BY HeapTypes DEF TypeOK
  <2>3. /\ \A x \in Holder : Chain(Linked, Roots[x]) = Chain(next, Roots[x])
        /\ \A k : HeldBy(Linked, Roots, k) = HeldBy(next, Roots, k)
    BY <1>3, HeapTypes, HeldFrame
  <2>4. Chain(Linked, Roots[Server]) = Chain(next, f)
    BY <2>2, <2>3
  <2>5. /\ fh \in Chain(Linked, Roots[Server])
        /\ Linked[fh] = NULL
        /\ HeldBy(Linked, Roots, fh) = {Server}
    BY <1>3, <1>5, <1>8, <2>2, <2>3, <2>4 DEF Holders
  <2>6. /\ fh \in Handle
        /\ fh # h
    <3>1. h \notin Chain(Linked, Roots[Server])
      BY <1>3, <2>2, HeapTypes, FreshHead
    <3> QED
      BY <1>8, <2>5, <3>1, HandlePtr DEF TypeOK
  <2>7. next'[fh] = h /\ \A k \in Handle \ {h, fh} : next'[k] = Linked[k]
    BY <1>6, <2>6
  <2>8. /\ HeapOK(Linked[h], top', next', nref', Roots)
        /\ Chain(next', Roots[Server]) = Chain(Linked, Roots[Server]) \cup {h}
        /\ HeldBy(next', Roots, h) = {Server}
        /\ \A k \in Handle \ {h} : HeldBy(next', Roots, k) = HeldBy(Linked, Roots, k)
        /\ NoMore(Linked, nref, Roots, next', nref', Roots)
    <3>1. /\ Linked \in Nexts /\ nref \in Counts /\ Roots \in RootsT
          /\ next' \in Nexts /\ nref' \in Counts
      BY <1>3, HeapTypes, HeapTypesNext
    <3>2. next'[h] = NULL
      BY <1>6
    <3> QED
      BY <1>3, <2>5, <2>7, <3>1, <3>2, HeapAppend, SMTT(90)
  <2>9. Chain(next, f) \subseteq Handle
    BY <2>2, HeapTypes, ChainClosed DEF Nexts
  <2>10. ListKept'
    <3>1. f' = f /\ fh' = h
      BY <1>1, <1>8
    <3>2. Chain(next', f') = Chain(next, f) \cup {h}
      BY <2>2, <2>4, <2>8, <3>1
    <3>3. ASSUME NEW k \in Chain(next', f')
          PROVE  HeldBy(next', Roots', k) = {Server}
      <4>1. CASE k = h
        BY <2>1, <2>8, <4>1
      <4>2. CASE k # h
        <5>1. k \in Chain(next, f) /\ k \in Handle
          BY <2>9, <3>2, <4>2
        <5>2. HeldBy(next, Roots, k) = {Server}
          BY <1>5, <5>1 DEF Holders
        <5> QED
          BY <2>1, <2>3, <2>8, <4>2, <5>1, <5>2
      <4> QED
        BY <4>1, <4>2
    <3> QED
      BY <1>3, <1>6, <3>1, <3>2, <3>3 DEF ListKept, Holders
  <2>11. Tight
    BY <1>3, <2>1, <2>8, HeapTypes, HeapTypesNext, NoMoreTrans DEF Tight
  <2> QED
    BY <1>3, <2>1, <2>8, <2>10, <2>11 DEF Heap
<1> QED
  BY <1>7, <1>8

LEMMA ListNothingHeap ==
  ASSUME TypeOK, TypeOK', IInv, ListNothing
  PROVE  /\ Heap'
         /\ ~Clean
         /\ ~Loses => Tight
<1>1. ~Clean
  <2>1. /\ req \in Request
        /\ node[aux[req.fid]] \in Dir
        /\ req.i < Len(Listed)
        /\ Listed[req.i + 1].node = NoNode
    BY DEF ListNothing, InList, IInv, ServingOK, ListOK
  <2>2. Listed \in Seq(Entry) /\ req.i \in Nat
    BY <2>1, TreeAssumption DEF Listed, Request
  <2>3. req.i + 1 \in DOMAIN Listed
    BY <2>1, <2>2
  <2> QED
    BY <2>1, <2>3 DEF Clean, Listed
<1>2. UNCHANGED <<free_fileid, top, next, nref>>
  BY DEF ListNothing, pool
<1>3. CASE f' = f
  BY <1>1, <1>3, SameHeap DEF ListNothing, table
<1>4. CASE f' = NULL /\ f' # f
  <2>1. /\ Server \in Holder
        /\ Roots'[Server] = NULL
        /\ \A z \in Holder \ {Server} : Roots'[z] = Roots[z]
    BY <1>4, HeapTypes, HeapTypesNext DEF ListNothing, table, Holder
  <2>2. HeapOK(free_fileid, top, next, nref, Roots')
    BY <1>1, <2>1, HeapTypes, HeapTypesNext, HeapForget DEF IInv
  <2>3. Loses
    BY <1>4 DEF Loses, ListNothing, InList
  <2> QED
    BY <1>1, <1>2, <2>2, <2>3 DEF Heap
<1> QED
  BY <1>1, <1>3, <1>4 DEF ListNothing

LEMMA StepHeap ==
  ASSUME TypeOK, TypeOK', IInv, [Next]_vars
  PROVE  Heap' /\ (~Loses => Tight)
<1>1. ASSUME NEW x \in Fid,
             ReadDir(x) \/ UseNull(x) \/ CloneAborts(x)
      PROVE  Heap' /\ Tight
  BY <1>1, SameHeap DEF ReadDir, UseNull, CloneAborts, table
<1>2. CASE WalkUp
  <2>1. CASE next[f] # NULL
    BY <1>2, <2>1, FreeHeap DEF WalkUp, table
  <2>2. CASE next[f] = NULL
    BY <1>2, <2>2, SameHeap DEF WalkUp, table
  <2> QED
    BY <2>1, <2>2
<1>3. CASE Release
  BY <1>3, FreeHeap DEF Release, table
<1>4. CASE WalkMiss \/ WalkNull \/ Released \/ ListDone
  BY <1>4, SameHeap DEF WalkMiss, WalkNull, Released, ListDone, table
<1>5. CASE UNCHANGED vars
  BY <1>5, SameHeap DEF vars, table, handler
<1>6. WalkDoneSameFid => Loses
  BY DEF WalkDoneSameFid, Loses
<1> QED
  BY <1>1, <1>2, <1>3, <1>4, <1>5, <1>6, AttachHeap, WalkHeap, WalkIntoHeap,
     WalkDoneHeap, WalkDoneSameFidHeap, ClunkHeap, ListEntryHeap,
     ListNothingHeap DEF Next, Serve, RemoveNull, StatNull, ReadNull

(* The fid table and the local variables of the handlers. *)
LEMMA StepServing ==
  ASSUME TypeOK, ServingOK, [Next]_vars
  PROVE  ServingOK'
<1> USE DEF ServingOK
<1>1. ASSUME NEW x \in Fid, Attach(x)
      PROVE  ServingOK'
  BY <1>1 DEF Attach, handler, TypeOK
<1>2. ASSUME NEW x \in Fid, Clunk(x)
      PROVE  ServingOK'
  <2>1. req' \in Request
    BY <1>2 DEF Clunk, Request
  <2> QED
    BY <1>2, <2>1 DEF Clunk, TypeOK
<1>3. ASSUME NEW x \in Fid, ReadDir(x)
      PROVE  ServingOK'
  <2>1. req' \in Request
    BY <1>3 DEF ReadDir, Request
  <2> QED
    BY <1>3, <2>1 DEF ReadDir, table
<1>4. ASSUME NEW x \in Fid, UseNull(x) \/ CloneAborts(x)
      PROVE  ServingOK'
  BY <1>4 DEF UseNull, CloneAborts, table
<1>5. ASSUME NEW x \in Fid, NEW y \in Fid, NEW ns \in Names, Walk(x, y, ns)
      PROVE  ServingOK'
  <2>1. ns \in Seq(Name)
    BY DEF Names
  <2>2. /\ req' \in Request
        /\ req'.newfid = y
        /\ req'.fid = x
    BY <1>5, <2>1 DEF Walk, Request
  <2> QED
    BY <1>5, <2>2 DEF Walk, table, Bare
<1>6. CASE WalkUp \/ WalkInto
  <2>1. /\ req \in Request
        /\ req' \in Request
        /\ req'.newfid = req.newfid
        /\ req'.fid = req.fid
    BY <1>6, AdvanceType DEF WalkUp, WalkInto, InWalk, Advance, Request
  <2>2. f' # NULL
    BY <1>6, PtrHandle DEF WalkUp, WalkInto
  <2> QED
    BY <1>6, <2>1, <2>2 DEF WalkUp, WalkInto, InWalk, table
<1>7. CASE WalkMiss \/ WalkNull
  BY <1>7 DEF WalkMiss, WalkNull, InWalk, table
<1>8. CASE WalkDone
  BY <1>8 DEF WalkDone, TypeOK
<1>9. CASE WalkDoneSameFid
  <2>1. req.fid \in Fid
    BY <1>9 DEF WalkDoneSameFid, Request
  <2> QED
    BY <1>9, <2>1 DEF WalkDoneSameFid, TypeOK
<1>10. CASE Release
  BY <1>10 DEF Release, table
<1>11. CASE Released
  BY <1>11 DEF Released, table
<1>12. CASE ListEntry \/ ListNothing
  <2>1. req' \in Request
    BY <1>12, AdvanceType DEF ListEntry, ListNothing, InList
  <2> QED
    BY <1>12, <2>1 DEF ListEntry, ListNothing, InList, table
<1>13. CASE ListDone
  BY <1>13 DEF ListDone, table
<1>14. CASE UNCHANGED vars
  BY <1>14 DEF vars, table, handler, Bare
<1> QED
  BY <1>1, <1>2, <1>3, <1>4, <1>5, <1>6, <1>7, <1>8, <1>9, <1>10, <1>11,
     <1>12, <1>13, <1>14 DEF Next, Serve, RemoveNull, StatNull, ReadNull

LEMMA StepList ==
  ASSUME TypeOK, TypeOK', IInv, [Next]_vars
  PROVE  ListOK'
<1>1. ASSUME NEW x \in Fid, ReadDir(x)
      PROVE  ListOK'
  <2>1. /\ f' = NULL
        /\ fh' = NULL
        /\ UNCHANGED <<next, node, aux>>
        /\ req'.fid = x
    BY <1>1 DEF ReadDir, IInv, ServingOK, pool, table
  <2>2. Chain(next', f') = {}
    BY <2>1, ChainNull DEF TypeOK
  <2> QED
    BY <1>1, <2>1, <2>2 DEF ReadDir, ListOK
<1>2. CASE ListEntry
  <2>1. Heap' /\ ListKept'
    BY <1>2, ListEntryHeap
  <2>2. /\ req' \in Request
        /\ req'.fid = req.fid
        /\ req.fid \in Fid
        /\ aux[req.fid] # NULL
        /\ node[aux[req.fid]] \in Dir
        /\ aux' = aux
    BY <1>2, AdvanceType
       DEF ListEntry, InList, Advance, Request, table, IInv, ServingOK, ListOK
  <2>3. node'[aux[req.fid]] = node[aux[req.fid]]
    <3>1. PICK h \in Handle, c \in Node : GetFile(h, c)
      BY <1>2 DEF ListEntry
    <3>2. /\ HeapOK(h, top', Linked, nref, Roots)
          /\ h # NULL
          /\ h \in Ptr
          /\ top' \in Ptr
          /\ Linked \in Nexts
          /\ \A k \in Handle \ {h} : node'[k] = node[k]
          /\ \A x \in Holder : \A k \in Chain(next, Roots[x]) : Linked[k] = next[k]
      BY <3>1, Allocated, HandlePtr DEF IInv, Heap
    <3>3. \A x \in Holder : h \notin Chain(Linked, Roots[x])
      BY <3>2, HeapTypes, FreshHead
    <3>4. /\ aux[req.fid] \in Handle
          /\ aux[req.fid] \in Chain(Linked, aux[req.fid])
          /\ req.fid \in Holder
          /\ Roots[req.fid] = aux[req.fid]
      BY <2>2, <3>2, HeapTypes, HandlePtr, ChainSelf DEF TypeOK, Nexts
    <3> QED
      BY <3>2, <3>3, <3>4
  <2> QED
    BY <2>1, <2>2, <2>3 DEF ListOK, ListKept
<1>3. CASE ListNothing
  <2>1. ~Clean
    BY <1>3, ListNothingHeap
  <2>2. /\ req \in Request
        /\ req'.fid = req.fid
        /\ UNCHANGED <<next, node, aux>>
        /\ aux[req.fid] # NULL
        /\ node[aux[req.fid]] \in Dir
    BY <1>3 DEF ListNothing, InList, Advance, Request, table, pool, IInv,
                ServingOK, ListOK
  <2>3. CASE f' = NULL
    <3>1. Chain(next', f') = {}
      BY <2>2, <2>3, ChainNull DEF TypeOK
    <3> QED
      BY <1>3, <2>1, <2>2, <3>1 DEF ListNothing, ListOK
  <2>4. CASE f' = f
    <3>1. Roots' = Roots
      BY <2>2, <2>4 DEF Roots
    <3> QED
      BY <1>3, <2>1, <2>2, <2>4, <3>1
         DEF ListNothing, InList, ListOK, Holders, IInv
  <2> QED
    BY <1>3, <2>3, <2>4 DEF ListNothing
<1>4. CASE UNCHANGED vars
  <2>1. Roots' = Roots
    BY <1>4 DEF Roots, vars, table, handler
  <2> QED
    BY <1>4, <2>1
       DEF ListOK, Holders, IInv, vars, pool, table, handler
<1>5. ASSUME pc' # "list"
      PROVE  ListOK'
  BY <1>5 DEF ListOK
<1>6. [Next]_vars => \/ \E x \in Fid : ReadDir(x)
                     \/ ListEntry \/ ListNothing
                     \/ UNCHANGED vars
                     \/ pc' # "list"
  BY DEF Next, Serve, Attach, Clunk, UseNull, RemoveNull, StatNull, ReadNull,
         CloneAborts, Walk, WalkUp, WalkInto, WalkMiss, WalkNull, WalkDone,
         WalkDoneSameFid, Release, Released, ListDone, InWalk, handler
<1> QED
  BY <1>1, <1>2, <1>3, <1>4, <1>5, <1>6

LEMMA StepStacks ==
  ASSUME TypeOK, TypeOK', IInv, [Next]_vars
  PROVE  StacksOK'
<1> SUFFICES ASSUME ~SameFidWalk
             PROVE  /\ \A x \in fids' : aux'[x] # NULL
                    /\ pc' = "walk" => f' # NULL
                    /\ pc' # "segv"
  BY DEF StacksOK
<1> DEFINE Goal == /\ \A x \in fids' : aux'[x] # NULL
                   /\ pc' = "walk" => f' # NULL
                   /\ pc' # "segv"
<1>1. /\ \A x \in fids : aux[x] # NULL
      /\ pc = "walk" => f # NULL
      /\ pc # "segv"
  BY DEF IInv, StacksOK
<1>2. ASSUME NEW x \in Fid, Attach(x)
      PROVE  Goal
  <2>1. PICK h \in Handle : aux' = [aux EXCEPT ![x] = h]
    BY <1>2 DEF Attach
  <2> QED
    BY <1>1, <1>2, <2>1, PtrHandle DEF Attach, handler, TypeOK
<1>3. ASSUME NEW x \in Fid,
             Clunk(x) \/ ReadDir(x) \/ UseNull(x) \/ CloneAborts(x)
      PROVE  Goal
  BY <1>1, <1>3 DEF Clunk, ReadDir, UseNull, CloneAborts, table, TypeOK
<1>4. ASSUME NEW x \in Fid, NEW y \in Fid, NEW ns \in Names, Walk(x, y, ns)
      PROVE  Goal
  BY <1>1, <1>4 DEF Walk, table
<1>5. CASE WalkUp
  BY <1>1, <1>5 DEF WalkUp, InWalk, table, pool
<1>6. CASE WalkInto
  BY <1>1, <1>6, PtrHandle DEF WalkInto, InWalk, table
<1>7. CASE WalkMiss \/ WalkNull
  BY <1>1, <1>7 DEF WalkMiss, WalkNull, InWalk, table
<1>8. CASE WalkDone
  BY <1>1, <1>8 DEF WalkDone, TypeOK
<1>9. CASE WalkDoneSameFid
  <2>1. /\ req \in Request
        /\ req.newfid \notin fids
    BY <1>9 DEF WalkDoneSameFid, IInv, ServingOK
  <2>2. req.fid \notin fids
    BY <1>9, <2>1 DEF WalkDoneSameFid
  <2> QED
    BY <1>1, <1>9, <2>2 DEF WalkDoneSameFid, TypeOK
<1>10. CASE Release \/ Released
  BY <1>1, <1>10 DEF Release, Released, table
<1>11. CASE ListEntry \/ ListNothing \/ ListDone
  BY <1>1, <1>11 DEF ListEntry, ListNothing, ListDone, InList, table
<1>12. CASE UNCHANGED vars
  BY <1>1, <1>12 DEF vars, table, handler
<1> QED
  BY <1>2, <1>3, <1>4, <1>5, <1>6, <1>7, <1>8, <1>9, <1>10, <1>11, <1>12
     DEF Next, Serve, RemoveNull, StatNull, ReadNull

LEMMA InitIInv ==
  ASSUME Init
  PROVE  IInv
<1>1. TypeOK
  BY InitTyped
<1>2. /\ free_fileid = NULL /\ top = 0
      /\ \A x \in Holder : Roots[x] = NULL
  BY HeapTypes, <1>1 DEF Init, Holder
<1>3. Chain(next, NULL) = {}
  BY <1>1, ChainNull DEF TypeOK
<1>4. \A h : Holders(h) = {} /\ HeldBy(next, Roots, h) = {}
  BY <1>2, <1>3 DEF Holders, HeldBy
<1>5. CountsOK(next, nref, Roots)
  <2>1. \A h \in Handle : nref[h] = 0
    BY DEF Init
  <2>2. Counted(0, 0) = 0
    BY DEF Counted
  <2> QED
    BY <1>4, <2>1, <2>2, FS_EmptySet DEF CountsOK
<1>6. HeapOK(free_fileid, top, next, nref, Roots)
  <2>1. Bounded(free_fileid, top, next, Roots)
    BY <1>2 DEF Bounded, NULL
  <2>2. Acyclic(next, NULL)
    BY <1>3 DEF Acyclic
  <2> QED
    BY <1>2, <1>3, <1>5, <2>1, <2>2 DEF HeapOK
<1>7. ServingOK /\ ListOK /\ StacksOK
  BY DEF Init, ServingOK, ListOK, StacksOK
<1> QED
  BY <1>6, <1>7 DEF IInv

(* The heap, the fid table and the local variables of the running handler  *)
(* stay consistent at every step: see IInv in P9Srv.                       *)
THEOREM Invariant == Spec => [](TypeOK /\ IInv)
<1>1. Init => (TypeOK /\ Serving) /\ IInv
  BY InitTyped, InitIInv
<1>2. ((TypeOK /\ Serving) /\ IInv) /\ [Next]_vars
        => ((TypeOK /\ Serving) /\ IInv)'
  <2> SUFFICES ASSUME TypeOK, Serving, IInv, [Next]_vars
               PROVE  TypeOK' /\ Serving' /\ IInv'
    OBVIOUS
  <2>1. TypeOK' /\ Serving'
    BY StepTyped
  <2>2. Heap'
    BY <2>1, StepHeap
  <2>3. ServingOK'
    BY StepServing DEF IInv
  <2>4. ListOK' /\ StacksOK'
    BY <2>1, StepList, StepStacks
  <2> QED
    BY <2>1, <2>2, <2>3, <2>4 DEF IInv, Heap
<1> QED
  BY <1>1, <1>2, PTL DEF Spec

(* No reference is ever missing from a count: not after a failed walk, a   *)
(* "..", a walk onto the same fid, a refused entry of a property list or a *)
(* wrap of nref.                                                           *)
THEOREM CountsCover == Spec => []Covered
<1>1. IInv => Covered
  BY DEF IInv, HeapOK, CountsOK, Covered, Count, Refs, Holders
<1> QED
  BY <1>1, Invariant, PTL

(* p9srv_get_file() never hands out a handle that a fid or the running     *)
(* handler can still reach: no use after free.                             *)
THEOREM NoHandleInUseIsFree == Spec => []NotRecycledInUse
<1>1. IInv => NotRecycledInUse
  BY DEF IInv, HeapOK, NotRecycledInUse, Holders
<1> QED
  BY <1>1, Invariant, PTL

(* A handle is lost to the pool in three places and no other: whatever     *)
(* clients do, no other step leaves a count further above its references.  *)
THEOREM LossesAreKnown == Spec => LossesKnown
<1>1. TypeOK /\ IInv /\ (TypeOK /\ IInv)' /\ [Next]_vars
        => [~Loses => \A h \in Handle : Excess(h)' <= Excess(h)]_vars
  <2> SUFFICES ASSUME TypeOK, TypeOK', IInv, [Next]_vars, ~Loses, NEW h \in Handle
               PROVE  Excess(h)' <= Excess(h)
    OBVIOUS
  <2>1. Tight
    BY StepHeap
  <2>2. /\ Excess(h) = ExcessOf(next, nref, Roots, h)
        /\ Excess(h)' = ExcessOf(next', nref', Roots', h)
    BY DEF Excess, Count, Refs, Holders, ExcessOf
  <2> QED
    BY <2>1, <2>2 DEF Tight, NoMore
<1> QED
  BY <1>1, Invariant, PTL DEF Spec, LossesKnown

(* Where no client walks onto the same fid, and no property list has an    *)
(* entry "." or one that getFileHandle() refuses, every count is exactly   *)
(* the number of references, so the last clunk closes the file.            *)
THEOREM CountsExact ==
  ASSUME Clean
  PROVE  Spec => []Exact
<1>1. IInv => Exact
  BY DEF IInv, HeapOK, CountsOK, Exact, Count, Refs, Holders
<1> QED
  BY <1>1, Invariant, PTL

(* Only a walk onto the same fid, or one from a fid that is bare already,  *)
(* leaves a fid bare, and only then does a request read through NULL.      *)
LEMMA StepBare ==
  ASSUME TypeOK, IInv, Next
  PROVE  /\ pc' = "segv" => Bare # {}
         /\ \/ Bare' \subseteq Bare
            \/ pc = "walk" /\ (req.newfid = req.fid \/ req.fid \in Bare)
<1> DEFINE Goal == /\ pc' = "segv" => Bare # {}
                   /\ \/ Bare' \subseteq Bare
                      \/ pc = "walk" /\ (req.newfid = req.fid \/ req.fid \in Bare)
<1>1. ASSUME NEW x \in Fid, Attach(x)
      PROVE  Goal
  <2>1. PICK h \in Handle : aux' = [aux EXCEPT ![x] = h]
    BY <1>1 DEF Attach
  <2>2. h # NULL
    BY PtrHandle
  <2> QED
    BY <1>1, <2>1, <2>2 DEF Attach, handler, TypeOK, Bare
<1>2. ASSUME NEW x \in Fid, Clunk(x)
      PROVE  Goal
  BY <1>2 DEF Clunk, TypeOK, Bare
<1>3. ASSUME NEW x \in Fid, UseNull(x)
      PROVE  Goal
  BY <1>3 DEF UseNull, table, Bare
<1>4. CASE WalkNull
  <2>1. req.fid \in Bare
    BY <1>4 DEF WalkNull, InWalk, IInv, ServingOK
  <2> QED
    BY <1>4, <2>1 DEF WalkNull, InWalk, table, Bare
<1>5. CASE WalkDone
  <2>1. CASE f = NULL
    BY <1>5, <2>1 DEF WalkDone, IInv, ServingOK
  <2>2. CASE f # NULL
    <3>1. req.newfid \in Fid
      BY <1>5 DEF WalkDone, IInv, ServingOK, Request
    <3> QED
      BY <1>5, <2>2, <3>1 DEF WalkDone, TypeOK, Bare
  <2> QED
    BY <2>1, <2>2
<1>6. CASE WalkDoneSameFid
  BY <1>6 DEF WalkDoneSameFid
<1>7. ASSUME pc' # "segv", UNCHANGED table
      PROVE  Goal
  BY <1>7 DEF table, Bare
<1>8. \/ \E x \in Fid : Attach(x) \/ Clunk(x) \/ UseNull(x)
      \/ WalkNull \/ WalkDone \/ WalkDoneSameFid
      \/ pc' # "segv" /\ UNCHANGED table
  BY DEF Next, Serve, RemoveNull, StatNull, ReadNull, ReadDir, CloneAborts,
         Walk, WalkUp, WalkInto, WalkMiss, Release, Released, ListEntry,
         ListNothing, ListDone, InWalk, InList
<1> QED
  BY <1>1, <1>2, <1>3, <1>4, <1>5, <1>6, <1>7, <1>8

(* Whatever clients do, a request reads through a fid without a handle     *)
(* only if some fid lost its stack to a walk onto itself: no other request *)
(* leaves a fid in use without one.                                        *)
THEOREM NullUseOnlyOfBareFids == Spec => NullUseTraced
<1>1. TypeOK /\ IInv /\ [Next]_vars
        => [/\ pc' = "segv" => Bare # {}
            /\ \/ Bare' \subseteq Bare
               \/ pc = "walk" /\ (req.newfid = req.fid \/ req.fid \in Bare)]_vars
  BY StepBare
<1> QED
  BY <1>1, Invariant, PTL DEF Spec, NullUseTraced

(* Where no client walks onto the same fid, no fid is ever left bare and   *)
(* no request reads through NULL at all.                                   *)
COROLLARY NoNullPointer ==
  ASSUME ~SameFidWalk
  PROVE  Spec => [](Bare = {} /\ pc # "segv")
<1>1. IInv => Bare = {} /\ pc # "segv"
  BY DEF IInv, StacksOK, Bare
<1> QED
  BY <1>1, Invariant, PTL

(* A fid's stack is never rearranged nor given another meaning under it.   *)
LEMMA StepFrozen ==
  ASSUME TypeOK, IInv, [Next]_vars, NEW h \in Handle, Holders(h) \cap Fid # {}
  PROVE  next'[h] = next[h] /\ node'[h] = node[h]
<1>1. PICK x \in Fid : x \in Holders(h)
  OBVIOUS
<1>2. /\ x \in Holder
      /\ x # Server
      /\ h \in Chain(next, Roots[x])
      /\ Heap
  BY <1>1, HeapTypes DEF Holders, HeldBy, IInv, Heap
<1>3. ASSUME f # NULL, FreeFile(f)
      PROVE  next'[h] = next[h] /\ node'[h] = node[h]
  <2>1. CASE Dec(nref[f]) = 0
    <3>1. Holders(f) = {Server}
      BY <1>2, <1>3, <2>1, HeapTypes, LastHolder DEF Heap, Holders
    <3>2. h # f
      BY <1>1, <1>2, <3>1
    <3> QED
      BY <1>3, <3>2 DEF FreeFile, TypeOK
  <2>2. CASE Dec(nref[f]) # 0
    BY <1>3, <2>2 DEF FreeFile
  <2> QED
    BY <2>1, <2>2
<1>4. ASSUME NEW k \in Handle, NEW c \in Node, GetFile(k, c)
      PROVE  h # k /\ Linked[h] = next[h] /\ node'[h] = node[h] /\ Linked \in Nexts
  <2>1. /\ Linked \in Nexts
        /\ HeapOK(k, top', Linked, nref, Roots)
        /\ k # NULL
        /\ k \in Ptr
        /\ top' \in Ptr
        /\ \A j \in Handle \ {k} : node'[j] = node[j]
        /\ \A y \in Holder : \A j \in Chain(next, Roots[y]) : Linked[j] = next[j]
    BY <1>2, <1>4, Allocated, HandlePtr
  <2>2. Chain(Linked, Roots[x]) = Chain(next, Roots[x])
    BY <1>2, <2>1, HeapTypes, HeldFrame
  <2>3. k \notin Chain(Linked, Roots[x])
    BY <1>2, <2>1, HeapTypes, FreshHead
  <2> QED
    BY <1>2, <2>1, <2>2, <2>3
<1>5. ASSUME NEW y \in Fid, Attach(y)
      PROVE  next'[h] = next[h] /\ node'[h] = node[h]
  <2>1. PICK k \in Handle : GetFile(k, Root) /\ next' = [Linked EXCEPT ![k] = NULL]
    BY <1>5 DEF Attach
  <2> QED
    BY <1>4, <2>1, TreeAssumption DEF Nexts
<1>6. CASE WalkInto
  <2>1. PICK k \in Handle, c \in Node :
          /\ GetFile(k, c)
          /\ next' = [Linked EXCEPT ![k] = IF NextName = DOT THEN NULL ELSE f]
    BY <1>6 DEF WalkInto
  <2> QED
    BY <1>4, <2>1 DEF Nexts
<1>7. CASE ListEntry
  <2>1. PICK k \in Handle, c \in Node :
          /\ GetFile(k, c)
          /\ next' = [j \in Handle |-> IF j = k THEN NULL
                                       ELSE IF j = fh THEN k ELSE Linked[j]]
    BY <1>7 DEF ListEntry
  <2>2. fh # NULL => Holders(fh) = {Server}
    BY <1>7 DEF ListEntry, InList, IInv, ListOK
  <2>3. h # fh
    BY <1>1, <1>2, <2>2, PtrHandle
  <2> QED
    BY <1>4, <2>1, <2>3
<1>8. CASE WalkUp \/ Release
  BY <1>3, <1>8 DEF WalkUp, Release, pool
<1>9. [Next]_vars => \/ \E y \in Fid : Attach(y)
                     \/ WalkInto \/ ListEntry \/ WalkUp \/ Release
                     \/ UNCHANGED <<next, node>>
  BY DEF Next, Serve, Clunk, ReadDir, UseNull, RemoveNull, StatNull, ReadNull,
         CloneAborts, Walk, WalkMiss, WalkNull, WalkDone, WalkDoneSameFid,
         Released, ListNothing, ListDone, vars, pool
<1> QED
  BY <1>5, <1>6, <1>7, <1>8, <1>9

(* No step of a handler changes the stack a fid stands for, or what its    *)
(* handles denote, however many fids share handles with it.                *)
THEOREM StacksFrozen == Spec => FrozenWhileHeld
<1>1. TypeOK /\ IInv /\ [Next]_vars
        => [\A h \in Handle : Holders(h) \cap Fid # {}
              => next'[h] = next[h] /\ node'[h] = node[h]]_vars
  BY StepFrozen
<1> QED
  BY <1>1, Invariant, PTL DEF Spec, FrozenWhileHeld
-----------------------------------------------------------------------------
(* The stack of a handler that releases it gets shorter with each handle. *)
LEMMA ReleaseShrinks ==
  ASSUME TypeOK, IInv, Release
  PROVE  Cardinality(Chain(next', f')) < Cardinality(Chain(next, f))
<1>1. /\ f \in Handle
      /\ f # NULL
      /\ next \in [Handle -> Ptr]
      /\ Acyclic(next, f)
  BY HeapTypes, PtrHandle DEF Release, TypeOK, IInv, HeapOK
<1>2. /\ next' \in [Handle -> Ptr]
      /\ f' = next[f]
      /\ next[f] \in Ptr
      /\ \A k \in Handle \ {f} : next'[k] = next[k]
  BY <1>1, FreeFileType DEF Release, FreeFile
<1>3. f \notin Chain(next, next[f])
  BY <1>1, AcyclicTail
<1>4. \A k \in Chain(next, next[f]) : next'[k] = next[k]
  BY <1>1, <1>2, <1>3, ChainClosed
<1>5. Chain(next', next[f]) = Chain(next, next[f])
  BY <1>1, <1>2, <1>4, ChainFrame
<1> QED
  BY <1>1, <1>2, <1>5, ChainShrinks, ChainFinite

(* The property list a lookup(NULL) goes through stays what it is. *)
LEMMA ListedSame ==
  ASSUME TypeOK, IInv, ListEntry
  PROVE  Listed' = Listed
<1> DEFINE h == aux[req.fid]
<1>1. /\ h # NULL
      /\ req.fid \in Fid
      /\ h \in Handle
  BY PtrHandle DEF ListEntry, InList, IInv, ListOK, ServingOK, Request, TypeOK
<1>2. Holders(h) \cap Fid # {}
  <2>1. h \in Chain(next, Roots[req.fid])
    BY <1>1, ChainSelf, HeapTypes DEF TypeOK
  <2> QED
    BY <1>1, <2>1, HeapTypes DEF Holders, HeldBy
<1>3. node'[h] = node[h]
  BY <1>1, <1>2, StepFrozen DEF Next, Serve
<1>4. aux' = aux /\ req'.fid = req.fid
  BY <1>1 DEF ListEntry, InList, table, Advance, IInv, ServingOK, Request
<1> QED
  BY <1>3, <1>4 DEF Listed

(* A loop over names or entries takes them one by one. *)
LEMMA LoopAdvances ==
  ASSUME NEW n \in Nat, req \in Request, req.i < n, Advance
  PROVE  /\ req'.names = req.names
         /\ 0 <= n - req'.i
         /\ n - req'.i < n - req.i
BY DEF Request, Advance

LEMMA StepProgress ==
  ASSUME TypeOK, IInv, Next, Stage # 0
  PROVE  \/ Stage' < Stage
         \/ Stage' = Stage /\ 0 <= Left' /\ Left' < Left
<1> DEFINE Goal == \/ Stage' < Stage
                   \/ Stage' = Stage /\ 0 <= Left' /\ Left' < Left
<1>1. /\ pc # "idle"
      /\ req \in Request
  BY DEF Stage, IInv, ServingOK
<1>2. CASE WalkUp \/ WalkInto
  <2>1. /\ pc = "walk" /\ pc' = "walk"
        /\ req.i < Len(req.names)
        /\ Advance
    BY <1>2 DEF WalkUp, WalkInto, InWalk
  <2>2. Len(req.names) \in Nat
    BY <1>1 DEF Request
  <2>3. Stage' = Stage
    BY <2>1 DEF Stage
  <2>4. /\ Left = Len(req.names) - req.i
        /\ Left' = Len(req'.names) - req'.i
    BY <2>1 DEF Left
  <2> QED
    BY <1>1, <2>1, <2>2, <2>3, <2>4, LoopAdvances
<1>3. CASE ListEntry \/ ListNothing
  <2>1. /\ pc = "list" /\ pc' = "list"
        /\ req.i < Len(Listed)
        /\ Advance
    BY <1>3 DEF ListEntry, ListNothing, InList
  <2>2. Len(Listed) \in Nat
    BY <2>1, TreeAssumption DEF Listed, IInv, ListOK
  <2>3. Listed' = Listed
    <3>1. CASE ListEntry
      BY <3>1, ListedSame
    <3>2. CASE ListNothing
      BY <1>1, <3>2 DEF ListNothing, Listed, pool, table, Advance, Request
    <3> QED
      BY <1>3, <3>1, <3>2
  <2>4. Stage' = Stage
    BY <2>1 DEF Stage
  <2>5. /\ Left = Len(Listed) - req.i
        /\ Left' = Len(Listed') - req'.i
    BY <2>1 DEF Left
  <2> QED
    BY <1>1, <2>1, <2>2, <2>3, <2>4, <2>5, LoopAdvances
<1>4. CASE Release
  <2>1. pc = "release" /\ pc' = "release"
    BY <1>4 DEF Release
  <2>2. Stage' = Stage
    BY <2>1 DEF Stage
  <2>3. /\ Left = Cardinality(Chain(next, f))
        /\ Left' = Cardinality(Chain(next', f'))
    BY <2>1 DEF Left
  <2>4. Cardinality(Chain(next', f')) \in Nat
    <3>1. /\ f \in Handle
          /\ next \in [Handle -> Ptr]
      BY <1>4, PtrHandle DEF Release, TypeOK
    <3>2. next' \in [Handle -> Ptr] /\ f' \in Ptr
      BY <1>4, <3>1, FreeFileType DEF Release
    <3> QED
      BY <3>2, ChainFinite
  <2> QED
    BY <1>4, <2>2, <2>3, <2>4, ReleaseShrinks
<1>5. CASE WalkMiss \/ WalkDoneSameFid \/ ListDone
  <2>1. pc \in {"walk", "list"} /\ pc' = "release"
    BY <1>5 DEF WalkMiss, WalkDoneSameFid, ListDone, InWalk
  <2> QED
    BY <2>1 DEF Stage
<1>6. CASE WalkNull \/ WalkDone \/ Released
  <2>1. pc \in {"walk", "list", "release"} /\ pc' \in {"idle", "segv"}
    BY <1>6 DEF WalkNull, WalkDone, Released, InWalk
  <2> QED
    BY <2>1 DEF Stage
<1> QED
  BY <1>1, <1>2, <1>3, <1>4, <1>5, <1>6
     DEF Next, Serve, Attach, Clunk, ReadDir, UseNull, RemoveNull, StatNull,
         ReadNull, CloneAborts, Walk

(* No loop of a handler goes round in circles, for any client, any file    *)
(* tree and any property list: each step leaves it less to do.             *)
THEOREM LoopsEnd == Spec => HandlersEnd
<1>1. TypeOK /\ IInv /\ [Next]_vars
        => [Stage # 0 => \/ Stage' < Stage
                         \/ Stage' = Stage /\ 0 <= Left' /\ Left' < Left]_vars
  BY StepProgress
<1> QED
  BY <1>1, Invariant, PTL DEF Spec, HandlersEnd
==============================================================================
