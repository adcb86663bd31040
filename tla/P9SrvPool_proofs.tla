--------------------------- MODULE P9SrvPool_proofs ---------------------------
(***************************************************************************)
(* Where no client walks onto the same fid and no property list has an     *)
(* entry "." or one that is refused, no handle is lost: each is on the     *)
(* free list or somebody holds it.  As in P9SrvHeap_proofs there is one    *)
(* lemma for each way the heap changes, and the actions use them.          *)
(***************************************************************************)
EXTENDS P9Srv_proofs

(* Every allocated handle of a heap is accounted for. *)
Accounted(fr, tp, nx, rt) ==
  \A h \in 1..tp : h \in Chain(nx, fr) \/ HeldBy(nx, rt, h) # {}

AllAccounted == Accounted(free_fileid, top, next, Roots)

(* The list of a new block reaches each handle of it. *)
LEMMA BlockReached ==
  ASSUME NEW tp \in Nat, NEW tb \in Nat, tp < tb, tb <= MaxHandle,
         NEW my \in Nexts,
         \A h \in (tp + 1)..tb : my[h] = IF h = tp + 1 THEN NULL ELSE h - 1
  PROVE  (tp + 1)..tb \subseteq Chain(my, tb)
<1> DEFINE new  == (tp + 1)..tb
           miss == {d \in Nat : d < tb - tp /\ tb - d \notin Chain(my, tb)}
<1>1. tb \in Handle /\ tb \in Ptr /\ new \subseteq Handle
  BY MaxHandleAssumption DEF Handle, Ptr
<1>2. tb \in Chain(my, tb)
  BY <1>1, ChainSelf DEF Nexts
<1>3. miss = {}
  <2> SUFFICES ASSUME miss # {} PROVE FALSE
    OBVIOUS
  <2>1. PICK d \in miss : \A e \in miss : d <= e
    <3>1. miss \in SUBSET Nat
      OBVIOUS
    <3> HIDE DEF miss
    <3> QED
      BY <3>1, LeastElement
  <2>2. d # 0
    <3> SUFFICES ASSUME d = 0 PROVE FALSE
      OBVIOUS
    <3>1. tb - d = tb
      OBVIOUS
    <3> QED
      BY <1>2, <2>1, <3>1
  <2>3. d - 1 \in Nat /\ d - 1 \notin miss /\ d - 1 < tb - tp
    BY <2>1, <2>2
  <2>4. tb - (d - 1) \in Chain(my, tb)
    BY <2>3
  <2>5. /\ tb - (d - 1) \in new /\ tb - (d - 1) # tp + 1
        /\ tb - (d - 1) - 1 = tb - d /\ tb - d # 0
    BY <2>1, <2>2
  <2>6. my[tb - (d - 1)] = tb - d
    BY <2>5
  <2>7. tb - d \in Chain(my, tb)
    <3>1. IsClosed(my, Chain(my, tb))
      BY <1>1, ChainClosed DEF Nexts
    <3> QED
      BY <2>4, <2>5, <2>6, <3>1 DEF IsClosed, NULL
  <2> QED
    BY <2>1, <2>7
<1>4. ASSUME NEW h \in new
      PROVE  h \in Chain(my, tb)
  <2>1. tb - h \in Nat /\ tb - h < tb - tp /\ tb - (tb - h) = h
    OBVIOUS
  <2> QED
    BY <1>3, <2>1
<1> QED
  BY <1>4
-----------------------------------------------------------------------------
(* Whoever held a list, somebody still holds it. *)
LEMMA AccountedMove ==
  ASSUME NEW fr, NEW tp, NEW nx \in Nexts, NEW rt \in RootsT, NEW rn \in RootsT,
         Accounted(fr, tp, nx, rt),
         \A x \in Holder : rt[x] # NULL => \E y \in Holder : rn[y] = rt[x]
  PROVE  Accounted(fr, tp, nx, rn)
<1> SUFFICES ASSUME NEW h \in 1..tp, h \notin Chain(nx, fr)
             PROVE  HeldBy(nx, rn, h) # {}
  BY DEF Accounted
<1>1. PICK x \in Holder : h \in Chain(nx, rt[x])
  BY DEF Accounted, HeldBy
<1>2. rt[x] # NULL
  BY <1>1, ChainNull DEF Nexts
<1>3. PICK y \in Holder : rn[y] = rt[x]
  BY <1>2
<1> QED
  BY <1>1, <1>3 DEF HeldBy

(* calloc() in p9srv_get_file(): the block is on the free list. *)
LEMMA AccountedBlock ==
  ASSUME NEW tp \in Ptr, NEW nx \in Nexts, NEW rt \in RootsT,
         Accounted(NULL, tp, nx, rt),
         tp + Block <= MaxHandle,
         NEW my \in Nexts,
         \A h \in (tp + 1)..(tp + Block) :
           my[h] = IF h = tp + 1 THEN NULL ELSE h - 1,
         \A x \in Holder : \A k \in Chain(nx, rt[x]) : my[k] = nx[k]
  PROVE  Accounted(tp + Block, tp + Block, my, rt)
<1> SUFFICES ASSUME NEW h \in 1..(tp + Block)
             PROVE  h \in Chain(my, tp + Block) \/ HeldBy(my, rt, h) # {}
  BY DEF Accounted
<1>1. tp \in Nat /\ Block \in Nat /\ tp < tp + Block /\ tp + Block \in Nat
  BY PoolAssumption, MaxHandleAssumption DEF Ptr
<1>2. CASE h \in (tp + 1)..(tp + Block)
  BY <1>1, <1>2, BlockReached
<1>3. CASE h \in 1..tp
  <2>1. Chain(nx, NULL) = {}
    BY ChainNull DEF Nexts
  <2>2. HeldBy(nx, rt, h) # {}
    BY <1>3, <2>1 DEF Accounted
  <2> QED
    BY <2>2, HeldFrame
<1> QED
  BY <1>1, <1>2, <1>3

(* The head of the free list is pushed on the list of y. *)
LEMMA AccountedPush ==
  ASSUME NEW fr \in Ptr, NEW tp \in Ptr, NEW nx \in Nexts, NEW nr \in Counts,
         NEW rt \in RootsT, HeapOK(fr, tp, nx, nr, rt), fr # NULL,
         Accounted(fr, tp, nx, rt),
         NEW y \in Holder,
         NEW rn \in RootsT, rn[y] = fr,
         \A x \in Holder \ {y} : rn[x] = rt[x],
         NEW my \in Nexts, my[fr] = rt[y],
         \A k \in Handle \ {fr} : my[k] = nx[k],
         Chain(my, fr) = {fr} \cup Chain(nx, rt[y])
  PROVE  Accounted(nx[fr], tp, my, rn)
<1>1. /\ fr \in Handle
      /\ \A x \in Holder : fr \notin Chain(nx, rt[x])
      /\ nx[fr] \in Ptr
      /\ fr \notin Chain(nx, nx[fr])
  BY FreshHead
<1>2. Chain(my, nx[fr]) = Chain(nx, nx[fr])
  <2>1. \A k \in Chain(nx, nx[fr]) : my[k] = nx[k]
    BY <1>1, ChainClosed DEF Nexts
  <2> QED
    BY <1>1, <2>1, ChainFrame DEF Nexts
<1>3. Chain(nx, fr) = {fr} \cup Chain(nx, nx[fr])
  BY <1>1, ChainUnfold DEF Nexts
<1>4. ASSUME NEW x \in Holder \ {y}
      PROVE  Chain(my, rn[x]) = Chain(nx, rt[x])
  <2>1. rn[x] = rt[x] /\ rt[x] \in Ptr
    BY DEF RootsT
  <2>2. \A k \in Chain(nx, rt[x]) : my[k] = nx[k]
    BY <1>1, <2>1, ChainClosed DEF Nexts
  <2> QED
    BY <2>1, <2>2, ChainFrame DEF Nexts
<1> SUFFICES ASSUME NEW h \in 1..tp, h \notin Chain(my, nx[fr])
             PROVE  \E x \in Holder : h \in Chain(my, rn[x])
  BY DEF Accounted, HeldBy
<1>5. CASE h = fr
  BY <1>5
<1>6. CASE h # fr
  <2>1. h \notin Chain(nx, fr)
    BY <1>2, <1>3, <1>6
  <2>2. PICK x \in Holder : h \in Chain(nx, rt[x])
    BY <2>1 DEF Accounted, HeldBy
  <2>3. CASE x = y
    BY <2>2, <2>3
  <2>4. CASE x # y
    BY <1>4, <2>2, <2>4
  <2> QED
    BY <2>3, <2>4
<1> QED
  BY <1>5, <1>6

(* It is appended to the list of the running handler, at e. *)
LEMMA AccountedAppend ==
  ASSUME NEW fr \in Ptr, NEW tp \in Ptr, NEW nx \in Nexts, NEW nr \in Counts,
         NEW rt \in RootsT, HeapOK(fr, tp, nx, nr, rt), fr # NULL,
         Accounted(fr, tp, nx, rt),
         NEW e \in Handle, HeldBy(nx, rt, e) # {},
         NEW my \in Nexts,
         \A k \in Handle \ {fr, e} : my[k] = nx[k],
         HeldBy(my, rt, fr) # {},
         \A k \in Handle \ {fr} : HeldBy(my, rt, k) = HeldBy(nx, rt, k)
  PROVE  Accounted(nx[fr], tp, my, rt)
<1>1. /\ fr \in Handle
      /\ nx[fr] \in Ptr
      /\ fr \notin Chain(nx, nx[fr])
      /\ Chain(nx, nx[fr]) \subseteq Chain(nx, fr)
  BY FreshHead
<1>2. e \notin Chain(nx, fr)
  BY DEF HeapOK
<1>3. Chain(my, nx[fr]) = Chain(nx, nx[fr])
  <2>1. \A k \in Chain(nx, nx[fr]) : my[k] = nx[k]
    BY <1>1, <1>2, ChainClosed DEF Nexts
  <2> QED
    BY <1>1, <2>1, ChainFrame DEF Nexts
<1>4. Chain(nx, fr) = {fr} \cup Chain(nx, nx[fr])
  BY <1>1, ChainUnfold DEF Nexts
<1>5. 1..tp \subseteq Handle
  BY MaxHandleAssumption DEF Ptr, Handle
<1> SUFFICES ASSUME NEW h \in 1..tp, h \notin Chain(my, nx[fr])
             PROVE  HeldBy(my, rt, h) # {}
  BY DEF Accounted
<1>6. CASE h = fr
  BY <1>6
<1>7. CASE h # fr
  <2>1. h \notin Chain(nx, fr)
    BY <1>3, <1>4, <1>7
  <2> QED
    BY <1>5, <1>7, <2>1 DEF Accounted
<1> QED
  BY <1>6, <1>7

(* A count that drops and is not zero leaves another holder. *)
LEMMA AnotherHolder ==
  ASSUME Clean, NEW fr \in Ptr, NEW tp \in Ptr, NEW nx \in Nexts, NEW nr \in Counts,
         NEW rt \in RootsT, HeapOK(fr, tp, nx, nr, rt), rt[Server] # NULL,
         Dec(nr[rt[Server]]) # 0
  PROVE  HeldBy(nx, rt, rt[Server]) \ {Server} # {}
<1> DEFINE p == rt[Server]
           H == HeldBy(nx, rt, p)
<1>1. p \in Handle /\ Server \in Holder
  BY HolderFinite, HandlePtr DEF RootsT
<1>2. p \in Chain(nx, p)
  BY <1>1, ChainSelf DEF Nexts
<1>3. Server \in H
  BY <1>1, <1>2 DEF HeldBy
<1>4. IsFiniteSet(H) /\ Cardinality(H) \in Nat
  BY <1>1, HeldFinite
<1>5. Counted(nr[p], Cardinality(H)) = Cardinality(H) /\ nr[p] \in 0..(RefMod - 1)
  BY <1>1 DEF HeapOK, CountsOK, Counts
<1>6. Cardinality(H) # 1
  <2> HIDE DEF H, p
  <2> SUFFICES ASSUME Cardinality(H) = 1 PROVE Dec(nr[p]) = 0
    BY DEF p
  <2>1. nr[p] = 1
    BY <1>5, PoolAssumption DEF Counted
  <2> QED
    BY <2>1, PoolAssumption DEF Dec
<1>7. H # {Server}
  BY <1>6, FS_Singleton
<1> QED
  BY <1>3, <1>7

(* The running handler drops its reference to the handle it is at. *)
LEMMA AccountedFree ==
  ASSUME Clean, NEW fr \in Ptr, NEW tp \in Ptr, NEW nx \in Nexts, NEW nr \in Counts,
         NEW rt \in RootsT, HeapOK(fr, tp, nx, nr, rt), rt[Server] # NULL,
         Accounted(fr, tp, nx, rt),
         NEW rn \in RootsT, rn[Server] = nx[rt[Server]],
         \A x \in Holder \ {Server} : rn[x] = rt[x],
         NEW left, left = Dec(nr[rt[Server]]),
         NEW my \in Nexts,
         left # 0 => my = nx,
         left = 0 => my[rt[Server]] = fr,
         \A k \in Handle \ {rt[Server]} : my[k] = nx[k],
         NEW fn \in Ptr, fn = IF left = 0 THEN rt[Server] ELSE fr
  PROVE  Accounted(fn, tp, my, rn)
<1> DEFINE p == rt[Server]
<1>1. /\ p \in Handle
      /\ p \notin Chain(nx, fr)
      /\ HeldBy(nx, rn, p) = HeldBy(nx, rt, p) \ {Server}
      /\ \A k \in Handle \ {p} : HeldBy(nx, rn, k) = HeldBy(nx, rt, k)
  BY ServerTop, SMTT(60)
<1>2. 1..tp \subseteq Handle
  BY MaxHandleAssumption DEF Ptr, Handle
<1>3. \A h \in 1..tp : h # p => h \in Chain(nx, fr) \/ HeldBy(nx, rn, h) # {}
  BY <1>1, <1>2 DEF Accounted
<1>4. CASE left # 0
  <2>1. Dec(nr[rt[Server]]) # 0
    BY <1>4
  <2>2. HeldBy(nx, rn, p) # {}
    BY <1>1, <2>1, AnotherHolder
  <2>3. my = nx /\ fn = fr
    BY <1>4
  <2> QED
    BY <1>3, <2>2, <2>3 DEF Accounted
<1>5. CASE left = 0
  <2>1. fn = p /\ my[p] = fr
    BY <1>5
  <2>2. HeldBy(nx, rn, p) = {}
    <3>1. Dec(nr[rt[Server]]) = 0
      BY <1>5
    <3>2. HeldBy(nx, rt, p) = {Server}
      BY <3>1, LastHolder
    <3> QED
      BY <1>1, <3>2
  <2>3. \A x \in Holder : \A k \in Chain(nx, rn[x]) : my[k] = nx[k]
    <3>1. \A x \in Holder : rn[x] \in Ptr
      BY DEF RootsT
    <3> QED
      BY <2>1, <2>2, <3>1, ChainClosed DEF HeldBy, Nexts
  <2>4. \A k : HeldBy(my, rn, k) = HeldBy(nx, rn, k)
    BY <2>3, HeldFrame
  <2>5. Chain(my, p) = {p} \cup Chain(nx, fr)
    <3>1. nx \in [Handle -> Ptr] /\ my \in [Handle -> Ptr] /\ Acyclic(nx, fr)
      BY DEF Nexts, HeapOK
    <3>2. \A k \in Chain(nx, fr) : my[k] = nx[k]
      BY <1>1, ChainClosed DEF Nexts
    <3> QED
      BY <1>1, <2>1, <3>1, <3>2, ChainPush
  <2> QED
    BY <1>3, <2>1, <2>4, <2>5 DEF Accounted
<1> QED
  BY <1>4, <1>5
-----------------------------------------------------------------------------
(* p9srv_get_file(): before the handle is linked, all are accounted for.   *)
LEMMA AllocatedAccounted ==
  ASSUME TypeOK, Heap, AllAccounted, NEW h \in Handle, NEW c \in Node, GetFile(h, c)
  PROVE  Accounted(h, top', Linked, Roots)
<1>1. /\ Linked \in Nexts
      /\ \A x \in Holder : \A k \in Chain(next, Roots[x]) : Linked[k] = next[k]
  BY Allocated
<1>2. CASE NeedBlock
  <2>1. /\ h = top + Block /\ top' = top + Block
        /\ top + Block <= MaxHandle
    BY <1>2 DEF GetFile, FreeHead
  <2>2. Accounted(NULL, top, next, Roots)
    BY <1>2 DEF NeedBlock, AllAccounted
  <2>3. \A k \in (top + 1)..(top + Block) :
          Linked[k] = IF k = top + 1 THEN NULL ELSE k - 1
    <3>1. \A k \in (top + 1)..(top + Block) : k \in Handle
      BY <2>1, PoolAssumption, MaxHandleAssumption DEF TypeOK, Ptr, Handle
    <3> QED
      BY <1>2, <3>1 DEF Linked
  <2> QED
    BY <1>1, <2>1, <2>2, <2>3, HeapTypes, AccountedBlock
<1>3. CASE ~NeedBlock
  <2>1. h = free_fileid /\ top' = top
    BY <1>3 DEF GetFile, FreeHead
  <2>2. Linked = next
    <3>1. Linked = [k \in Handle |-> next[k]]
      BY <1>3 DEF Linked
    <3> QED
      BY <3>1 DEF TypeOK
  <2> QED
    BY <2>1, <2>2 DEF AllAccounted
<1> QED
  BY <1>2, <1>3

LEMMA AttachAccounted ==
  ASSUME TypeOK, TypeOK', IInv, AllAccounted, NEW x \in Fid, Attach(x)
  PROVE  AllAccounted'
<1>1. PICK h \in Handle : /\ GetFile(h, Root)
                          /\ next' = [Linked EXCEPT ![h] = NULL]
                          /\ aux' = [aux EXCEPT ![x] = h]
  BY DEF Attach
<1>2. Root \in Node /\ Heap
  BY TreeAssumption DEF IInv, Heap
<1>3. /\ Linked \in Nexts
      /\ HeapOK(h, top', Linked, nref, Roots)
      /\ Accounted(h, top', Linked, Roots)
      /\ h # NULL
      /\ h \in Ptr
      /\ top' \in Ptr
      /\ free_fileid' = Linked[h]
  BY <1>1, <1>2, Allocated, AllocatedAccounted, HandlePtr
<1>4. /\ Roots[x] = NULL
      /\ Roots'[x] = h
      /\ \A y \in Holder \ {x} : Roots'[y] = Roots[y]
  BY <1>1, HeapTypes, HeapTypesNext
     DEF Attach, IInv, ServingOK, TypeOK, handler, Holder
<1>5. /\ next'[h] = Roots[x]
      /\ \A k \in Handle \ {h} : next'[k] = Linked[k]
  BY <1>1, <1>3, <1>4 DEF Nexts
<1>6. Chain(next', h) = {h} \cup Chain(Linked, Roots[x])
  <2>1. Chain(Linked, NULL) = {} /\ Chain(next', NULL) = {}
    BY <1>3, HeapTypesNext, ChainNull DEF Nexts
  <2>2. Chain(next', h) = {h} \cup Chain(next', next'[h])
    BY HeapTypesNext, ChainUnfold DEF Nexts
  <2> QED
    BY <1>4, <1>5, <2>1, <2>2
<1>7. Accounted(Linked[h], top', next', Roots')
  BY <1>3, <1>4, <1>5, <1>6, HeapTypes, HeapTypesNext, AccountedPush
<1> QED
  BY <1>3, <1>7 DEF AllAccounted

LEMMA WalkIntoAccounted ==
  ASSUME Clean, TypeOK, TypeOK', IInv, AllAccounted, WalkInto
  PROVE  AllAccounted'
<1>1. PICK h \in Handle, c \in Node :
        /\ Finds(node[f], NextName, c)
        /\ GetFile(h, c)
        /\ next' = [Linked EXCEPT ![h] = IF NextName = DOT THEN NULL ELSE f]
        /\ f' = IF NextName = DOT THEN f ELSE h
  BY DEF WalkInto
<1>2. Heap
  BY DEF IInv, Heap
<1>3. /\ Linked \in Nexts
      /\ HeapOK(h, top', Linked, nref, Roots)
      /\ Accounted(h, top', Linked, Roots)
      /\ h # NULL
      /\ h \in Ptr
      /\ top' \in Ptr
      /\ free_fileid' = Linked[h]
  BY <1>1, <1>2, Allocated, AllocatedAccounted, HandlePtr
<1>4. NextName # DOT
  BY <1>1 DEF Clean, Finds, FirstMatch
<1>5. /\ next'[h] = Roots[Server]
      /\ \A k \in Handle \ {h} : next'[k] = Linked[k]
  BY <1>1, <1>3, <1>4, HeapTypes DEF Nexts
<1>6. /\ Server \in Holder
      /\ Roots'[Server] = h
      /\ \A z \in Holder \ {Server} : Roots'[z] = Roots[z]
  BY <1>1, <1>4, HeapTypes, HeapTypesNext DEF WalkInto, table, Holder
<1>7. Chain(next', h) = {h} \cup Chain(Linked, Roots[Server])
  <2>1. Roots[Server] \in Ptr
    BY HeapTypes DEF TypeOK
  <2>2. h \notin Chain(Linked, Roots[Server])
    BY <1>3, <1>6, HeapTypes, FreshHead
  <2>3. \A k \in Chain(Linked, Roots[Server]) : next'[k] = Linked[k]
    BY <1>3, <1>5, <2>1, <2>2, ChainClosed DEF Nexts
  <2>4. Acyclic(Linked, Roots[Server])
    BY <1>3, <1>6 DEF HeapOK
  <2> QED
    BY <1>3, <1>5, <2>1, <2>2, <2>3, <2>4, HeapTypesNext, ChainPush DEF Nexts
<1>8. Accounted(Linked[h], top', next', Roots')
  BY <1>3, <1>5, <1>6, <1>7, HeapTypes, HeapTypesNext, AccountedPush
<1> QED
  BY <1>3, <1>8 DEF AllAccounted

LEMMA FreeAccounted ==
  ASSUME Clean, TypeOK, TypeOK', IInv, AllAccounted,
         f # NULL, FreeFile(f), f' = next[f], aux' = aux
  PROVE  AllAccounted'
<1> DEFINE left == Dec(nref[f])
<1>1. /\ f \in Handle
      /\ Roots[Server] = f
      /\ Roots'[Server] = next[f]
      /\ \A z \in Holder \ {Server} : Roots'[z] = Roots[z]
  BY HeapTypes, HeapTypesNext, HandlePtr DEF TypeOK, Holder
<1>2. /\ left # 0 => next' = next
      /\ left = 0 => next'[f] = free_fileid
      /\ \A k \in Handle \ {f} : next'[k] = next[k]
      /\ free_fileid' = IF left = 0 THEN f ELSE free_fileid
      /\ top' = top
  BY <1>1 DEF FreeFile, TypeOK
<1>3. Accounted(free_fileid', top, next', Roots')
  <2> HIDE DEF left
  <2>1. left = Dec(nref[Roots[Server]])
    BY <1>1 DEF left
  <2> QED
    BY <1>1, <1>2, <2>1, HeapTypes, HeapTypesNext, AccountedFree DEF IInv, AllAccounted
<1> QED
  BY <1>2, <1>3 DEF AllAccounted

LEMMA ListEntryAccounted ==
  ASSUME Clean, TypeOK, TypeOK', IInv, AllAccounted, ListEntry
  PROVE  AllAccounted'
<1>1. PICK h \in Handle, c \in Node :
        /\ GetFile(h, c)
        /\ next' = [k \in Handle |-> IF k = h THEN NULL
                                     ELSE IF k = fh THEN h ELSE Linked[k]]
        /\ f' = IF fh = NULL THEN h ELSE f
        /\ fh' = h
  BY DEF ListEntry
<1>2. Heap
  BY DEF IInv, Heap
<1>3. /\ Linked \in Nexts
      /\ HeapOK(h, top', Linked, nref, Roots)
      /\ Accounted(h, top', Linked, Roots)
      /\ h # NULL
      /\ h \in Ptr
      /\ top' \in Ptr
      /\ free_fileid' = Linked[h]
      /\ \A x \in Holder : \A k \in Chain(next, Roots[x]) : Linked[k] = next[k]
  BY <1>1, <1>2, Allocated, AllocatedAccounted, HandlePtr
<1>4. aux' = aux
  BY DEF ListEntry, table
<1>5. /\ \A k \in Chain(next, f) : Holders(k) = {Server}
      /\ fh # NULL => fh \in Chain(next, f)
      /\ fh = NULL => f = NULL
  BY DEF ListEntry, InList, IInv, ListOK
<1>6. /\ next'[h] = NULL
      /\ \A k \in Handle \ {h, fh} : next'[k] = Linked[k]
  BY <1>1
<1>7. Server \in Holder /\ Roots[Server] = f
  BY HeapTypes
<1>8. CASE fh = NULL
  <2>1. /\ Roots[Server] = NULL
        /\ Roots'[Server] = h
        /\ \A x \in Holder \ {Server} : Roots'[x] = Roots[x]
    BY <1>1, <1>4, <1>5, <1>8, HeapTypes, HeapTypesNext DEF Holder
  <2>2. \A k \in Handle \ {h} : next'[k] = Linked[k]
    BY <1>6, <1>8, PtrHandle
  <2>3. Chain(next', h) = {h} \cup Chain(Linked, Roots[Server])
    <3>1. Chain(Linked, NULL) = {} /\ Chain(next', NULL) = {}
      BY <1>3, HeapTypesNext, ChainNull DEF Nexts
    <3>2. Chain(next', h) = {h} \cup Chain(next', next'[h])
      BY HeapTypesNext, ChainUnfold DEF Nexts
    <3> QED
      BY <1>6, <2>1, <3>1, <3>2
  <2>4. Accounted(Linked[h], top', next', Roots')
    <3>1. /\ Linked \in Nexts /\ nref \in Counts /\ Roots \in RootsT
          /\ next' \in Nexts /\ Roots' \in RootsT
          /\ next'[h] = Roots[Server]
      BY <1>3, <1>6, <2>1, HeapTypes, HeapTypesNext
    <3> QED
      BY <1>3, <1>7, <2>1, <2>2, <2>3, <3>1, AccountedPush
  <2> QED
    BY <1>3, <2>4 DEF AllAccounted
<1>9. CASE fh # NULL
  <2>1. Roots' = Roots
    BY <1>1, <1>4, <1>9 DEF Roots
  <2>2. /\ \A k : HeldBy(Linked, Roots, k) = HeldBy(next, Roots, k)
        /\ \A x \in Holder : Chain(Linked, Roots[x]) = Chain(next, Roots[x])
    BY <1>3, HeapTypes, HeldFrame
  <2>3. /\ fh \in Chain(Linked, Roots[Server])
        /\ HeldBy(Linked, Roots, fh) = {Server}
    BY <1>5, <1>7, <1>9, <2>2 DEF Holders
  <2>4. fh \in Handle /\ fh # h
    <3>1. h \notin Chain(Linked, Roots[Server])
      BY <1>3, <1>7, HeapTypes, FreshHead
    <3> QED
      BY <1>9, <2>3, <3>1, HandlePtr DEF TypeOK
  <2>5. /\ Linked[fh] = NULL
        /\ next'[fh] = h
    <3>1. next[fh] = NULL
      BY <1>9 DEF ListEntry, InList, IInv, ListOK
    <3> QED
      BY <1>1, <1>3, <1>5, <1>7, <1>9, <2>4, <3>1
  <2>6. /\ HeldBy(next', Roots, h) = {Server}
        /\ \A k \in Handle \ {h} : HeldBy(next', Roots, k) = HeldBy(Linked, Roots, k)
    <3>1. /\ Linked \in Nexts /\ nref \in Counts /\ Roots \in RootsT
          /\ next' \in Nexts /\ nref' \in Counts
          /\ nref'[h] = 1
          /\ \A k \in Handle \ {h} : nref'[k] = nref[k]
      BY <1>1, <1>2, <1>3, Allocated, HeapTypes, HeapTypesNext
    <3> QED
      BY <1>3, <1>6, <2>3, <2>5, <3>1, HeapAppend, SMTT(90)
  <2>7. Accounted(Linked[h], top', next', Roots)
    <3>1. /\ Linked \in Nexts /\ nref \in Counts /\ Roots \in RootsT
          /\ next' \in Nexts
          /\ HeldBy(Linked, Roots, fh) # {}
          /\ HeldBy(next', Roots, h) # {}
      BY <1>3, <2>3, <2>6, HeapTypes, HeapTypesNext
    <3> QED
      BY <1>3, <1>6, <2>4, <2>6, <3>1, AccountedAppend
  <2> QED
    BY <1>3, <2>1, <2>7 DEF AllAccounted
<1> QED
  BY <1>8, <1>9

(* The actions that only hand a stack from one holder to another. *)
LEMMA HandedOver ==
  ASSUME TypeOK, TypeOK', AllAccounted, UNCHANGED <<free_fileid, top, next>>,
         \A x \in Holder : Roots[x] # NULL => \E y \in Holder : Roots'[y] = Roots[x]
  PROVE  AllAccounted'
<1>1. Accounted(free_fileid, top, next, Roots')
  BY HeapTypes, HeapTypesNext, AccountedMove DEF AllAccounted
<1> QED
  BY <1>1 DEF AllAccounted

LEMMA StepAccounted ==
  ASSUME Clean, TypeOK, TypeOK', IInv, AllAccounted, [Next]_vars
  PROVE  AllAccounted'
<1>1. ASSUME UNCHANGED <<free_fileid, top, next, aux, f>>
      PROVE  AllAccounted'
  <2>1. Roots' = Roots
    BY <1>1 DEF Roots
  <2> QED
    BY <1>1, <2>1 DEF AllAccounted
<1>2. ASSUME NEW x \in Fid, Clunk(x)
      PROVE  AllAccounted'
  <2>1. /\ Roots[Server] = NULL
        /\ Roots'[Server] = Roots[x]
        /\ \A z \in Holder \ {x, Server} : Roots'[z] = Roots[z]
        /\ Server \in Holder
    BY <1>2, HeapTypes, HeapTypesNext DEF Clunk, IInv, ServingOK, TypeOK, Holder
  <2>2. UNCHANGED <<free_fileid, top, next>>
    BY <1>2 DEF Clunk, pool
  <2> QED
    BY <2>1, <2>2, HandedOver
<1>3. ASSUME NEW x \in Fid, NEW y \in Fid, NEW ns \in Names, Walk(x, y, ns)
      PROVE  AllAccounted'
  <2>1. /\ Roots[Server] = NULL
        /\ \A z \in Holder \ {Server} : Roots'[z] = Roots[z]
    BY <1>3, HeapTypes, HeapTypesNext DEF Walk, IInv, ServingOK, table, Holder
  <2>2. UNCHANGED <<free_fileid, top, next>>
    BY <1>3 DEF Walk
  <2> QED
    BY <2>1, <2>2, HandedOver
<1>4. CASE WalkDone
  <2>1. req \in Request /\ req.newfid \notin fids
    BY <1>4 DEF WalkDone, IInv, ServingOK
  <2>2. PICK y \in Fid : y = req.newfid
    BY <2>1 DEF Request
  <2>3. aux[y] = NULL /\ y \in Holder /\ y # Server
    BY <2>1, <2>2, HeapTypes DEF IInv, ServingOK
  <2>4. /\ Roots[y] = NULL
        /\ Roots'[y] = Roots[Server]
        /\ \A z \in Holder \ {Server, y} : Roots'[z] = Roots[z]
    BY <1>4, <2>2, <2>3, HeapTypes, HeapTypesNext DEF WalkDone, TypeOK, Holder
  <2>5. UNCHANGED <<free_fileid, top, next>>
    BY <1>4 DEF WalkDone, pool
  <2> QED
    BY <2>3, <2>4, <2>5, HandedOver
<1>5. CASE WalkDoneSameFid
  <2>1. req \in Request /\ (req.newfid \notin fids \/ SameFidWalk)
    BY <1>5 DEF WalkDoneSameFid, IInv, ServingOK
  <2>2. req.fid \in Fid /\ aux[req.fid] = NULL
    BY <1>5, <2>1 DEF WalkDoneSameFid, Request, Clean, IInv, ServingOK
  <2>3. aux' = aux
    BY <1>5, <2>2 DEF WalkDoneSameFid, TypeOK
  <2> QED
    BY <1>1, <1>5, <2>3 DEF WalkDoneSameFid, pool
<1>6. CASE WalkUp
  <2>1. CASE next[f] # NULL
    BY <1>6, <2>1, FreeAccounted DEF WalkUp, table
  <2>2. CASE next[f] = NULL
    BY <1>1, <1>6, <2>2 DEF WalkUp, table, pool
  <2> QED
    BY <2>1, <2>2
<1>7. CASE Release
  BY <1>7, FreeAccounted DEF Release, table
<1>8. CASE ListNothing
  BY <1>8, ListNothingHeap
<1>9. [Next]_vars =>
        \/ \E x \in Fid : Attach(x) \/ Clunk(x)
        \/ \E x \in Fid, y \in Fid, ns \in Names : Walk(x, y, ns)
        \/ WalkUp \/ WalkInto \/ WalkDone \/ WalkDoneSameFid
        \/ Release \/ ListEntry \/ ListNothing
        \/ UNCHANGED <<free_fileid, top, next, aux, f>>
  BY DEF Next, Serve, ReadDir, UseNull, RemoveNull, StatNull, ReadNull,
         CloneAborts, WalkMiss, WalkNull, Released, ListDone, vars, pool,
         table, handler
<1> QED
  BY <1>1, <1>2, <1>3, <1>4, <1>5, <1>6, <1>7, <1>8, <1>9,
     AttachAccounted, WalkIntoAccounted, ListEntryAccounted

LEMMA InitAccounted ==
  ASSUME Init
  PROVE  AllAccounted
<1>1. 1..top = {}
  BY DEF Init
<1> QED
  BY <1>1 DEF AllAccounted, Accounted

(* Where no client walks onto the same fid, and no property list has an    *)
(* entry "." or one that getFileHandle() refuses, every handle that was    *)
(* ever allocated is on the free list or belongs to a fid: failed walks,   *)
(* "..", directory reads and clunks give back all they took.               *)
THEOREM NoHandleLost ==
  ASSUME Clean
  PROVE  Spec => []NothingLost
<1>1. Init => (TypeOK /\ IInv) /\ AllAccounted
  BY InitTyped, InitIInv, InitAccounted
<1>2. (TypeOK /\ IInv) /\ (TypeOK /\ IInv)' /\ AllAccounted /\ [Next]_vars => AllAccounted'
  BY StepAccounted
<1>3. TypeOK /\ IInv /\ AllAccounted => NothingLost
  <2> SUFFICES ASSUME TypeOK, IInv, AllAccounted, NEW h \in 1..top
               PROVE  (h \in Chain(next, free_fileid)) <=> (Holders(h) = {})
    BY DEF NothingLost
  <2>1. h \in Chain(next, free_fileid) => Holders(h) = {}
    BY DEF IInv, HeapOK, Holders
  <2>2. h \in Chain(next, free_fileid) \/ Holders(h) # {}
    BY DEF AllAccounted, Accounted, Holders
  <2> QED
    BY <2>1, <2>2
<1> QED
  BY <1>1, <1>2, <1>3, Invariant, PTL DEF Spec
(* New memory is taken only when every handle there is is held by someone. *)
GrowsWhenFull ==
  [][top' # top => \A h \in 1..top : Holders(h) # {}]_vars

(* The pool takes a further block of handles only when all it has are in   *)
(* use, so that its memory follows the most that fids and handlers ever    *)
(* hold at once: no sequence of requests, however long, makes it grow by   *)
(* leaking.                                                                *)
THEOREM PoolGrowsWhenFull ==
  ASSUME Clean
  PROVE  Spec => GrowsWhenFull
<1>1. Init => (TypeOK /\ IInv) /\ AllAccounted
  BY InitTyped, InitIInv, InitAccounted
<1>2. (TypeOK /\ IInv) /\ (TypeOK /\ IInv)' /\ AllAccounted /\ [Next]_vars => AllAccounted'
  BY StepAccounted
<1>3. TypeOK /\ IInv /\ AllAccounted /\ [Next]_vars
        => [top' # top => \A h \in 1..top : Holders(h) # {}]_vars
  <2> SUFFICES ASSUME TypeOK, IInv, AllAccounted, [Next]_vars, top' # top,
                      NEW h \in 1..top
               PROVE  Holders(h) # {}
    OBVIOUS
  <2>1. free_fileid = NULL
    <3>1. ASSUME NEW k \in Handle, NEW c, GetFile(k, c)
          PROVE  free_fileid = NULL
      BY <3>1 DEF GetFile, NeedBlock
    <3>2. ASSUME UNCHANGED top
          PROVE  FALSE
      BY <3>2
    <3>3. ASSUME NEW x \in Fid, Attach(x)
          PROVE  free_fileid = NULL
      BY <3>1, <3>3 DEF Attach
    <3>4. CASE WalkInto
      BY <3>1, <3>4 DEF WalkInto
    <3>5. CASE ListEntry
      BY <3>1, <3>5 DEF ListEntry
    <3>6. CASE WalkUp
      BY <3>2, <3>6 DEF WalkUp, FreeFile, pool
    <3>7. CASE Release
      BY <3>2, <3>7 DEF Release, FreeFile
    <3>8. [Next]_vars => \/ \E x \in Fid : Attach(x)
                         \/ WalkInto \/ ListEntry \/ WalkUp \/ Release
                         \/ UNCHANGED top
      BY DEF Next, Serve, Clunk, ReadDir, UseNull, RemoveNull, StatNull,
             ReadNull, CloneAborts, Walk, WalkMiss, WalkNull, WalkDone,
             WalkDoneSameFid, Released, ListNothing, ListDone, vars, pool
    <3> QED
      BY <3>2, <3>3, <3>4, <3>5, <3>6, <3>7, <3>8
  <2>2. Chain(next, free_fileid) = {}
    BY <2>1, HeapTypes, ChainNull DEF Nexts
  <2> QED
    BY <2>2 DEF AllAccounted, Accounted, Holders
<1> QED
  BY <1>1, <1>2, <1>3, Invariant, PTL DEF Spec, GrowsWhenFull
-----------------------------------------------------------------------------
(* A handle from which a fid can walk has a count that is not zero, while  *)
(* there are fewer fids than nref can count.                               *)
LEMMA CountNotZero ==
  ASSUME Clean, Cardinality(Fid) < RefMod, TypeOK, IInv, pc = "idle",
         NEW x \in Fid, NEW h \in Chain(next, aux[x])
  PROVE  nref[h] # 0
<1>1. h \in Handle /\ x \in Holder /\ Roots[x] = aux[x] /\ Roots[Server] = NULL
  BY HeapTypes DEF Chain, IInv, ServingOK
<1>2. HeldBy(next, Roots, h) \subseteq Fid
  <2>1. Chain(next, NULL) = {}
    BY HeapTypes, ChainNull DEF Nexts
  <2> QED
    BY <1>1, <2>1 DEF HeldBy, Holder
<1>3. /\ Cardinality(HeldBy(next, Roots, h)) \in Nat
      /\ Cardinality(HeldBy(next, Roots, h)) < RefMod
  <2>1. IsFiniteSet(Fid) /\ Cardinality(Fid) \in Nat
    BY PoolAssumption, FS_CardinalityType
  <2>2. /\ IsFiniteSet(HeldBy(next, Roots, h))
        /\ Cardinality(HeldBy(next, Roots, h)) <= Cardinality(Fid)
    BY <1>2, <2>1, FS_Subset
  <2>3. Cardinality(HeldBy(next, Roots, h)) \in Nat
    BY <2>2, FS_CardinalityType
  <2> QED
    BY <2>1, <2>2, <2>3, PoolAssumption
<1>4. Cardinality(HeldBy(next, Roots, h)) # 0
  <2>1. x \in HeldBy(next, Roots, h)
    BY <1>1 DEF HeldBy
  <2> QED
    BY <1>1, <2>1, HeapTypes, HeldFinite, FS_EmptySet
<1>5. Counted(nref[h], Cardinality(HeldBy(next, Roots, h)))
        = Cardinality(HeldBy(next, Roots, h))
  BY <1>1 DEF IInv, HeapOK, CountsOK
<1> QED
  BY <1>3, <1>4, <1>5, PoolAssumption DEF Counted

(* The assertion f->nref++ of p9srv_clone_files() holds, under the same    *)
(* assumptions, if there are fewer fids than nref can count: 65536 of them *)
(* on one handle are what it takes to abort the server.                    *)
THEOREM NeverAborts ==
  ASSUME Clean, Cardinality(Fid) < RefMod
  PROVE  Spec => []NoAbort
<1>1. Init => NoAbort
  BY DEF Init, NoAbort
<1>2. (TypeOK /\ IInv) /\ NoAbort /\ [Next]_vars => NoAbort'
  <2> SUFFICES ASSUME TypeOK, IInv, NoAbort, [Next]_vars PROVE NoAbort'
    OBVIOUS
  <2>1. ASSUME NEW x \in Fid, CloneAborts(x) PROVE FALSE
    BY <2>1, CountNotZero DEF CloneAborts
  <2>2. (\E x \in Fid : CloneAborts(x)) \/ pc' # "abort"
    BY DEF Next, Serve, Attach, Clunk, ReadDir, UseNull, RemoveNull, StatNull,
           ReadNull, Walk, WalkUp, WalkInto, WalkMiss, WalkNull, WalkDone,
           WalkDoneSameFid, Release, Released, ListEntry, ListNothing,
           ListDone, InWalk, InList, NoAbort, vars, handler
  <2> QED
    BY <2>1, <2>2 DEF NoAbort
<1> QED
  BY <1>1, <1>2, Invariant, PTL DEF Spec
==============================================================================
