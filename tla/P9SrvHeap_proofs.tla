--------------------------- MODULE P9SrvHeap_proofs ---------------------------
(***************************************************************************)
(* The ways p9srv_ops.c changes the heap of handles, each shown to keep    *)
(* HeapOK.  A heap is five values: the head fr of the free list, the       *)
(* number tp of allocated handles, the "next" fields nx, the counts nr and *)
(* the roots rt, one for each fid and one for the running handler.         *)
(*                                                                         *)
(* The first part is about the handles a loop over "next" visits: each     *)
(* fact is stated for any "next" function, so that a lemma about           *)
(* p9srv_get_file() or p9srv_free_file() can compare the lists before and  *)
(* after.                                                                  *)
(***************************************************************************)
EXTENDS P9Srv, FiniteSetTheorems, WellFoundedInduction, TLAPS

(* A set of numbers has a least one. *)
LEMMA LeastElement ==
  ASSUME NEW T \in SUBSET Nat, T # {}
  PROVE  \E m \in T : \A k \in T : m <= k
<1> DEFINE R == {ss \in Nat \X Nat : ss[1] < ss[2]}
<1>1. IsWellFoundedOn(R, Nat)
  BY NatLessThanWellFounded DEF OpToRel
<1>2. PICK m \in T : \A k \in T : ~(<<k, m>> \in R)
  <2> HIDE DEF R
  <2> QED
    BY <1>1, WFMin
<1>3. ASSUME NEW k \in T
      PROVE  m <= k
  <2>1. k \in Nat /\ m \in Nat
    OBVIOUS
  <2>2. <<k, m>> \in Nat \X Nat
    BY <2>1
  <2>3. ~(k < m)
    BY <1>2, <2>2
  <2> QED
    BY <2>1, <2>3
<1> QED
  BY <1>3
-----------------------------------------------------------------------------
(* A loop that starts at a handle visits it. *)
LEMMA ChainSelf ==
  ASSUME NEW nx \in [Handle -> Ptr], NEW p \in Handle
  PROVE  p \in Chain(nx, p)
BY MaxHandleAssumption DEF Chain, Handle, NULL

(* A loop that starts at NULL visits nothing. *)
LEMMA ChainNull ==
  ASSUME NEW nx \in [Handle -> Ptr]
  PROVE  Chain(nx, NULL) = {}
BY DEF Chain

(* Every pointer other than NULL is a handle. *)
LEMMA PtrHandle ==
  /\ \A p \in Ptr : p # NULL => p \in Handle
  /\ NULL \notin Handle
  /\ Handle \subseteq Ptr
  /\ NULL \in Ptr
BY MaxHandleAssumption DEF Ptr, Handle, NULL

LEMMA ChainClosed ==
  ASSUME NEW nx \in [Handle -> Ptr], NEW p \in Ptr
  PROVE  /\ Chain(nx, p) \subseteq Handle
         /\ IsClosed(nx, Chain(nx, p))
<1>1. Chain(nx, p) \subseteq Handle
  BY DEF Chain
<1>2. ASSUME NEW h \in Chain(nx, p), nx[h] # NULL
      PROVE  nx[h] \in Chain(nx, p)
  <2>1. nx[h] \in Handle
    BY <1>1, <1>2, PtrHandle
  <2>2. ASSUME NEW S \in SUBSET Handle, p \in S, IsClosed(nx, S)
        PROVE  nx[h] \in S
    BY <1>2, <2>2 DEF Chain, IsClosed
  <2> QED
    BY <1>2, <2>1, <2>2 DEF Chain
<1> QED
  BY <1>1, <1>2 DEF IsClosed

(* A closed set that contains the start contains all that is visited. *)
LEMMA ChainLeast ==
  ASSUME NEW nx \in [Handle -> Ptr], NEW p \in Ptr,
         NEW S \in SUBSET Handle, p # NULL => p \in S, IsClosed(nx, S)
  PROVE  Chain(nx, p) \subseteq S
BY DEF Chain

LEMMA ChainSub ==
  ASSUME NEW nx \in [Handle -> Ptr], NEW p \in Ptr, NEW h \in Chain(nx, p)
  PROVE  /\ Chain(nx, h) \subseteq Chain(nx, p)
         /\ Chain(nx, nx[h]) \subseteq Chain(nx, p)
<1>1. /\ Chain(nx, p) \in SUBSET Handle
      /\ IsClosed(nx, Chain(nx, p))
      /\ h \in Handle
      /\ h \in Ptr
      /\ nx[h] \in Ptr
  BY ChainClosed, PtrHandle
<1>2. nx[h] # NULL => nx[h] \in Chain(nx, p)
  BY <1>1 DEF IsClosed
<1> QED
  BY <1>1, <1>2, ChainLeast

(* One step of the loop: f = f->next. *)
LEMMA ChainUnfold ==
  ASSUME NEW nx \in [Handle -> Ptr], NEW p \in Handle
  PROVE  Chain(nx, p) = {p} \cup Chain(nx, nx[p])
<1>1. /\ nx[p] \in Ptr
      /\ p \in Ptr
      /\ p \in Chain(nx, p)
  BY ChainSelf, PtrHandle
<1>2. {p} \cup Chain(nx, nx[p]) \subseteq Chain(nx, p)
  BY <1>1, ChainSub
<1> DEFINE S == {p} \cup Chain(nx, nx[p])
<1>3. S \in SUBSET Handle
  BY <1>1, ChainClosed
<1>4. IsClosed(nx, S)
  <2>1. nx[p] # NULL => nx[p] \in S
    BY <1>1, ChainSelf, PtrHandle
  <2>2. IsClosed(nx, Chain(nx, nx[p]))
    BY <1>1, ChainClosed
  <2> QED
    BY <2>1, <2>2 DEF IsClosed
<1>5. Chain(nx, p) \subseteq S
  <2> HIDE DEF S
  <2>1. p \in S
    BY DEF S
  <2> QED
    BY <1>1, <1>3, <1>4, <2>1, ChainLeast
<1> QED
  BY <1>2, <1>5

(* A loop does not notice a change of "next" at handles it does not visit. *)
LEMMA ChainFrame ==
  ASSUME NEW nx \in [Handle -> Ptr], NEW my \in [Handle -> Ptr], NEW p \in Ptr,
         \A h \in Chain(nx, p) : my[h] = nx[h]
  PROVE  Chain(my, p) = Chain(nx, p)
<1> CASE p = NULL
  BY ChainNull
<1> CASE p # NULL
  <2>1. p \in Handle
    BY PtrHandle
  <2>2. /\ Chain(nx, p) \in SUBSET Handle
        /\ Chain(my, p) \in SUBSET Handle
        /\ IsClosed(nx, Chain(nx, p))
        /\ IsClosed(my, Chain(my, p))
        /\ p \in Chain(nx, p)
        /\ p \in Chain(my, p)
    BY <2>1, ChainClosed, ChainSelf
  <2>3. IsClosed(my, Chain(nx, p))
    BY <2>2 DEF IsClosed
  <2>4. Chain(my, p) \subseteq Chain(nx, p)
    BY <2>2, <2>3, ChainLeast
  <2>5. IsClosed(nx, Chain(my, p))
    BY <2>2, <2>4 DEF IsClosed
  <2>6. Chain(nx, p) \subseteq Chain(my, p)
    BY <2>2, <2>5, ChainLeast
  <2> QED
    BY <2>4, <2>6
<1> QED
  OBVIOUS

(* Nor does a list become cyclic by such a change. *)
LEMMA AcyclicFrame ==
  ASSUME NEW nx \in [Handle -> Ptr], NEW my \in [Handle -> Ptr], NEW p \in Ptr,
         \A h \in Chain(nx, p) : my[h] = nx[h],
         Acyclic(nx, p)
  PROVE  Acyclic(my, p)
<1> SUFFICES ASSUME NEW h \in Chain(nx, p), my[h] # NULL
             PROVE  h \notin Chain(my, my[h])
  BY ChainFrame DEF Acyclic
<1>1. /\ my[h] = nx[h]
      /\ nx[h] \in Ptr
  BY ChainClosed
<1>2. \A k \in Chain(nx, nx[h]) : my[k] = nx[k]
  BY ChainSub
<1>3. Chain(my, nx[h]) = Chain(nx, nx[h])
  BY <1>1, <1>2, ChainFrame
<1> QED
  BY <1>1, <1>3 DEF Acyclic

(* What is left of a list after its first handle is a list. *)
LEMMA AcyclicTail ==
  ASSUME NEW nx \in [Handle -> Ptr], NEW p \in Handle, Acyclic(nx, p)
  PROVE  /\ Acyclic(nx, nx[p])
         /\ p \notin Chain(nx, nx[p])
<1>1. /\ p \in Chain(nx, p)
      /\ p \in Ptr
      /\ Chain(nx, nx[p]) \subseteq Chain(nx, p)
  BY ChainSelf, ChainSub, PtrHandle
<1>2. Acyclic(nx, nx[p])
  BY <1>1 DEF Acyclic
<1>3. p \notin Chain(nx, nx[p])
  BY <1>1, ChainNull DEF Acyclic
<1> QED
  BY <1>2, <1>3

(* A handle put in front of a list that does not visit it. *)
LEMMA ChainPush ==
  ASSUME NEW nx \in [Handle -> Ptr], NEW my \in [Handle -> Ptr],
         NEW p \in Ptr, NEW h \in Handle,
         h \notin Chain(nx, p), my[h] = p,
         \A k \in Chain(nx, p) : my[k] = nx[k],
         Acyclic(nx, p)
  PROVE  /\ Chain(my, h) = {h} \cup Chain(nx, p)
         /\ Acyclic(my, h)
<1>1. Chain(my, p) = Chain(nx, p)
  BY ChainFrame
<1>2. Chain(my, h) = {h} \cup Chain(nx, p)
  BY <1>1, ChainUnfold
<1>3. Acyclic(my, p)
  BY AcyclicFrame
<1>4. Acyclic(my, h)
  BY <1>1, <1>2, <1>3 DEF Acyclic
<1> QED
  BY <1>2, <1>4

(* A handle put behind the last one of a list. *)
LEMMA ChainAppend ==
  ASSUME NEW nx \in [Handle -> Ptr], NEW my \in [Handle -> Ptr],
         NEW p \in Ptr, NEW e \in Chain(nx, p), nx[e] = NULL,
         NEW h \in Handle, h \notin Chain(nx, p),
         my[e] = h, my[h] = NULL,
         \A k \in Chain(nx, p) \ {e} : my[k] = nx[k],
         Acyclic(nx, p)
  PROVE  /\ Chain(my, p) = Chain(nx, p) \cup {h}
         /\ Acyclic(my, p)
<1> DEFINE C == Chain(nx, p)
           D == Chain(my, p)
<1>1. /\ p \in Handle
      /\ p \in C
      /\ C \in SUBSET Handle
      /\ D \in SUBSET Handle
      /\ IsClosed(nx, C)
      /\ IsClosed(my, D)
      /\ p \in D
      /\ h \in Ptr
  BY ChainNull, ChainSelf, ChainClosed, PtrHandle
<1>2. D \subseteq C \cup {h}
  <2>1. IsClosed(my, C \cup {h})
    BY <1>1 DEF IsClosed
  <2> QED
    BY <1>1, <2>1, ChainLeast
<1>3. C \subseteq D \ {h}
  <2>1. IsClosed(nx, D \ {h})
    BY <1>1, <1>2 DEF IsClosed
  <2> QED
    BY <1>1, <2>1, ChainLeast
<1>4. h \in D
  BY <1>1, <1>3, PtrHandle DEF IsClosed
<1>5. D = C \cup {h}
  BY <1>2, <1>3, <1>4
<1>6. ASSUME NEW k \in D, my[k] # NULL
      PROVE  k \notin Chain(my, my[k])
  <2>1. CASE k = e
    <3>1. Chain(my, h) = {h}
      BY ChainUnfold, ChainNull
    <3> QED
      BY <2>1, <3>1
  <2>2. CASE k \in C \ {e}
    <3> DEFINE T == Chain(nx, nx[k])
    <3>1. /\ my[k] = nx[k]
          /\ nx[k] \in Ptr
          /\ nx[k] # NULL
          /\ k \notin T
      BY <1>1, <1>6, <2>2 DEF Acyclic
    <3>2. /\ T \subseteq C
          /\ T \in SUBSET Handle
          /\ IsClosed(nx, T)
          /\ nx[k] \in T
      BY <2>2, <3>1, ChainSub, ChainClosed, ChainSelf, PtrHandle
    <3>3. IsClosed(my, T \cup {h})
      BY <3>2 DEF IsClosed
    <3>4. Chain(my, nx[k]) \subseteq T \cup {h}
      BY <3>1, <3>2, <3>3, ChainLeast
    <3> QED
      BY <2>2, <3>1, <3>4
  <2> QED
    BY <1>5, <1>6, <2>1, <2>2
<1> QED
  BY <1>5, <1>6 DEF Acyclic

(* A list is finite. *)
LEMMA ChainFinite ==
  ASSUME NEW nx \in [Handle -> Ptr], NEW p \in Ptr
  PROVE  /\ IsFiniteSet(Chain(nx, p))
         /\ Cardinality(Chain(nx, p)) \in Nat
<1>1. IsFiniteSet(Handle)
  BY MaxHandleAssumption, FS_Interval DEF Handle
<1>2. Chain(nx, p) \subseteq Handle
  BY ChainClosed
<1> QED
  BY <1>1, <1>2, FS_Subset, FS_CardinalityType

(* The loop has one handle less to visit after each step. *)
LEMMA ChainShrinks ==
  ASSUME NEW nx \in [Handle -> Ptr], NEW p \in Handle, Acyclic(nx, p)
  PROVE  Cardinality(Chain(nx, p)) = Cardinality(Chain(nx, nx[p])) + 1
<1>1. nx[p] \in Ptr
  OBVIOUS
<1>2. p \notin Chain(nx, nx[p])
  BY AcyclicTail
<1>3. Chain(nx, p) = Chain(nx, nx[p]) \cup {p}
  BY ChainUnfold
<1> QED
  BY <1>1, <1>2, <1>3, ChainFinite, FS_AddElement
-----------------------------------------------------------------------------
Counts == [Handle -> 0..(RefMod - 1)]
Nexts  == [Handle -> Ptr]
RootsT == [Holder -> Ptr]

LEMMA HandlePtr ==
  /\ Handle \subseteq Ptr
  /\ NULL \in Ptr
  /\ Handle \subseteq Nat
  /\ \A p \in Ptr : p # NULL => p \in Handle
BY MaxHandleAssumption DEF Handle, Ptr, NULL

LEMMA HolderFinite ==
  /\ IsFiniteSet(Holder)
  /\ Server \in Holder
BY PoolAssumption, FS_AddElement DEF Holder

LEMMA HeldFinite ==
  ASSUME NEW nx \in Nexts, NEW rt \in RootsT, NEW h \in Handle
  PROVE  /\ IsFiniteSet(HeldBy(nx, rt, h))
         /\ Cardinality(HeldBy(nx, rt, h)) \in Nat
<1>1. HeldBy(nx, rt, h) \subseteq Holder
  BY DEF HeldBy
<1>2. IsFiniteSet(HeldBy(nx, rt, h))
  BY <1>1, HolderFinite, FS_Subset
<1> QED
  BY <1>2, FS_CardinalityType

(* By how much the count of a handle exceeds its holders; no handle's      *)
(* excess grows from one heap to the other.                                *)
ExcessOf(nx, nr, rt, h) ==
  Counted(nr[h], Cardinality(HeldBy(nx, rt, h))) - Cardinality(HeldBy(nx, rt, h))

NoMore(nx, nr, rt, my, ns, rn) ==
  \A h \in Handle : ExcessOf(my, ns, rn, h) <= ExcessOf(nx, nr, rt, h)

LEMMA ExcessType ==
  ASSUME NEW nx \in Nexts, NEW nr \in Counts, NEW rt \in RootsT, NEW h \in Handle
  PROVE  ExcessOf(nx, nr, rt, h) \in Int
<1>1. nr[h] \in 0..(RefMod - 1)
  BY DEF Counts
<1>2. Cardinality(HeldBy(nx, rt, h)) \in Nat
  BY HeldFinite
<1> QED
  BY <1>1, <1>2, PoolAssumption DEF ExcessOf, Counted

LEMMA NoMoreTrans ==
  ASSUME NEW nx \in Nexts, NEW nr \in Counts, NEW rt \in RootsT,
         NEW my \in Nexts, NEW ns \in Counts, NEW rn \in RootsT,
         NEW mz \in Nexts, NEW nz \in Counts, NEW rz \in RootsT,
         NoMore(nx, nr, rt, my, ns, rn), NoMore(my, ns, rn, mz, nz, rz)
  PROVE  NoMore(nx, nr, rt, mz, nz, rz)
BY ExcessType DEF NoMore

(* A heap in which every handle has the holders and the count it had. *)
LEMMA NoMoreSame ==
  ASSUME NEW nx \in Nexts, NEW nr \in Counts, NEW rt \in RootsT,
         NEW my \in Nexts, NEW ns \in Counts, NEW rn \in RootsT,
         \A h \in Handle : /\ ns[h] = nr[h]
                           /\ Cardinality(HeldBy(my, rn, h)) = Cardinality(HeldBy(nx, rt, h))
  PROVE  NoMore(nx, nr, rt, my, ns, rn)
<1>1. \A h \in Handle : ExcessOf(my, ns, rn, h) = ExcessOf(nx, nr, rt, h)
  BY DEF ExcessOf
<1> QED
  BY <1>1, ExcessType DEF NoMore

(* A handle from the pool gets its first holder and the count 1. *)
LEMMA NoMoreFresh ==
  ASSUME NEW nx \in Nexts, NEW nr \in Counts, NEW rt \in RootsT,
         NEW my \in Nexts, NEW ns \in Counts, NEW rn \in RootsT,
         NEW h \in Handle, HeldBy(nx, rt, h) = {}, NEW y, HeldBy(my, rn, h) = {y},
         ns[h] = 1,
         \A k \in Handle \ {h} : /\ ns[k] = nr[k]
                                 /\ HeldBy(my, rn, k) = HeldBy(nx, rt, k)
  PROVE  NoMore(nx, nr, rt, my, ns, rn)
<1>1. /\ Cardinality(HeldBy(nx, rt, h)) = 0
      /\ Cardinality(HeldBy(my, rn, h)) = 1
  <2>1. Cardinality({y}) = 1
    BY FS_Singleton
  <2> QED
    BY <2>1, FS_EmptySet
<1>2. nr[h] \in 0..(RefMod - 1)
  BY DEF Counts
<1>3. ExcessOf(my, ns, rn, h) <= ExcessOf(nx, nr, rt, h)
  <2>1. ExcessOf(my, ns, rn, h) = Counted(1, 1) - 1
    BY <1>1 DEF ExcessOf
  <2>2. ExcessOf(nx, nr, rt, h) = Counted(nr[h], 0) - 0
    BY <1>1 DEF ExcessOf
  <2> QED
    BY <1>2, <2>1, <2>2, PoolAssumption DEF Counted
<1>4. ASSUME NEW k \in Handle, k # h
      PROVE  ExcessOf(my, ns, rn, k) <= ExcessOf(nx, nr, rt, k)
  <2>1. ExcessOf(my, ns, rn, k) = ExcessOf(nx, nr, rt, k)
    BY <1>4 DEF ExcessOf
  <2> QED
    BY <2>1, ExcessType
<1> QED
  BY <1>3, <1>4 DEF NoMore

(* A reference is taken: f->nref++ on a count that is not zero. *)
LEMMA CountUp ==
  ASSUME NEW n \in 0..(RefMod - 1), n # 0, NEW r \in Nat,
         Counted(n, r) >= r, Clean => Counted(n, r) = r
  PROVE  /\ Counted(Inc(n), r + 1) >= r + 1
         /\ Clean => Counted(Inc(n), r + 1) = r + 1
         /\ Counted(Inc(n), r + 1) - (r + 1) <= Counted(n, r) - r
BY PoolAssumption DEF Counted, Inc

(* A reference is dropped: --f->nref; at zero it was the only one. *)
LEMMA CountDown ==
  ASSUME NEW n \in 0..(RefMod - 1), NEW r \in Nat, r > 0,
         Counted(n, r) >= r, Clean => Counted(n, r) = r
  PROVE  /\ Counted(Dec(n), r - 1) >= r - 1
         /\ Clean => Counted(Dec(n), r - 1) = r - 1
         /\ Counted(Dec(n), r - 1) - (r - 1) <= Counted(n, r) - r
         /\ Dec(n) = 0 => r = 1
BY PoolAssumption DEF Counted, Dec

(* The handles of a list are allocated. *)
LEMMA ChainBounded ==
  ASSUME NEW tp \in Ptr, NEW nx \in Nexts, NEW p \in Ptr, p <= tp,
         \A h \in 1..tp : nx[h] <= tp
  PROVE  Chain(nx, p) \subseteq 1..tp
<1>1. 1..tp \in SUBSET Handle
  BY MaxHandleAssumption DEF Ptr, Handle
<1>2. p # NULL => p \in 1..tp
  BY MaxHandleAssumption DEF Ptr, NULL
<1>3. \A h \in 1..tp : nx[h] \in Ptr
  BY <1>1 DEF Nexts
<1>4. IsClosed(nx, 1..tp)
  BY <1>3, MaxHandleAssumption DEF IsClosed, Ptr, NULL
<1> QED
  BY <1>1, <1>2, <1>4, ChainLeast DEF Nexts

(* A change of "next" at handles no root reaches changes no holder. *)
LEMMA HeldFrame ==
  ASSUME NEW nx \in Nexts, NEW my \in Nexts, NEW rt \in RootsT,
         \A x \in Holder : \A k \in Chain(nx, rt[x]) : my[k] = nx[k]
  PROVE  /\ \A x \in Holder : Chain(my, rt[x]) = Chain(nx, rt[x])
         /\ \A h : HeldBy(my, rt, h) = HeldBy(nx, rt, h)
         /\ \A x \in Holder : Acyclic(nx, rt[x]) => Acyclic(my, rt[x])
<1>1. \A x \in Holder : rt[x] \in Ptr
  BY DEF RootsT
<1>2. \A x \in Holder : Chain(my, rt[x]) = Chain(nx, rt[x])
  BY <1>1, ChainFrame DEF Nexts
<1>3. \A x \in Holder : Acyclic(nx, rt[x]) => Acyclic(my, rt[x])
  BY <1>1, AcyclicFrame DEF Nexts
<1> QED
  BY <1>2, <1>3 DEF HeldBy

(* A reference passes from x to y: a walk gives its stack to newfid, a     *)
(* clunk gives that of the fid to the handler.                             *)
LEMMA HeapMove ==
  ASSUME NEW fr \in Ptr, NEW tp \in Ptr, NEW nx \in Nexts, NEW nr \in Counts,
         NEW rt \in RootsT, HeapOK(fr, tp, nx, nr, rt),
         NEW x \in Holder, NEW y \in Holder, x # y, rt[y] = NULL,
         NEW rn \in RootsT, rn[x] = NULL, rn[y] = rt[x],
         \A z \in Holder \ {x, y} : rn[z] = rt[z]
  PROVE  /\ HeapOK(fr, tp, nx, nr, rn)
         /\ NoMore(nx, nr, rt, nx, nr, rn)
<1>1. Chain(nx, NULL) = {}
  BY ChainNull DEF Nexts
<1>2. /\ rn[x] = NULL
      /\ rn[y] = rt[x]
      /\ \A z \in Holder \ {x, y} : rn[z] = rt[z]
  BY DEF RootsT
<1>3. ASSUME NEW h \in Handle
      PROVE  /\ Cardinality(HeldBy(nx, rn, h)) = Cardinality(HeldBy(nx, rt, h))
             /\ HeldBy(nx, rt, h) = {} => HeldBy(nx, rn, h) = {}
  <2>1. CASE h \in Chain(nx, rt[x])
    <3> DEFINE rest == HeldBy(nx, rt, h) \ {x}
    <3>1. /\ HeldBy(nx, rt, h) = rest \cup {x}
          /\ HeldBy(nx, rn, h) = rest \cup {y}
          /\ x \notin rest
          /\ y \notin rest
      BY <1>1, <1>2, <2>1 DEF HeldBy
    <3>2. IsFiniteSet(rest)
      BY HeldFinite, FS_RemoveElement
    <3> HIDE DEF rest
    <3>3. /\ Cardinality(rest \cup {x}) = Cardinality(rest) + 1
          /\ Cardinality(rest \cup {y}) = Cardinality(rest) + 1
      BY <3>1, <3>2, FS_AddElement
    <3> QED
      BY <3>1, <3>3
  <2>2. CASE h \notin Chain(nx, rt[x])
    <3>1. HeldBy(nx, rn, h) = HeldBy(nx, rt, h)
      BY <1>1, <1>2, <2>2 DEF HeldBy
    <3> QED
      BY <3>1
  <2> QED
    BY <2>1, <2>2
<1>4. CountsOK(nx, nr, rn)
  BY <1>3 DEF HeapOK, CountsOK
<1>5. \A h \in Chain(nx, fr) : HeldBy(nx, rn, h) = {}
  BY <1>3, ChainClosed DEF HeapOK, Nexts
<1>6. \A z \in Holder : rn[z] = NULL \/ \E w \in Holder : rn[z] = rt[w]
  BY <1>2
<1>7. \A z \in Holder : Acyclic(nx, rn[z])
  BY <1>1, <1>6 DEF HeapOK, Acyclic
<1>8. Bounded(fr, tp, nx, rn)
  <2>1. NULL <= tp
    BY DEF Ptr, NULL
  <2> QED
    BY <1>6, <2>1 DEF HeapOK, Bounded
<1>9. NoMore(nx, nr, rt, nx, nr, rn)
  BY <1>3, NoMoreSame
<1> QED
  BY <1>4, <1>5, <1>7, <1>8, <1>9 DEF HeapOK

(* p9srv_clone_files(): the handler takes a reference to every handle of   *)
(* the stack of x.                                                         *)
LEMMA HeapShare ==
  ASSUME NEW fr \in Ptr, NEW tp \in Ptr, NEW nx \in Nexts, NEW nr \in Counts,
         NEW rt \in RootsT, HeapOK(fr, tp, nx, nr, rt),
         NEW x \in Holder, x # Server, rt[Server] = NULL,
         NEW rn \in RootsT, rn[Server] = rt[x],
         \A z \in Holder \ {Server} : rn[z] = rt[z],
         \A h \in Chain(nx, rt[x]) : nr[h] # 0,
         NEW ns \in Counts,
         ns = [h \in Handle |-> IF h \in Chain(nx, rt[x]) THEN Inc(nr[h]) ELSE nr[h]]
  PROVE  /\ HeapOK(fr, tp, nx, ns, rn)
         /\ NoMore(nx, nr, rt, nx, ns, rn)
<1>1. Chain(nx, NULL) = {}
  BY ChainNull DEF Nexts
<1>2. /\ rn[Server] = rt[x]
      /\ \A z \in Holder \ {Server} : rn[z] = rt[z]
  BY HolderFinite DEF RootsT
<1>3. ASSUME NEW h \in Handle, h \in Chain(nx, rt[x])
      PROVE  /\ HeldBy(nx, rn, h) = HeldBy(nx, rt, h) \cup {Server}
             /\ Server \notin HeldBy(nx, rt, h)
             /\ x \in HeldBy(nx, rt, h)
  BY <1>1, <1>2, <1>3, HolderFinite DEF HeldBy
<1>4. ASSUME NEW h \in Handle, h \notin Chain(nx, rt[x])
      PROVE  HeldBy(nx, rn, h) = HeldBy(nx, rt, h)
  BY <1>1, <1>2, <1>4 DEF HeldBy
<1>5. ASSUME NEW h \in Handle
      PROVE  LET refs == Cardinality(HeldBy(nx, rn, h))
             IN  /\ Counted(ns[h], refs) >= refs
                 /\ Clean => Counted(ns[h], refs) = refs
                 /\ ExcessOf(nx, ns, rn, h) <= ExcessOf(nx, nr, rt, h)
  <2> DEFINE r == Cardinality(HeldBy(nx, rt, h))
  <2>1. /\ r \in Nat
        /\ Counted(nr[h], r) >= r
        /\ Clean => Counted(nr[h], r) = r
    BY HeldFinite DEF HeapOK, CountsOK
  <2>2. CASE h \in Chain(nx, rt[x])
    <3>1. Cardinality(HeldBy(nx, rn, h)) = r + 1
      BY <1>3, <2>2, HeldFinite, FS_AddElement
    <3>2. ns[h] = Inc(nr[h]) /\ nr[h] # 0 /\ nr[h] \in 0..(RefMod - 1)
      BY <2>2 DEF Counts
    <3>3. /\ ExcessOf(nx, ns, rn, h) = Counted(ns[h], r + 1) - (r + 1)
          /\ ExcessOf(nx, nr, rt, h) = Counted(nr[h], r) - r
      BY <3>1 DEF ExcessOf
    <3> HIDE DEF r
    <3> QED
      BY <2>1, <3>1, <3>2, <3>3, CountUp
  <2>3. CASE h \notin Chain(nx, rt[x])
    <3>1. ns[h] = nr[h] /\ HeldBy(nx, rn, h) = HeldBy(nx, rt, h)
      BY <1>4, <2>3
    <3>2. ExcessOf(nx, ns, rn, h) = ExcessOf(nx, nr, rt, h)
      BY <3>1 DEF ExcessOf
    <3> QED
      BY <2>1, <3>1, <3>2, ExcessType
  <2> QED
    BY <2>2, <2>3
<1>6. \A h \in Chain(nx, fr) : HeldBy(nx, rn, h) = {}
  <2> SUFFICES ASSUME NEW h \in Chain(nx, fr)
               PROVE  HeldBy(nx, rn, h) = {}
    OBVIOUS
  <2>1. h \in Handle /\ HeldBy(nx, rt, h) = {}
    BY ChainClosed DEF HeapOK, Nexts
  <2> QED
    BY <1>3, <1>4, <2>1
<1>7. \A z \in Holder : \E w \in Holder : rn[z] = rt[w]
  BY <1>2
<1> QED
  BY <1>5, <1>6, <1>7 DEF HeapOK, CountsOK, Bounded, NoMore

(* A root is overwritten with NULL and its references are dropped by       *)
(* nobody: the counts are too high from then on.                           *)
LEMMA HeapForget ==
  ASSUME NEW fr \in Ptr, NEW tp \in Ptr, NEW nx \in Nexts, NEW nr \in Counts,
         NEW rt \in RootsT, HeapOK(fr, tp, nx, nr, rt),
         NEW x \in Holder, ~Clean \/ rt[x] = NULL,
         NEW rn \in RootsT, rn[x] = NULL,
         \A z \in Holder \ {x} : rn[z] = rt[z]
  PROVE  /\ HeapOK(fr, tp, nx, nr, rn)
         /\ rt[x] = NULL => NoMore(nx, nr, rt, nx, nr, rn)
<1>1. Chain(nx, NULL) = {}
  BY ChainNull DEF Nexts
<1>2. CASE rt[x] = NULL
  <2>1. rn = rt
    BY <1>2 DEF RootsT
  <2>2. NoMore(nx, nr, rt, nx, nr, rt)
    BY NoMoreSame
  <2> QED
    BY <2>1, <2>2
<1>3. CASE ~Clean /\ rt[x] # NULL
  <2>1. /\ rn[x] = NULL
        /\ \A z \in Holder \ {x} : rn[z] = rt[z]
    BY DEF RootsT
  <2>2. \A h : HeldBy(nx, rn, h) = HeldBy(nx, rt, h) \ {x}
    BY <1>1, <2>1 DEF HeldBy
  <2>3. ASSUME NEW h \in Handle
        PROVE  Counted(nr[h], Cardinality(HeldBy(nx, rn, h)))
                 >= Cardinality(HeldBy(nx, rn, h))
    <3>1. /\ Cardinality(HeldBy(nx, rn, h)) \in Nat
          /\ Cardinality(HeldBy(nx, rt, h)) \in Nat
          /\ Cardinality(HeldBy(nx, rn, h)) <= Cardinality(HeldBy(nx, rt, h))
      BY <2>2, HeldFinite, FS_Subset
    <3>2. Counted(nr[h], Cardinality(HeldBy(nx, rt, h)))
                 >= Cardinality(HeldBy(nx, rt, h))
      BY DEF HeapOK, CountsOK
    <3>3. nr[h] \in Nat
      BY PoolAssumption DEF Counts
    <3> QED
      BY <3>1, <3>2, <3>3, PoolAssumption DEF Counted
  <2>4. CountsOK(nx, nr, rn)
    BY <1>3, <2>3 DEF CountsOK
  <2>5. \A z \in Holder : rn[z] = NULL \/ rn[z] = rt[z]
    BY <2>1
  <2>6. \A z \in Holder : Acyclic(nx, rn[z])
    BY <1>1, <2>5 DEF HeapOK, Acyclic
  <2>7. Bounded(fr, tp, nx, rn)
    <3>1. NULL <= tp
      BY DEF Ptr, NULL
    <3> QED
      BY <2>5, <3>1 DEF HeapOK, Bounded
  <2> QED
    BY <1>3, <2>2, <2>4, <2>6, <2>7 DEF HeapOK
<1> QED
  BY <1>2, <1>3

(* The head of the free list is nobody's, and the rest of the list does    *)
(* not come back to it.                                                    *)
LEMMA FreshHead ==
  ASSUME NEW fr \in Ptr, NEW tp \in Ptr, NEW nx \in Nexts, NEW nr \in Counts,
         NEW rt \in RootsT, HeapOK(fr, tp, nx, nr, rt), fr # NULL
  PROVE  /\ fr \in Handle
         /\ fr \in 1..tp
         /\ HeldBy(nx, rt, fr) = {}
         /\ \A x \in Holder : fr \notin Chain(nx, rt[x])
         /\ nx[fr] \in Ptr
         /\ nx[fr] <= tp
         /\ fr \notin Chain(nx, nx[fr])
         /\ Chain(nx, nx[fr]) \subseteq Chain(nx, fr)
         /\ Acyclic(nx, nx[fr])
<1>1. /\ fr \in Handle
      /\ nx[fr] \in Ptr
  BY HandlePtr DEF Nexts
<1>2. fr \in 1..tp
  BY <1>1, MaxHandleAssumption DEF HeapOK, Bounded, Ptr, NULL
<1>3. fr \in Chain(nx, fr)
  BY <1>1, ChainSelf DEF Nexts
<1>4. HeldBy(nx, rt, fr) = {}
  BY <1>3 DEF HeapOK
<1>5. \A x \in Holder : fr \notin Chain(nx, rt[x])
  BY <1>4 DEF HeldBy
<1>6. nx[fr] <= tp
  BY <1>2 DEF HeapOK, Bounded
<1>7. Acyclic(nx, nx[fr]) /\ fr \notin Chain(nx, nx[fr])
  BY <1>1, AcyclicTail DEF HeapOK, Nexts
<1>8. Chain(nx, nx[fr]) \subseteq Chain(nx, fr)
  BY <1>1, ChainUnfold DEF Nexts
<1> QED
  BY <1>1, <1>2, <1>4, <1>5, <1>6, <1>7, <1>8

(* A block of new handles becomes the free list. *)
LEMMA HeapBlock ==
  ASSUME NEW tp \in Ptr, NEW nx \in Nexts, NEW nr \in Counts,
         NEW rt \in RootsT, HeapOK(NULL, tp, nx, nr, rt),
         tp + Block <= MaxHandle,
         NEW my \in Nexts,
         \A h \in Handle :
           my[h] = IF h \in (tp + 1)..(tp + Block)
                   THEN IF h = tp + 1 THEN NULL ELSE h - 1
                   ELSE nx[h]
  PROVE  /\ HeapOK(tp + Block, tp + Block, my, nr, rt)
         /\ NoMore(nx, nr, rt, my, nr, rt)
         /\ \A x \in Holder : \A k \in Chain(nx, rt[x]) : my[k] = nx[k]
<1> DEFINE tb == tp + Block
           new == (tp + 1)..tb
<1>1. /\ tp \in Nat
      /\ tb \in Nat
      /\ tb > tp
      /\ tb \in Ptr
      /\ tb \in Handle
      /\ new \in SUBSET Handle
      /\ \A h \in Handle : h \in 1..tp => h \notin new
  BY PoolAssumption, MaxHandleAssumption DEF Ptr, Handle
<1>2. \A x \in Holder : rt[x] \in Ptr /\ rt[x] <= tp
  BY DEF RootsT, HeapOK, Bounded
<1>3. \A x \in Holder : Chain(nx, rt[x]) \subseteq 1..tp
  BY <1>2, ChainBounded DEF HeapOK, Bounded
<1>4. \A x \in Holder : \A k \in Chain(nx, rt[x]) : my[k] = nx[k]
  BY <1>1, <1>2, <1>3, ChainClosed DEF Nexts
<1>5. /\ \A x \in Holder : Chain(my, rt[x]) = Chain(nx, rt[x])
      /\ \A h : HeldBy(my, rt, h) = HeldBy(nx, rt, h)
      /\ \A x \in Holder : Acyclic(my, rt[x])
  BY <1>4, HeldFrame DEF HeapOK
<1>6. ASSUME NEW k \in new
      PROVE  Chain(my, k) \subseteq (tp + 1)..k
  <2> DEFINE S == (tp + 1)..k
  <2>1. S \in SUBSET Handle /\ k \in S /\ k \in Ptr /\ S \subseteq new
    BY <1>1, HandlePtr DEF Handle, Ptr
  <2>2. IsClosed(my, S)
    BY <1>1, <2>1 DEF IsClosed, Handle, NULL
  <2> QED
    BY <2>1, <2>2, ChainLeast DEF Nexts
<1>7. tb \in new
  BY <1>1
<1>8. Chain(my, tb) \subseteq new
  BY <1>6, <1>7
<1>9. Acyclic(my, tb)
  <2> SUFFICES ASSUME NEW k \in new, my[k] # NULL
               PROVE  k \notin Chain(my, my[k])
    BY <1>8 DEF Acyclic
  <2>1. /\ my[k] = k - 1
        /\ k - 1 \in new
    BY <1>1 DEF Handle
  <2>2. Chain(my, k - 1) \subseteq (tp + 1)..(k - 1)
    BY <1>6, <2>1
  <2> QED
    BY <1>1, <2>1, <2>2
<1>10. \A k \in Chain(my, tb) : HeldBy(my, rt, k) = {}
  BY <1>1, <1>3, <1>5, <1>8 DEF HeldBy
<1>11. CountsOK(my, nr, rt)
  BY <1>5 DEF HeapOK, CountsOK
<1>12. Bounded(tb, tb, my, rt)
  <2>1. \A h \in 1..tb : my[h] <= tb
    <3>1. \A h \in 1..tp : nx[h] <= tp
      BY DEF HeapOK, Bounded
    <3>7. \A h \in 1..tp : nx[h] \in Ptr
      BY <1>1, MaxHandleAssumption DEF Handle, Ptr, Nexts
    <3>2. ASSUME NEW h \in 1..tp
          PROVE  my[h] = nx[h]
      <4>1. h \in Handle /\ h \notin new
        BY <1>1, MaxHandleAssumption DEF Handle, Ptr
      <4> QED
        BY <4>1
    <3>3. \A h \in new : my[h] = NULL \/ my[h] = h - 1
      BY <1>1
    <3>4. \A h \in 1..tp : my[h] <= tb
      BY <1>1, <3>1, <3>2, <3>7 DEF Ptr
    <3>5. \A h \in new : my[h] <= tb
      BY <1>1, <3>3 DEF NULL
    <3>6. 1..tb = (1..tp) \cup new
      BY <1>1
    <3> QED
      BY <3>4, <3>5, <3>6
  <2>2. \A x \in Holder : rt[x] <= tb
    BY <1>1, <1>2 DEF Ptr
  <2> QED
    BY <1>1, <2>1, <2>2 DEF Bounded
<1>13. NoMore(nx, nr, rt, my, nr, rt)
  BY <1>5, NoMoreSame
<1> QED
  BY <1>4, <1>5, <1>9, <1>10, <1>11, <1>12, <1>13 DEF HeapOK

(* The head of the free list is put on top of the stack of y. *)
LEMMA HeapPush ==
  ASSUME NEW fr \in Ptr, NEW tp \in Ptr, NEW nx \in Nexts, NEW nr \in Counts,
         NEW rt \in RootsT, HeapOK(fr, tp, nx, nr, rt), fr # NULL,
         NEW y \in Holder,
         NEW rn \in RootsT, rn[y] = fr,
         \A x \in Holder \ {y} : rn[x] = rt[x],
         NEW my \in Nexts, my[fr] = rt[y],
         \A k \in Handle \ {fr} : my[k] = nx[k],
         NEW ns \in Counts, ns[fr] = 1,
         \A k \in Handle \ {fr} : ns[k] = nr[k]
  PROVE  /\ HeapOK(nx[fr], tp, my, ns, rn)
         /\ Chain(my, fr) = {fr} \cup Chain(nx, rt[y])
         /\ HeldBy(my, rn, fr) = {y}
         /\ NoMore(nx, nr, rt, my, ns, rn)
<1>1. /\ fr \in Handle
      /\ fr \in 1..tp
      /\ \A x \in Holder : fr \notin Chain(nx, rt[x])
      /\ nx[fr] \in Ptr
      /\ nx[fr] <= tp
      /\ fr \notin Chain(nx, nx[fr])
      /\ Chain(nx, nx[fr]) \subseteq Chain(nx, fr)
      /\ Acyclic(nx, nx[fr])
  BY FreshHead
<1>2. /\ my[fr] = rt[y]
      /\ \A k \in Handle \ {fr} : my[k] = nx[k]
      /\ rn[y] = fr
      /\ \A x \in Holder \ {y} : rn[x] = rt[x]
      /\ \A x \in Holder : rt[x] \in Ptr
  BY <1>1 DEF Nexts, RootsT
<1>3. \A x \in Holder : \A k \in Chain(nx, rt[x]) : my[k] = nx[k]
  BY <1>1, <1>2, ChainClosed DEF Nexts
<1>4. /\ \A x \in Holder : Chain(my, rt[x]) = Chain(nx, rt[x])
      /\ \A x \in Holder : Acyclic(my, rt[x])
  BY <1>3, HeldFrame DEF HeapOK
<1>5. /\ Chain(my, fr) = {fr} \cup Chain(nx, rt[y])
      /\ Acyclic(my, fr)
  <2>1. /\ rt[y] \in Ptr
        /\ fr \notin Chain(nx, rt[y])
        /\ \A k \in Chain(nx, rt[y]) : my[k] = nx[k]
        /\ Acyclic(nx, rt[y])
    BY <1>1, <1>2, <1>3 DEF HeapOK
  <2>2. nx \in [Handle -> Ptr] /\ my \in [Handle -> Ptr]
    BY DEF Nexts
  <2> QED
    BY <1>1, <1>2, <2>1, <2>2, ChainPush
<1>6. \A k \in Handle \ {fr} : HeldBy(my, rn, k) = HeldBy(nx, rt, k)
  BY <1>2, <1>4, <1>5 DEF HeldBy
<1>7. HeldBy(my, rn, fr) = {y}
  BY <1>1, <1>2, <1>4, <1>5 DEF HeldBy
<1>8. CountsOK(my, ns, rn)
  <2>1. ASSUME NEW k \in Handle, k # fr
        PROVE  ns[k] = nr[k] /\ HeldBy(my, rn, k) = HeldBy(nx, rt, k)
    BY <1>6, <2>1 DEF Counts
  <2>2. /\ ns[fr] = 1
        /\ Cardinality(HeldBy(my, rn, fr)) = 1
    <3>1. Cardinality({y}) = 1
      BY FS_Singleton
    <3> QED
      BY <1>7, <3>1
  <2>3. Counted(1, 1) = 1
    BY DEF Counted
  <2>4. CountsOK(nx, nr, rt)
    BY DEF HeapOK
  <2>5. ASSUME NEW k \in Handle
        PROVE  LET refs == Cardinality(HeldBy(my, rn, k))
               IN  /\ Counted(ns[k], refs) >= refs
                   /\ Clean => Counted(ns[k], refs) = refs
    <3>1. CASE k = fr
      BY <2>2, <2>3, <3>1
    <3>2. CASE k # fr
      BY <2>1, <2>4, <3>2 DEF CountsOK
    <3> QED
      BY <3>1, <3>2
  <2> QED
    BY <2>5 DEF CountsOK
<1>9. \A k \in Chain(nx, nx[fr]) : my[k] = nx[k]
  BY <1>1, <1>2, ChainClosed DEF Nexts
<1>10. /\ Chain(my, nx[fr]) = Chain(nx, nx[fr])
       /\ Acyclic(my, nx[fr])
  <2>1. /\ nx[fr] \in Ptr
        /\ nx \in [Handle -> Ptr]
        /\ my \in [Handle -> Ptr]
    BY <1>1 DEF Nexts
  <2>2. Chain(my, nx[fr]) = Chain(nx, nx[fr])
    BY <1>9, <2>1, ChainFrame
  <2>3. Acyclic(my, nx[fr])
    BY <1>1, <1>9, <2>1, AcyclicFrame
  <2> QED
    BY <2>2, <2>3
<1>11. \A k \in Chain(my, nx[fr]) : HeldBy(my, rn, k) = {}
  BY <1>1, <1>6, <1>10, ChainClosed DEF HeapOK, Nexts
<1>12. Bounded(nx[fr], tp, my, rn)
  <2>1. \A k \in 1..tp : k \in Handle
    BY MaxHandleAssumption DEF Ptr, Handle
  <2> QED
    BY <1>1, <1>2, <2>1 DEF HeapOK, Bounded
<1>13. \A x \in Holder : Acyclic(my, rn[x])
  BY <1>2, <1>4, <1>5
<1>14. NoMore(nx, nr, rt, my, ns, rn)
  <2>1. HeldBy(nx, rt, fr) = {}
    BY FreshHead
  <2>2. \A k \in Handle \ {fr} : ns[k] = nr[k] /\ HeldBy(my, rn, k) = HeldBy(nx, rt, k)
    BY <1>6
  <2> QED
    BY <1>1, <1>7, <2>1, <2>2, NoMoreFresh
<1> QED
  BY <1>5, <1>7, <1>8, <1>10, <1>11, <1>12, <1>13, <1>14 DEF HeapOK

(* The head of the free list is taken and kept by nobody. *)
LEMMA HeapLeak ==
  ASSUME NEW fr \in Ptr, NEW tp \in Ptr, NEW nx \in Nexts, NEW nr \in Counts,
         NEW rt \in RootsT, HeapOK(fr, tp, nx, nr, rt), fr # NULL, ~Clean,
         NEW my \in Nexts, my[fr] = NULL,
         \A k \in Handle \ {fr} : my[k] = nx[k],
         NEW ns \in Counts, ns[fr] = 1,
         \A k \in Handle \ {fr} : ns[k] = nr[k]
  PROVE  HeapOK(nx[fr], tp, my, ns, rt)
<1>1. /\ fr \in Handle
      /\ HeldBy(nx, rt, fr) = {}
      /\ \A x \in Holder : fr \notin Chain(nx, rt[x])
      /\ nx[fr] \in Ptr
      /\ nx[fr] <= tp
      /\ fr \notin Chain(nx, nx[fr])
      /\ Chain(nx, nx[fr]) \subseteq Chain(nx, fr)
      /\ Acyclic(nx, nx[fr])
  BY FreshHead
<1>2. /\ my[fr] = NULL
      /\ \A k \in Handle \ {fr} : my[k] = nx[k]
      /\ \A x \in Holder : rt[x] \in Ptr
  BY <1>1 DEF Nexts, RootsT
<1>3. \A x \in Holder : \A k \in Chain(nx, rt[x]) : my[k] = nx[k]
  BY <1>1, <1>2, ChainClosed DEF Nexts
<1>4. /\ \A h : HeldBy(my, rt, h) = HeldBy(nx, rt, h)
      /\ \A x \in Holder : Acyclic(my, rt[x])
  BY <1>3, HeldFrame DEF HeapOK
<1>5. CountsOK(my, ns, rt)
  <2>1. ASSUME NEW k \in Handle, k # fr
        PROVE  ns[k] = nr[k]
    BY <2>1 DEF Counts
  <2>2. /\ ns[fr] = 1
        /\ Cardinality(HeldBy(my, rt, fr)) = 0
    BY <1>1, <1>4, FS_EmptySet DEF Counts
  <2>3. Counted(1, 0) >= 0
    BY DEF Counted
  <2> QED
    BY <1>4, <2>1, <2>2, <2>3 DEF HeapOK, CountsOK
<1>6. \A k \in Chain(nx, nx[fr]) : my[k] = nx[k]
  BY <1>1, <1>2, ChainClosed DEF Nexts
<1>7. /\ Chain(my, nx[fr]) = Chain(nx, nx[fr])
      /\ Acyclic(my, nx[fr])
  BY <1>1, <1>6, ChainFrame, AcyclicFrame DEF Nexts
<1>8. \A k \in Chain(my, nx[fr]) : HeldBy(my, rt, k) = {}
  BY <1>1, <1>4, <1>7 DEF HeapOK
<1>9. Bounded(nx[fr], tp, my, rt)
  <2>1. \A k \in 1..tp : k \in Handle /\ NULL <= tp
    BY MaxHandleAssumption DEF Ptr, Handle, NULL
  <2> QED
    BY <1>1, <1>2, <2>1 DEF HeapOK, Bounded
<1> QED
  BY <1>4, <1>5, <1>7, <1>8, <1>9 DEF HeapOK

(* The head of the free list is put behind the end e of the handler's list. *)
LEMMA HeapAppend ==
  ASSUME NEW fr \in Ptr, NEW tp \in Ptr, NEW nx \in Nexts, NEW nr \in Counts,
         NEW rt \in RootsT, HeapOK(fr, tp, nx, nr, rt), fr # NULL,
         NEW e \in Chain(nx, rt[Server]), nx[e] = NULL,
         HeldBy(nx, rt, e) = {Server},
         NEW my \in Nexts, my[fr] = NULL, my[e] = fr,
         \A k \in Handle \ {fr, e} : my[k] = nx[k],
         NEW ns \in Counts, ns[fr] = 1,
         \A k \in Handle \ {fr} : ns[k] = nr[k]
  PROVE  /\ HeapOK(nx[fr], tp, my, ns, rt)
         /\ Chain(my, rt[Server]) = Chain(nx, rt[Server]) \cup {fr}
         /\ HeldBy(my, rt, fr) = {Server}
         /\ \A k \in Handle \ {fr} : HeldBy(my, rt, k) = HeldBy(nx, rt, k)
         /\ NoMore(nx, nr, rt, my, ns, rt)
<1>1. /\ fr \in Handle
      /\ fr \in 1..tp
      /\ \A x \in Holder : fr \notin Chain(nx, rt[x])
      /\ nx[fr] \in Ptr
      /\ nx[fr] <= tp
      /\ fr \notin Chain(nx, nx[fr])
      /\ Chain(nx, nx[fr]) \subseteq Chain(nx, fr)
      /\ Acyclic(nx, nx[fr])
  BY FreshHead
<1>2. /\ Server \in Holder
      /\ \A x \in Holder : rt[x] \in Ptr
      /\ e \in Handle
      /\ e # fr
  BY <1>1, HolderFinite, ChainClosed DEF Nexts, RootsT
<1>3. \A x \in Holder \ {Server} : e \notin Chain(nx, rt[x])
  BY DEF HeldBy
<1>4. e \notin Chain(nx, fr)
  BY DEF HeapOK
<1>5. /\ Chain(my, rt[Server]) = Chain(nx, rt[Server]) \cup {fr}
      /\ Acyclic(my, rt[Server])
  <2>1. \A k \in Chain(nx, rt[Server]) \ {e} : my[k] = nx[k]
    BY <1>1, <1>2, ChainClosed DEF Nexts
  <2>2. /\ rt[Server] \in Ptr
        /\ Acyclic(nx, rt[Server])
        /\ fr \notin Chain(nx, rt[Server])
    BY <1>1, <1>2 DEF HeapOK
  <2>3. nx \in [Handle -> Ptr] /\ my \in [Handle -> Ptr]
    BY DEF Nexts
  <2>4. /\ e \in Chain(nx, rt[Server])
        /\ nx[e] = NULL
        /\ my[e] = fr
        /\ my[fr] = NULL
        /\ fr \in Handle
    BY <1>1
  <2> QED
    BY <2>1, <2>2, <2>3, <2>4, ChainAppend, SMTT(60)
<1>6. ASSUME NEW x \in Holder \ {Server}
      PROVE  /\ Chain(my, rt[x]) = Chain(nx, rt[x])
             /\ Acyclic(my, rt[x])
  <2>1. \A k \in Chain(nx, rt[x]) : my[k] = nx[k]
    BY <1>1, <1>2, <1>3, ChainClosed DEF Nexts
  <2> QED
    BY <1>2, <2>1, ChainFrame, AcyclicFrame DEF Nexts, HeapOK
<1>7. \A k \in Handle \ {fr} : HeldBy(my, rt, k) = HeldBy(nx, rt, k)
  BY <1>5, <1>6 DEF HeldBy
<1>8. HeldBy(my, rt, fr) = {Server}
  BY <1>1, <1>2, <1>5, <1>6 DEF HeldBy
<1>9. CountsOK(my, ns, rt)
  <2>1. ASSUME NEW k \in Handle, k # fr
        PROVE  ns[k] = nr[k] /\ HeldBy(my, rt, k) = HeldBy(nx, rt, k)
    BY <1>7, <2>1 DEF Counts
  <2>2. /\ ns[fr] = 1
        /\ Cardinality(HeldBy(my, rt, fr)) = 1
    <3>1. Cardinality({Server}) = 1
      BY FS_Singleton
    <3> QED
      BY <1>8, <3>1
  <2>3. Counted(1, 1) = 1
    BY DEF Counted
  <2>4. CountsOK(nx, nr, rt)
    BY DEF HeapOK
  <2>5. ASSUME NEW k \in Handle
        PROVE  LET refs == Cardinality(HeldBy(my, rt, k))
               IN  /\ Counted(ns[k], refs) >= refs
                   /\ Clean => Counted(ns[k], refs) = refs
    <3>1. CASE k = fr
      BY <2>2, <2>3, <3>1
    <3>2. CASE k # fr
      BY <2>1, <2>4, <3>2 DEF CountsOK
    <3> QED
      BY <3>1, <3>2
  <2> QED
    BY <2>5 DEF CountsOK
<1>10. \A k \in Chain(nx, nx[fr]) : my[k] = nx[k]
  BY <1>1, <1>4, ChainClosed DEF Nexts
<1>11. /\ Chain(my, nx[fr]) = Chain(nx, nx[fr])
       /\ Acyclic(my, nx[fr])
  <2>1. /\ nx[fr] \in Ptr
        /\ nx \in [Handle -> Ptr]
        /\ my \in [Handle -> Ptr]
    BY <1>1 DEF Nexts
  <2>2. Chain(my, nx[fr]) = Chain(nx, nx[fr])
    BY <1>10, <2>1, ChainFrame
  <2>3. Acyclic(my, nx[fr])
    BY <1>1, <1>10, <2>1, AcyclicFrame
  <2> QED
    BY <2>2, <2>3
<1>12. \A k \in Chain(my, nx[fr]) : HeldBy(my, rt, k) = {}
  BY <1>1, <1>7, <1>11, ChainClosed DEF HeapOK, Nexts
<1>13. Bounded(nx[fr], tp, my, rt)
  <2>1. \A k \in 1..tp : k \in Handle /\ NULL <= tp /\ fr <= tp
    BY <1>1, MaxHandleAssumption DEF Ptr, Handle, NULL
  <2> QED
    BY <1>1, <1>2, <2>1 DEF HeapOK, Bounded
<1>14. NoMore(nx, nr, rt, my, ns, rt)
  <2>1. HeldBy(nx, rt, fr) = {}
    BY FreshHead
  <2>2. \A k \in Handle \ {fr} : ns[k] = nr[k] /\ HeldBy(my, rt, k) = HeldBy(nx, rt, k)
    BY <1>7
  <2> QED
    BY <1>1, <1>8, <2>1, <2>2, NoMoreFresh
<1> QED
  BY <1>5, <1>6, <1>7, <1>8, <1>9, <1>11, <1>12, <1>13, <1>14 DEF HeapOK

(* The first handle of the handler's list, and who holds what follows it. *)
LEMMA ServerTop ==
  ASSUME NEW fr \in Ptr, NEW tp \in Ptr, NEW nx \in Nexts, NEW nr \in Counts,
         NEW rt \in RootsT, HeapOK(fr, tp, nx, nr, rt), rt[Server] # NULL,
         NEW rn \in RootsT, rn[Server] = nx[rt[Server]],
         \A x \in Holder \ {Server} : rn[x] = rt[x]
  PROVE  /\ rt[Server] \in Handle
         /\ rt[Server] \in 1..tp
         /\ rt[Server] \notin Chain(nx, fr)
         /\ Server \in HeldBy(nx, rt, rt[Server])
         /\ HeldBy(nx, rn, rt[Server]) = HeldBy(nx, rt, rt[Server]) \ {Server}
         /\ \A k \in Handle \ {rt[Server]} : HeldBy(nx, rn, k) = HeldBy(nx, rt, k)
         /\ \A x \in Holder : Acyclic(nx, rn[x])
         /\ Bounded(fr, tp, nx, rn)
<1> DEFINE p == rt[Server]
<1>1. /\ Server \in Holder
      /\ p \in Handle
      /\ nx[p] \in Ptr
      /\ Acyclic(nx, p)
  BY HolderFinite, HandlePtr DEF HeapOK, RootsT, Nexts
<1>2. p \in 1..tp
  BY <1>1, MaxHandleAssumption DEF HeapOK, Bounded, Handle, Ptr
<1>3. /\ rn[Server] = nx[p]
      /\ \A x \in Holder \ {Server} : rn[x] = rt[x]
  BY <1>1 DEF RootsT
<1>4. /\ Chain(nx, p) = {p} \cup Chain(nx, nx[p])
      /\ p \notin Chain(nx, nx[p])
      /\ Acyclic(nx, nx[p])
  BY <1>1, ChainUnfold, AcyclicTail DEF Nexts
<1>5. Server \in HeldBy(nx, rt, p)
  BY <1>1, <1>4 DEF HeldBy
<1>6. p \notin Chain(nx, fr)
  BY <1>5 DEF HeapOK
<1>7. HeldBy(nx, rn, p) = HeldBy(nx, rt, p) \ {Server}
  BY <1>1, <1>3, <1>4 DEF HeldBy
<1>8. \A k \in Handle \ {p} : HeldBy(nx, rn, k) = HeldBy(nx, rt, k)
  BY <1>1, <1>3, <1>4 DEF HeldBy
<1>9. \A x \in Holder : Acyclic(nx, rn[x])
  BY <1>3, <1>4 DEF HeapOK
<1>10. Bounded(fr, tp, nx, rn)
  <2>1. nx[p] <= tp
    BY <1>2 DEF HeapOK, Bounded
  <2> QED
    BY <1>3, <2>1 DEF HeapOK, Bounded
<1> QED
  BY <1>1, <1>2, <1>5, <1>6, <1>7, <1>8, <1>9, <1>10

(* A count that drops to zero was for the handler's reference alone. *)
LEMMA LastHolder ==
  ASSUME NEW fr \in Ptr, NEW tp \in Ptr, NEW nx \in Nexts, NEW nr \in Counts,
         NEW rt \in RootsT, HeapOK(fr, tp, nx, nr, rt), rt[Server] # NULL,
         Dec(nr[rt[Server]]) = 0
  PROVE  HeldBy(nx, rt, rt[Server]) = {Server}
<1> DEFINE p == rt[Server]
           H == HeldBy(nx, rt, p)
<1>1. p \in Handle /\ Server \in Holder
  BY HolderFinite, HandlePtr DEF RootsT
<1>2. p \in Chain(nx, p)
  BY <1>1, ChainSelf DEF Nexts
<1>3. Server \in H
  BY <1>1, <1>2 DEF HeldBy
<1>4. IsFiniteSet(H) /\ Cardinality(H) \in Nat
  BY <1>1, HeldFinite
<1>5. Cardinality(H) > 0
  BY <1>3, <1>4, FS_EmptySet
<1>6. /\ nr[p] \in 0..(RefMod - 1)
      /\ Counted(nr[p], Cardinality(H)) >= Cardinality(H)
      /\ Clean => Counted(nr[p], Cardinality(H)) = Cardinality(H)
  BY <1>1 DEF Counts, HeapOK, CountsOK
<1> HIDE DEF H
<1>7. Cardinality(H) = 1
  BY <1>4, <1>5, <1>6, CountDown
<1>8. Cardinality(H \ {Server}) = 0 /\ IsFiniteSet(H \ {Server})
  <2>1. /\ IsFiniteSet(H \ {Server})
        /\ Cardinality(H \ {Server}) = Cardinality(H) - 1
    BY <1>3, <1>4, FS_RemoveElement
  <2> QED
    BY <1>7, <2>1
<1>9. H \ {Server} = {}
  BY <1>8, FS_EmptySet
<1> QED
  BY <1>3, <1>9 DEF H

(* p9srv_free_file() when other references remain. *)
LEMMA HeapDrop ==
  ASSUME NEW fr \in Ptr, NEW tp \in Ptr, NEW nx \in Nexts, NEW nr \in Counts,
         NEW rt \in RootsT, HeapOK(fr, tp, nx, nr, rt), rt[Server] # NULL,
         NEW rn \in RootsT, rn[Server] = nx[rt[Server]],
         \A x \in Holder \ {Server} : rn[x] = rt[x],
         NEW ns \in Counts,
         ns[rt[Server]] = Dec(nr[rt[Server]]),
         \A k \in Handle \ {rt[Server]} : ns[k] = nr[k]
  PROVE  /\ CountsOK(nx, ns, rn)
         /\ NoMore(nx, nr, rt, nx, ns, rn)
<1> DEFINE p == rt[Server]
           H == HeldBy(nx, rt, p)
<1>1. /\ p \in Handle
      /\ Server \in H
      /\ HeldBy(nx, rn, p) = H \ {Server}
      /\ \A k \in Handle \ {p} : HeldBy(nx, rn, k) = HeldBy(nx, rt, k)
  BY ServerTop
<1>2. /\ IsFiniteSet(H)
      /\ Cardinality(H) \in Nat
      /\ Cardinality(H) > 0
  BY <1>1, HeldFinite, FS_EmptySet
<1>3. Cardinality(H \ {Server}) = Cardinality(H) - 1
  BY <1>1, <1>2, FS_RemoveElement
<1>4. CountsOK(nx, nr, rt)
  BY DEF HeapOK
<1>5. /\ nr[p] \in 0..(RefMod - 1)
      /\ Counted(nr[p], Cardinality(H)) >= Cardinality(H)
      /\ Clean => Counted(nr[p], Cardinality(H)) = Cardinality(H)
  BY <1>1, <1>4 DEF Counts, CountsOK
<1>6. /\ Counted(Dec(nr[p]), Cardinality(H) - 1) >= Cardinality(H) - 1
      /\ Clean => Counted(Dec(nr[p]), Cardinality(H) - 1) = Cardinality(H) - 1
      /\ Counted(Dec(nr[p]), Cardinality(H) - 1) - (Cardinality(H) - 1)
           <= Counted(nr[p], Cardinality(H)) - Cardinality(H)
  <2> HIDE DEF H
  <2> QED
    BY <1>2, <1>5, CountDown
<1>7. /\ ns[p] = Dec(nr[p])
      /\ \A k \in Handle \ {p} : ns[k] = nr[k]
  BY <1>1 DEF Counts
<1>8. Cardinality(HeldBy(nx, rn, p)) = Cardinality(H) - 1
  BY <1>1, <1>3
<1>9. CountsOK(nx, ns, rn)
  BY <1>1, <1>4, <1>6, <1>7, <1>8 DEF CountsOK
<1>10. NoMore(nx, nr, rt, nx, ns, rn)
  <2>1. ExcessOf(nx, ns, rn, p) <= ExcessOf(nx, nr, rt, p)
    BY <1>6, <1>7, <1>8 DEF ExcessOf
  <2>2. ASSUME NEW k \in Handle, k # p
        PROVE  ExcessOf(nx, ns, rn, k) <= ExcessOf(nx, nr, rt, k)
    <3>1. ExcessOf(nx, ns, rn, k) = ExcessOf(nx, nr, rt, k)
      BY <1>1, <1>7, <2>2 DEF ExcessOf
    <3> QED
      BY <3>1, ExcessType
  <2> QED
    BY <2>1, <2>2 DEF NoMore
<1> QED
  BY <1>9, <1>10

(* p9srv_free_file() on the first handle of the handler's list: one        *)
(* reference less, and the handle is recycled with the last one.           *)
LEMMA HeapFree ==
  ASSUME NEW fr \in Ptr, NEW tp \in Ptr, NEW nx \in Nexts, NEW nr \in Counts,
         NEW rt \in RootsT, HeapOK(fr, tp, nx, nr, rt), rt[Server] # NULL,
         NEW rn \in RootsT, rn[Server] = nx[rt[Server]],
         \A x \in Holder \ {Server} : rn[x] = rt[x],
         NEW left, left = Dec(nr[rt[Server]]),
         NEW ns \in Counts, ns[rt[Server]] = left,
         \A k \in Handle \ {rt[Server]} : ns[k] = nr[k],
         NEW my \in Nexts,
         left # 0 => my = nx,
         left = 0 => my[rt[Server]] = fr,
         \A k \in Handle \ {rt[Server]} : my[k] = nx[k],
         NEW fn \in Ptr, fn = IF left = 0 THEN rt[Server] ELSE fr
  PROVE  /\ HeapOK(fn, tp, my, ns, rn)
         /\ NoMore(nx, nr, rt, my, ns, rn)
<1> DEFINE p == rt[Server]
<1>1. /\ p \in Handle
      /\ p \in 1..tp
      /\ p \notin Chain(nx, fr)
      /\ HeldBy(nx, rn, p) = HeldBy(nx, rt, p) \ {Server}
      /\ \A k \in Handle \ {p} : HeldBy(nx, rn, k) = HeldBy(nx, rt, k)
      /\ \A x \in Holder : Acyclic(nx, rn[x])
      /\ Bounded(fr, tp, nx, rn)
  BY ServerTop, SMTT(60)
<1>2. CountsOK(nx, ns, rn) /\ NoMore(nx, nr, rt, nx, ns, rn)
  BY HeapDrop
<1>3. \A k \in Chain(nx, fr) : HeldBy(nx, rn, k) = {}
  BY <1>1, ChainClosed DEF HeapOK, Nexts
<1>4. CASE left # 0
  BY <1>1, <1>2, <1>3, <1>4 DEF HeapOK
<1>5. CASE left = 0
  <2>1. /\ my[p] = fr
        /\ \A k \in Handle \ {p} : my[k] = nx[k]
        /\ fn = p
    BY <1>1, <1>5 DEF Nexts
  <2>2. HeldBy(nx, rn, p) = {}
    <3>1. Dec(nr[rt[Server]]) = 0
      BY <1>5
    <3>2. HeldBy(nx, rt, p) = {Server}
      BY <3>1, LastHolder
    <3> QED
      BY <1>1, <3>2
  <2>3. \A x \in Holder : rn[x] \in Ptr
    BY DEF RootsT
  <2>4. \A x \in Holder : \A k \in Chain(nx, rn[x]) : my[k] = nx[k]
    BY <2>1, <2>2, <2>3, ChainClosed DEF HeldBy, Nexts
  <2>5. /\ \A k : HeldBy(my, rn, k) = HeldBy(nx, rn, k)
        /\ \A x \in Holder : Acyclic(my, rn[x])
    BY <1>1, <2>4, HeldFrame
  <2>6. CountsOK(my, ns, rn)
    BY <1>2, <2>5 DEF CountsOK
  <2>7. \A k \in Chain(nx, fr) : my[k] = nx[k]
    BY <1>1, <2>1, ChainClosed DEF Nexts
  <2>8. /\ Chain(my, p) = {p} \cup Chain(nx, fr)
        /\ Acyclic(my, p)
    <3>1. nx \in [Handle -> Ptr] /\ my \in [Handle -> Ptr] /\ Acyclic(nx, fr)
      BY DEF Nexts, HeapOK
    <3> QED
      BY <1>1, <2>1, <2>7, <3>1, ChainPush
  <2>9. \A k \in Chain(my, p) : HeldBy(my, rn, k) = {}
    BY <1>3, <2>2, <2>5, <2>8
  <2>10. Bounded(p, tp, my, rn)
    <3>1. \A k \in 1..tp : k \in Handle
      BY MaxHandleAssumption DEF Ptr, Handle
    <3> QED
      BY <1>1, <2>1, <3>1 DEF Bounded
  <2>11. NoMore(nx, nr, rt, my, ns, rn)
    <3>1. NoMore(nx, ns, rn, my, ns, rn)
      BY <2>5, NoMoreSame
    <3> QED
      BY <1>2, <3>1, NoMoreTrans
  <2> QED
    BY <2>1, <2>5, <2>6, <2>8, <2>9, <2>10, <2>11 DEF HeapOK
<1> QED
  BY <1>4, <1>5
==============================================================================
