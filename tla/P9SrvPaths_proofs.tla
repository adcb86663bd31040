--------------------------- MODULE P9SrvPaths_proofs ---------------------------
(***************************************************************************)
(* P9Srv implements the safety part of FidPaths where no client walks onto *)
(* the same fid: for any number of fids and handles, any file tree and any *)
(* property lists, refused entries and entries "." included.               *)
(*                                                                         *)
(* The first part is about the path the handles of a list make, the second *)
(* about the paths a walk goes through, the third maps the steps.          *)
(***************************************************************************)
EXTENDS P9SrvPaths, P9Srv_proofs

(* Induction over the lists that end: a set of pointers that contains NULL *)
(* and, with the rest of a list, its first handle contains all of them.    *)
LEMMA ListInduction ==
  ASSUME NEW nx \in [Handle -> Ptr], NEW G, NULL \in G,
         \A p \in Handle : Acyclic(nx, p) /\ nx[p] \in G => p \in G
  PROVE  \A p \in Ptr : Acyclic(nx, p) => p \in G
<1> DEFINE B == {p \in Ptr : Acyclic(nx, p) /\ p \notin G}
           T == {Cardinality(Chain(nx, p)) : p \in B}
<1> SUFFICES ASSUME B # {}
             PROVE  FALSE
  OBVIOUS
<1>1. T \in SUBSET Nat /\ T # {}
  BY ChainFinite
<1>2. PICK m \in T : \A k \in T : m <= k
  <2> HIDE DEF T
  <2> QED
    BY <1>1, LeastElement
<1>3. PICK p \in B : m = Cardinality(Chain(nx, p))
  OBVIOUS
<1>4. p \in Handle /\ nx[p] \in Ptr
  BY PtrHandle
<1>5. Acyclic(nx, nx[p])
  BY <1>4, AcyclicTail
<1>6. nx[p] \in B
  BY <1>4, <1>5
<1>7. Cardinality(Chain(nx, nx[p])) \in T
  BY <1>6
<1>8. /\ Cardinality(Chain(nx, p)) = Cardinality(Chain(nx, nx[p])) + 1
      /\ Cardinality(Chain(nx, nx[p])) \in Nat
  BY <1>4, ChainShrinks, ChainFinite
<1>9. m <= Cardinality(Chain(nx, nx[p]))
  BY <1>2, <1>7
<1> QED
  BY <1>3, <1>8, <1>9

(* Each handle of a list that ends starts a list that ends. *)
LEMMA AcyclicSub ==
  ASSUME NEW nx \in [Handle -> Ptr], NEW p \in Ptr, Acyclic(nx, p),
         NEW h \in Chain(nx, p)
  PROVE  Acyclic(nx, h)
BY ChainSub DEF Acyclic
-----------------------------------------------------------------------------
(* A path put together is a term of its own: no proof but the last needs to *)
(* know that it is a sequence.                                             *)
Cons(x, s) == <<x>> \o s

(* What PathFrom is by definition: g is the function it computes. *)
IsPath(g, nx, nd, p) ==
  g = [h \in Chain(nx, p) \cup {NULL} |->
         IF h = NULL THEN <<>> ELSE Cons(nd[h], g[nx[h]])]

LEMMA PathEnd ==
  ASSUME NEW nx \in [Handle -> Ptr], NEW nd, NEW p \in Ptr, NEW g,
         IsPath(g, nx, nd, p)
  PROVE  g[NULL] = <<>>
BY DEF IsPath

LEMMA PathNext ==
  ASSUME NEW nx \in [Handle -> Ptr], NEW nd, NEW p \in Ptr, NEW g,
         IsPath(g, nx, nd, p), NEW h \in Chain(nx, p)
  PROVE  g[h] = Cons(nd[h], g[nx[h]])
<1>1. h # NULL
  BY ChainClosed, PtrHandle
<1> QED
  BY <1>1 DEF IsPath

(* The function exists where the list ends. *)
LEMMA PathExists ==
  ASSUME NEW nx \in [Handle -> Ptr], NEW nd, NEW p \in Ptr, Acyclic(nx, p)
  PROVE  \E g : IsPath(g, nx, nd, p)
<1> DEFINE G == {q \in Ptr : \E g : IsPath(g, nx, nd, q)}
<1>1. NULL \in G
  <2> DEFINE g == [h \in Chain(nx, NULL) \cup {NULL} |-> <<>>]
  <2>1. IsPath(g, nx, nd, NULL)
    BY ChainNull DEF IsPath
  <2> QED
    BY <2>1, PtrHandle
<1>2. ASSUME NEW q \in Handle, Acyclic(nx, q), nx[q] \in G
      PROVE  q \in G
  <2>1. PICK g : IsPath(g, nx, nd, nx[q])
    BY <1>2
  <2> DEFINE r == nx[q]
             D == Chain(nx, q) \cup {NULL}
             e == [h \in D |-> IF h = q THEN Cons(nd[q], g[r]) ELSE g[h]]
  <2>2. /\ r \in Ptr
        /\ q \notin Chain(nx, r)
        /\ Chain(nx, q) = {q} \cup Chain(nx, r)
        /\ q # NULL
    BY <1>2, AcyclicTail, ChainUnfold, PtrHandle
  <2>3. /\ g[NULL] = <<>>
        /\ \A h \in Chain(nx, r) : g[h] = Cons(nd[h], g[nx[h]])
    <3>1. g[NULL] = <<>>
      BY <2>1, <2>2, PathEnd
    <3>2. ASSUME NEW h \in Chain(nx, r)
          PROVE  g[h] = Cons(nd[h], g[nx[h]])
      BY <2>1, <2>2, PathNext
    <3> QED
      BY <3>1, <3>2
  <2>4. e[NULL] = <<>>
    BY <2>2, <2>3
  <2>5. \A h \in Chain(nx, r) \cup {NULL} : h \in D /\ h # q /\ e[h] = g[h]
    BY <2>2
  <2>6. r \in Chain(nx, r) \cup {NULL}
    BY <2>2, ChainSelf, PtrHandle
  <2>7. e[q] = Cons(nd[q], e[nx[q]])
    BY <2>2, <2>5, <2>6
  <2>8. ASSUME NEW h \in Chain(nx, r)
        PROVE  e[h] = Cons(nd[h], e[nx[h]])
    <3>1. nx[h] \in Chain(nx, r) \cup {NULL}
      BY <2>2, ChainClosed DEF IsClosed
    <3> QED
      BY <2>3, <2>5, <3>1
  <2>9. \A h \in D : e[h] = IF h = NULL THEN <<>> ELSE Cons(nd[h], e[nx[h]])
    <3> HIDE DEF e
    <3> QED
      BY <2>2, <2>4, <2>7, <2>8
  <2>10. e = [h \in D |-> e[h]]
    OBVIOUS
  <2>11. IsPath(e, nx, nd, q)
    <3> HIDE DEF e
    <3> QED
      BY <2>9, <2>10 DEF IsPath
  <2> QED
    BY <2>11, PtrHandle
<1> HIDE DEF G
<1>3. p \in G
  BY <1>1, <1>2, ListInduction
<1> QED
  BY <1>3 DEF G

LEMMA PathFromIs ==
  ASSUME NEW nx \in [Handle -> Ptr], NEW nd, NEW p \in Ptr, Acyclic(nx, p)
  PROVE  \E g : IsPath(g, nx, nd, p) /\ PathFrom(nx, nd, p) = g[p]
<1>1. \E g : IsPath(g, nx, nd, p)
  BY PathExists
<1> DEFINE g == CHOOSE g : IsPath(g, nx, nd, p)
<1>2. IsPath(g, nx, nd, p)
  BY <1>1
<1>3. PathFrom(nx, nd, p) = g[p]
  BY DEF PathFrom, IsPath, Cons
<1> QED
  BY <1>2, <1>3

(* Two heaps have the same handles in S. *)
Same(nx, nd, my, me, S) == \A k \in S : my[k] = nx[k] /\ me[k] = nd[k]

(* Two such functions agree where they follow the same handles. *)
LEMMA PathAgree ==
  ASSUME NEW nx \in [Handle -> Ptr], NEW my \in [Handle -> Ptr],
         NEW nd, NEW me, NEW p \in Ptr, NEW r \in Ptr, NEW g, NEW e,
         IsPath(g, nx, nd, p), IsPath(e, my, me, r), Acyclic(nx, p),
         r \in Chain(nx, p) \cup {NULL},
         Same(nx, nd, my, me, Chain(nx, r))
  PROVE  g[r] = e[r]
<1> USE DEF Same
<1> DEFINE G == {s \in Ptr : s \in Chain(nx, r) \cup {NULL} => g[s] = e[s]}
<1>1. /\ g[NULL] = <<>>
      /\ e[NULL] = <<>>
      /\ \A h \in Chain(nx, p) : g[h] = Cons(nd[h], g[nx[h]])
      /\ \A h \in Chain(my, r) : e[h] = Cons(me[h], e[my[h]])
  <2>1. g[NULL] = <<>> /\ e[NULL] = <<>>
    BY PathEnd
  <2>2. ASSUME NEW h \in Chain(nx, p)
        PROVE  g[h] = Cons(nd[h], g[nx[h]])
    BY PathNext
  <2>3. ASSUME NEW h \in Chain(my, r)
        PROVE  e[h] = Cons(me[h], e[my[h]])
    BY PathNext
  <2> QED
    BY <2>1, <2>2, <2>3
<1>2. /\ Chain(nx, r) \subseteq Chain(nx, p)
      /\ Chain(my, r) = Chain(nx, r)
  BY ChainSub, ChainNull, ChainFrame
<1>3. NULL \in G
  BY <1>1, PtrHandle
<1>4. ASSUME NEW s \in Handle, nx[s] \in G
      PROVE  s \in G
  <2> SUFFICES ASSUME s \in Chain(nx, r)
               PROVE  g[s] = e[s]
    BY PtrHandle
  <2>1. /\ g[s] = Cons(nd[s], g[nx[s]])
        /\ e[s] = Cons(nd[s], e[nx[s]])
    BY <1>1, <1>2
  <2>2. nx[s] \in Chain(nx, r) \cup {NULL}
    BY ChainClosed DEF IsClosed
  <2> QED
    BY <1>4, <2>1, <2>2
<1>5. Acyclic(nx, r)
  BY AcyclicSub, ChainNull DEF Acyclic
<1>6. r \in G
  <2> HIDE DEF G
  <2> QED
    BY <1>3, <1>4, <1>5, ListInduction
<1>7. r \in Chain(nx, r) \cup {NULL}
  BY ChainSelf, PtrHandle
<1> QED
  BY <1>6, <1>7

LEMMA PathNull ==
  ASSUME NEW nx \in [Handle -> Ptr], NEW nd
  PROVE  PathFrom(nx, nd, NULL) = <<>>
<1>1. NULL \in Ptr /\ Acyclic(nx, NULL)
  BY ChainNull, PtrHandle DEF Acyclic
<1>2. PICK g : IsPath(g, nx, nd, NULL) /\ PathFrom(nx, nd, NULL) = g[NULL]
  BY <1>1, PathFromIs
<1> QED
  BY <1>1, <1>2, PathEnd

(* The path of a list is its first handle's node and the path of the rest. *)
LEMMA PathUnfold ==
  ASSUME NEW nx \in [Handle -> Ptr], NEW nd, NEW p \in Handle, Acyclic(nx, p)
  PROVE  PathFrom(nx, nd, p) = Cons(nd[p], PathFrom(nx, nd, nx[p]))
<1>1. /\ p \in Ptr
      /\ p \in Chain(nx, p)
      /\ nx[p] \in Ptr
      /\ Acyclic(nx, nx[p])
  BY PtrHandle, ChainSelf, AcyclicTail
<1>2. PICK g : IsPath(g, nx, nd, p) /\ PathFrom(nx, nd, p) = g[p]
  BY <1>1, PathFromIs
<1>3. PICK e : IsPath(e, nx, nd, nx[p]) /\ PathFrom(nx, nd, nx[p]) = e[nx[p]]
  BY <1>1, PathFromIs
<1>4. nx[p] \in Chain(nx, p) \cup {NULL}
  BY <1>1, ChainClosed DEF IsClosed
<1>5. g[nx[p]] = e[nx[p]]
  <2>1. Same(nx, nd, nx, nd, Chain(nx, nx[p]))
    BY DEF Same
  <2> QED
    BY <1>1, <1>2, <1>3, <1>4, <2>1, PathAgree
<1>6. g[p] = Cons(nd[p], g[nx[p]])
  BY <1>1, <1>2, PathNext
<1> QED
  BY <1>2, <1>3, <1>5, <1>6

(* A path does not notice a change at handles its list does not visit. *)
LEMMA PathFrame ==
  ASSUME NEW nx \in [Handle -> Ptr], NEW my \in [Handle -> Ptr],
         NEW nd, NEW me, NEW p \in Ptr, Acyclic(nx, p),
         Same(nx, nd, my, me, Chain(nx, p))
  PROVE  PathFrom(my, me, p) = PathFrom(nx, nd, p)
<1>1. Acyclic(my, p)
  BY AcyclicFrame DEF Same
<1>2. PICK g : IsPath(g, nx, nd, p) /\ PathFrom(nx, nd, p) = g[p]
  BY PathFromIs
<1>3. PICK e : IsPath(e, my, me, p) /\ PathFrom(my, me, p) = e[p]
  BY <1>1, PathFromIs
<1>4. p \in Chain(nx, p) \cup {NULL}
  BY ChainSelf, PtrHandle
<1>5. g[p] = e[p]
  BY <1>2, <1>3, <1>4, PathAgree
<1> QED
  BY <1>2, <1>3, <1>5

LEMMA ConsSeq ==
  ASSUME NEW S, NEW x \in S, NEW s \in Seq(S)
  PROVE  /\ Cons(x, s) \in Seq(S)
         /\ Cons(x, s) # <<>>
         /\ Cons(x, s)[1] = x
         /\ Tail(Cons(x, s)) = s
         /\ Len(Cons(x, s)) > 1 <=> s # <<>>
<1>1. /\ Cons(x, s) \in Seq(S)
      /\ Len(Cons(x, s)) = Len(s) + 1
      /\ Cons(x, s)[1] = x
      /\ Tail(Cons(x, s)) = s
      /\ Len(s) \in Nat
  BY DEF Cons
<1>2. s # <<>> <=> Len(s) > 0
  OBVIOUS
<1>3. Len(<<>>) = 0
  OBVIOUS
<1> QED
  BY <1>1, <1>2, <1>3

LEMMA PathType ==
  ASSUME NEW nx \in [Handle -> Ptr], NEW S, NEW nd \in [Handle -> S],
         NEW p \in Ptr, Acyclic(nx, p)
  PROVE  PathFrom(nx, nd, p) \in Seq(S)
<1> DEFINE G == {q \in Ptr : Acyclic(nx, q) => PathFrom(nx, nd, q) \in Seq(S)}
<1>1. NULL \in G
  <2>1. PathFrom(nx, nd, NULL) = <<>>
    BY PathNull
  <2>2. <<>> \in Seq(S)
    OBVIOUS
  <2> QED
    BY <2>1, <2>2, PtrHandle
<1>2. ASSUME NEW q \in Handle, Acyclic(nx, q), nx[q] \in G
      PROVE  q \in G
  <2>1. PathFrom(nx, nd, nx[q]) \in Seq(S)
    BY <1>2, AcyclicTail
  <2>2. nd[q] \in S
    OBVIOUS
  <2>3. Cons(nd[q], PathFrom(nx, nd, nx[q])) \in Seq(S)
    BY <2>1, <2>2, ConsSeq
  <2>4. PathFrom(nx, nd, q) = Cons(nd[q], PathFrom(nx, nd, nx[q]))
    BY <1>2, PathUnfold
  <2> QED
    BY <2>3, <2>4, PtrHandle
<1>3. p \in G
  <2> HIDE DEF G
  <2> QED
    BY <1>1, <1>2, ListInduction
<1> QED
  BY <1>3

(* The path of a handle begins with what it denotes. *)
LEMMA PathTop ==
  ASSUME NEW nx \in [Handle -> Ptr], NEW S, NEW nd \in [Handle -> S],
         NEW p \in Handle, Acyclic(nx, p)
  PROVE  PathFrom(nx, nd, p)[1] = nd[p]
<1> DEFINE x == nd[p]
           s == PathFrom(nx, nd, nx[p])
<1>1. /\ x \in S
      /\ s \in Seq(S)
  BY AcyclicTail, PathType
<1>2. PathFrom(nx, nd, p) = Cons(x, s)
  BY PathUnfold
<1> HIDE DEF s
<1>3. Cons(x, s)[1] = x
  BY <1>1, ConsSeq
<1> QED
  BY <1>2, <1>3

(* What comes after it is the path of its "next". *)
LEMMA PathShape ==
  ASSUME NEW nx \in [Handle -> Ptr], NEW S, NEW nd \in [Handle -> S],
         NEW p \in Handle, Acyclic(nx, p)
  PROVE  /\ PathFrom(nx, nd, p) # <<>>
         /\ Tail(PathFrom(nx, nd, p)) = PathFrom(nx, nd, nx[p])
         /\ Len(PathFrom(nx, nd, p)) > 1 <=> nx[p] # NULL
<1> DEFINE rest == PathFrom(nx, nd, nx[p])
<1>1. /\ nx[p] \in Ptr
      /\ nd[p] \in S
      /\ Acyclic(nx, nx[p])
  BY AcyclicTail
<1>2. rest \in Seq(S)
  BY <1>1, PathType
<1>3. PathFrom(nx, nd, p) = Cons(nd[p], rest)
  BY PathUnfold
<1>4. rest # <<>> <=> nx[p] # NULL
  <2>1. CASE nx[p] = NULL
    BY <2>1, PathNull
  <2>2. CASE nx[p] # NULL
    <3>1. nx[p] \in Handle
      BY <1>1, <2>2, PtrHandle
    <3>2. /\ nx[nx[p]] \in Ptr
          /\ nd[nx[p]] \in S
          /\ Acyclic(nx, nx[nx[p]])
      BY <1>1, <3>1, AcyclicTail
    <3>3. PathFrom(nx, nd, nx[nx[p]]) \in Seq(S)
      BY <3>2, PathType
    <3>4. rest = Cons(nd[nx[p]], PathFrom(nx, nd, nx[nx[p]]))
      BY <1>1, <3>1, PathUnfold
    <3> DEFINE x == nd[nx[p]]
               s == PathFrom(nx, nd, nx[nx[p]])
    <3>5. x \in S /\ s \in Seq(S)
      BY <3>2, <3>3
    <3>6. Cons(x, s) # <<>>
      <4> HIDE DEF x, s
      <4> QED
        BY <3>5, ConsSeq
    <3> QED
      BY <2>2, <3>4, <3>6
  <2> QED
    BY <2>1, <2>2
<1> HIDE DEF rest
<1>5. /\ Cons(nd[p], rest) # <<>>
      /\ Tail(Cons(nd[p], rest)) = rest
      /\ Len(Cons(nd[p], rest)) > 1 <=> rest # <<>>
  BY <1>1, <1>2, ConsSeq
<1> QED
  BY <1>3, <1>4, <1>5 DEF rest
-----------------------------------------------------------------------------
(* Induction over the names of a walk. *)
LEMMA CountInduction ==
  ASSUME NEW n \in Nat, NEW G, 0 \in G, \A i \in 1..n : i - 1 \in G => i \in G
  PROVE  \A i \in 0..n : i \in G
<1> DEFINE T == {i \in 0..n : i \notin G}
<1> SUFFICES ASSUME T # {}
             PROVE  FALSE
  OBVIOUS
<1>1. T \in SUBSET Nat
  OBVIOUS
<1>2. PICK m \in T : \A k \in T : m <= k
  <2> HIDE DEF T
  <2> QED
    BY <1>1, LeastElement
<1>3. m \in 1..n /\ m - 1 \in 0..n
  OBVIOUS
<1>4. m - 1 \notin T
  BY <1>2, <1>3
<1> QED
  BY <1>3, <1>4

(* What Steps is by definition, for the first n names. *)
IsWalk(s, p, ns, n) ==
  s = [i \in 0..n |-> IF i = 0 THEN p ELSE Paths!WalkName(s[i - 1], ns[i])]

LEMMA WalkStart ==
  ASSUME NEW n \in Nat, NEW p, NEW ns, NEW s, IsWalk(s, p, ns, n)
  PROVE  s[0] = p
BY DEF IsWalk

LEMMA WalkNext ==
  ASSUME NEW n \in Nat, NEW p, NEW ns, NEW s, IsWalk(s, p, ns, n),
         NEW i \in 1..n
  PROVE  s[i] = Paths!WalkName(s[i - 1], ns[i])
BY DEF IsWalk

LEMMA WalkExists ==
  ASSUME NEW n \in Nat, NEW p, NEW ns
  PROVE  \E s : IsWalk(s, p, ns, n)
<1> DEFINE G == {k \in 0..n : \E s : IsWalk(s, p, ns, k)}
<1>1. 0 \in G
  <2>1. IsWalk([i \in 0..0 |-> p], p, ns, 0)
    BY DEF IsWalk
  <2> QED
    BY <2>1
<1>2. ASSUME NEW k \in 1..n, k - 1 \in G
      PROVE  k \in G
  <2>1. PICK s : IsWalk(s, p, ns, k - 1)
    BY <1>2
  <2> DEFINE e == [i \in 0..k |-> IF i = k THEN Paths!WalkName(s[k - 1], ns[k])
                                           ELSE s[i]]
  <2>2. \A i \in 0..(k - 1) : i \in 0..k /\ i # k /\ e[i] = s[i]
    OBVIOUS
  <2>3. e[0] = p
    BY <2>1, <2>2, WalkStart
  <2>4. ASSUME NEW i \in 1..(k - 1)
        PROVE  e[i] = Paths!WalkName(e[i - 1], ns[i])
    <3>1. s[i] = Paths!WalkName(s[i - 1], ns[i])
      BY <2>1, WalkNext
    <3>2. i \in 0..(k - 1) /\ i - 1 \in 0..(k - 1)
      OBVIOUS
    <3> QED
      BY <2>2, <3>1, <3>2
  <2>5. e[k] = Paths!WalkName(e[k - 1], ns[k])
    BY <2>2
  <2>6. e = [i \in 0..k |-> e[i]]
    OBVIOUS
  <2> HIDE DEF e
  <2>7. \A i \in 0..k : e[i] = IF i = 0 THEN p
                               ELSE Paths!WalkName(e[i - 1], ns[i])
    BY <2>3, <2>4, <2>5
  <2>8. IsWalk(e, p, ns, k)
    BY <2>6, <2>7 DEF IsWalk
  <2> QED
    BY <2>8
<1> HIDE DEF G
<1>3. n \in G
  BY <1>1, <1>2, CountInduction
<1> QED
  BY <1>3 DEF G

(* Where a walk gets with each name. *)
LEMMA StepsAre ==
  ASSUME NEW p, NEW ns, Len(ns) \in Nat
  PROVE  /\ Paths!Steps(p, ns)[0] = p
         /\ \A i \in 1..Len(ns) :
              Paths!Steps(p, ns)[i] = Paths!WalkName(Paths!Steps(p, ns)[i - 1], ns[i])
<1> DEFINE s == CHOOSE s : IsWalk(s, p, ns, Len(ns))
<1>1. IsWalk(s, p, ns, Len(ns))
  BY WalkExists
<1>2. Paths!Steps(p, ns) = s
  BY DEF Paths!Steps, IsWalk
<1> HIDE DEF s
<1> QED
  BY <1>1, <1>2, WalkStart, WalkNext

(* Once a name is missing, the names after it do not matter. *)
LEMMA NowhereStays ==
  ASSUME NEW p, NEW ns, Len(ns) \in Nat, NEW k \in 0..Len(ns),
         Paths!Steps(p, ns)[k] = <<>>
  PROVE  Paths!Resolve(p, ns) = <<>>
<1> DEFINE s == Paths!Steps(p, ns)
           G == {i \in 0..Len(ns) : i >= k => s[i] = <<>>}
<1>1. 0 \in G
  OBVIOUS
<1>2. ASSUME NEW i \in 1..Len(ns), i - 1 \in G
      PROVE  i \in G
  <2> SUFFICES ASSUME i >= k, i # k
               PROVE  s[i] = <<>>
    OBVIOUS
  <2>1. s[i - 1] = <<>>
    BY <1>2
  <2>2. s[i] = Paths!WalkName(s[i - 1], ns[i])
    BY StepsAre
  <2> QED
    BY <2>1, <2>2 DEF Paths!WalkName
<1> HIDE DEF G
<1>3. \A i \in 0..Len(ns) : i \in G
  BY <1>1, <1>2, CountInduction
<1> QED
  BY <1>3 DEF G, Paths!Resolve
-----------------------------------------------------------------------------
(* The file tree is the same for both modules. *)
LEMMA SameTree ==
  /\ Paths!DOT = DOT
  /\ Paths!DOTDOT = DOTDOT
  /\ \A n, s, c : Paths!Finds(n, s, c) <=> Finds(n, s, c)
BY DEF Paths!DOT, DOT, Paths!DOTDOT, DOTDOT, Paths!Finds, Finds,
       Paths!FirstMatch, FirstMatch

(* A name leads to one node: the scan stops at the first entry. *)
LEMMA FindsOne ==
  ASSUME NEW n, NEW s, NEW c, NEW d, Finds(n, s, c), Finds(n, s, d)
  PROVE  c = d
<1>1. PICK x \in DOMAIN Entries[n] : FirstMatch(n, s, x) /\ Entries[n][x].node = c
  BY DEF Finds
<1>2. PICK y \in DOMAIN Entries[n] : FirstMatch(n, s, y) /\ Entries[n][y].node = d
  BY DEF Finds
<1>3. x \in 1..Len(Entries[n]) /\ y \in 1..Len(Entries[n])
  <2>1. Entries[n] \in Seq(Entry)
    BY TreeAssumption DEF Finds
  <2> QED
    BY <2>1
<1>4. ~(x < y) /\ ~(y < x)
  BY <1>1, <1>2, <1>3 DEF FirstMatch
<1> QED
  BY <1>1, <1>2, <1>3, <1>4

LEMMA NameUp ==
  ASSUME NEW p, p # <<>>
  PROVE  Paths!WalkName(p, DOTDOT) = IF Len(p) > 1 THEN Tail(p) ELSE p
BY SameTree DEF Paths!WalkName

LEMMA NameFound ==
  ASSUME NEW p, p # <<>>, NEW s, s # DOTDOT, NEW c, Finds(p[1], s, c)
  PROVE  Paths!WalkName(p, s) = IF s = DOT THEN p ELSE Cons(c, p)
<1>1. c \in Node
  BY DEF Finds
<1>2. ~ \A d \in Node : ~Finds(p[1], s, d)
  BY <1>1
<1>3. (CHOOSE d \in Node : Paths!Finds(p[1], s, d)) = c
  BY <1>1, FindsOne, SameTree
<1> QED
  BY <1>2, <1>3, SameTree DEF Paths!WalkName, Cons

LEMMA NameMissing ==
  ASSUME NEW p, p # <<>>, NEW s, s # DOTDOT, \A c \in Node : ~Finds(p[1], s, c)
  PROVE  Paths!WalkName(p, s) = <<>>
BY SameTree DEF Paths!WalkName
-----------------------------------------------------------------------------
LEMMA StackFacts ==
  ASSUME TypeOK, IInv
  PROVE  /\ next \in [Handle -> Ptr]
         /\ node \in [Handle -> Node \cup {NoNode}]
         /\ f \in Ptr
         /\ Acyclic(next, f)
         /\ \A x \in Fid : aux[x] \in Ptr /\ Acyclic(next, aux[x])
BY HeapTypes DEF TypeOK, IInv, HeapOK

(* A handler with a handle is at the node of the handle. *)
LEMMA TopNode ==
  ASSUME TypeOK, IInv, f \in Handle
  PROVE  /\ PathFrom(next, node, f) # <<>>
         /\ PathFrom(next, node, f)[1] = node[f]
<1>1. /\ next \in [Handle -> Ptr]
      /\ node \in [Handle -> Node \cup {NoNode}]
      /\ Acyclic(next, f)
  BY StackFacts
<1>2. PathFrom(next, node, f) # <<>>
  BY <1>1, PathShape
<1>3. PathFrom(next, node, f)[1] = node[f]
  BY <1>1, PathTop
<1> QED
  BY <1>2, <1>3

(* No step changes the path of a stack that a fid has. *)
LEMMA PathsFrozen ==
  ASSUME TypeOK, TypeOK', IInv, [Next]_vars, NEW x \in Fid
  PROVE  PathFrom(next', node', aux[x]) = PathFrom(next, node, aux[x])
<1>1. ASSUME NEW h \in Chain(next, aux[x])
      PROVE  next'[h] = next[h] /\ node'[h] = node[h]
  <2>1. h \in Handle
    BY StackFacts, ChainClosed
  <2>2. Holders(h) \cap Fid # {}
    BY HeapTypes DEF Holders, HeldBy
  <2> QED
    BY <2>1, <2>2, StepFrozen
<1>2. Same(next, node, next', node', Chain(next, aux[x]))
  BY <1>1 DEF Same
<1>3. next' \in [Handle -> Ptr]
  BY DEF TypeOK
<1> QED
  BY <1>2, <1>3, StackFacts, PathFrame

LEMMA PathOfIs ==
  ASSUME NEW x \in Fid
  PROVE  /\ PathOf[x] = IF x \in fids THEN PathFrom(next, node, aux[x]) ELSE <<>>
         /\ PathOf'[x] = IF x \in fids' THEN PathFrom(next', node', aux'[x])
                                        ELSE <<>>
BY DEF PathOf

(* A fid keeps its path with its handles. *)
LEMMA PathKept ==
  ASSUME TypeOK, TypeOK', IInv, [Next]_vars, NEW x \in Fid,
         aux'[x] = aux[x], x \in fids' <=> x \in fids
  PROVE  PathOf'[x] = PathOf[x]
BY PathsFrozen, PathOfIs

LEMMA PathsKept ==
  ASSUME TypeOK, TypeOK', IInv, [Next]_vars, UNCHANGED table
  PROVE  PathOf' = PathOf
<1>1. \A x \in Fid : PathOf'[x] = PathOf[x]
  BY PathKept DEF table
<1>2. PathOf = [x \in Fid |-> PathOf[x]] /\ PathOf' = [x \in Fid |-> PathOf'[x]]
  BY DEF PathOf
<1> QED
  BY <1>1, <1>2

(* What a running walk holds is what the name leads to: "..". *)
LEMMA UpPath ==
  ASSUME TypeOK, TypeOK', IInv, WalkUp
  PROVE  PathFrom(next', node', f') =
           Paths!WalkName(PathFrom(next, node, f), NextName)
<1> DEFINE p == PathFrom(next, node, f)
<1>1. f \in Handle /\ f # NULL
  BY StackFacts, PtrHandle DEF WalkUp
<1>2. /\ p # <<>>
      /\ Tail(p) = PathFrom(next, node, next[f])
      /\ Len(p) > 1 <=> next[f] # NULL
  BY <1>1, StackFacts, PathShape
<1>3. Paths!WalkName(p, NextName) = IF Len(p) > 1 THEN Tail(p) ELSE p
  <2> HIDE DEF p
  <2> QED
    BY <1>2, NameUp DEF WalkUp
<1>4. CASE next[f] # NULL
  <2>1. /\ f' = next[f]
        /\ node' = node
        /\ \A k \in Handle \ {f} : next'[k] = next[k]
    BY <1>1, <1>4 DEF WalkUp, FreeFile, TypeOK
  <2>2. /\ next[f] \in Ptr
        /\ Acyclic(next, next[f])
        /\ f \notin Chain(next, next[f])
    BY <1>1, StackFacts, AcyclicTail
  <2>3. Same(next, node, next', node', Chain(next, next[f]))
    BY <2>1, <2>2, StackFacts, ChainClosed DEF Same
  <2>4. next' \in [Handle -> Ptr]
    BY DEF TypeOK
  <2>5. PathFrom(next', node', next[f]) = PathFrom(next, node, next[f])
    BY <2>2, <2>3, <2>4, StackFacts, PathFrame
  <2> QED
    BY <1>2, <1>3, <1>4, <2>1, <2>5
<1>5. CASE next[f] = NULL
  BY <1>2, <1>3, <1>5 DEF WalkUp, pool
<1> QED
  BY <1>4, <1>5

(* A handle taken from the pool is not one of the list a handler has, and  *)
(* that list stays as it is.                                               *)
LEMMA FreshTop ==
  ASSUME TypeOK, IInv, NEW h \in Handle, NEW c \in Node, GetFile(h, c)
  PROVE  /\ h \notin Chain(next, f)
         /\ node'[h] = c
         /\ Linked \in [Handle -> Ptr]
         /\ \A k \in Chain(next, f) : Linked[k] = next[k] /\ node'[k] = node[k]
<1>1. Heap
  BY DEF IInv, Heap
<1>2. /\ Linked \in Nexts
      /\ HeapOK(h, top', Linked, nref, Roots)
      /\ h # NULL
      /\ h \in Ptr
      /\ top' \in Ptr
      /\ \A k \in Handle \ {h} : node'[k] = node[k]
      /\ \A x \in Holder : \A k \in Chain(next, Roots[x]) : Linked[k] = next[k]
  BY <1>1, Allocated, HandlePtr
<1>3. \A k \in Chain(next, f) : Linked[k] = next[k]
  BY <1>2, HeapTypes
<1>4. Chain(Linked, f) = Chain(next, f)
  BY <1>2, <1>3, StackFacts, ChainFrame DEF Nexts
<1>5. h \notin Chain(Linked, f)
  <2>1. h \notin Chain(Linked, Roots[Server])
    BY <1>2, HeapTypes, FreshHead
  <2> QED
    BY <2>1, HeapTypes
<1>6. node'[h] = c
  BY DEF GetFile, TypeOK
<1>7. \A k \in Chain(next, f) : k \in Handle \ {h}
  BY <1>4, <1>5, StackFacts, ChainClosed
<1> QED
  BY <1>2, <1>3, <1>4, <1>5, <1>6, <1>7 DEF Nexts

LEMMA IntoFrame ==
  ASSUME TypeOK, TypeOK', IInv, NEW h \in Handle, NEW c \in Node, GetFile(h, c),
         NEW n \in Ptr, next' = [Linked EXCEPT ![h] = n]
  PROVE  /\ h \notin Chain(next, f)
         /\ next'[h] = n
         /\ node'[h] = c
         /\ Same(next, node, next', node', Chain(next, f))
<1>1. /\ h \notin Chain(next, f)
      /\ node'[h] = c
      /\ Linked \in [Handle -> Ptr]
      /\ \A k \in Chain(next, f) : Linked[k] = next[k] /\ node'[k] = node[k]
  BY FreshTop
<1>2. next'[h] = n /\ \A k \in Handle \ {h} : next'[k] = Linked[k]
  BY <1>1
<1> QED
  BY <1>1, <1>2, StackFacts, ChainClosed DEF Same

(* What a running walk holds is what the name leads to: a name found. *)
LEMMA IntoPath ==
  ASSUME TypeOK, TypeOK', IInv, WalkInto
  PROVE  PathFrom(next', node', f') =
           Paths!WalkName(PathFrom(next, node, f), NextName)
<1> DEFINE p == PathFrom(next, node, f)
<1>1. f \in Handle /\ f # NULL
  BY StackFacts, PtrHandle DEF WalkInto
<1>2. PICK h \in Handle, c \in Node :
        /\ Finds(node[f], NextName, c)
        /\ GetFile(h, c)
        /\ next' = [Linked EXCEPT ![h] = IF NextName = DOT THEN NULL ELSE f]
        /\ f' = IF NextName = DOT THEN f ELSE h
  BY DEF WalkInto
<1> DEFINE n == IF NextName = DOT THEN NULL ELSE f
<1>3. n \in Ptr
  BY StackFacts, PtrHandle
<1>4. /\ h \notin Chain(next, f)
      /\ next'[h] = n
      /\ node'[h] = c
      /\ Same(next, node, next', node', Chain(next, f))
  <2> HIDE DEF n
  <2>1. next' = [Linked EXCEPT ![h] = n]
    BY <1>2 DEF n
  <2> QED
    BY <1>2, <1>3, <2>1, IntoFrame
<1>5. next' \in [Handle -> Ptr]
  BY DEF TypeOK
<1>6. PathFrom(next', node', f) = p
  BY <1>4, <1>5, StackFacts, PathFrame
<1>7. p # <<>> /\ p[1] = node[f]
  BY <1>1, TopNode
<1>8. Paths!WalkName(p, NextName) = IF NextName = DOT THEN p ELSE Cons(c, p)
  <2> HIDE DEF p
  <2> QED
    BY <1>2, <1>7, NameFound DEF WalkInto
<1>9. CASE NextName = DOT
  BY <1>2, <1>6, <1>8, <1>9
<1>10. CASE NextName # DOT
  <2>1. f' = h /\ next'[h] = f
    BY <1>2, <1>4, <1>10
  <2>2. Acyclic(next', h)
    BY <1>4, <1>5, <2>1, StackFacts, ChainPush DEF Same
  <2>3. PathFrom(next', node', h) = Cons(node'[h], PathFrom(next', node', next'[h]))
    BY <1>5, <2>2, PathUnfold
  <2> QED
    BY <1>4, <1>6, <1>8, <1>10, <2>1, <2>3
<1> QED
  BY <1>9, <1>10

(* Where WalkOK says a running walk is. *)
Reached == Paths!Steps(PathOf[req.fid], req.names)[req.i]

(* A walk that takes a name is where the name leads. *)
LEMMA TakesName ==
  ASSUME TypeOK, TypeOK', IInv, WalkOK, WalkUp \/ WalkInto
  PROVE  WalkOK'
<1>1. /\ pc = "walk" /\ pc' = "walk"
      /\ req \in Request
      /\ req.op = "walk"
      /\ req.fid \in fids /\ req.fid \in Fid
      /\ req.i < Len(req.names)
      /\ req.i \in Nat
      /\ Len(req.names) \in Nat
      /\ PathFrom(next, node, f) = Reached
  BY DEF WalkUp, WalkInto, InWalk, WalkOK, Reached, IInv, ServingOK, Request
<1>2. /\ req'.op = "walk"
      /\ req'.fid = req.fid
      /\ req'.names = req.names
      /\ req'.i = req.i + 1
  BY <1>1 DEF WalkUp, WalkInto, Advance, Request
<1>3. PathOf' = PathOf /\ fids' = fids
  BY PathsKept DEF WalkUp, WalkInto, table, Next, Serve
<1>4. PathFrom(next', node', f') =
        Paths!WalkName(PathFrom(next, node, f), NextName)
  BY UpPath, IntoPath
<1>5. Reached' = Paths!WalkName(Reached, NextName)
  <2> DEFINE p == PathOf[req.fid]
             ns == req.names
             k == req.i + 1
  <2>1. k \in 1..Len(ns) /\ k - 1 = req.i
    BY <1>1
  <2>2. Paths!Steps(p, ns)[k] = Paths!WalkName(Paths!Steps(p, ns)[k - 1], ns[k])
    <3> HIDE DEF p, k
    <3> QED
      BY <1>1, <2>1, StepsAre
  <2> QED
    BY <1>2, <1>3, <2>1, <2>2 DEF Reached, NextName
<1>6. req'.i \in 0..Len(req'.names)
  BY <1>1, <1>2
<1> QED
  BY <1>1, <1>2, <1>3, <1>4, <1>5, <1>6 DEF WalkOK, Reached

(* A walk that misses a name leads nowhere. *)
LEMMA MissesName ==
  ASSUME TypeOK, TypeOK', IInv, WalkOK, ~SameFidWalk, WalkMiss
  PROVE  WalkOK'
<1> DEFINE p == PathOf[req.fid]
           ns == req.names
           k == req.i + 1
<1>1. /\ pc = "walk" /\ pc' = "release"
      /\ req \in Request
      /\ req.newfid \notin fids
      /\ Len(ns) \in Nat
      /\ k \in 1..Len(ns) /\ k - 1 = req.i
      /\ PathFrom(next, node, f) = Paths!Steps(p, ns)[k - 1]
  BY DEF WalkMiss, InWalk, WalkOK, IInv, ServingOK, Request
<1>2. req' = req /\ fids' = fids
  BY DEF WalkMiss, table
<1>3. PathOf' = PathOf
  BY PathsKept DEF WalkMiss, Next, Serve
<1>4. f \in Handle
  BY StackFacts, PtrHandle DEF WalkMiss
<1>6. PathFrom(next, node, f) # <<>> /\ PathFrom(next, node, f)[1] = node[f]
  BY <1>4, TopNode
<1>7. Paths!WalkName(PathFrom(next, node, f), NextName) = <<>>
  <2> DEFINE q == PathFrom(next, node, f)
  <2>1. q # <<>> /\ \A c \in Node : ~Finds(q[1], NextName, c)
    BY <1>6 DEF WalkMiss
  <2> HIDE DEF q
  <2>2. Paths!WalkName(q, NextName) = <<>>
    BY <2>1, NameMissing DEF WalkMiss
  <2> QED
    BY <2>2 DEF q
<1>8. Paths!Steps(p, ns)[k] = Paths!WalkName(Paths!Steps(p, ns)[k - 1], ns[k])
  <2> HIDE DEF p, k
  <2> QED
    BY <1>1, StepsAre
<1>9. Paths!Steps(p, ns)[k] = <<>>
  BY <1>1, <1>7, <1>8 DEF NextName
<1>10. Paths!Resolve(p, ns) = <<>>
  <2> HIDE DEF p, k, ns
  <2>1. k \in 0..Len(ns)
    BY <1>1
  <2> QED
    BY <1>1, <1>9, <2>1, NowhereStays
<1> QED
  BY <1>1, <1>2, <1>3, <1>10 DEF WalkOK

LEMMA StepWalkOK ==
  ASSUME TypeOK, TypeOK', Serving', IInv, WalkOK, ~SameFidWalk, [Next]_vars
  PROVE  WalkOK'
<1>1. ASSUME pc' \notin {"walk", "list", "release"}
      PROVE  WalkOK'
  BY <1>1 DEF WalkOK
<1>2. ASSUME NEW x \in Fid, NEW y \in Fid, NEW ns \in Names, Walk(x, y, ns)
      PROVE  WalkOK'
  <2>1. /\ pc' = "walk"
        /\ req' = [op |-> "walk", fid |-> x, newfid |-> y, names |-> ns, i |-> 0]
        /\ x \in fids /\ fids' = fids
        /\ f' = aux[x] /\ aux' = aux
        /\ next' = next /\ node' = node
    BY <1>2 DEF Walk, table
  <2>2. Len(ns) \in Nat
    BY <2>1 DEF Serving, Request
  <2>3. PathOf'[x] = PathFrom(next', node', f')
    BY <2>1, PathOfIs
  <2>4. Paths!Steps(PathOf'[x], ns)[0] = PathOf'[x]
    BY <2>2, StepsAre
  <2> QED
    BY <2>1, <2>2, <2>3, <2>4 DEF WalkOK
<1>3. ASSUME NEW x \in Fid, Clunk(x) \/ ReadDir(x)
      PROVE  WalkOK'
  BY <1>3 DEF WalkOK, Clunk, ReadDir
<1>4. CASE WalkUp \/ WalkInto
  BY <1>4, TakesName
<1>5. CASE WalkMiss
  BY <1>5, MissesName
<1>6. CASE WalkDoneSameFid
  BY <1>6 DEF WalkDoneSameFid, WalkOK, IInv, ServingOK
<1>7. CASE Release
  <2>1. /\ pc = "release" /\ pc' = "release"
        /\ req' = req /\ fids' = fids
    BY <1>7 DEF Release, table
  <2>2. PathOf' = PathOf
    BY <1>7, PathsKept DEF Release, Next, Serve
  <2> QED
    BY <2>1, <2>2 DEF WalkOK
<1>8. CASE ListEntry \/ ListNothing
  <2>1. /\ pc = "list" /\ pc' = "list"
        /\ req \in Request
        /\ req.op # "walk"
    BY <1>8 DEF ListEntry, ListNothing, InList, WalkOK, IInv, ServingOK
  <2>2. req'.op = req.op
    BY <1>8, <2>1 DEF ListEntry, ListNothing, Advance, Request
  <2> QED
    BY <2>1, <2>2 DEF WalkOK
<1>9. CASE ListDone
  BY <1>9 DEF ListDone, WalkOK
<1>10. CASE UNCHANGED vars
  <2>1. PathOf' = PathOf
    BY <1>10, PathsKept DEF vars
  <2> QED
    BY <1>10, <2>1 DEF vars, pool, table, handler, WalkOK
<1>11. ASSUME NEW x \in Fid, Attach(x) \/ UseNull(x) \/ CloneAborts(x)
       PROVE  WalkOK'
  BY <1>1, <1>11 DEF Attach, UseNull, CloneAborts, handler
<1>12. CASE WalkNull \/ WalkDone \/ Released
  BY <1>1, <1>12 DEF WalkNull, WalkDone, Released
<1> QED
  BY <1>2, <1>3, <1>4, <1>5, <1>6, <1>7, <1>8, <1>9, <1>10, <1>11, <1>12
     DEF Next, Serve, RemoveNull, StatNull, ReadNull

(* A running walk has done what the names it took say, and nothing else:   *)
(* the loop of p9srv_ops_walk() computes the path the names lead to.       *)
THEOREM WalksCompute ==
  ASSUME ~SameFidWalk
  PROVE  Spec => []WalkOK
<1>1. Init => WalkOK
  BY DEF Init, WalkOK
<1>2. (TypeOK /\ IInv) /\ (TypeOK /\ Serving)' /\ WalkOK /\ [Next]_vars
        => WalkOK'
  BY StepWalkOK
<1> QED
  BY <1>1, <1>2, Invariant, Typed, PTL DEF Spec
-----------------------------------------------------------------------------
(* What the client of a walk sees of it. *)
LEMMA CallIs ==
  /\ pc \notin {"walk", "release"} => CallOf = Paths!NoCall
  /\ req.op # "walk" => CallOf = Paths!NoCall
  /\ pc \in {"walk", "release"} /\ req.op = "walk" =>
       CallOf = [op |-> "walk", fid |-> req.fid, newfid |-> req.newfid,
                 names |-> req.names]
BY DEF CallOf, Walking, Paths!NoCall

LEMMA CallIsNext ==
  /\ pc' \notin {"walk", "release"} => CallOf' = Paths!NoCall
  /\ req'.op # "walk" => CallOf' = Paths!NoCall
  /\ pc' \in {"walk", "release"} /\ req'.op = "walk" =>
       CallOf' = [op |-> "walk", fid |-> req'.fid, newfid |-> req'.newfid,
                  names |-> req'.names]
BY DEF CallOf, Walking, Paths!NoCall

LEMMA CallKept ==
  ASSUME /\ pc \in {"walk", "release"} <=> pc' \in {"walk", "release"}
         /\ req'.op = req.op
         /\ req'.fid = req.fid
         /\ req'.newfid = req.newfid
         /\ req'.names = req.names
  PROVE  CallOf' = CallOf
BY DEF CallOf, Walking

LEMMA InitPaths ==
  ASSUME Init
  PROVE  Paths!Init
<1>1. PathOf = [x \in Fid |-> <<>>]
  BY DEF Init, PathOf
<1>2. CallOf = Paths!NoCall
  BY CallIs DEF Init
<1> QED
  BY <1>1, <1>2 DEF Paths!Init

(* Two functions of the fids that agree on each fid are one. *)
LEMMA PathsAre ==
  ASSUME NEW g \in Fid, NEW p, PathOf'[g] = p,
         \A x \in Fid \ {g} : PathOf'[x] = PathOf[x]
  PROVE  PathOf' = [PathOf EXCEPT ![g] = p]
BY DEF PathOf

(* A fid in use stands for a path. *)
LEMMA InUsePath ==
  ASSUME TypeOK, IInv, ~SameFidWalk, NEW x \in fids
  PROVE  PathOf[x] # <<>>
<1>1. /\ x \in Fid
      /\ aux[x] \in Handle
  BY PtrHandle, StackFacts DEF TypeOK, IInv, StacksOK
<1>2. PathFrom(next, node, aux[x]) # <<>>
  BY <1>1, StackFacts, PathShape
<1> QED
  BY <1>1, <1>2, PathOfIs

LEMMA AttachPaths ==
  ASSUME TypeOK, TypeOK', IInv, IInv', NEW x \in Fid, Attach(x)
  PROVE  Paths!Attach(x)
<1>1. PICK h \in Handle : /\ GetFile(h, Root)
                          /\ next' = [Linked EXCEPT ![h] = NULL]
                          /\ aux' = [aux EXCEPT ![x] = h]
  BY DEF Attach
<1>2. /\ next'[h] = NULL
      /\ node'[h] = Root
      /\ aux'[x] = h
      /\ fids' = fids \cup {x}
      /\ x \notin fids
      /\ \A y \in Fid \ {x} : aux'[y] = aux[y]
  <2>1. NULL \in Ptr /\ Root \in Node
    BY TreeAssumption, PtrHandle
  <2>2. next'[h] = NULL /\ node'[h] = Root
    BY <1>1, <2>1, IntoFrame
  <2>3. aux \in [Fid -> Ptr]
    BY DEF TypeOK
  <2> QED
    BY <1>1, <2>2, <2>3 DEF Attach
<1>3. PathOf'[x] = <<Root>>
  <2>1. next' \in [Handle -> Ptr] /\ Acyclic(next', h)
    BY <1>2, HeapTypesNext DEF TypeOK, IInv, HeapOK, Holder
  <2>2. PathFrom(next', node', h) = Cons(Root, <<>>)
    BY <1>2, <2>1, PathUnfold, PathNull
  <2>3. Cons(Root, <<>>) = <<Root>>
    BY TreeAssumption DEF Cons
  <2> QED
    BY <1>2, <2>2, <2>3, PathOfIs
<1>4. \A y \in Fid \ {x} : PathOf'[y] = PathOf[y]
  BY <1>2, PathKept DEF Next
<1>5. PathOf' = [PathOf EXCEPT ![x] = <<Root>>]
  BY <1>3, <1>4, PathsAre
<1>6. CallOf = Paths!NoCall /\ CallOf' = CallOf
  BY CallIs, CallIsNext DEF Attach, handler
<1>7. PathOf[x] = <<>>
  BY <1>2, PathOfIs
<1> QED
  BY <1>5, <1>6, <1>7 DEF Paths!Attach

LEMMA ClunkPaths ==
  ASSUME TypeOK, TypeOK', IInv, ~SameFidWalk, NEW x \in Fid, Clunk(x)
  PROVE  Paths!Clunk(x)
<1>1. /\ fids' = fids \ {x}
      /\ x \in fids
      /\ \A y \in Fid \ {x} : aux'[y] = aux[y]
      /\ req'.op = "clunk"
      /\ pc = "idle"
  BY DEF Clunk, TypeOK
<1>2. PathOf'[x] = <<>>
  BY <1>1, PathOfIs
<1>3. \A y \in Fid \ {x} : PathOf'[y] = PathOf[y]
  BY <1>1, PathKept DEF Next
<1>4. PathOf' = [PathOf EXCEPT ![x] = <<>>]
  BY <1>2, <1>3, PathsAre
<1>5. CallOf = Paths!NoCall /\ CallOf' = CallOf
  BY <1>1, CallIs, CallIsNext
<1>6. PathOf[x] # <<>>
  BY <1>1, InUsePath
<1> QED
  BY <1>4, <1>5, <1>6 DEF Paths!Clunk

LEMMA WalkPaths ==
  ASSUME TypeOK, TypeOK', IInv, ~SameFidWalk, NEW x \in Fid, NEW y \in Fid,
         NEW ns \in Names, Walk(x, y, ns)
  PROVE  Paths!BeginWalk(x, y)
<1>1. /\ pc = "idle" /\ pc' = "walk"
      /\ x \in fids /\ y \notin fids
      /\ req' = [op |-> "walk", fid |-> x, newfid |-> y, names |-> ns, i |-> 0]
  BY DEF Walk
<1>2. PathOf' = PathOf
  BY PathsKept DEF Walk, Next
<1>3. CallOf = Paths!NoCall
  BY <1>1, CallIs
<1>4. CallOf' = [op |-> "walk", fid |-> x, newfid |-> y, names |-> ns]
  BY <1>1, CallIsNext
<1>5. PathOf[x] # <<>> /\ PathOf[y] = <<>>
  BY <1>1, InUsePath, PathOfIs
<1>6. ns \in Paths!Names
  BY DEF Names, Paths!Names
<1> QED
  BY <1>2, <1>3, <1>4, <1>5, <1>6 DEF Paths!BeginWalk

LEMMA WalkDonePaths ==
  ASSUME TypeOK, TypeOK', IInv, WalkOK, ~SameFidWalk, WalkDone
  PROVE  Paths!EndWalk
<1>1. /\ pc = "walk" /\ pc' = "idle"
      /\ req \in Request
      /\ req.op = "walk"
      /\ req.fid \in Fid /\ req.newfid \in Fid
      /\ req.i = Len(req.names)
      /\ PathFrom(next, node, f) = Reached
  BY DEF WalkDone, WalkOK, Reached, IInv, ServingOK, Request
<1>2. /\ aux'[req.newfid] = f
      /\ \A x \in Fid \ {req.newfid} : aux'[x] = aux[x]
      /\ fids' = fids \cup {req.newfid}
      /\ next' = next /\ node' = node
  BY <1>1 DEF WalkDone, TypeOK, pool
<1>3. PathOf'[req.newfid] = Paths!Resolve(PathOf[req.fid], req.names)
  <2>1. PathOf'[req.newfid] = PathFrom(next, node, f)
    BY <1>1, <1>2, PathOfIs
  <2> QED
    BY <1>1, <2>1 DEF Reached, Paths!Resolve
<1>4. \A x \in Fid \ {req.newfid} : PathOf'[x] = PathOf[x]
  BY <1>2, PathKept DEF Next, Serve
<1>5. PathOf' =
        [PathOf EXCEPT ![req.newfid] = Paths!Resolve(PathOf[req.fid], req.names)]
  BY <1>1, <1>3, <1>4, PathsAre
<1>6. /\ CallOf = [op |-> "walk", fid |-> req.fid, newfid |-> req.newfid,
                   names |-> req.names]
      /\ CallOf' = Paths!NoCall
  BY <1>1, CallIs, CallIsNext
<1>7. CallOf # Paths!NoCall
  BY <1>6 DEF Paths!NoCall
<1> QED
  BY <1>5, <1>6, <1>7 DEF Paths!EndWalk

LEMMA FailedWalkPaths ==
  ASSUME TypeOK, TypeOK', IInv, WalkOK, Released, req.op = "walk"
  PROVE  Paths!EndWalk
<1>1. /\ pc = "release" /\ pc' = "idle"
      /\ req \in Request
      /\ req.newfid \in Fid
      /\ req.newfid \notin fids
      /\ Paths!Resolve(PathOf[req.fid], req.names) = <<>>
  BY DEF Released, WalkOK, IInv, ServingOK, Request
<1>2. PathOf' = PathOf
  BY PathsKept DEF Released, Next, Serve
<1>3. PathOf' =
        [PathOf EXCEPT ![req.newfid] = Paths!Resolve(PathOf[req.fid], req.names)]
  <2>1. PathOf'[req.newfid] = <<>>
    BY <1>1, <1>2, PathOfIs
  <2> QED
    BY <1>1, <1>2, <2>1, PathsAre
<1>4. /\ CallOf = [op |-> "walk", fid |-> req.fid, newfid |-> req.newfid,
                   names |-> req.names]
      /\ CallOf' = Paths!NoCall
  BY <1>1, CallIs, CallIsNext
<1>5. CallOf # Paths!NoCall
  BY <1>4 DEF Paths!NoCall
<1> QED
  BY <1>3, <1>4, <1>5 DEF Paths!EndWalk

(* The other steps are not seen: they leave the paths and the call alone. *)
LEMMA HiddenStep ==
  ASSUME TypeOK, TypeOK', IInv, WalkOK, ~SameFidWalk,
         \/ WalkUp \/ WalkInto \/ WalkMiss \/ Release
         \/ ListEntry \/ ListNothing \/ ListDone
         \/ \E x \in Fid : ReadDir(x) \/ UseNull(x) \/ CloneAborts(x)
         \/ Released /\ req.op # "walk"
         \/ UNCHANGED vars
  PROVE  PathOf' = PathOf /\ CallOf' = CallOf
<1>1. PathOf' = PathOf
  <2>1. UNCHANGED table
    BY DEF WalkUp, WalkInto, WalkMiss, Release, ListEntry, ListNothing, ListDone,
           ReadDir, UseNull, CloneAborts, Released, vars
  <2>2. [Next]_vars
    BY DEF Next, Serve
  <2> QED
    BY <2>1, <2>2, PathsKept
<1>2. CASE WalkUp \/ WalkInto
  <2>1. pc = "walk" /\ pc' = "walk" /\ req \in Request /\ Advance
    BY <1>2 DEF WalkUp, WalkInto, InWalk, IInv, ServingOK
  <2>2. /\ req'.op = req.op /\ req'.fid = req.fid
        /\ req'.newfid = req.newfid /\ req'.names = req.names
    BY <2>1 DEF Advance, Request
  <2> QED
    BY <1>1, <2>1, <2>2, CallKept
<1>3. CASE WalkMiss \/ Release
  BY <1>1, <1>3, CallKept DEF WalkMiss, InWalk, Release
<1>4. CASE ListEntry \/ ListNothing \/ ListDone
  <2>1. pc = "list" /\ req \in Request /\ req.op # "walk"
    BY <1>4 DEF ListEntry, ListNothing, ListDone, InList, WalkOK, IInv, ServingOK
  <2>2. req'.op # "walk"
    BY <1>4, <2>1 DEF ListEntry, ListNothing, ListDone, Advance, Request
  <2> QED
    BY <1>1, <2>1, <2>2, CallIs, CallIsNext
<1>5. CASE \E x \in Fid : ReadDir(x)
  <2>1. pc = "idle" /\ req'.op # "walk"
    BY <1>5 DEF ReadDir
  <2> QED
    BY <1>1, <2>1, CallIs, CallIsNext
<1>6. CASE \E x \in Fid : UseNull(x) \/ CloneAborts(x)
  <2>1. pc = "idle" /\ pc' \in {"segv", "abort"}
    BY <1>6 DEF UseNull, CloneAborts
  <2> QED
    BY <1>1, <2>1, CallIs, CallIsNext
<1>7. CASE Released /\ req.op # "walk"
  <2>1. pc' = "idle"
    BY <1>7 DEF Released
  <2> QED
    BY <1>1, <1>7, <2>1, CallIs, CallIsNext
<1>8. CASE UNCHANGED vars
  BY <1>1, <1>8, CallKept DEF vars, handler
<1> QED
  BY <1>2, <1>3, <1>4, <1>5, <1>6, <1>7, <1>8

LEMMA StepPaths ==
  ASSUME TypeOK, TypeOK', IInv, IInv', WalkOK, ~SameFidWalk, [Next]_vars
  PROVE  [Paths!Next]_(Paths!vars)
<1>1. ASSUME NEW x \in Fid, Attach(x) \/ Clunk(x)
      PROVE  Paths!Next
  BY <1>1, AttachPaths, ClunkPaths DEF Paths!Next
<1>2. ASSUME NEW x \in Fid, NEW y \in Fid, NEW ns \in Names, Walk(x, y, ns)
      PROVE  Paths!Next
  BY <1>2, WalkPaths DEF Paths!Next
<1>3. ASSUME WalkDone \/ (Released /\ req.op = "walk")
      PROVE  Paths!Next
  BY <1>3, WalkDonePaths, FailedWalkPaths DEF Paths!Next
<1>4. ASSUME \/ WalkUp \/ WalkInto \/ WalkMiss \/ Release
             \/ ListEntry \/ ListNothing \/ ListDone
             \/ \E x \in Fid : ReadDir(x) \/ UseNull(x) \/ CloneAborts(x)
             \/ Released /\ req.op # "walk"
             \/ UNCHANGED vars
      PROVE  UNCHANGED Paths!vars
  BY <1>4, HiddenStep DEF Paths!vars
<1>5. ~WalkNull
  BY DEF WalkNull, InWalk, IInv, StacksOK
<1>6. ~WalkDoneSameFid
  BY DEF WalkDoneSameFid, WalkOK, IInv, ServingOK
<1> QED
  BY <1>1, <1>2, <1>3, <1>4, <1>5, <1>6 DEF Next, Serve, RemoveNull,
         StatNull, ReadNull

(* Where no client walks onto the same fid, clients see paths: every       *)
(* attach, walk and clunk does to the paths of the fids what FidPaths says *)
(* of it, a walk at once when it is answered, and nothing else is seen.    *)
THEOREM ServesPaths ==
  ASSUME ~SameFidWalk
  PROVE  Spec => ImplementsPaths
<1>1. Init => Paths!Init
  BY InitPaths
<1>2. (TypeOK /\ IInv) /\ (TypeOK /\ IInv)' /\ WalkOK /\ [Next]_vars
        => [Paths!Next]_(Paths!vars)
  BY StepPaths
<1> QED
  BY <1>1, <1>2, Invariant, WalksCompute, PTL
     DEF Spec, ImplementsPaths, Paths!Safety
-----------------------------------------------------------------------------
(* The list of a directory read *)

(* Likewise for a list that has grown at its end. *)
Snoc(s, x) == Append(s, x)

LEMMA ConsAppend ==
  ASSUME NEW S, NEW x \in S, NEW y \in S, NEW s \in Seq(S)
  PROVE  Cons(x, Snoc(s, y)) = Snoc(Cons(x, s), y)
BY DEF Cons, Snoc

LEMMA ConsOne ==
  ASSUME NEW S, NEW x \in S, NEW y \in S
  PROVE  Cons(x, Cons(y, <<>>)) = Snoc(Cons(x, <<>>), y)
BY DEF Cons, Snoc

(* The heap my, me has handle h behind e, the end of the list nx, nd has at *)
(* p, and is the same along that list.                                     *)
Appended(nx, nd, my, me, p, e, h) ==
  /\ \E S : nd \in [Handle -> S] /\ me \in [Handle -> S]
  /\ e \in Chain(nx, p) /\ nx[e] = NULL
  /\ h \in Handle /\ h \notin Chain(nx, p)
  /\ my[e] = h /\ my[h] = NULL
  /\ \A k \in Chain(nx, p) \ {e} : my[k] = nx[k]
  /\ \A k \in Chain(nx, p) : me[k] = nd[k]

LEMMA AppendedChain ==
  ASSUME NEW nx \in [Handle -> Ptr], NEW my \in [Handle -> Ptr], NEW nd, NEW me,
         NEW p \in Ptr, NEW e, NEW h, Appended(nx, nd, my, me, p, e, h),
         Acyclic(nx, p)
  PROVE  /\ Chain(my, p) = Chain(nx, p) \cup {h}
         /\ Acyclic(my, p)
<1>1. /\ e \in Chain(nx, p) /\ nx[e] = NULL
      /\ h \in Handle /\ h \notin Chain(nx, p)
      /\ my[e] = h /\ my[h] = NULL
  BY DEF Appended
<1>2. \A k \in Chain(nx, p) \ {e} : my[k] = nx[k]
  BY DEF Appended
<1> QED
  BY <1>1, <1>2, ChainAppend, SMTT(60)

(* A handle that is appended to a list comes last in its path. *)
LEMMA PathAppend ==
  ASSUME NEW nx \in [Handle -> Ptr], NEW my \in [Handle -> Ptr], NEW nd, NEW me,
         NEW p \in Ptr, NEW e, NEW h, Appended(nx, nd, my, me, p, e, h),
         Acyclic(nx, p)
  PROVE  PathFrom(my, me, p) = Snoc(PathFrom(nx, nd, p), me[h])
<1>0. /\ Chain(my, p) = Chain(nx, p) \cup {h}
      /\ Acyclic(my, p)
  BY AppendedChain
<1>1. /\ e \in Chain(nx, p) /\ nx[e] = NULL
      /\ h \in Handle /\ h \notin Chain(nx, p)
      /\ my[e] = h /\ my[h] = NULL
      /\ \A k \in Chain(nx, p) \ {e} : my[k] = nx[k]
      /\ \A k \in Chain(nx, p) : me[k] = nd[k]
  BY DEF Appended
<1> PICK S : nd \in [Handle -> S] /\ me \in [Handle -> S]
  BY DEF Appended
<1> DEFINE old(q) == PathFrom(nx, nd, q)
           new(q) == PathFrom(my, me, q)
           G == {q \in Ptr : q \in Chain(nx, p) /\ e \in Chain(nx, q)
                               => new(q) = Snoc(old(q), me[h])}
<1>2. Chain(nx, p) \subseteq Handle
  BY ChainClosed
<1>3. NULL \in G
  BY ChainNull, PtrHandle
<1>4. ASSUME NEW q \in Handle, nx[q] \in G
      PROVE  q \in G
  <2> SUFFICES ASSUME q \in Chain(nx, p), e \in Chain(nx, q)
               PROVE  new(q) = Snoc(old(q), me[h])
    BY PtrHandle
  <2>1. Acyclic(nx, q) /\ Acyclic(my, q)
    BY <1>0, AcyclicSub
  <2>2. old(q) = Cons(nd[q], old(nx[q]))
    BY <2>1, PathUnfold
  <2>3. new(q) = Cons(nd[q], new(my[q]))
    BY <1>1, <2>1, PathUnfold
  <2>4. nd[q] \in S /\ me[h] \in S
    BY <1>1
  <2>5. CASE q = e
    <3>1. old(NULL) = <<>> /\ new(NULL) = <<>>
      BY PathNull
    <3>2. Acyclic(my, h)
      BY <1>0, <1>1, AcyclicSub
    <3>3. new(h) = Cons(me[h], new(my[h]))
      BY <1>1, <3>2, PathUnfold
    <3>4. new(q) = Cons(nd[q], Cons(me[h], <<>>)) /\ old(q) = Cons(nd[q], <<>>)
      BY <1>1, <2>2, <2>3, <2>5, <3>1, <3>3
    <3> HIDE DEF old, new
    <3> QED
      BY <2>4, <3>4, ConsOne
  <2>6. CASE q # e
    <3>1. e \in Chain(nx, nx[q])
      BY <2>6, ChainUnfold
    <3>2. nx[q] # NULL
      BY <3>1, ChainNull
    <3>3. nx[q] \in Chain(nx, p)
      BY <3>2, ChainClosed DEF IsClosed
    <3>4. new(nx[q]) = Snoc(old(nx[q]), me[h])
      BY <1>4, <3>1, <3>3
    <3>5. my[q] = nx[q]
      BY <1>1, <2>6
    <3>6. old(nx[q]) \in Seq(S)
      BY <2>1, AcyclicTail, PathType
    <3> HIDE DEF old, new
    <3>7. Cons(nd[q], Snoc(old(nx[q]), me[h])) = Snoc(Cons(nd[q], old(nx[q])), me[h])
      BY <2>4, <3>6, ConsAppend
    <3> QED
      BY <2>2, <2>3, <3>4, <3>5, <3>7
  <2> QED
    BY <2>5, <2>6
<1>5. p \in G
  <2> HIDE DEF G
  <2> QED
    BY <1>3, <1>4, ListInduction
<1>6. p # NULL
  BY <1>1, ChainNull
<1>7. p \in Chain(nx, p)
  BY <1>6, ChainSelf, PtrHandle
<1> QED
  BY <1>1, <1>5, <1>7

(* The entries of the directory that is read stay the same. *)
LEMMA ListedKept ==
  ASSUME TypeOK, IInv, [Next]_vars, pc = "list", aux' = aux, req'.fid = req.fid
  PROVE  Listed' = Listed
<1>1. /\ req.fid \in Fid
      /\ aux[req.fid] \in Handle
  BY PtrHandle DEF TypeOK, IInv, ServingOK, ListOK, Request
<1>2. aux[req.fid] \in Chain(next, aux[req.fid])
  BY <1>1, StackFacts, ChainSelf
<1>3. Holders(aux[req.fid]) \cap Fid # {}
  BY <1>1, <1>2, HeapTypes DEF Holders, HeldBy
<1>4. node'[aux[req.fid]] = node[aux[req.fid]]
  BY <1>1, <1>3, StepFrozen
<1> QED
  BY <1>4 DEF Listed

(* A list of n members with one more at its end. *)
LEMMA OneMore ==
  ASSUME NEW S, NEW s \in Seq(S), NEW n \in Nat, Len(s) = n, NEW y \in S
  PROVE  /\ Len(Snoc(s, y)) = n + 1
         /\ \A x \in 1..n : Snoc(s, y)[x] = s[x]
         /\ Snoc(s, y)[n + 1] = y
BY DEF Snoc

LEMMA ListEntryOrdered ==
  ASSUME TypeOK, TypeOK', IInv, IInv', ListInOrder, ListEntry
  PROVE  ListInOrder'
<1> DEFINE made == PathFrom(next, node, f)
           more == PathFrom(next', node', f')
<1>1. PICK h \in Handle, c \in Node :
        /\ Listed[req.i + 1].node = c
        /\ GetFile(h, c)
        /\ next' = [k \in Handle |-> IF k = h THEN NULL
                                     ELSE IF k = fh THEN h ELSE Linked[k]]
        /\ f' = IF fh = NULL THEN h ELSE f
        /\ fh' = h
  BY DEF ListEntry
<1>2. /\ pc = "list" /\ req \in Request /\ aux' = aux
      /\ req'.fid = req.fid /\ req'.i = req.i + 1 /\ req.i \in Nat
  BY DEF ListEntry, InList, Advance, table, IInv, ServingOK, Request
<1>3. Listed' = Listed
  BY <1>2, ListedKept DEF Next, Serve
<1> SUFFICES ASSUME \A x \in 1..(req.i + 1) : Listed[x].node # NoNode
             PROVE  /\ Len(more) = req.i + 1
                    /\ \A x \in 1..(req.i + 1) : more[x] = Listed[x].node
  <2>1. h # NULL /\ req.i + 1 # 0
    BY <1>2, PtrHandle
  <2> QED
    BY <1>1, <1>2, <1>3, <2>1 DEF ListInOrder
<1>4. /\ fh = NULL <=> req.i = 0
      /\ Len(made) = req.i
      /\ \A x \in 1..req.i : made[x] = Listed[x].node
  BY <1>2 DEF ListInOrder
<1>5. /\ h \notin Chain(next, f)
      /\ node'[h] = c
      /\ \A k \in Chain(next, f) : Linked[k] = next[k] /\ node'[k] = node[k]
  BY <1>1, FreshTop
<1>6. /\ next' \in [Handle -> Ptr]
      /\ node' \in [Handle -> Node \cup {NoNode}]
      /\ next'[h] = NULL
  BY <1>1 DEF TypeOK
<1>7. made \in Seq(Node \cup {NoNode})
  BY StackFacts, PathType
<1>8. more = Snoc(made, c)
  <2>1. CASE fh = NULL
    <3>1. f' = h
      BY <1>1, <2>1
    <3>2. Acyclic(next', h)
      <4>1. TypeOK' /\ IInv' => Acyclic(next, f)'
        BY StackFacts, PTL
      <4> QED
        BY <3>1, <4>1
    <3>3. more = Cons(c, <<>>)
      BY <1>5, <1>6, <3>1, <3>2, PathUnfold, PathNull
    <3>4. made = <<>>
      BY <1>4, <1>7, <2>1
    <3> QED
      BY <3>3, <3>4 DEF Cons, Snoc
  <2>2. CASE fh # NULL
    <3>1. fh \in Chain(next, f) /\ next[fh] = NULL /\ f' = f
      BY <1>1, <1>2, <2>2 DEF IInv, ListOK
    <3>2. fh \in Handle /\ fh # h
      BY <1>5, <3>1, StackFacts, ChainClosed
    <3>3. /\ next'[fh] = h
          /\ \A k \in Chain(next, f) \ {fh} : next'[k] = next[k]
      BY <1>1, <1>5, <3>2, StackFacts, ChainClosed
    <3>4. /\ next \in [Handle -> Ptr]
          /\ node \in [Handle -> Node \cup {NoNode}]
          /\ f \in Ptr
          /\ Acyclic(next, f)
      BY StackFacts
    <3>5. \A k \in Chain(next, f) : node'[k] = node[k]
      BY <1>5
    <3>6. PathFrom(next', node', f) = Snoc(PathFrom(next, node, f), node'[h])
      <4>1. Appended(next, node, next', node', f, fh, h)
        BY <1>5, <1>6, <3>1, <3>3, <3>4, <3>5 DEF Appended
      <4> QED
        BY <1>6, <3>4, <4>1, PathAppend
    <3> QED
      BY <1>5, <3>1, <3>6
  <2> QED
    BY <2>1, <2>2
<1> HIDE DEF made, more
<1>9. /\ Len(more) = req.i + 1
      /\ \A x \in 1..req.i : more[x] = made[x]
      /\ more[req.i + 1] = c
  BY <1>2, <1>4, <1>7, <1>8, OneMore
<1>10. \A x \in 1..(req.i + 1) : x \in 1..req.i \/ x = req.i + 1
  BY <1>2
<1> QED
  BY <1>1, <1>4, <1>9, <1>10

LEMMA StepOrdered ==
  ASSUME TypeOK, TypeOK', IInv, IInv', ListInOrder, [Next]_vars
  PROVE  ListInOrder'
<1>1. CASE ListEntry
  BY <1>1, ListEntryOrdered
<1>2. CASE ListNothing
  <2>1. /\ req'.i = req.i + 1 /\ req.i \in Nat
        /\ req'.fid = req.fid /\ aux' = aux /\ pc = "list"
        /\ Listed[req.i + 1].node = NoNode
    BY <1>2 DEF ListNothing, InList, Advance, table, IInv, ServingOK, Request
  <2>2. Listed' = Listed
    BY <1>2, <2>1, ListedKept
  <2>3. req'.i \in 1..req'.i
    BY <2>1
  <2> QED
    BY <2>1, <2>2, <2>3 DEF ListInOrder
<1>3. ASSUME NEW x \in Fid, ReadDir(x)
      PROVE  ListInOrder'
  <2>1. /\ f' = NULL /\ fh' = NULL /\ req'.i = 0
    BY <1>3 DEF ReadDir, IInv, ServingOK
  <2>2. PathFrom(next', node', f') = <<>>
    BY <2>1, PathNull DEF TypeOK
  <2>3. Len(<<>>) = 0 /\ 1..0 = {}
    OBVIOUS
  <2> QED
    BY <2>1, <2>2, <2>3 DEF ListInOrder
<1>4. CASE UNCHANGED vars
  BY <1>4 DEF ListInOrder, Listed, vars, pool, table, handler
<1>5. CASE pc' # "list"
  BY <1>5 DEF ListInOrder
<1>6. [Next]_vars => \/ \E x \in Fid : ReadDir(x)
                     \/ ListEntry \/ ListNothing
                     \/ UNCHANGED vars
                     \/ pc' # "list"
  BY DEF Next, Serve, Attach, Clunk, UseNull, RemoveNull, StatNull, ReadNull,
         CloneAborts, Walk, WalkUp, WalkInto, WalkMiss, WalkNull, WalkDone,
         WalkDoneSameFid, Release, Released, ListDone, InWalk, handler
<1> QED
  BY <1>1, <1>2, <1>3, <1>4, <1>5, <1>6

(* Whatever clients do, a directory read packs the entries of its property *)
(* list in their order and none is missing, if getFileHandle() refused     *)
(* none of them.                                                           *)
THEOREM ListsComplete == Spec => []ListInOrder
<1>1. Init => ListInOrder
  BY DEF Init, ListInOrder
<1>2. (TypeOK /\ IInv) /\ (TypeOK /\ IInv)' /\ ListInOrder /\ [Next]_vars => ListInOrder'
  BY StepOrdered
<1> QED
  BY <1>1, <1>2, Invariant, PTL DEF Spec
==============================================================================
