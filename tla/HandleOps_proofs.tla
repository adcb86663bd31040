--------------------------- MODULE HandleOps_proofs ---------------------------
(***************************************************************************)
(* Theorems about HandleOps, for any number of fids, handles, descriptors, *)
(* any choice of constructors and any lengths of strings.                  *)
(***************************************************************************)
EXTENDS HandleOps, FiniteSetTheorems, SequenceTheorems, TLAPS

Maker == {"root", "dir", "plain", "entry", "hostfile", "rostring"}

(* The lengths that a constructor may be called with in Make *)
Lengths(k) == IF k = "rostring" THEN Length ELSE {0}

(* What a constructor makes of a handle from the pool *)
LEMMA ConstructFields ==
  ASSUME NEW k \in Maker, NEW r \in Field, NEW len \in Int, ~r.name, r.priv # "string",
         r.perm = "dir" <=> r.qtype = "dir"
  PROVE  /\ Construct(k, r, len) \in Field
         /\ Construct(k, r, len).ops = "rostring" <=> k = "rostring"
         /\ Construct(k, r, len).priv = "string" <=> k = "rostring"
         /\ Construct(k, r, len).name <=> k \in {"root", "dir", "entry"}
         /\ Construct(k, r, len).ops = "dir" => Construct(k, r, len).perm = "dir"
         /\ Construct(k, r, len).ops = "entry" => Construct(k, r, len).perm = "file"
         /\ Construct(k, r, len).perm = "dir" <=> Construct(k, r, len).qtype = "dir"
         /\ k \notin {"hostfile", "rostring"} => Construct(k, r, len).fd = r.fd
         /\ k = "hostfile" => Construct(k, r, len).fd = -1
<1>1. CASE k = "root"
  BY <1>1 DEF Construct, OpenRoot, Field, Class
<1>2. CASE k = "dir"
  BY <1>2 DEF Construct, CreateList, GetDir, Field, Class
<1>3. CASE k = "plain"
  BY <1>3 DEF Construct, GetFile, Field, Class
<1>4. CASE k = "entry"
  BY <1>4 DEF Construct, CreateEnt, Field, Class
<1>5. CASE k = "hostfile"
  <2> DEFINE s == Construct(k, r, len)
  <2>0. PICK n \in Int : n = -1
    OBVIOUS
  <2>1. s = [r EXCEPT !.ops = "hostfile", !.priv = "path", !.fd = n]
    BY <2>0, <1>5 DEF Construct, HostFileInit
  <2>2. "hostfile" \in Class
    BY DEF Class
  <2>3. /\ s \in Field
        /\ s.ops = "hostfile" /\ s.priv = "path" /\ s.fd = n /\ s.name = r.name
        /\ s.perm = r.perm /\ s.qtype = r.qtype
    BY <2>1, <2>2 DEF Field
  <2> QED
    BY <2>0, <1>5, <2>3
<1>6. CASE k = "rostring"
  BY <1>6 DEF Construct, RoStringInit, Field, Class
<1> QED
  BY <1>1, <1>2, <1>3, <1>4, <1>5, <1>6 DEF Maker

(* What close() leaves in a handle, before its name is freed *)
LEMMA ClosedFields ==
  ASSUME NEW r \in Field, r.ops = "rostring" <=> r.priv = "string"
  PROVE  /\ Closed(r) \in Field
         /\ Closed(r).priv # "string"
         /\ Closed(r).perm = r.perm /\ Closed(r).qtype = r.qtype
         /\ r.ops # "rostring" => Closed(r).fd = r.fd
         /\ r.ops = "rostring" => Closed(r).fd = 0
         /\ FreedByClose(r) + (IF Closed(r).name THEN 1 ELSE 0)
              = (IF r.name THEN 1 ELSE 0) + (IF r.priv = "string" THEN 1 ELSE 0)
<1>1. CASE r.ops = "entry"
  BY <1>1 DEF Closed, FreedByClose, Field, Class
<1>2. CASE r.ops = "rostring"
  <2>0. PICK n \in Int : n = 0
    OBVIOUS
  <2>1. Closed(r) = [r EXCEPT !.priv = "null", !.fd = n]
    BY <2>0, <1>2 DEF Closed
  <2>2. /\ Closed(r) \in Field
        /\ Closed(r).priv = "null" /\ Closed(r).fd = n /\ Closed(r).name = r.name
        /\ Closed(r).perm = r.perm /\ Closed(r).qtype = r.qtype
    BY <2>1 DEF Field
  <2>3. FreedByClose(r) = 1
    BY <1>2 DEF FreedByClose
  <2> QED
    BY <2>0, <1>2, <2>2, <2>3
<1>3. CASE r.ops \notin {"entry", "rostring"}
  BY <1>3 DEF Closed, FreedByClose, Field, Class
<1> QED
  BY <1>1, <1>2, <1>3
-----------------------------------------------------------------------------
(* The initial state *)

LEMMA InitIInv == Init => IInv
<1> SUFFICES ASSUME Init PROVE IInv
  OBVIOUS
<1>1. New \in Field
  BY DEF New, Field, Class
<1>2. TypeOK
  <2>1. free \in Seq(Handle)
    BY HandleOpsAssumption DEF Init, Handle
  <2> QED
    BY <1>1, <2>1 DEF Init, TypeOK
<1>3. \A h \in Handle : ~InUse(h)
  BY HandleOpsAssumption DEF Init, InUse, Handle, NULL
<1>4. PoolOK
  BY <1>3, HandleOpsAssumption DEF Init, PoolOK, Handle
<1>5. FieldsOK
  BY <1>3 DEF Init, FieldsOK, New
<1>6. OwnDescriptor
  BY DEF Init, OwnDescriptor, New
<1>8. KindsOK
  BY DEF Init, KindsOK, New
<1>7. FreedOnce
  <2>1. /\ {h \in Handle : field[h].name} = {}
        /\ {h \in Handle : field[h].priv = "string"} = {}
    BY DEF Init, New
  <2>2. Cardinality({}) = 0
    BY FS_EmptySet
  <2>3. allocs = 0
    BY DEF Init
  <2>4. Cardinality({h \in Handle : field[h].name})
          + Cardinality({h \in Handle : field[h].priv = "string"}) = 0
    BY <2>1, <2>2, Z3
  <2> QED
    BY <2>3, <2>4 DEF FreedOnce
<1> QED
  BY <1>2, <1>4, <1>5, <1>6, <1>7, <1>8 DEF IInv, Init
-----------------------------------------------------------------------------
(* Each action keeps the invariant. *)

(* The handles with some property are finitely many. *)
LEMMA FewHandles ==
  ASSUME NEW S \in SUBSET Handle
  PROVE  IsFiniteSet(S) /\ Cardinality(S) \in Nat
<1>1. IsFiniteSet(Handle)
  BY HandleOpsAssumption, FS_Interval DEF Handle
<1> QED
  BY <1>1, FS_Subset, FS_CardinalityType

(* One more, or one less, handle has it. *)
LEMMA CountAdded ==
  ASSUME NEW S \in SUBSET Handle, NEW h \in Handle, h \notin S
  PROVE  Cardinality(S \cup {h}) = Cardinality(S) + 1
BY FewHandles, FS_AddElement

LEMMA CountRemoved ==
  ASSUME NEW S \in SUBSET Handle, NEW h \in Handle
  PROVE  Cardinality(S \ {h}) = Cardinality(S) - (IF h \in S THEN 1 ELSE 0)
<1>1. Cardinality(S) \in Nat /\ IsFiniteSet(S)
  BY FewHandles
<1>2. Cardinality(S \ {h}) = IF h \in S THEN Cardinality(S) - 1 ELSE Cardinality(S)
  BY <1>1, FS_RemoveElement
<1> QED
  BY <1>1, <1>2

(* What the invariant says of the handle that is next in the pool *)
LEMMA PoolHead ==
  ASSUME IInv, free # <<>>
  PROVE  /\ Head(free) \in Handle
         /\ ~InUse(Head(free))
         /\ ~field[Head(free)].name
         /\ field[Head(free)].priv # "string"
         /\ Tail(free) \in Seq(Handle)
         /\ \A i \in DOMAIN Tail(free) : /\ i + 1 \in DOMAIN free
                                          /\ Tail(free)[i] = free[i + 1]
                                          /\ Tail(free)[i] # Head(free)
<1>1. free \in Seq(Handle)
  BY DEF IInv, TypeOK
<1>2. /\ Head(free) \in Handle /\ Tail(free) \in Seq(Handle)
      /\ Len(Tail(free)) = Len(free) - 1
      /\ \A i \in 1..Len(Tail(free)) : Tail(free)[i] = free[i + 1]
  BY <1>1, HeadTailProperties
<1>3. Len(free) \in Nat \ {0} /\ DOMAIN free = 1..Len(free)
  BY <1>1, EmptySeq, LenProperties
<1>4. Head(free) = free[1] /\ 1 \in DOMAIN free
  BY <1>1, <1>3
<1>5. DOMAIN Tail(free) = 1..(Len(free) - 1)
  BY <1>2, LenProperties
<1>6. ~InUse(Head(free))
  BY <1>4 DEF IInv, PoolOK
<1>7. ~field[Head(free)].name /\ field[Head(free)].priv # "string"
  BY <1>2, <1>6 DEF IInv, FieldsOK
<1>8. ASSUME NEW i \in DOMAIN Tail(free)
      PROVE  /\ i + 1 \in DOMAIN free
             /\ Tail(free)[i] = free[i + 1]
             /\ Tail(free)[i] # Head(free)
  <2>1. i \in 1..Len(Tail(free)) /\ i + 1 \in DOMAIN free /\ i + 1 # 1
    BY <1>2, <1>3, <1>5
  <2>2. free[i + 1] # free[1]
    BY <1>4, <2>1 DEF IInv, PoolOK
  <2> QED
    BY <1>2, <1>4, <2>1, <2>2
<1> QED
  BY <1>2, <1>6, <1>7, <1>8

LEMMA MakeStep ==
  ASSUME IInv, NEW x \in Fid, NEW k \in Made, NEW len \in Lengths(k), Make(x, k, len)
  PROVE  IInv'
<1> DEFINE h == Head(free)
           r == field[h]
           s == Construct(k, r, len)
           A == {g \in Handle : field[g].name}
           B == {g \in Handle : field[g].priv = "string"}
<1>1. /\ h \in Handle /\ ~InUse(h) /\ ~r.name /\ r.priv # "string"
      /\ Tail(free) \in Seq(Handle)
      /\ \A i \in DOMAIN Tail(free) : /\ i + 1 \in DOMAIN free
                                       /\ Tail(free)[i] = free[i + 1]
                                       /\ Tail(free)[i] # h
  BY PoolHead DEF Make
<1>2. r \in Field /\ (r.perm = "dir" <=> r.qtype = "dir")
  BY <1>1 DEF IInv, TypeOK, KindsOK
<1>3. len \in Int /\ k \in Maker
  BY HandleOpsAssumption DEF Lengths, Maker
<1>4. /\ s \in Field
      /\ s.ops = "rostring" <=> k = "rostring"
      /\ s.priv = "string" <=> k = "rostring"
      /\ s.name <=> k \in {"root", "dir", "entry"}
      /\ s.ops = "dir" => s.perm = "dir"
      /\ s.ops = "entry" => s.perm = "file"
      /\ s.perm = "dir" <=> s.qtype = "dir"
      /\ k \notin {"hostfile", "rostring"} => s.fd = r.fd
      /\ k = "hostfile" => s.fd = -1
  BY <1>1, <1>2, <1>3, ConstructFields
<1>5. /\ file[x] = NULL
      /\ file' = [file EXCEPT ![x] = h]
      /\ field' = [field EXCEPT ![h] = s]
      /\ owner' = [d \in Fd |-> IF d \in ClosedByInit(k, r) THEN None ELSE owner[d]]
      /\ free' = Tail(free)
      /\ allocs' = allocs + Dups(k)
      /\ omode' = omode
  BY DEF Make
<1> HIDE DEF s
<1>6. \A g \in Handle : field'[g] = IF g = h THEN s ELSE field[g]
  BY <1>5 DEF IInv, TypeOK
<1>7. \A y \in Fid : file'[y] = IF y = x THEN h ELSE file[y]
  BY <1>5 DEF IInv, TypeOK
<1>8. NULL \notin Handle
  BY HandleOpsAssumption DEF Handle, NULL
<1>9. \A g \in Handle : (\E y \in Fid : file'[y] = g) <=> (g = h \/ InUse(g))
  BY <1>5, <1>7, <1>8 DEF InUse
<1>10. TypeOK'
  <2>1. file' \in [Fid -> Handle \cup {NULL}]
    BY <1>1, <1>5 DEF IInv, TypeOK
  <2>2. field' \in [Handle -> Field]
    BY <1>1, <1>4, <1>5 DEF IInv, TypeOK
  <2>3. owner' \in [Fd -> Handle \cup {Sock, None}]
    BY <1>5 DEF IInv, TypeOK
  <2>4. allocs' \in Int
    BY <1>5 DEF IInv, TypeOK, Dups
  <2> QED
    BY <1>1, <1>5, <2>1, <2>2, <2>3, <2>4 DEF IInv, TypeOK
<1>11. PoolOK'
  <2> SUFFICES ASSUME NEW i \in DOMAIN free'
               PROVE  /\ \A j \in DOMAIN free' : free'[i] = free'[j] => i = j
                      /\ ~\E y \in Fid : file'[y] = free'[i]
    BY DEF PoolOK, InUse
  <2>1. /\ i \in DOMAIN Tail(free) /\ free'[i] = Tail(free)[i]
        /\ i + 1 \in DOMAIN free /\ free'[i] = free[i + 1] /\ free'[i] # h
    BY <1>1, <1>5
  <2>2. free'[i] \in Handle
    BY <1>1, <2>1, ElementOfSeq, LenProperties
  <2>3. ~InUse(free'[i])
    BY <2>1 DEF IInv, PoolOK
  <2>4. ~\E y \in Fid : file'[y] = free'[i]
    BY <1>9, <2>1, <2>2, <2>3
  <2>5. ASSUME NEW j \in DOMAIN free', free'[i] = free'[j]
        PROVE  i = j
    <3>1. j + 1 \in DOMAIN free /\ free'[j] = free[j + 1]
      BY <1>1, <1>5
    <3>2. i + 1 = j + 1
      BY <2>1, <2>5, <3>1 DEF IInv, PoolOK
    <3>3. i \in Nat /\ j \in Nat
      BY <1>1, <1>5, LenProperties
    <3> QED
      BY <3>2, <3>3
  <2> QED
    BY <2>4, <2>5
<1>12. FieldsOK'
  <2>1. ASSUME NEW g \in Handle, g # h
        PROVE  IF \E y \in Fid : file'[y] = g
               THEN /\ field'[g].ops = "rostring" <=> field'[g].priv = "string"
                    /\ field'[g].ops = "dir" => field'[g].perm = "dir"
                    /\ field'[g].ops = "entry" => field'[g].perm = "file"
               ELSE ~field'[g].name /\ field'[g].priv # "string"
    BY <1>6, <1>9, <2>1 DEF IInv, FieldsOK
  <2>2. /\ \E y \in Fid : file'[y] = h
        /\ field'[h].ops = "rostring" <=> field'[h].priv = "string"
        /\ field'[h].ops = "dir" => field'[h].perm = "dir"
        /\ field'[h].ops = "entry" => field'[h].perm = "file"
    BY <1>1, <1>4, <1>6, <1>9
  <2> QED
    BY <2>1, <2>2 DEF FieldsOK, InUse
<1>13. \A y \in Fid : omode'[y] # "none" => file'[y] # NULL
  BY <1>1, <1>5, <1>7, <1>8 DEF IInv
<1>14. OwnDescriptor'
  <2> SUFFICES ASSUME NEW g \in Handle, field'[g].fd > 0,
                      ~((\E y \in Fid : file'[y] = g) /\ field'[g].ops = "rostring")
               PROVE  field'[g].fd \in Fd /\ owner'[field'[g].fd] = g
    BY DEF OwnDescriptor, InUse
  <2>1. r.fd > 0 => r.fd \in Fd /\ owner[r.fd] = h
    BY <1>1 DEF IInv, OwnDescriptor
  <2>2. CASE g = h
    <3>1. k \notin {"hostfile", "rostring"} /\ field'[g].fd = r.fd
      BY <1>1, <1>4, <1>6, <1>9, <2>2
    <3>2. ClosedByInit(k, r) = {}
      BY <3>1 DEF ClosedByInit
    <3> QED
      BY <1>5, <2>1, <2>2, <3>1, <3>2
  <2>3. CASE g # h
    <3>1. field[g].fd \in Fd /\ owner[field[g].fd] = g /\ field'[g] = field[g]
      BY <1>6, <1>9, <2>3 DEF IInv, OwnDescriptor
    <3>2. field[g].fd \notin ClosedByInit(k, r)
      BY <2>1, <2>3, <3>1 DEF ClosedByInit
    <3> QED
      BY <1>5, <3>1, <3>2
  <2> QED
    BY <2>2, <2>3
<1>15. FreedOnce'
  <2> DEFINE A2 == {g \in Handle : field'[g].name}
             B2 == {g \in Handle : field'[g].priv = "string"}
  <2> SUFFICES allocs' = Cardinality(A2) + Cardinality(B2)
    BY DEF FreedOnce
  <2>1. allocs = Cardinality(A) + Cardinality(B)
    BY DEF IInv, FreedOnce
  <2>2. h \notin A /\ h \notin B /\ A \subseteq Handle /\ B \subseteq Handle
    BY <1>1
  <2>3. /\ Cardinality(A) \in Nat /\ Cardinality(A \cup {h}) = Cardinality(A) + 1
        /\ Cardinality(B) \in Nat /\ Cardinality(B \cup {h}) = Cardinality(B) + 1
    BY <1>1, <2>2, FewHandles, CountAdded
  <2>4. A2 = IF s.name THEN A \cup {h} ELSE A
    BY <1>1, <1>6
  <2>5. B2 = IF s.priv = "string" THEN B \cup {h} ELSE B
    BY <1>1, <1>6
  <2> HIDE DEF A, B, A2, B2, h
  <2>6. CASE k \in {"root", "dir", "entry"}
    <3>1. s.name /\ s.priv # "string" /\ allocs' = allocs + 1
      BY <1>4, <1>5, <2>6 DEF Dups
    <3>2. Cardinality(A2) = Cardinality(A) + 1 /\ Cardinality(B2) = Cardinality(B)
      BY <2>3, <2>4, <2>5, <3>1
    <3> QED
      BY <2>1, <2>3, <3>1, <3>2
  <2>7. CASE k = "rostring"
    <3>1. ~s.name /\ s.priv = "string" /\ allocs' = allocs + 1
      BY <1>4, <1>5, <2>7 DEF Dups
    <3>2. Cardinality(A2) = Cardinality(A) /\ Cardinality(B2) = Cardinality(B) + 1
      BY <2>3, <2>4, <2>5, <3>1
    <3> QED
      BY <2>1, <2>3, <3>1, <3>2
  <2>8. CASE k \notin {"root", "dir", "entry", "rostring"}
    <3>1. ~s.name /\ s.priv # "string" /\ allocs' = allocs + 0
      BY <1>4, <1>5, <2>8 DEF Dups
    <3>2. Cardinality(A2) = Cardinality(A) /\ Cardinality(B2) = Cardinality(B)
      BY <2>4, <2>5, <3>1
    <3> QED
      BY <2>1, <2>3, <3>1, <3>2
  <2> QED
    BY <2>6, <2>7, <2>8
<1>16. KindsOK'
  BY <1>4, <1>6 DEF IInv, KindsOK
<1> QED
  BY <1>10, <1>11, <1>12, <1>13, <1>14, <1>15, <1>16 DEF IInv

(* A step that takes, returns and changes no handle *)
LEMMA SameHandles ==
  ASSUME IInv, TypeOK', UNCHANGED <<free, file, allocs>>,
         \A g \in Handle : field'[g] = [field[g] EXCEPT !.fd = field'[g].fd],
         OwnDescriptor',
         \A y \in Fid : omode'[y] # "none" => file[y] # NULL
  PROVE  IInv'
<1>1. PoolOK'
  BY DEF IInv, PoolOK, InUse
<1>2. \A g \in Handle : /\ field'[g].ops = field[g].ops
                        /\ field'[g].perm = field[g].perm
                        /\ field'[g].qtype = field[g].qtype
                        /\ field'[g].name = field[g].name
                        /\ field'[g].priv = field[g].priv
  BY DEF IInv, TypeOK, Field
<1>3. FieldsOK'
  BY <1>2 DEF IInv, FieldsOK, InUse
<1>4. FreedOnce'
  <2>1. /\ {h \in Handle : field'[h].name} = {h \in Handle : field[h].name}
        /\ {h \in Handle : field'[h].priv = "string"} = {h \in Handle : field[h].priv = "string"}
    BY <1>2
  <2> QED
    BY <2>1 DEF IInv, FreedOnce
<1>5. KindsOK'
  BY <1>2 DEF IInv, KindsOK
<1> QED
  BY <1>1, <1>3, <1>4, <1>5 DEF IInv

LEMMA ShareStep ==
  ASSUME IInv, NEW x \in Fid, NEW y \in Fid, Share(x, y)
  PROVE  IInv'
<1>1. /\ file[x] \in Handle /\ file[y] = NULL
      /\ file' = [file EXCEPT ![y] = file[x]]
      /\ UNCHANGED <<free, omode, field, owner, allocs>>
  BY DEF Share, IInv, TypeOK
<1>2. NULL \notin Handle
  BY HandleOpsAssumption DEF Handle, NULL
<1>3. \A z \in Fid : file'[z] = IF z = y THEN file[x] ELSE file[z]
  BY <1>1 DEF IInv, TypeOK
<1>4. \A g \in Handle : (\E z \in Fid : file'[z] = g) <=> InUse(g)
  BY <1>1, <1>2, <1>3 DEF InUse
<1>5. TypeOK'
  BY <1>1 DEF IInv, TypeOK
<1>6. PoolOK'
  <2>1. \A i \in DOMAIN free : free[i] \in Handle
    BY ElementOfSeq, LenProperties DEF IInv, TypeOK
  <2>2. \A i \in DOMAIN free : ~\E z \in Fid : file'[z] = free[i]
    BY <1>4, <2>1 DEF IInv, PoolOK
  <2> QED
    BY <1>1, <2>2 DEF IInv, PoolOK, InUse
<1>7. FieldsOK'
  <2> SUFFICES ASSUME NEW g \in Handle
               PROVE  IF \E z \in Fid : file'[z] = g
                      THEN /\ field[g].ops = "rostring" <=> field[g].priv = "string"
                           /\ field[g].ops = "dir" => field[g].perm = "dir"
                           /\ field[g].ops = "entry" => field[g].perm = "file"
                      ELSE ~field[g].name /\ field[g].priv # "string"
    BY <1>1 DEF FieldsOK, InUse
  <2> QED
    BY <1>4 DEF IInv, FieldsOK
<1>8. OwnDescriptor'
  <2> SUFFICES ASSUME NEW g \in Handle, field[g].fd > 0,
                      ~((\E z \in Fid : file'[z] = g) /\ field[g].ops = "rostring")
               PROVE  field[g].fd \in Fd /\ owner[field[g].fd] = g
    BY <1>1 DEF OwnDescriptor, InUse
  <2> QED
    BY <1>4 DEF IInv, OwnDescriptor
<1>9. FreedOnce'
  BY <1>1 DEF IInv, FreedOnce
<1>10. KindsOK'
  BY <1>1 DEF IInv, KindsOK
<1> QED
  BY <1>1, <1>2, <1>3, <1>5, <1>6, <1>7, <1>8, <1>9, <1>10 DEF IInv

LEMMA OpenStep ==
  ASSUME IInv, NEW x \in Fid, NEW m \in Mode, Open(x, m)
  PROVE  IInv'
<1>1. /\ file[x] # NULL
      /\ omode' = [omode EXCEPT ![x] = IF Allows(field[file[x]], m) THEN m ELSE "none"]
      /\ UNCHANGED <<free, file, field, owner, allocs>>
  BY DEF Open
<1>2. TypeOK'
  BY <1>1 DEF IInv, TypeOK
<1>3. \A y \in Fid : omode'[y] # "none" => file[y] # NULL
  BY <1>1 DEF IInv, TypeOK
<1>4. OwnDescriptor'
  BY <1>1 DEF IInv, OwnDescriptor, InUse
<1>5. \A g \in Handle : field'[g] = [field[g] EXCEPT !.fd = field'[g].fd]
  BY <1>1 DEF IInv, TypeOK, Field
<1> QED
  BY <1>1, <1>2, <1>3, <1>4, <1>5, SameHandles

(* A descriptor that was closed is no handle's. *)
LEMMA UnusedIsNobodys ==
  ASSUME IInv, NEW d \in Lowest
  PROVE  /\ d \in Fd /\ owner[d] = None
         /\ \A g \in Handle :
              field[g].fd > 0 /\ ~(InUse(g) /\ field[g].ops = "rostring")
                => field[g].fd \in Fd /\ owner[field[g].fd] = g /\ field[g].fd # d
BY HandleOpsAssumption DEF Lowest, Unused, IInv, OwnDescriptor

(* Storing a number in priv.fd changes nothing else of a handle.           *)
LEMMA SetFd ==
  ASSUME NEW r \in Field, NEW n \in Int
  PROVE  /\ [r EXCEPT !.fd = n] \in Field
         /\ [r EXCEPT !.fd = n].fd = n
         /\ [r EXCEPT !.fd = n].ops = r.ops
BY DEF Field

LEMMA SameFd ==
  ASSUME NEW r \in Field
  PROVE  r = [r EXCEPT !.fd = r.fd]
BY DEF Field

LEMMA OpenHostFileStep ==
  ASSUME IInv, NEW x \in Fid, NEW m \in Mode, OpenHostFile(x, m)
  PROVE  IInv'
<1> DEFINE h == file[x]
<1>1. PICK d \in Lowest : /\ field' = [field EXCEPT ![h].fd = d]
                         /\ owner' = [owner EXCEPT ![d] = h]
  BY DEF OpenHostFile
<1>2. /\ h \in Handle /\ file[x] # NULL
      /\ omode' = [omode EXCEPT ![x] = m]
      /\ UNCHANGED <<free, file, allocs>>
  BY DEF OpenHostFile, IInv, TypeOK
<1>3. d \in Fd /\ d \in Int /\ d > 0
  BY HandleOpsAssumption DEF Lowest, Unused, Fd
<1>4. \A g \in Handle : /\ field'[g] = [field[g] EXCEPT !.fd = field'[g].fd]
                        /\ field'[g].fd = IF g = h THEN d ELSE field[g].fd
                        /\ field'[g].ops = field[g].ops
  <2> TAKE g \in Handle
  <2>1. field \in [Handle -> Field] /\ field[h] \in Field
    BY <1>2 DEF IInv, TypeOK
  <2>2. \A e \in Handle : field'[e] = IF e = h THEN [field[h] EXCEPT !.fd = d] ELSE field[e]
    BY <1>1, <1>2, <2>1
  <2> HIDE DEF h
  <2>3. CASE g = h
    <3>1. field'[g] = [field[g] EXCEPT !.fd = d]
      BY <2>2, <2>3
    <3> QED
      BY <1>3, <2>1, <2>3, <3>1, SetFd
  <2>4. CASE g # h
    <3>1. field'[g] = field[g] /\ field[g] \in Field
      BY <2>1, <2>2, <2>4
    <3> QED
      BY <2>4, <3>1, SameFd
  <2> QED
    BY <2>3, <2>4
<1>5. TypeOK'
  <2>1. field' \in [Handle -> Field]
    <3>1. field \in [Handle -> Field] /\ field[h] \in Field
      BY <1>2 DEF IInv, TypeOK
    <3>2. field' = [field EXCEPT ![h] = [field[h] EXCEPT !.fd = d]]
      BY <1>1
    <3>3. [field[h] EXCEPT !.fd = d] \in Field
      BY <1>3, <3>1, SetFd
    <3> QED
      BY <1>2, <3>1, <3>2, <3>3
  <2>2. owner' \in [Fd -> Handle \cup {Sock, None}]
    BY <1>1, <1>2 DEF IInv, TypeOK
  <2>3. omode' \in [Fid -> Mode \cup {"none"}]
    BY <1>2 DEF IInv, TypeOK
  <2> QED
    BY <1>2, <2>1, <2>2, <2>3 DEF IInv, TypeOK
<1>6. OwnDescriptor'
  <2> SUFFICES ASSUME NEW g \in Handle, field'[g].fd > 0,
                      ~(InUse(g) /\ field'[g].ops = "rostring")
               PROVE  field'[g].fd \in Fd /\ owner'[field'[g].fd] = g
    BY <1>2 DEF OwnDescriptor, InUse
  <2>1. CASE g = h
    BY <1>1, <1>3, <1>4, <2>1 DEF IInv, TypeOK
  <2>2. CASE g # h
    <3>1. /\ field'[g].fd = field[g].fd
          /\ field[g].fd \in Fd /\ owner[field[g].fd] = g /\ field[g].fd # d
      BY <1>4, <2>2, UnusedIsNobodys
    <3> QED
      BY <1>1, <3>1 DEF IInv, TypeOK
  <2> QED
    BY <2>1, <2>2
<1>7. \A y \in Fid : omode'[y] # "none" => file[y] # NULL
  BY <1>2 DEF IInv, TypeOK
<1> QED
  BY <1>2, <1>4, <1>5, <1>6, <1>7, SameHandles

LEMMA OpenHostFileFailsStep ==
  ASSUME IInv, NEW x \in Fid, OpenHostFileFails(x)
  PROVE  IInv'
<1> DEFINE h == file[x]
<1>1. PICK n \in Int : n = -1
  OBVIOUS
<1>2. /\ h \in Handle
      /\ field' = [field EXCEPT ![h].fd = n]
      /\ UNCHANGED <<free, file, omode, owner, allocs>>
  BY <1>1 DEF OpenHostFileFails, IInv, TypeOK
<1>3. \A g \in Handle : /\ field'[g] = [field[g] EXCEPT !.fd = field'[g].fd]
                        /\ field'[g].fd = IF g = h THEN n ELSE field[g].fd
                        /\ field'[g].ops = field[g].ops
  <2> TAKE g \in Handle
  <2>1. field \in [Handle -> Field] /\ field[h] \in Field
    BY <1>2 DEF IInv, TypeOK
  <2>2. \A e \in Handle : field'[e] = IF e = h THEN [field[h] EXCEPT !.fd = n] ELSE field[e]
    BY <1>2, <2>1
  <2> HIDE DEF h
  <2>3. CASE g = h
    <3>1. field'[g] = [field[g] EXCEPT !.fd = n]
      BY <2>2, <2>3
    <3> QED
      BY <2>1, <2>3, <3>1, SetFd
  <2>4. CASE g # h
    <3>1. field'[g] = field[g] /\ field[g] \in Field
      BY <2>1, <2>2, <2>4
    <3> QED
      BY <2>4, <3>1, SameFd
  <2> QED
    BY <2>3, <2>4
<1>4. TypeOK'
  <2>1. field' \in [Handle -> Field]
    <3>1. field \in [Handle -> Field] /\ field[h] \in Field
      BY <1>2 DEF IInv, TypeOK
    <3>2. field' = [field EXCEPT ![h] = [field[h] EXCEPT !.fd = n]]
      BY <1>2
    <3>3. [field[h] EXCEPT !.fd = n] \in Field
      BY <3>1, SetFd
    <3> QED
      BY <1>2, <3>1, <3>2, <3>3
  <2> QED
    BY <1>2, <2>1 DEF IInv, TypeOK
<1>5. OwnDescriptor'
  <2> SUFFICES ASSUME NEW g \in Handle, field'[g].fd > 0,
                      ~(InUse(g) /\ field'[g].ops = "rostring")
               PROVE  field'[g].fd \in Fd /\ owner[field'[g].fd] = g
    BY <1>2 DEF OwnDescriptor, InUse
  <2>1. ~(n > 0)
    BY <1>1
  <2>2. g # h
    BY <1>3, <2>1
  <2> QED
    BY <1>3, <2>2 DEF IInv, OwnDescriptor
<1> QED
  BY <1>2, <1>3, <1>4, <1>5, SameHandles DEF IInv

(* The host gives a closed descriptor to a connection, or takes one back. *)
LEMMA SocketStep ==
  ASSUME IInv, UNCHANGED <<free, file, omode, field, allocs>>,
         NEW d \in Fd, NEW w \in {Sock, None}, owner[d] \in {Sock, None},
         owner' = [owner EXCEPT ![d] = w]
  PROVE  IInv'
<1>1. TypeOK'
  BY DEF IInv, TypeOK
<1>2. OwnDescriptor'
  <2> SUFFICES ASSUME NEW g \in Handle, field[g].fd > 0,
                      ~(InUse(g) /\ field[g].ops = "rostring")
               PROVE  field[g].fd \in Fd /\ owner'[field[g].fd] = g
    BY DEF OwnDescriptor, InUse
  <2>1. field[g].fd \in Fd /\ owner[field[g].fd] = g
    BY DEF IInv, OwnDescriptor
  <2>2. field[g].fd # d
    BY <2>1, HandleOpsAssumption
  <2> QED
    BY <2>1, <2>2 DEF IInv, TypeOK
<1>3. \A g \in Handle : field'[g] = [field[g] EXCEPT !.fd = field'[g].fd]
  BY DEF IInv, TypeOK, Field
<1>4. \A y \in Fid : omode'[y] # "none" => file[y] # NULL
  BY DEF IInv
<1> QED
  BY <1>1, <1>2, <1>3, <1>4, SameHandles

(* A handle in use is given up by one of its fids. *)
LEMMA ClunkStep ==
  ASSUME IInv, NEW x \in Fid, Clunk(x)
  PROVE  IInv'
<1> DEFINE h == file[x]
           r == Closed(field[h])
           s == [r EXCEPT !.name = FALSE]
           last == ~\E y \in Fid \ {x} : file[y] = h
<1>1. /\ h \in Handle /\ InUse(h) /\ field[h] \in Field
      /\ file' = [file EXCEPT ![x] = NULL]
      /\ omode' = [omode EXCEPT ![x] = "none"]
      /\ owner' = owner
  BY DEF Clunk, IInv, TypeOK, InUse
<1>2. NULL \notin Handle
  BY HandleOpsAssumption DEF Handle, NULL
<1>3. \A y \in Fid : file'[y] = IF y = x THEN NULL ELSE file[y]
  BY <1>1 DEF IInv, TypeOK
<1>4. \A g \in Handle : (\E y \in Fid : file'[y] = g) <=> (InUse(g) /\ ~(g = h /\ last))
  BY <1>2, <1>3 DEF InUse
<1>5. /\ file' \in [Fid -> Handle \cup {NULL}]
      /\ omode' \in [Fid -> Mode \cup {"none"}]
      /\ \A y \in Fid : omode'[y] # "none" => file'[y] # NULL
  BY <1>1, <1>3 DEF IInv, TypeOK
<1>6. \A i \in DOMAIN free : free[i] \in Handle
  BY ElementOfSeq, LenProperties DEF IInv, TypeOK
<1>7. CASE ~last
  <2>1. UNCHANGED <<free, field, allocs>>
    BY <1>7 DEF Clunk
  <2>2. \A g \in Handle : (\E y \in Fid : file'[y] = g) <=> InUse(g)
    BY <1>4, <1>7
  <2>3. TypeOK'
    BY <1>1, <1>5, <2>1 DEF IInv, TypeOK
  <2>4. PoolOK'
    <3>1. \A i \in DOMAIN free : ~\E y \in Fid : file'[y] = free[i]
      BY <1>6, <2>2 DEF IInv, PoolOK
    <3> QED
      BY <2>1, <3>1 DEF IInv, PoolOK, InUse
  <2>5. FieldsOK'
    <3> SUFFICES ASSUME NEW g \in Handle
                 PROVE  IF \E y \in Fid : file'[y] = g
                        THEN /\ field[g].ops = "rostring" <=> field[g].priv = "string"
                             /\ field[g].ops = "dir" => field[g].perm = "dir"
                             /\ field[g].ops = "entry" => field[g].perm = "file"
                        ELSE ~field[g].name /\ field[g].priv # "string"
      BY <2>1 DEF FieldsOK, InUse
    <3> QED
      BY <2>2 DEF IInv, FieldsOK
  <2>6. OwnDescriptor'
    <3> SUFFICES ASSUME NEW g \in Handle, field[g].fd > 0,
                        ~((\E y \in Fid : file'[y] = g) /\ field[g].ops = "rostring")
                 PROVE  field[g].fd \in Fd /\ owner[field[g].fd] = g
      BY <1>1, <2>1 DEF OwnDescriptor, InUse
    <3> QED
      BY <2>2 DEF IInv, OwnDescriptor
  <2>7. FreedOnce'
    BY <2>1 DEF IInv, FreedOnce
  <2>8. KindsOK'
    BY <2>1 DEF IInv, KindsOK
  <2> QED
    BY <1>5, <2>3, <2>4, <2>5, <2>6, <2>7, <2>8 DEF IInv
<1>8. CASE last
  <2>1. /\ field' = [field EXCEPT ![h] = s]
        /\ free' = <<h>> \o free
        /\ allocs' = allocs - FreedByClose(field[h]) - (IF r.name THEN 1 ELSE 0)
    BY <1>8 DEF Clunk
  <2>2. field[h].ops = "rostring" <=> field[h].priv = "string"
    BY <1>1 DEF IInv, FieldsOK
  <2>3. /\ r \in Field /\ r.priv # "string"
        /\ r.perm = field[h].perm /\ r.qtype = field[h].qtype
        /\ field[h].ops # "rostring" => r.fd = field[h].fd
        /\ field[h].ops = "rostring" => r.fd = 0
        /\ FreedByClose(field[h]) + (IF r.name THEN 1 ELSE 0)
             = (IF field[h].name THEN 1 ELSE 0) + (IF field[h].priv = "string" THEN 1 ELSE 0)
    BY <1>1, <2>2, ClosedFields
  <2> HIDE DEF r
  <2>4. /\ s \in Field /\ ~s.name /\ s.priv = r.priv /\ s.fd = r.fd
        /\ s.perm = r.perm /\ s.qtype = r.qtype
    BY <2>3 DEF Field
  <2> HIDE DEF s
  <2>5. \A g \in Handle : field'[g] = IF g = h THEN s ELSE field[g]
    BY <2>1 DEF IInv, TypeOK
  <2>6. \A g \in Handle : (\E y \in Fid : file'[y] = g) <=> (InUse(g) /\ g # h)
    BY <1>4, <1>8
  <2>7. /\ free' \in Seq(Handle)
        /\ DOMAIN free' = 1..(Len(free) + 1) /\ Len(free) \in Nat
        /\ DOMAIN free = 1..Len(free)
        /\ \A i \in 1..(Len(free) + 1) : free'[i] = IF i = 1 THEN h ELSE free[i - 1]
    <3>1. free \in Seq(Handle) /\ <<h>> \in Seq(Handle) /\ Len(<<h>>) = 1 /\ <<h>>[1] = h
      BY <1>1 DEF IInv, TypeOK
    <3>2. /\ free' \in Seq(Handle) /\ Len(free') = 1 + Len(free)
          /\ \A i \in 1..(1 + Len(free)) : free'[i] = IF i <= 1 THEN <<h>>[i] ELSE free[i - 1]
      BY <2>1, <3>1, ConcatProperties
    <3>3. Len(free) \in Nat /\ DOMAIN free' = 1..Len(free') /\ DOMAIN free = 1..Len(free)
      BY <3>1, <3>2, LenProperties
    <3> QED
      BY <3>1, <3>2, <3>3
  <2>8. TypeOK'
    <3>1. field' \in [Handle -> Field]
      BY <1>1, <2>1, <2>4 DEF IInv, TypeOK
    <3>2. allocs' \in Int
      BY <2>1 DEF IInv, TypeOK, FreedByClose
    <3> QED
      BY <1>1, <1>5, <2>7, <3>1, <3>2 DEF IInv, TypeOK
  <2>9. PoolOK'
    <3>1. \A i \in DOMAIN free : free[i] # h
      BY <1>1 DEF IInv, PoolOK
    <3>2. ASSUME NEW i \in DOMAIN free', NEW j \in DOMAIN free', free'[i] = free'[j]
          PROVE  i = j
      <4>1. i \in 1..(Len(free) + 1) /\ j \in 1..(Len(free) + 1)
        BY <2>7
      <4>2. i # 1 => i - 1 \in DOMAIN free /\ free'[i] = free[i - 1]
        BY <2>7, <4>1
      <4>3. j # 1 => j - 1 \in DOMAIN free /\ free'[j] = free[j - 1]
        BY <2>7, <4>1
      <4>4. i = 1 <=> j = 1
        BY <2>7, <3>1, <3>2, <4>1, <4>2, <4>3
      <4>5. i # 1 /\ j # 1 => i - 1 = j - 1
        BY <3>2, <4>2, <4>3 DEF IInv, PoolOK
      <4> QED
        BY <2>7, <4>1, <4>4, <4>5
    <3>3. ASSUME NEW i \in DOMAIN free'
          PROVE  ~\E y \in Fid : file'[y] = free'[i]
      <4>1. i \in 1..(Len(free) + 1)
        BY <2>7
      <4>2. CASE i = 1
        BY <1>1, <2>6, <2>7, <4>1, <4>2
      <4>3. CASE i # 1
        <5>1. i - 1 \in DOMAIN free /\ free'[i] = free[i - 1]
          BY <2>7, <4>1, <4>3
        <5>2. free'[i] \in Handle /\ ~InUse(free'[i])
          BY <1>6, <5>1 DEF IInv, PoolOK
        <5> QED
          BY <2>6, <5>2
      <4> QED
        BY <4>2, <4>3
    <3> QED
      BY <3>2, <3>3 DEF PoolOK, InUse
  <2>10. FieldsOK'
    <3> SUFFICES ASSUME NEW g \in Handle
                 PROVE  IF \E y \in Fid : file'[y] = g
                        THEN /\ field'[g].ops = "rostring" <=> field'[g].priv = "string"
                             /\ field'[g].ops = "dir" => field'[g].perm = "dir"
                             /\ field'[g].ops = "entry" => field'[g].perm = "file"
                        ELSE ~field'[g].name /\ field'[g].priv # "string"
      BY DEF FieldsOK, InUse
    <3>1. CASE g = h
      BY <2>3, <2>4, <2>5, <2>6, <3>1
    <3>2. CASE g # h
      BY <2>5, <2>6, <3>2 DEF IInv, FieldsOK
    <3> QED
      BY <3>1, <3>2
  <2>11. OwnDescriptor'
    <3> SUFFICES ASSUME NEW g \in Handle, field'[g].fd > 0,
                        ~((\E y \in Fid : file'[y] = g) /\ field'[g].ops = "rostring")
                 PROVE  field'[g].fd \in Fd /\ owner[field'[g].fd] = g
      BY <1>1 DEF OwnDescriptor, InUse
    <3>1. CASE g = h
      <4>1. r.fd > 0
        BY <2>4, <2>5, <3>1
      <4>2. field[h].ops # "rostring" /\ r.fd = field[h].fd
        BY <2>3, <4>1
      <4> QED
        BY <1>1, <2>4, <2>5, <3>1, <4>1, <4>2 DEF IInv, OwnDescriptor
    <3>2. CASE g # h
      BY <2>5, <2>6, <3>2 DEF IInv, OwnDescriptor
    <3> QED
      BY <3>1, <3>2
  <2>12. FreedOnce'
    <3> DEFINE A  == {g \in Handle : field[g].name}
               B  == {g \in Handle : field[g].priv = "string"}
               A2 == {g \in Handle : field'[g].name}
               B2 == {g \in Handle : field'[g].priv = "string"}
    <3> SUFFICES allocs' = Cardinality(A2) + Cardinality(B2)
      BY DEF FreedOnce
    <3>1. allocs = Cardinality(A) + Cardinality(B)
      BY DEF IInv, FreedOnce
    <3>2. A2 = A \ {h} /\ B2 = B \ {h} /\ A \subseteq Handle /\ B \subseteq Handle
      BY <2>3, <2>4, <2>5
    <3>3. /\ h \in A <=> field[h].name
          /\ h \in B <=> field[h].priv = "string"
      BY <1>1
    <3> HIDE DEF A, B, A2, B2
    <3>4. /\ Cardinality(A) \in Nat /\ Cardinality(B) \in Nat
          /\ Cardinality(A2) = Cardinality(A) - (IF h \in A THEN 1 ELSE 0)
          /\ Cardinality(B2) = Cardinality(B) - (IF h \in B THEN 1 ELSE 0)
      BY <1>1, <3>2, FewHandles, CountRemoved
    <3>5. FreedByClose(field[h]) \in Int
      BY DEF FreedByClose
    <3> HIDE DEF h
    <3> DEFINE c == FreedByClose(field[h])
               u == IF r.name THEN 1 ELSE 0
               v == IF h \in A THEN 1 ELSE 0
               w == IF h \in B THEN 1 ELSE 0
    <3>6. c \in Int /\ u \in Int /\ v \in Int /\ w \in Int /\ c + u = v + w
      BY <2>3, <3>3, <3>5
    <3>7. allocs' = allocs - c - u /\ allocs \in Int
      BY <2>1 DEF IInv, TypeOK
    <3> HIDE DEF c, u, v, w
    <3>8. Cardinality(A2) = Cardinality(A) - v /\ Cardinality(B2) = Cardinality(B) - w
      BY <3>4 DEF v, w
    <3> QED
      BY <3>1, <3>4, <3>6, <3>7, <3>8
  <2>13. KindsOK'
    BY <1>1, <2>3, <2>4, <2>5 DEF IInv, KindsOK
  <2> QED
    BY <1>5, <2>8, <2>9, <2>10, <2>11, <2>12, <2>13 DEF IInv
<1> QED
  BY <1>7, <1>8
-----------------------------------------------------------------------------
(* The theorems *)

LEMMA NextIInv == IInv /\ [Next]_vars => IInv'
<1> SUFFICES ASSUME IInv, [Next]_vars PROVE IInv'
  OBVIOUS
<1>1. CASE UNCHANGED vars
  BY <1>1 DEF vars, IInv, TypeOK, PoolOK, FieldsOK, KindsOK, OwnDescriptor, FreedOnce, InUse
<1>2. ASSUME NEW x \in Fid, NEW k \in Made,
             NEW len \in (IF k = "rostring" THEN Length ELSE {0}), Make(x, k, len)
      PROVE  IInv'
  BY <1>2, MakeStep DEF Lengths
<1>3. ASSUME NEW x \in Fid, NEW y \in Fid, Share(x, y)
      PROVE  IInv'
  BY <1>3, ShareStep
<1>4. ASSUME NEW x \in Fid, NEW m \in Mode, Open(x, m) \/ OpenHostFile(x, m)
      PROVE  IInv'
  BY <1>4, OpenStep, OpenHostFileStep
<1>5. ASSUME NEW x \in Fid, OpenHostFileFails(x) \/ Clunk(x)
      PROVE  IInv'
  BY <1>5, OpenHostFileFailsStep, ClunkStep
<1>6. CASE Accept
  <2>1. PICK d \in Lowest : owner' = [owner EXCEPT ![d] = Sock]
    BY <1>6 DEF Accept
  <2> QED
    BY <1>6, <2>1, UnusedIsNobodys, SocketStep DEF Accept
<1>7. ASSUME NEW d \in Fd, Hangup(d)
      PROVE  IInv'
  BY <1>7, SocketStep DEF Hangup
<1> QED
  BY <1>1, <1>2, <1>3, <1>4, <1>5, <1>6, <1>7 DEF Next

(* The pool, the fields of the handles, the descriptors and the strings on *)
(* the heap fit together in every state.                                   *)
THEOREM Invariant == Spec => []IInv
BY InitIInv, NextIInv, PTL DEF Spec

(* Every variable keeps its type.                                          *)
THEOREM Typed == Spec => []TypeOK
<1>1. IInv => TypeOK
  BY DEF IInv
<1> QED
  BY <1>1, Invariant, PTL

(* The priv.fd of a handle that is no string is its own descriptor: hence  *)
(* the close() in mixpsrv_hostfile_ops_init() is safe.                     *)
THEOREM DescriptorIsOwn == Spec => []OwnDescriptor
<1>1. IInv => OwnDescriptor
  BY DEF IInv
<1> QED
  BY <1>1, Invariant, PTL

(* No name and no string is freed twice or lost by the recycling.          *)
THEOREM StringsFreedOnce == Spec => []FreedOnce
<1>1. IInv => FreedOnce
  BY DEF IInv
<1> QED
  BY <1>1, Invariant, PTL

(* p9srv_ops_read() takes an open property list for a directory and an     *)
(* open entry for a file, whatever its handle was before.                  *)
THEOREM ListsRead == Spec => []ListsReadAsLists
<1>1. ASSUME IInv PROVE ListsReadAsLists
  <2> SUFFICES ASSUME NEW x \in Fid, omode[x] # "none", field[file[x]].ops \in {"dir", "entry"}
               PROVE  Answer(field[file[x]]) = OwnAnswer(field[file[x]])
    BY DEF ListsReadAsLists
  <2>1. file[x] \in Handle /\ InUse(file[x])
    BY <1>1 DEF IInv, TypeOK, InUse
  <2>2. /\ field[file[x]].ops = "dir" => field[file[x]].perm = "dir"
        /\ field[file[x]].ops = "entry" => field[file[x]].perm = "file"
    BY <1>1, <2>1 DEF IInv, FieldsOK
  <2> QED
    BY <2>2 DEF Answer, AsDirectory, OwnAnswer
<1> QED
  BY <1>1, Invariant, PTL

(* What attach, walk and stat tell of a file in use is how it is read.     *)
THEOREM AnnouncedIsServed == Spec => []ServedAsAnnounced
<1>1. ASSUME IInv PROVE ServedAsAnnounced
  <2> SUFFICES ASSUME NEW x \in Fid, file[x] # NULL
               PROVE  /\ Stat(field[file[x]]).type = "dir" <=> AsDirectory(field[file[x]])
                      /\ field[file[x]].ops = "entry" => Stat(field[file[x]]).mode \subseteq {"r"}
    BY DEF ServedAsAnnounced
  <2>1. file[x] \in Handle /\ InUse(file[x])
    BY <1>1 DEF IInv, TypeOK, InUse
  <2>2. /\ field[file[x]].perm = "dir" <=> field[file[x]].qtype = "dir"
        /\ field[file[x]].ops = "entry" => field[file[x]].perm = "file"
    BY <1>1, <2>1 DEF IInv, FieldsOK, KindsOK
  <2>3. Stat(field[file[x]]).type = field[file[x]].qtype
    BY DEF Stat, EntStat, DefaultStat
  <2>4. field[file[x]].ops = "entry" => Stat(field[file[x]]).mode = {"r", "x"} \ {"x"}
    BY <2>2 DEF Stat, EntStat, DefaultStat
  <2> QED
    BY <2>2, <2>3, <2>4 DEF AsDirectory
<1> QED
  BY <1>1, Invariant, PTL

(* A descriptor is closed by the close() of the handle that opened it when *)
(* no fid has the handle any more, or by the end of its connection.        *)
THEOREM OnlyOwnClosed == Spec => ClosesOnlyOwn
<1> DEFINE Own == \A d \in Fd :
                    /\ owner[d] = Sock /\ owner'[d] # Sock => UNCHANGED <<field, file>>
                    /\ owner[d] \in Handle /\ owner'[d] # owner[d]
                         => ~InUse(owner[d]) /\ field[owner[d]].fd = d
<1>1. ASSUME IInv, Next PROVE Own
  <2> SUFFICES ASSUME NEW d \in Fd
               PROVE  /\ owner[d] = Sock /\ owner'[d] # Sock => UNCHANGED <<field, file>>
                      /\ owner[d] \in Handle /\ owner'[d] # owner[d]
                           => ~InUse(owner[d]) /\ field[owner[d]].fd = d
    OBVIOUS
  <2>1. Sock \notin Handle /\ None \notin Handle /\ Sock # None
    BY HandleOpsAssumption
  <2>2. ASSUME NEW x \in Fid, NEW k \in Made,
               NEW len \in (IF k = "rostring" THEN Length ELSE {0}), Make(x, k, len),
               owner'[d] # owner[d]
        PROVE  owner[d] \in Handle /\ ~InUse(owner[d]) /\ field[owner[d]].fd = d
    <3> DEFINE h == Head(free)
    <3>1. h \in Handle /\ ~InUse(h)
      BY <1>1, <2>2, PoolHead DEF Make
    <3>2. d \in ClosedByInit(k, field[h])
      BY <2>2 DEF Make
    <3>3. field[h].fd = d /\ field[h].fd > 0
      BY <3>2 DEF ClosedByInit
    <3>4. owner[d] = h
      BY <1>1, <3>1, <3>3 DEF IInv, OwnDescriptor
    <3> QED
      BY <3>1, <3>3, <3>4
  <2>3. ASSUME NEW x \in Fid, NEW m \in Mode, OpenHostFile(x, m), owner'[d] # owner[d]
        PROVE  owner[d] = None
    BY <1>1, <2>3 DEF OpenHostFile, Lowest, Unused, IInv, TypeOK
  <2>4. ASSUME Accept, owner'[d] # owner[d]
        PROVE  owner[d] = None
    BY <1>1, <2>4 DEF Accept, Lowest, Unused, IInv, TypeOK
  <2>5. ASSUME NEW e \in Fd, Hangup(e), owner'[d] # owner[d]
        PROVE  owner[d] = Sock /\ UNCHANGED <<field, file>>
    BY <1>1, <2>5 DEF Hangup, IInv, TypeOK
  <2>6. ASSUME NEW x \in Fid, NEW m \in Mode, Open(x, m)
        PROVE  owner' = owner
    BY <2>6 DEF Open
  <2>7. ASSUME NEW x \in Fid, OpenHostFileFails(x) \/ Clunk(x)
        PROVE  owner' = owner
    BY <2>7 DEF OpenHostFileFails, Clunk
  <2>8. ASSUME NEW x \in Fid, NEW y \in Fid, Share(x, y)
        PROVE  owner' = owner
    BY <2>8 DEF Share
  <2> QED
    BY <1>1, <2>1, <2>2, <2>3, <2>4, <2>5, <2>6, <2>7, <2>8 DEF Next
<1>2. IInv /\ [Next]_vars => [Own]_vars
  BY <1>1
<1>3. ClosesOnlyOwn <=> [][Own]_vars
  BY DEF ClosesOnlyOwn
<1> QED
  BY <1>2, <1>3, Invariant, PTL DEF Spec
===============================================================================
