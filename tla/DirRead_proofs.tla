---------------------------- MODULE DirRead_proofs ----------------------------
(***************************************************************************)
(* Proofs about DirRead: for every directory, every growth of it and every *)
(* choice of counts, a client receives each entry once and in order, and   *)
(* an empty answer means the end if no entry is too large for a count.     *)
(***************************************************************************)
EXTENDS DirRead, SequenceTheorems, TLAPS
-----------------------------------------------------------------------------
(* Sequences in ascending order *)

LEMMA RangeAppend ==
  ASSUME NEW s \in Seq(Nat), NEW x \in Nat
  PROVE  Range(Append(s, x)) = Range(s) \cup {x}
<1>1. /\ Append(s, x) \in Seq(Nat) /\ Len(Append(s, x)) = Len(s) + 1
      /\ \A a \in 1..Len(s) : Append(s, x)[a] = s[a]
      /\ Append(s, x)[Len(s) + 1] = x
  BY AppendProperties
<1>2. /\ DOMAIN s = 1..Len(s) /\ DOMAIN Append(s, x) = 1..(Len(s) + 1)
      /\ Len(s) \in Nat
  BY <1>1, LenProperties
<1> QED
  BY <1>1, <1>2 DEF Range

(* Appending a larger element keeps the order. *)
LEMMA AscendingAppend ==
  ASSUME NEW s \in Seq(Nat), NEW x \in Nat, Ascending(s),
         \A y \in Range(s) : y < x
  PROVE  Ascending(Append(s, x))
<1>1. /\ Append(s, x) \in Seq(Nat) /\ Len(Append(s, x)) = Len(s) + 1
      /\ \A a \in 1..Len(s) : Append(s, x)[a] = s[a]
      /\ Append(s, x)[Len(s) + 1] = x
  BY AppendProperties
<1>2. /\ DOMAIN s = 1..Len(s) /\ DOMAIN Append(s, x) = 1..(Len(s) + 1)
      /\ Len(s) \in Nat
  BY <1>1, LenProperties
<1>3. \A a \in 1..Len(s) : s[a] < x
  BY <1>2 DEF Range
<1> QED
  BY <1>1, <1>2, <1>3 DEF Ascending

(* So does appending a sequence of larger elements. *)
LEMMA AscendingConcat ==
  ASSUME NEW s \in Seq(Nat), NEW t \in Seq(Nat), Ascending(s), Ascending(t),
         \A x \in Range(s), y \in Range(t) : x < y
  PROVE  Ascending(s \o t)
<1>1. /\ s \o t \in Seq(Nat) /\ Len(s \o t) = Len(s) + Len(t)
      /\ \A a \in 1..(Len(s) + Len(t)) :
           (s \o t)[a] = IF a <= Len(s) THEN s[a] ELSE t[a - Len(s)]
  BY ConcatProperties
<1>2. /\ DOMAIN s = 1..Len(s) /\ DOMAIN t = 1..Len(t)
      /\ DOMAIN (s \o t) = 1..(Len(s) + Len(t))
      /\ Len(s) \in Nat /\ Len(t) \in Nat
  BY <1>1, LenProperties
<1>3. \A a \in 1..Len(s), b \in 1..Len(t) : s[a] < t[b]
  BY <1>2 DEF Range
<1>4. SUFFICES ASSUME NEW a \in 1..(Len(s) + Len(t)), NEW b \in 1..(Len(s) + Len(t)),
                      a < b
               PROVE  (s \o t)[a] < (s \o t)[b]
  BY <1>2 DEF Ascending
<1>5. CASE b <= Len(s)
  <2>1. a \in DOMAIN s /\ b \in DOMAIN s /\ a <= Len(s)
    BY <1>2, <1>4, <1>5
  <2>2. s[a] < s[b]
    BY <1>4, <2>1 DEF Ascending
  <2> QED
    BY <1>1, <1>4, <1>5, <2>1, <2>2
<1>6. CASE a <= Len(s) /\ ~(b <= Len(s))
  <2>1. b - Len(s) \in 1..Len(t) /\ a \in 1..Len(s)
    BY <1>2, <1>4, <1>6
  <2> QED
    BY <1>1, <1>3, <1>6, <2>1
<1>7. CASE ~(a <= Len(s))
  <2>1. /\ a - Len(s) \in 1..Len(t) /\ b - Len(s) \in 1..Len(t)
        /\ a - Len(s) < b - Len(s) /\ ~(b <= Len(s))
    BY <1>2, <1>4, <1>7
  <2>2. t[a - Len(s)] < t[b - Len(s)]
    BY <1>2, <2>1 DEF Ascending
  <2> QED
    BY <1>1, <1>7, <2>1, <2>2
<1> QED
  BY <1>2, <1>5, <1>6, <1>7
-----------------------------------------------------------------------------
(* The invariant *)

(* What the directory offers to every step. *)
LEMMA Directory ==
  ASSUME TypeOK, Monotone
  PROVE  /\ Len(start) \in Nat \ {0}
         /\ DOMAIN start = 1..Len(start)
         /\ \A k \in DOMAIN start : start[k] \in Nat
         /\ \A k \in Entries : /\ k \in Nat \ {0}
                                /\ k \in DOMAIN start /\ k + 1 \in DOMAIN start
                                /\ start[k] <= start[k + 1]
                                /\ Size(k) \in Nat
                                /\ start[k] + Size(k) = start[k + 1]
         /\ \A k \in Packable : k \in Entries /\ Size(k) > 0 /\ start[k] < start[k + 1]
<1>1. Len(start) \in Nat \ {0} /\ DOMAIN start = 1..Len(start)
  BY EmptySeq, LenProperties DEF TypeOK
<1>2. \A k \in DOMAIN start : start[k] \in Nat
  BY <1>1, ElementOfSeq DEF TypeOK
<1>3. \A k \in Entries : /\ k \in Nat \ {0}
                         /\ k \in DOMAIN start /\ k + 1 \in DOMAIN start
                         /\ k <= k + 1
  BY <1>1 DEF Entries
<1>4. \A k \in Entries : start[k] <= start[k + 1]
  BY <1>3 DEF Monotone
<1>5. \A k \in Entries : Size(k) \in Nat /\ start[k] + Size(k) = start[k + 1]
  <2> TAKE k \in Entries
  <2>1. start[k] \in Nat /\ start[k + 1] \in Nat /\ start[k] <= start[k + 1]
    BY <1>2, <1>3, <1>4
  <2> QED
    BY <2>1 DEF Size
<1>6. \A k \in Packable : k \in Entries /\ Size(k) > 0 /\ start[k] < start[k + 1]
  <2> TAKE k \in Packable
  <2>1. k \in Entries /\ Size(k) # 0
    BY DEF Packable
  <2> QED
    BY <1>2, <1>3, <1>5, <2>1
<1> QED
  BY <1>1, <1>2, <1>3, <1>4, <1>5, <1>6

(* An entry that starts before position l of the directory has an index    *)
(* below l, and a packable one below l starts before it.                   *)
LEMMA Before ==
  ASSUME TypeOK, Monotone, NEW l \in DOMAIN start, NEW k \in Packable
  PROVE  start[k] < start[l] <=> k < l
<1>1. k \in DOMAIN start /\ k + 1 \in DOMAIN start /\ start[k] < start[k + 1]
  BY Directory
<1>2. k \in Nat /\ l \in Nat /\ start[k] \in Nat /\ start[l] \in Nat
      /\ start[k + 1] \in Nat
  BY <1>1, Directory
<1>3. CASE k < l
  <2>1. k + 1 <= l
    BY <1>2, <1>3
  <2>2. start[k + 1] <= start[l]
    BY <1>1, <2>1 DEF Monotone
  <2> QED
    BY <1>1, <1>2, <1>3, <2>2
<1>4. CASE ~(k < l)
  <2>1. l <= k
    BY <1>2, <1>4
  <2>2. start[l] <= start[k]
    BY <1>1, <2>1 DEF Monotone
  <2> QED
    BY <1>2, <1>4, <2>2
<1> QED
  BY <1>3, <1>4

LEMMA Initially == Init => TypeOK /\ IInv
<1> SUFFICES ASSUME Init PROVE TypeOK /\ IInv
  OBVIOUS
<1> USE DirReadAssumption
<1>1. TypeOK
  BY DEF Init, TypeOK, Request
<1>2. Len(start) \in Nat /\ DOMAIN start = 1..Len(start) /\ 1 \in DOMAIN start
  BY EmptySeq, LenProperties DEF Init
<1>3. Monotone
  BY <1>2 DEF Init, Monotone
<1>4. AtBoundary
  BY <1>2 DEF Init, AtBoundary
<1>5. EachEntryOnce
  <2>1. got = <<>> /\ pos = 0
    BY DEF Init
  <2>2. DOMAIN got = {} /\ Range(got) = {}
    BY <2>1 DEF Range
  <2>3. {k \in Packable : start[k] < pos} = {}
    <3> SUFFICES ASSUME NEW k \in Packable PROVE ~(start[k] < 0)
      BY <2>1
    <3>1. start[k] \in Nat
      BY <1>1, <1>3, Directory
    <3> QED
      BY <3>1
  <2> QED
    BY <2>2, <2>3 DEF EachEntryOnce, Ascending
<1>6. Packing
  BY DEF Init, Packing
<1> QED
  BY <1>1, <1>3, <1>4, <1>5, <1>6 DEF IInv

(* A longer directory keeps what the client has. *)
LEMMA GrowKeeps ==
  ASSUME TypeOK, IInv, NEW n \in Sizes, Grow(n)
  PROVE  TypeOK' /\ IInv'
<1>0. n \in Nat
  BY DirReadAssumption
<1> DEFINE L == Len(start)
<1>1. /\ L \in Nat \ {0} /\ DOMAIN start = 1..L
      /\ \A k \in 1..L : start[k] \in Nat
      /\ \A k \in Packable : k \in Entries
  BY Directory DEF IInv
<1>2. start[L] + n \in Nat
  BY <1>0, <1>1
<1>3. /\ start' \in Seq(Nat) /\ start' # <<>> /\ Len(start') = L + 1
      /\ \A k \in 1..L : start'[k] = start[k]
      /\ start'[L + 1] = start[L] + n
      /\ DOMAIN start' = 1..(L + 1)
  <2>1. start' = Append(start, start[L] + n) /\ start \in Seq(Nat)
    BY DEF Grow, TypeOK
  <2>2. /\ start' \in Seq(Nat) /\ start' # <<>> /\ Len(start') = L + 1
        /\ \A k \in 1..L : start'[k] = start[k]
        /\ start'[L + 1] = start[L] + n
    BY <1>2, <2>1, AppendProperties
  <2> QED
    BY <2>2, LenProperties
<1>4. TypeOK'
  BY <1>3 DEF Grow, TypeOK, server, client, Request
<1>5. Monotone'
  <2>1. start'[1] = 0
    BY <1>1, <1>3 DEF IInv, Monotone
  <2>2. SUFFICES ASSUME NEW k \in 1..(L + 1), NEW l \in 1..(L + 1), k <= l
                 PROVE  start'[k] <= start'[l]
    BY <1>3, <2>1 DEF Monotone
  <2>3. CASE l \in 1..L
    <3>1. k \in 1..L
      BY <1>1, <2>2, <2>3
    <3> QED
      BY <1>1, <1>3, <2>2, <2>3, <3>1 DEF IInv, Monotone
  <2>4. CASE l = L + 1 /\ k \in 1..L
    <3>1. start[k] <= start[L] /\ start[k] \in Nat /\ start[L] \in Nat
      BY <1>1, <2>4 DEF IInv, Monotone
    <3> QED
      BY <1>0, <1>3, <2>4, <3>1
  <2>5. CASE l = L + 1 /\ k = L + 1
    BY <1>2, <1>3, <2>5
  <2> QED
    BY <1>1, <2>2, <2>3, <2>4, <2>5
<1>6. PICK m \in 1..L : pos = start[m]
  BY <1>1 DEF IInv, AtBoundary
<1>7. AtBoundary'
  <2>1. m \in 1..(L + 1) /\ start'[m] = pos /\ pos' = pos
    BY <1>1, <1>3, <1>6 DEF Grow, client
  <2> QED
    BY <1>3, <2>1 DEF AtBoundary
<1>8. EachEntryOnce'
  <2>1. got' = got /\ pos' = pos
    BY DEF Grow, client
  <2>2. Entries = 1..(L - 1) /\ Entries' = 1..L
    BY <1>1, <1>3 DEF Entries
  <2>3. \A k \in Entries : /\ k \in Entries' /\ Size(k)' = Size(k)
                           /\ start'[k] = start[k]
    BY <1>1, <1>3, <2>2 DEF Size
  <2>4. \A k \in Entries : k \in Packable <=> k \in Packable'
    BY <2>3 DEF Packable
  <2>5. \A k \in Packable' : k \in Entries \/ k = L
    <3> TAKE k \in Packable'
    <3>1. k \in Entries'
      BY DEF Packable
    <3>2. k \in 1..L
      BY <2>2, <3>1
    <3>3. L \in Nat \ {0}
      BY <1>1
    <3>4. k \in 1..(L - 1) \/ k = L
      BY <3>2, <3>3
    <3> QED
      BY <2>2, <3>4
  <2>6. ~(start'[L] < pos)
    <3>1. start[m] <= start[L] /\ start'[L] = start[L]
      BY <1>1, <1>3, <1>6 DEF IInv, Monotone
    <3> QED
      BY <1>1, <1>6, <3>1
  <2>7. {k \in Packable' : start'[k] < pos} = {k \in Packable : start[k] < pos}
    BY <1>1, <2>3, <2>4, <2>5, <2>6
  <2> QED
    BY <2>1, <2>7 DEF IInv, EachEntryOnce, Ascending
<1>9. Packing'
  BY DEF Grow, server, Packing
<1> QED
  BY <1>4, <1>5, <1>7, <1>8, <1>9 DEF IInv

(* A request starts at the first entry with nothing packed. *)
LEMMA TreadKeeps ==
  ASSUME TypeOK, IInv, NEW n \in Counts, Tread(n)
  PROVE  TypeOK' /\ IInv'
<1>1. Clamp(n) \in 1..MaxCount
  BY DirReadAssumption DEF Clamp
<1>2. /\ start' = start /\ pos' = pos /\ got' = got
      /\ req' = [offset |-> pos, count |-> Clamp(n)]
      /\ i' = 1 /\ offset' = 0 /\ written' = 0 /\ packed' = <<>>
  BY DEF Tread, client
<1>3. TypeOK'
  BY <1>1, <1>2 DEF Tread, TypeOK, Request
<1>4. Monotone' /\ AtBoundary' /\ EachEntryOnce'
  BY <1>2 DEF IInv, Monotone, AtBoundary, EachEntryOnce, Packable, Entries, Size, Ascending
<1>5. Packing'
  <2>1. 1 \in DOMAIN start' /\ start'[1] = 0
    BY <1>2, Directory DEF IInv, Monotone
  <2>2. Range(packed') = {} /\ Ascending(packed)'
    BY <1>2 DEF Range, Ascending
  <2>3. {k \in Packable' : k < i' /\ pos' <= start'[k]} = {}
    BY <1>2, Directory DEF IInv, Packable, Entries, Size
  <2>4. req'.offset = pos' /\ written' <= req'.count /\ offset' <= pos'
    BY <1>1, <1>2, DirReadAssumption DEF TypeOK
  <2> QED
    BY <1>2, <2>1, <2>2, <2>3, <2>4 DEF Packing
<1> QED
  BY <1>3, <1>4, <1>5 DEF IInv

(* The facts about the directory that a step which leaves it alone keeps. *)
LEMMA SameDirectory ==
  ASSUME IInv, start' = start, pos' = pos, got' = got
  PROVE  Monotone' /\ AtBoundary' /\ EachEntryOnce'
BY DEF IInv, Monotone, AtBoundary, EachEntryOnce, Packable, Entries, Size, Ascending

(* Where the server stands when it looks at an entry. *)
LEMMA AtEntryFacts ==
  ASSUME TypeOK, IInv, AtEntry
  PROVE  /\ i \in Entries /\ i + 1 \in DOMAIN start /\ i \in Nat
         /\ start[i] \in Nat /\ Size(i) \in Nat /\ start[i] + Size(i) = start[i + 1]
         /\ req.offset = pos /\ req.count \in 1..MaxCount
         /\ offset + written = start[i] /\ offset <= pos /\ written <= req.count
         /\ packed = <<>> <=> written = 0
         /\ packed # <<>> => offset = pos /\ start[packed[1]] = pos
         /\ Ascending(packed)
         /\ Range(packed) = {k \in Packable : k < i /\ pos <= start[k]}
<1>1. i \in Entries /\ pc = "pack"
  BY DEF AtEntry
<1>2. /\ i + 1 \in DOMAIN start /\ i \in DOMAIN start /\ i \in Nat
      /\ start[i] \in Nat /\ Size(i) \in Nat /\ start[i] + Size(i) = start[i + 1]
  BY <1>1, Directory DEF IInv
<1> QED
  BY <1>1, <1>2 DEF IInv, Packing, TypeOK, Request

(* The entries below i + 1 that the answer has to hold. *)
LEMMA NextEntry ==
  ASSUME TypeOK, IInv, AtEntry
  PROVE  {k \in Packable : k < i + 1 /\ pos <= start[k]} =
           {k \in Packable : k < i /\ pos <= start[k]}
             \cup {k \in {i} : i \in Packable /\ pos <= start[i]}
<1>1. i \in Nat /\ \A k \in Packable : k \in Nat
  BY AtEntryFacts, Directory DEF IInv
<1> QED
  BY <1>1

LEMMA LeaveOutKeeps ==
  ASSUME TypeOK, IInv, LeaveOut
  PROVE  TypeOK' /\ IInv'
<1>1. AtEntry /\ i \notin Packable /\ i' = i + 1
      /\ UNCHANGED <<start, pc, req, offset, written, packed, pos, got>>
  BY DEF LeaveOut, client
<1>2. Size(i) = 0
  BY <1>1 DEF AtEntry, Packable
<1>3. TypeOK'
  BY <1>1, AtEntryFacts DEF TypeOK
<1>4. Monotone' /\ AtBoundary' /\ EachEntryOnce'
  BY <1>1, SameDirectory
<1>5. Packable' = Packable
  BY <1>1 DEF Packable, Entries, Size
<1>6. Range(packed) = {k \in Packable : k < i + 1 /\ pos <= start[k]}
  BY <1>1, AtEntryFacts, NextEntry
<1>7. start[i + 1] = start[i] /\ i + 1 \in DOMAIN start
  BY <1>1, <1>2, AtEntryFacts
<1>8. Packing'
  BY <1>1, <1>5, <1>6, <1>7, AtEntryFacts DEF Packing, Ascending
<1> QED
  BY <1>3, <1>4, <1>8 DEF IInv

(* A skipped entry ends at the requested offset or before it, because the  *)
(* offset is where an entry starts.                                        *)
LEMMA SkipKeeps ==
  ASSUME TypeOK, IInv, Skip
  PROVE  TypeOK' /\ IInv'
<1>1. AtEntry /\ i \in Packable /\ offset < req.offset
      /\ offset' = offset + Size(i) /\ i' = i + 1
      /\ UNCHANGED <<start, pc, req, written, packed, pos, got>>
  BY DEF Skip, client
<1>2. /\ i \in Nat /\ i + 1 \in DOMAIN start /\ start[i] \in Nat /\ Size(i) \in Nat
      /\ start[i] + Size(i) = start[i + 1] /\ req.offset = pos
      /\ offset + written = start[i] /\ offset \in Nat /\ pos \in Nat
  BY <1>1, AtEntryFacts DEF TypeOK
<1>3. packed = <<>> /\ written = 0 /\ offset = start[i]
  <2>1. offset # pos
    BY <1>1, <1>2
  <2>2. packed = <<>> /\ written = 0
    BY <1>1, <2>1, AtEntryFacts
  <2> QED
    BY <1>2, <2>2
<1>4. start[i] < pos /\ start[i + 1] <= pos
  <2>1. PICK m \in DOMAIN start : pos = start[m]
    BY DEF IInv, AtBoundary
  <2>2. i < m
    BY <1>1, <1>2, <1>3, <2>1, Before DEF IInv
  <2>3. i + 1 <= m
    BY <1>2, <2>1, <2>2, Directory DEF IInv
  <2>4. start[i + 1] <= start[m]
    BY <1>2, <2>1, <2>3 DEF IInv, Monotone
  <2> QED
    BY <1>1, <1>2, <1>3, <2>1, <2>4
<1>5. TypeOK'
  <2>1. offset' \in Nat /\ i' \in Nat \ {0}
    BY <1>1, <1>2
  <2> QED
    BY <1>1, <2>1 DEF TypeOK
<1>6. Monotone' /\ AtBoundary' /\ EachEntryOnce'
  BY <1>1, SameDirectory
<1>7. Packable' = Packable
  BY <1>1 DEF Packable, Entries, Size
<1>8. Range(packed) = {k \in Packable : k < i + 1 /\ pos <= start[k]}
  <2>1. ~(pos <= start[i])
    BY <1>2, <1>4
  <2> QED
    BY <1>1, <2>1, AtEntryFacts, NextEntry
<1>9. Packing'
  <2>1. offset' + written' = start'[i'] /\ offset' <= pos'
    BY <1>1, <1>2, <1>3, <1>4
  <2> QED
    BY <1>1, <1>2, <1>3, <1>7, <1>8, <2>1, AtEntryFacts DEF Packing, Ascending
<1> QED
  BY <1>5, <1>6, <1>9 DEF IInv

(* A packed entry follows the ones packed before, and the first one starts *)
(* at the requested offset.                                                *)
LEMMA PackKeeps ==
  ASSUME TypeOK, IInv, Pack
  PROVE  TypeOK' /\ IInv'
<1>1. AtEntry /\ i \in Packable /\ offset >= req.offset /\ Fits
      /\ written' = written + Size(i) /\ packed' = Append(packed, i) /\ i' = i + 1
      /\ UNCHANGED <<start, pc, req, offset, pos, got>>
  BY DEF Pack, client
<1>2. /\ i \in Nat /\ i + 1 \in DOMAIN start /\ start[i] \in Nat /\ Size(i) \in Nat
      /\ start[i] + Size(i) = start[i + 1] /\ req.offset = pos
      /\ offset + written = start[i] /\ offset <= pos
      /\ offset \in Nat /\ pos \in Nat /\ written \in Nat /\ packed \in Seq(Nat)
  BY <1>1, AtEntryFacts DEF TypeOK
<1>3. offset = pos /\ pos <= start[i] /\ Size(i) > 0
  <2>1. Size(i) > 0
    BY <1>1, Directory DEF IInv
  <2>2. offset = pos
    BY <1>1, <1>2
  <2> QED
    BY <1>2, <2>1, <2>2
<1>4. packed' \in Seq(Nat) /\ packed' # <<>>
  <2>1. i \in Nat /\ packed \in Seq(Nat)
    BY <1>2
  <2>2. Append(packed, i) \in Seq(Nat) /\ Append(packed, i) # <<>>
    BY <2>1, AppendProperties
  <2> QED
    BY <1>1, <2>2
<1>5. TypeOK'
  <2>1. written' \in Nat /\ i' \in Nat \ {0}
    BY <1>1, <1>2
  <2> QED
    BY <1>1, <1>4, <2>1 DEF TypeOK
<1>6. Monotone' /\ AtBoundary' /\ EachEntryOnce'
  BY <1>1, SameDirectory
<1>7. Packable' = Packable
  BY <1>1 DEF Packable, Entries, Size
<1>8. Range(packed') = {k \in Packable : k < i + 1 /\ pos <= start[k]}
  <2>1. Range(packed') = Range(packed) \cup {i}
    BY <1>1, <1>2, RangeAppend
  <2>2. {k \in {i} : i \in Packable /\ pos <= start[i]} = {i}
    BY <1>1, <1>3
  <2> QED
    BY <1>1, <2>1, <2>2, AtEntryFacts, NextEntry
<1>9. Ascending(packed')
  <2>1. Ascending(packed) /\ \A y \in Range(packed) : y < i
    BY <1>1, AtEntryFacts
  <2> QED
    BY <1>1, <1>2, <2>1, AscendingAppend
<1>10. start[packed'[1]] = pos
  <2>1. CASE packed = <<>>
    <3>1. packed'[1] = i
      BY <1>1, <2>1
    <3>2. written = 0
      BY <1>1, <2>1, AtEntryFacts
    <3> QED
      BY <1>2, <1>3, <3>1, <3>2
  <2>2. CASE packed # <<>>
    <3>1. 1 \in 1..Len(packed)
      BY <1>2, <2>2, EmptySeq, LenProperties
    <3>2. packed'[1] = packed[1]
      BY <1>1, <1>2, <3>1, AppendProperties
    <3> QED
      BY <1>1, <2>2, <3>2, AtEntryFacts
  <2> QED
    BY <2>1, <2>2
<1>11. /\ written' <= req.count /\ written' # 0
       /\ offset + written' = start[i + 1]
  BY <1>1, <1>2, <1>3 DEF Fits
<1>12. Packing'
  <2>1. /\ req'.offset = pos' /\ i' \in DOMAIN start'
        /\ offset' + written' = start'[i'] /\ offset' <= pos' /\ written' <= req'.count
    BY <1>1, <1>2, <1>11
  <2>2. /\ packed' = <<>> <=> written' = 0
        /\ packed' # <<>> => offset' = pos' /\ start'[packed'[1]] = pos'
    BY <1>1, <1>3, <1>4, <1>10, <1>11
  <2>3. Ascending(packed)'
    BY <1>9 DEF Ascending
  <2>4. Range(packed') = {k \in Packable' : k < i' /\ pos' <= start'[k]}
    BY <1>1, <1>7, <1>8
  <2> QED
    BY <2>1, <2>2, <2>3, <2>4 DEF Packing
<1> QED
  BY <1>5, <1>6, <1>12 DEF IInv

(* What the answer adds to the entries the client has. *)
LEMMA RreadKeeps ==
  ASSUME TypeOK, IInv, Rread
  PROVE  TypeOK' /\ IInv'
<1>1. pc = "pack" /\ pos' = pos + written /\ got' = got \o packed /\ pc' = "idle"
      /\ UNCHANGED <<start, req, i, offset, written, packed>>
  BY DEF Rread, Finished
<1>2. /\ i \in DOMAIN start /\ offset + written = start[i] /\ offset <= pos
      /\ packed = <<>> <=> written = 0
      /\ packed # <<>> => offset = pos
      /\ Ascending(packed)
      /\ Range(packed) = {k \in Packable : k < i /\ pos <= start[k]}
  BY <1>1 DEF IInv, Packing
<1>3. /\ pos \in Nat /\ written \in Nat /\ offset \in Nat
      /\ packed \in Seq(Nat) /\ got \in Seq(Nat)
  BY DEF TypeOK
<1>4. TypeOK'
  BY <1>1, <1>3, ConcatProperties DEF TypeOK
<1>5. Monotone' /\ Packing'
  BY <1>1 DEF IInv, Monotone, Packing
<1>6. Packable' = Packable
  BY <1>1 DEF Packable, Entries, Size
<1>7. CASE written = 0
  <2>1. got' = got /\ pos' = pos
    BY <1>1, <1>2, <1>3, <1>7, ConcatEmptySeq
  <2> QED
    BY <1>1, <1>4, <1>5, <2>1, SameDirectory DEF IInv
<1>8. CASE written # 0
  <2>1. pos' = start[i] /\ offset = pos
    BY <1>1, <1>2, <1>3, <1>8
  <2>2. AtBoundary'
    BY <1>1, <1>2, <2>1 DEF AtBoundary
  <2>3. Ascending(got) /\ Range(got) = {k \in Packable : start[k] < pos}
    BY DEF IInv, EachEntryOnce
  <2>4. \A k \in Packable : /\ start[k] \in Nat /\ k \in Nat /\ k \in DOMAIN start
                            /\ start[k] < start[i] <=> k < i
    BY <1>2, Before, Directory DEF IInv
  <2>5. start[i] \in Nat /\ pos <= start[i]
    BY <1>2, <1>3, <2>1
  <2>6. Range(got') = {k \in Packable : start[k] < start[i]}
    <3>1. Range(got') = Range(got) \cup Range(packed)
      BY <1>1, <1>3, RangeConcatenation
    <3> QED
      BY <1>2, <1>3, <2>3, <2>4, <2>5, <3>1
  <2>7. \A x \in Range(got), y \in Range(packed) : x < y
    <3> SUFFICES ASSUME NEW x \in Packable, NEW y \in Packable,
                        start[x] < pos, pos <= start[y]
                 PROVE  x < y
      BY <1>2, <2>3
    <3>1. start[x] < start[y] /\ y \in DOMAIN start
      BY <1>3, <2>4
    <3> QED
      BY <3>1, Before DEF IInv
  <2>8. Ascending(got')
    BY <1>1, <1>2, <1>3, <2>3, <2>7, AscendingConcat
  <2>9. EachEntryOnce'
    BY <1>1, <1>6, <2>1, <2>6, <2>8 DEF EachEntryOnce, Ascending
  <2> QED
    BY <1>4, <1>5, <2>2, <2>9 DEF IInv
<1> QED
  BY <1>7, <1>8
-----------------------------------------------------------------------------
(* The theorems *)

LEMMA Step == TypeOK /\ IInv /\ [Next]_vars => TypeOK' /\ IInv'
<1> SUFFICES ASSUME TypeOK, IInv, [Next]_vars PROVE TypeOK' /\ IInv'
  OBVIOUS
<1>1. ASSUME NEW n \in Sizes, Grow(n) PROVE TypeOK' /\ IInv'
  BY <1>1, GrowKeeps
<1>2. ASSUME NEW n \in Counts, Tread(n) PROVE TypeOK' /\ IInv'
  BY <1>2, TreadKeeps
<1>3. CASE Rewind
  <2>1. UNCHANGED <<start, pc, req, i, offset, written, packed>> /\ pc = "idle"
        /\ pos' = 0 /\ got' = <<>>
    BY <1>3 DEF Rewind, server
  <2>2. TypeOK'
    BY <2>1 DEF TypeOK
  <2>3. Monotone' /\ Packing'
    BY <2>1 DEF IInv, Monotone, Packing
  <2>4. AtBoundary'
    <3>1. 1 \in DOMAIN start /\ start[1] = 0
      BY Directory DEF IInv, Monotone
    <3> QED
      BY <2>1, <3>1 DEF AtBoundary
  <2>5. EachEntryOnce'
    <3>1. Range(got') = {} /\ Ascending(got)'
      BY <2>1 DEF Range, Ascending
    <3>2. Packable' = Packable
      BY <2>1 DEF Packable, Entries, Size
    <3>3. \A k \in Packable : ~(start[k] < 0)
      <4> TAKE k \in Packable
      <4>1. start[k] \in Nat
        BY Directory DEF IInv
      <4> QED
        BY <4>1
    <3> QED
      BY <2>1, <3>1, <3>2, <3>3 DEF EachEntryOnce
  <2> QED
    BY <2>2, <2>3, <2>4, <2>5 DEF IInv
<1>4. CASE LeaveOut
  BY <1>4, LeaveOutKeeps
<1>5. CASE Skip
  BY <1>5, SkipKeeps
<1>6. CASE Pack
  BY <1>6, PackKeeps
<1>7. CASE Rread
  BY <1>7, RreadKeeps
<1>8. CASE UNCHANGED vars
  BY <1>8 DEF vars, server, client, TypeOK, IInv, Monotone, AtBoundary, EachEntryOnce,
              Packing, Packable, Entries, Size, Ascending
<1> QED
  BY <1>1, <1>2, <1>3, <1>4, <1>5, <1>6, <1>7, <1>8 DEF Next

(* The types and the inductive invariant hold for every directory, however *)
(* it grows, and for every count a client asks for.                        *)
THEOREM Invariant == Spec => [](TypeOK /\ IInv)
<1>1. Init => TypeOK /\ IInv
  BY Initially
<1> QED
  BY <1>1, Step, PTL DEF Spec

(* The variables of the server's loop and of the client have their types.  *)
THEOREM Typed == Spec => []TypeOK
BY Invariant, PTL

(* However its requests cut the listing, a client has each entry before    *)
(* its offset once, in the order of the directory.                         *)
THEOREM NoEntryTwice == Spec => []EachEntryOnce
<1>1. IInv => EachEntryOnce
  BY DEF IInv
<1> QED
  BY <1>1, Invariant, PTL

(* No answer is longer than was asked for, and none has a gap.             *)
THEOREM NoGap == Spec => []AnswerFollowsOffset
<1>1. TypeOK /\ IInv => AnswerFollowsOffset
  BY DEF TypeOK, IInv, Packing, AnswerFollowsOffset
<1> QED
  BY <1>1, Invariant, PTL
-----------------------------------------------------------------------------
(* Empty answers *)

(* The server stops without an entry only at the end of the list, or before *)
(* one that is larger than the whole count.                                 *)
LEMMA EmptyAnswer ==
  ASSUME TypeOK, IInv, Rread, written = 0
  PROVE  \/ Range(got) = Packable
         \/ i \in Packable /\ start[i] = pos /\ Size(i) > req.count
<1> SUFFICES ASSUME ~(i \in Packable /\ start[i] = pos /\ Size(i) > req.count)
             PROVE  Range(got) = Packable
  OBVIOUS
<1>1. pc = "pack"
  BY DEF Rread, Finished
<1>2. /\ i \in DOMAIN start /\ offset + written = start[i] /\ offset <= pos
      /\ req.offset = pos /\ offset \in Nat /\ pos \in Nat
  BY <1>1 DEF IInv, Packing, TypeOK
<1>3. i \notin Packable
  <2> SUFFICES ASSUME i \in Packable PROVE FALSE
    OBVIOUS
  <2>1. offset >= req.offset /\ ~Fits
    BY DEF Rread, Finished
  <2>2. start[i] = pos
    BY <1>2, <2>1
  <2>3. Size(i) \in Int /\ req.count \in Nat
    <3>1. start[i] \in Nat /\ start[i + 1] \in Nat
      BY Directory DEF IInv, Packable, Entries
    <3>2. Size(i) \in Int
      BY <3>1 DEF Size
    <3>3. req \in [offset : Nat, count : 1..MaxCount]
      BY DEF TypeOK, Request
    <3> QED
      BY <3>2, <3>3
  <2>4. Size(i) > req.count
    BY <2>1, <2>3 DEF Fits
  <2> QED
    BY <2>2, <2>4
<1>4. i \notin Entries
  BY <1>3 DEF Rread, Finished
<1>5. \A k \in Packable : k < i
  <2> TAKE k \in Packable
  <2>1. k \in Entries
    BY DEF Packable
  <2>2. Len(start) \in Nat \ {0} /\ i \in 1..Len(start)
    BY <1>2, Directory DEF IInv
  <2>3. i \notin 1..(Len(start) - 1) /\ k \in 1..(Len(start) - 1)
    BY <1>4, <2>1 DEF Entries
  <2>4. i = Len(start)
    BY <2>2, <2>3
  <2> QED
    BY <2>2, <2>3, <2>4
<1>6. \A k \in Packable : start[k] < pos
  <2> TAKE k \in Packable
  <2>1. start[k] < start[i] /\ start[k] \in Nat /\ start[i] \in Nat
    BY <1>2, <1>5, Before, Directory DEF IInv
  <2> QED
    BY <1>2, <2>1
<1> QED
  BY <1>6 DEF IInv, EachEntryOnce

(* An empty answer is given only to a client that has every entry, or that *)
(* asked for less than the next one alone takes.                           *)
THEOREM EmptyIsEnd == Spec => EmptyMeansEnd
<1>1. TypeOK /\ IInv /\ [Next]_vars
        => [Rread /\ written = 0 =>
              \/ Range(got) = Packable
              \/ i \in Packable /\ start[i] = pos /\ Size(i) > req.count]_vars
  BY EmptyAnswer
<1> QED
  BY <1>1, Invariant, PTL DEF Spec, EmptyMeansEnd
==============================================================================
