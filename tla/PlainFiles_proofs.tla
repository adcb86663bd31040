--------------------------- MODULE PlainFiles_proofs ---------------------------
(***************************************************************************)
(* Proofs about PlainFiles.  Sequences are compared byte by byte: each     *)
(* step that changes a text first says which bytes are where.              *)
(***************************************************************************)
EXTENDS PlainFiles, SequenceTheorems, TLAPS

(* A function on 1..n is a sequence. *)
LEMMA SeqOf ==
  ASSUME NEW S, NEW n \in Nat, NEW m \in [1..n -> S]
  PROVE  m \in Seq(S) /\ Len(m) = n
<1>1. m \in Seq(S)
  BY SeqDef
<1>2. DOMAIN m = 1..n /\ DOMAIN m = 1..Len(m) /\ Len(m) \in Nat
  BY <1>1, LenProperties
<1> QED
  BY <1>1, <1>2

(* The bytes of a text, and where they are in memory. *)
LEMMA TextIs ==
  ASSUME TypeOK, NEW f \in File
  PROVE  /\ Text(f) \in Seq(Byte)
         /\ Len(Text(f)) = len[f]
         /\ \A i \in 1..len[f] : Text(f)[i] = mem[f][i] /\ mem[f][i] \in Byte
<1>1. /\ mem[f] \in Seq(Byte \cup {NUL})
      /\ len[f] \in Nat /\ Len(mem[f]) \in Nat /\ len[f] <= Len(mem[f])
      /\ Text(f) \in Seq(Byte)
  BY LenProperties DEF TypeOK
<1>2. \A i \in 1..len[f] : mem[f][i] \in Byte \cup {NUL}
  BY <1>1, ElementOfSeq
<1>3. /\ Len(Text(f)) = IF 1 <= len[f] THEN len[f] - 1 + 1 ELSE 0
      /\ \A i \in 1..(len[f] - 1 + 1) : Text(f)[i] = mem[f][1 + i - 1]
  BY <1>1, <1>2, SubSeqProperties DEF Text
<1>4. Len(Text(f)) = len[f]
  BY <1>1, <1>3
<1>5. ASSUME NEW i \in 1..len[f]
      PROVE  Text(f)[i] = mem[f][i] /\ mem[f][i] \in Byte
  <2>1. Text(f)[i] = mem[f][i]
    BY <1>1, <1>3
  <2>2. Text(f)[i] \in Byte
    BY <1>1, <1>4, ElementOfSeq
  <2> QED
    BY <2>1, <2>2
<1> QED
  BY <1>1, <1>4, <1>5

(* The first n bytes of a memory, if they are bytes of a text. *)
LEMMA FirstBytes ==
  ASSUME NEW m, NEW n \in Nat, \A i \in 1..n : m[i] \in Byte
  PROVE  /\ SubSeq(m, 1, n) \in Seq(Byte)
         /\ Len(SubSeq(m, 1, n)) = n
         /\ \A i \in 1..n : SubSeq(m, 1, n)[i] = m[i]
<1>1. /\ SubSeq(m, 1, n) \in Seq(Byte)
      /\ Len(SubSeq(m, 1, n)) = IF 1 <= n THEN n - 1 + 1 ELSE 0
      /\ \A i \in 1..(n - 1 + 1) : SubSeq(m, 1, n)[i] = m[1 + i - 1]
  BY SubSeqProperties
<1> QED
  BY <1>1

(* What a read of k bytes at offset o yields is that part of the text. *)
LEMMA SliceIs ==
  ASSUME TypeOK, NEW f \in File, NEW o \in Nat, NEW k \in Nat,
         k > 0, o + k <= len[f]
  PROVE  /\ SubSeq(mem[f], o + 1, o + k) \in Seq(Byte)
         /\ Len(SubSeq(mem[f], o + 1, o + k)) = k
         /\ SubSeq(mem[f], o + 1, o + k) = SubSeq(Text(f), o + 1, o + k)
<1> DEFINE a == SubSeq(mem[f], o + 1, o + k)
           b == SubSeq(Text(f), o + 1, o + k)
<1>1. len[f] \in Nat
  BY DEF TypeOK
<1>2. \A i \in (o + 1)..(o + k) : /\ Text(f)[i] = mem[f][i]
                                  /\ mem[f][i] \in Byte /\ Text(f)[i] \in Byte
  BY <1>1, TextIs
<1>3. /\ a \in Seq(Byte)
      /\ Len(a) = IF o + 1 <= o + k THEN (o + k) - (o + 1) + 1 ELSE 0
      /\ \A i \in 1..((o + k) - (o + 1) + 1) : a[i] = mem[f][(o + 1) + i - 1]
  BY <1>2, SubSeqProperties
<1>4. /\ b \in Seq(Byte)
      /\ Len(b) = IF o + 1 <= o + k THEN (o + k) - (o + 1) + 1 ELSE 0
      /\ \A i \in 1..((o + k) - (o + 1) + 1) : b[i] = Text(f)[(o + 1) + i - 1]
  BY <1>2, SubSeqProperties
<1> HIDE DEF a, b
<1>5. Len(a) = k /\ Len(b) = k
  BY <1>3, <1>4
<1>6. \A i \in 1..k : a[i] = b[i]
  <2> TAKE i \in 1..k
  <2>1. /\ i \in 1..((o + k) - (o + 1) + 1) /\ (o + 1) + i - 1 \in (o + 1)..(o + k)
    OBVIOUS
  <2> QED
    BY <1>2, <1>3, <1>4, <2>1
<1>7. a = b
  BY <1>3, <1>4, <1>5, <1>6, SeqEqual
<1> QED
  BY <1>3, <1>5, <1>7 DEF a, b
-----------------------------------------------------------------------------
(* The initial state *)

LEMMA InitIInv == Init => IInv
<1> SUFFICES ASSUME Init PROVE IInv
  OBVIOUS
<1> USE PlainFilesAssumption
<1>1. \A f \in File : Start[f] \in Seq(Byte) /\ Len(Start[f]) \in Nat /\ len[f] = Len(Start[f])
  BY LenProperties DEF Init
<1>2. ASSUME NEW f \in File
      PROVE  /\ mem[f] \in Seq(Byte \cup {NUL})
             /\ len[f] <= Len(mem[f])
             /\ \A i \in 1..len[f] : mem[f][i] = Start[f][i]
             /\ Kind[f] = "host" => len[f] = Len(mem[f])
             /\ f \in Buffer /\ Limit[f] # 0 => Len(mem[f]) = Limit[f] + 1
             /\ Kind[f] # "host" => len[f] < Len(mem[f]) /\ mem[f][len[f] + 1] = NUL
  <2> DEFINE s == Start[f]
  <2>1. s \in Seq(Byte) /\ s \in Seq(Byte \cup {NUL}) /\ Len(s) \in Nat /\ len[f] = Len(s)
    BY <1>1, SeqMonotonic
  <2>2. \A i \in 1..Len(s) : s[i] \in Byte
    BY <2>1, ElementOfSeq
  <2>3. CASE Kind[f] = "host"
    <3>1. mem[f] = s
      BY <2>3 DEF Init
    <3> QED
      BY <2>1, <2>3, <3>1 DEF Buffer
  <2>4. CASE Kind[f] = "buffer" /\ Limit[f] # 0
    <3> DEFINE n == Limit[f] + 1
               m == [i \in 1..n |-> IF i <= Len(s) THEN s[i] ELSE NUL]
    <3>1. mem[f] = m
      BY <2>4 DEF Init
    <3>2. n \in Nat /\ Len(s) < n
      BY <2>1, <2>4 DEF Buffer
    <3> HIDE DEF s
    <3>3. m \in [1..n -> Byte \cup {NUL}]
      BY <2>1, <2>2
    <3> HIDE DEF n
    <3>4. m \in Seq(Byte \cup {NUL}) /\ Len(m) = n
      BY <3>2, <3>3, SeqOf
    <3>5. \A i \in 1..n : m[i] = IF i <= Len(s) THEN s[i] ELSE NUL
      OBVIOUS
    <3> HIDE DEF m
    <3>6. \A i \in 1..Len(s) : m[i] = s[i]
      <4> TAKE i \in 1..Len(s)
      <4>1. i \in 1..n /\ i <= Len(s)
        BY <2>1, <3>2
      <4> QED
        BY <3>5, <4>1
    <3>7. m[Len(s) + 1] = NUL
      BY <2>1, <3>2, <3>5
    <3> QED
      BY <2>1, <2>4, <3>1, <3>2, <3>4, <3>6, <3>7 DEF s, n
  <2>5. CASE Kind[f] # "host" /\ ~(Kind[f] = "buffer" /\ Limit[f] # 0)
    <3>1. mem[f] = Append(s, NUL)
      BY <2>5 DEF Init
    <3>2. /\ Append(s, NUL) \in Seq(Byte \cup {NUL})
          /\ Len(Append(s, NUL)) = Len(s) + 1
          /\ \A i \in 1..Len(s) : Append(s, NUL)[i] = s[i]
          /\ Append(s, NUL)[Len(s) + 1] = NUL
      BY <2>1, AppendProperties
    <3> QED
      BY <2>1, <2>5, <3>1, <3>2 DEF Buffer
  <2> QED
    BY <2>3, <2>4, <2>5
<1>3. \A f \in File : Text(f) \in Seq(Byte)
  <2> TAKE f \in File
  <2>1. \A i \in 1..len[f] : Start[f][i] \in Byte
    <3>1. Start[f] \in Seq(Byte) /\ len[f] = Len(Start[f])
      BY <1>1
    <3> QED
      BY <3>1, ElementOfSeq
  <2>2. \A i \in 1..len[f] : mem[f][i] \in Byte
    BY <1>2, <2>1
  <2> QED
    BY <1>1, <2>2, FirstBytes DEF Text
<1>4. TypeOK
  <2>1. mem \in [File -> Seq(Byte \cup {NUL})] /\ len \in [File -> Nat]
    <3>1. DOMAIN mem = File /\ mem = [f \in File |-> mem[f]]
      BY DEF Init
    <3>2. len = [f \in File |-> len[f]]
      BY DEF Init
    <3> QED
      BY <1>1, <1>2, <3>1, <3>2
  <2>2. got \in [Client -> Seq(Byte)]
    BY EmptySeq DEF Init
  <2>3. \A f \in File : len[f] <= Len(mem[f]) /\ Text(f) \in Seq(Byte)
    BY <1>2, <1>3
  <2> QED
    BY <2>1, <2>2, <2>3 DEF Init, TypeOK
<1>5. Terminated
  BY <1>2 DEF Terminated
<1>6. StoreOK
  <2>1. \A f \in File : Kind[f] = "none" => len[f] = 0
    BY <1>1, EmptySeq
  <2> QED
    BY <1>2, <2>1 DEF StoreOK
<1>7. ReadersOK
  BY DEF Init, ReadersOK
<1>8. PrefixRead /\ AnnouncedIsRead
  BY DEF Init, PrefixRead, AnnouncedIsRead
<1> QED
  BY <1>4, <1>5, <1>6, <1>7, <1>8 DEF IInv
-----------------------------------------------------------------------------
(* Requests that leave the texts alone *)

LEMMA SameTexts ==
  ASSUME IInv, mem' = mem, len' = len
  PROVE  /\ mem' \in [File -> Seq(Byte \cup {NUL})]
         /\ len' \in [File -> Nat]
         /\ \A f \in File : len'[f] <= Len(mem'[f]) /\ Text(f)' \in Seq(Byte)
         /\ \A f \in File : Text(f)' = Text(f)
         /\ Terminated'
         /\ StoreOK'
<1>1. \A f \in File : Text(f)' = Text(f)
  BY DEF Text
<1>2. /\ mem \in [File -> Seq(Byte \cup {NUL})]
      /\ len \in [File -> Nat]
      /\ \A f \in File : len[f] <= Len(mem[f]) /\ Text(f) \in Seq(Byte)
      /\ Terminated /\ StoreOK
  BY DEF IInv, TypeOK
<1> QED
  BY <1>1, <1>2 DEF Terminated, StoreOK

LEMMA PassStep ==
  ASSUME IInv, UNCHANGED <<mem, len, fids, reader, stable>>,
         live' \in [File -> BOOLEAN], kept' \in [File -> BOOLEAN],
         reply' \in Nat \cup {Denied}
  PROVE  IInv'
<1>1. /\ mem' = mem /\ len' = len /\ file' = file /\ append' = append /\ writes' = writes
      /\ pos' = pos /\ got' = got /\ atEnd' = atEnd /\ stable' = stable
  BY DEF fids, reader
<1>2. TypeOK'
  BY <1>1, SameTexts DEF IInv, TypeOK
<1>3. ReadersOK' /\ PrefixRead' /\ AnnouncedIsRead'
  BY <1>1 DEF IInv, ReadersOK, PrefixRead, AnnouncedIsRead, Announced, SizeString, Text
<1> QED
  BY <1>1, <1>2, <1>3, SameTexts DEF IInv

LEMMA OpenedStep ==
  ASSUME IInv, NEW c \in Client, NEW f \in File, NEW m \in Mode,
         file[c] = NULL, Opened(c, f, m), live' \in [File -> BOOLEAN]
  PROVE  IInv'
<1>1. /\ mem' = mem /\ len' = len /\ kept' = kept
      /\ pos' = pos /\ got' = got /\ atEnd' = atEnd
      /\ file' = [file EXCEPT ![c] = f]
      /\ append' = [append EXCEPT ![c] = m.append]
      /\ writes' = [writes EXCEPT ![c] = m.acc \in {"write", "rdwr"}]
      /\ stable' = [stable EXCEPT ![c] = TRUE]
      /\ reply' = 0
  BY DEF Opened, reader
<1>2. /\ file \in [Client -> File \cup {NULL}] /\ stable \in [Client -> BOOLEAN]
      /\ append \in [Client -> BOOLEAN] /\ writes \in [Client -> BOOLEAN]
      /\ len[f] \in Nat /\ f # NULL /\ m.append \in BOOLEAN
      /\ (m.acc \in {"write", "rdwr"}) \in BOOLEAN
  BY PlainFilesAssumption DEF IInv, TypeOK, AnyMode
<1>3. /\ got[c] = <<>> /\ pos[c] = 0 /\ ~atEnd[c]
      /\ file'[c] = f /\ stable'[c] = TRUE
  BY <1>1, <1>2 DEF IInv, ReadersOK
<1>4. \A b \in Client \ {c} : file'[b] = file[b] /\ stable'[b] = stable[b]
  BY <1>1
<1>5. TypeOK'
  <2>1. /\ file' \in [Client -> File \cup {NULL}] /\ stable' \in [Client -> BOOLEAN]
        /\ append' \in [Client -> BOOLEAN] /\ writes' \in [Client -> BOOLEAN]
    BY <1>1, <1>2
  <2>2. reply' \in Nat \cup {Denied} /\ kept' \in [File -> BOOLEAN]
    BY <1>1 DEF IInv, TypeOK
  <2> QED
    BY <1>1, <2>1, <2>2, SameTexts DEF IInv, TypeOK
<1>6. ReadersOK'
  <2> SUFFICES ASSUME NEW b \in Client
               PROVE  /\ stable'[b] \/ file'[b] \in Buffer
                      /\ file'[b] = NULL => got[b] = <<>> /\ pos[b] = 0 /\ ~atEnd[b]
                      /\ file'[b] # NULL /\ stable'[b] => pos[b] <= len[file'[b]]
    BY <1>1 DEF ReadersOK
  <2> QED
    BY <1>2, <1>3, <1>4 DEF IInv, ReadersOK
<1>7. PrefixRead'
  <2> SUFFICES ASSUME NEW b \in Client, file'[b] # NULL, stable'[b]
               PROVE  got[b] = SubSeq(Text(file'[b]), 1, pos[b])
    BY <1>1 DEF PrefixRead, Text
  <2>1. CASE b = c
    <3>1. SubSeq(Text(f), 1, 0) = <<>>
      BY SubSeqEmpty
    <3> QED
      BY <1>3, <2>1, <3>1
  <2>2. CASE b # c
    BY <1>4, <2>2 DEF IInv, PrefixRead
  <2> QED
    BY <2>1, <2>2
<1>8. AnnouncedIsRead'
  <2> SUFFICES ASSUME NEW b \in Client, file'[b] # NULL, atEnd[b], Kind[file'[b]] = "string"
               PROVE  len[file'[b]] = pos[b]
    BY <1>1 DEF AnnouncedIsRead, Announced, SizeString
  <2> QED
    BY <1>3, <1>4 DEF IInv, AnnouncedIsRead, Announced, SizeString
<1> QED
  BY <1>1, <1>5, <1>6, <1>7, <1>8, SameTexts DEF IInv

LEMMA ForgetStep ==
  ASSUME IInv, NEW c \in Client, Forget(c),
         kept' \in [File -> BOOLEAN], reply' \in Nat \cup {Denied}
  PROVE  IInv'
<1>1. /\ mem' = mem /\ len' = len /\ live' = live
      /\ file' = [file EXCEPT ![c] = NULL]
      /\ append' = [append EXCEPT ![c] = FALSE]
      /\ writes' = [writes EXCEPT ![c] = FALSE]
      /\ pos' = [pos EXCEPT ![c] = 0]
      /\ got' = [got EXCEPT ![c] = <<>>]
      /\ atEnd' = [atEnd EXCEPT ![c] = FALSE]
      /\ stable' = [stable EXCEPT ![c] = TRUE]
  BY DEF Forget
<1>2. /\ file \in [Client -> File \cup {NULL}] /\ stable \in [Client -> BOOLEAN]
      /\ append \in [Client -> BOOLEAN] /\ writes \in [Client -> BOOLEAN]
      /\ pos \in [Client -> Nat] /\ got \in [Client -> Seq(Byte)]
      /\ atEnd \in [Client -> BOOLEAN]
  BY DEF IInv, TypeOK
<1>3. /\ file'[c] = NULL /\ stable'[c] = TRUE /\ pos'[c] = 0
      /\ got'[c] = <<>> /\ atEnd'[c] = FALSE
  BY <1>1, <1>2
<1>4. \A b \in Client \ {c} : /\ file'[b] = file[b] /\ stable'[b] = stable[b]
                              /\ pos'[b] = pos[b] /\ got'[b] = got[b] /\ atEnd'[b] = atEnd[b]
  BY <1>1
<1>5. TypeOK'
  <2>1. /\ file' \in [Client -> File \cup {NULL}] /\ stable' \in [Client -> BOOLEAN]
        /\ append' \in [Client -> BOOLEAN] /\ writes' \in [Client -> BOOLEAN]
        /\ pos' \in [Client -> Nat] /\ atEnd' \in [Client -> BOOLEAN]
    BY <1>1, <1>2
  <2>2. got' \in [Client -> Seq(Byte)]
    BY <1>1, <1>2, EmptySeq
  <2> QED
    BY <1>1, <2>1, <2>2, SameTexts DEF IInv, TypeOK
<1>6. ReadersOK'
  <2> SUFFICES ASSUME NEW b \in Client
               PROVE  /\ stable'[b] \/ file'[b] \in Buffer
                      /\ file'[b] = NULL => got'[b] = <<>> /\ pos'[b] = 0 /\ ~atEnd'[b]
                      /\ file'[b] # NULL /\ stable'[b] => pos'[b] <= len[file'[b]]
    BY <1>1 DEF ReadersOK
  <2> QED
    BY <1>3, <1>4 DEF IInv, ReadersOK
<1>7. PrefixRead'
  <2> SUFFICES ASSUME NEW b \in Client, file'[b] # NULL, stable'[b]
               PROVE  got'[b] = SubSeq(Text(file'[b]), 1, pos'[b])
    BY <1>1 DEF PrefixRead, Text
  <2> QED
    BY <1>3, <1>4 DEF IInv, PrefixRead
<1>8. AnnouncedIsRead'
  <2> SUFFICES ASSUME NEW b \in Client, file'[b] # NULL, atEnd'[b], Kind[file'[b]] = "string"
               PROVE  len[file'[b]] = pos'[b]
    BY <1>1 DEF AnnouncedIsRead, Announced, SizeString
  <2> QED
    BY <1>3, <1>4 DEF IInv, AnnouncedIsRead, Announced, SizeString
<1> QED
  BY <1>1, <1>5, <1>6, <1>7, <1>8, SameTexts DEF IInv
-----------------------------------------------------------------------------
(* Reading *)

(* What an answer is, whatever serves the file: the bytes that follow       *)
(* those the client has, or nothing at the end of the text or when the host *)
(* file has lost its descriptor.                                            *)
LEMMA AnswerIs ==
  ASSUME IInv, NEW c \in Client, NEW n \in Count, NEW f \in File, file[c] = f,
         n > 0 \/ f \notin Buffer,
         NEW a \in Answers(f, pos[c], n)
  PROVE  /\ a \in Seq(Byte) /\ Len(a) \in Nat
         /\ a # <<>> => /\ Len(a) > 0 /\ pos[c] + Len(a) <= len[f]
                        /\ a = SubSeq(Text(f), pos[c] + 1, pos[c] + Len(a))
         /\ a = <<>> => Len(a) = 0 /\ (pos[c] >= len[f] \/ (f \in HostFile /\ ~live[f]))
<1> DEFINE o == pos[c]
           l == len[f]
<1>1. o \in Nat /\ l \in Nat /\ n \in Nat /\ TypeOK
  BY PlainFilesAssumption DEF IInv, TypeOK
<1>2. Clamp(n) \in Nat /\ Clamp(n) > 0
  BY <1>1, PlainFilesAssumption DEF Clamp
<1>3. \/ a = <<>> /\ (o >= l \/ (f \in HostFile /\ ~live[f]))
      \/ \E k \in Nat : k > 0 /\ o + k <= l /\ a = SubSeq(mem[f], o + 1, o + k)
  <2>1. CASE Kind[f] = "string"
    <3>1. a = ReadString(f, o, Clamp(n))
      BY <2>1 DEF Answers
    <3>2. CASE o >= l
      BY <3>1, <3>2 DEF ReadString
    <3>3. CASE ~(o >= l)
      <4> DEFINE k == IF o + Clamp(n) > l THEN l - o ELSE Clamp(n)
      <4>1. a = SubSeq(mem[f], o + 1, o + k)
        BY <3>1, <3>3 DEF ReadString
      <4>2. k \in Nat /\ k > 0 /\ o + k <= l
        BY <1>1, <1>2, <3>3
      <4> QED
        BY <4>1, <4>2
    <3> QED
      BY <3>2, <3>3
  <2>2. CASE Kind[f] = "host"
    <3>1. a \in ReadHost(f, o, Clamp(n))
      BY <2>2 DEF Answers
    <3>2. CASE ~live[f] \/ o >= l
      BY <2>2, <3>1, <3>2 DEF ReadHost, HostFile
    <3>3. CASE ~(~live[f] \/ o >= l)
      <4>1. PICK k \in 1..Least(l - o, Clamp(n)) : a = SubSeq(mem[f], o + 1, o + k)
        BY <3>1, <3>3 DEF ReadHost
      <4>2. k \in Nat /\ k > 0 /\ o + k <= l
        BY <1>1, <1>2, <3>3 DEF Least
      <4> QED
        BY <4>1, <4>2
    <3> QED
      BY <3>2, <3>3
  <2>3. CASE Kind[f] = "buffer"
    <3>1. a = ReadBuffer(f, o, n) /\ n > 0
      BY <1>1, <2>3 DEF Answers, Buffer
    <3>2. CASE o >= l
      BY <3>1, <3>2 DEF ReadBuffer
    <3>3. CASE ~(o >= l)
      <4> DEFINE k == Least(l - o, n)
      <4>1. a = SubSeq(mem[f], o + 1, o + k)
        BY <3>1, <3>3 DEF ReadBuffer
      <4>2. k \in Nat /\ k > 0 /\ o + k <= l
        BY <1>1, <3>1, <3>3 DEF Least
      <4> QED
        BY <4>1, <4>2
    <3> QED
      BY <3>2, <3>3
  <2>4. CASE Kind[f] = "none"
    <3>1. a = <<>>
      BY <2>4 DEF Answers, ReadDefault
    <3>2. l = 0
      BY <2>4 DEF IInv, StoreOK
    <3> QED
      BY <1>1, <3>1, <3>2
  <2> QED
    BY <2>1, <2>2, <2>3, <2>4, PlainFilesAssumption
<1>4. CASE a = <<>> /\ (o >= l \/ (f \in HostFile /\ ~live[f]))
  BY <1>4, EmptySeq
<1>5. ASSUME NEW k \in Nat, k > 0, o + k <= l, a = SubSeq(mem[f], o + 1, o + k)
      PROVE  /\ a \in Seq(Byte) /\ Len(a) = k /\ a # <<>>
             /\ a = SubSeq(Text(f), o + 1, o + k)
  <2>1. o + k <= len[f] /\ k > 0
    BY <1>5
  <2> HIDE DEF o
  <2>2. /\ SubSeq(mem[f], o + 1, o + k) \in Seq(Byte)
        /\ Len(SubSeq(mem[f], o + 1, o + k)) = k
        /\ SubSeq(mem[f], o + 1, o + k) = SubSeq(Text(f), o + 1, o + k)
    BY <1>1, <2>1, SliceIs
  <2>3. a \in Seq(Byte) /\ Len(a) = k /\ a = SubSeq(Text(f), o + 1, o + k)
    BY <1>5, <2>2
  <2>4. Len(<<>>) = 0
    BY EmptySeq
  <2>5. a # <<>>
    <3> SUFFICES ASSUME a = <<>> PROVE FALSE
      OBVIOUS
    <3>1. Len(a) = 0
      BY <2>4
    <3> QED
      BY <2>1, <2>3, <3>1
  <2> QED
    BY <2>3, <2>5
<1> QED
  BY <1>1, <1>3, <1>4, <1>5

LEMMA ReadStep ==
  ASSUME IInv, NEW c \in Client, NEW n \in Count, Read(c, n)
  PROVE  IInv'
<1> DEFINE f == file[c]
           t == Text(f)
<1>1. /\ f \in File /\ f # NULL /\ ~atEnd[c] /\ (n > 0 \/ f \notin Buffer)
      /\ mem' = mem /\ len' = len /\ live' = live /\ kept' = kept
      /\ file' = file /\ append' = append /\ writes' = writes
      /\ stable' = stable /\ reply' = 0
  BY DEF Read, store, fids, IInv, TypeOK
<1>2. PICK a \in Answers(f, pos[c], n) :
        /\ got' = [got EXCEPT ![c] = @ \o a]
        /\ pos' = [pos EXCEPT ![c] = @ + Len(a)]
        /\ atEnd' = [atEnd EXCEPT ![c] = a = <<>>]
  BY DEF Read
<1>3. /\ a \in Seq(Byte) /\ Len(a) \in Nat
      /\ a # <<>> => /\ Len(a) > 0 /\ pos[c] + Len(a) <= len[f]
                     /\ a = SubSeq(t, pos[c] + 1, pos[c] + Len(a))
      /\ a = <<>> => Len(a) = 0 /\ (pos[c] >= len[f] \/ (f \in HostFile /\ ~live[f]))
  <2> HIDE DEF f
  <2>1. file[c] = f
    BY DEF f
  <2> QED
    BY <1>1, <2>1, AnswerIs DEF t
<1>4. /\ pos \in [Client -> Nat] /\ got \in [Client -> Seq(Byte)]
      /\ atEnd \in [Client -> BOOLEAN] /\ TypeOK
      /\ pos[c] \in Nat /\ got[c] \in Seq(Byte) /\ len[f] \in Nat
  BY <1>1 DEF IInv, TypeOK
<1>5. /\ t \in Seq(Byte) /\ Len(t) = len[f]
  BY <1>1, <1>4, TextIs
<1>6. /\ got[c] \o a \in Seq(Byte) /\ pos[c] + Len(a) \in Nat
  BY <1>3, <1>4, ConcatProperties
<1>7. /\ got'[c] = got[c] \o a /\ pos'[c] = pos[c] + Len(a) /\ atEnd'[c] = (a = <<>>)
      /\ \A b \in Client \ {c} : got'[b] = got[b] /\ pos'[b] = pos[b] /\ atEnd'[b] = atEnd[b]
  BY <1>2, <1>4
<1>8. stable[c] => pos[c] <= len[f] /\ got[c] = SubSeq(t, 1, pos[c])
  BY <1>1 DEF IInv, ReadersOK, PrefixRead
<1> HIDE DEF t
<1>9. TypeOK'
  <2>1. pos' \in [Client -> Nat] /\ got' \in [Client -> Seq(Byte)]
    BY <1>2, <1>4, <1>6
  <2>2. atEnd' \in [Client -> BOOLEAN]
    BY <1>2, <1>4
  <2> QED
    BY <1>1, <2>1, <2>2, SameTexts DEF IInv, TypeOK
<1>10. ReadersOK'
  <2> SUFFICES ASSUME NEW b \in Client
               PROVE  /\ stable[b] \/ file[b] \in Buffer
                      /\ file[b] = NULL => got'[b] = <<>> /\ pos'[b] = 0 /\ ~atEnd'[b]
                      /\ file[b] # NULL /\ stable[b] => pos'[b] <= len[file[b]]
    BY <1>1 DEF ReadersOK
  <2>1. CASE b = c
    <3>1. stable[c] => pos[c] + Len(a) <= len[f]
      BY <1>3, <1>4, <1>8
    <3> QED
      BY <1>1, <1>7, <2>1, <3>1 DEF IInv, ReadersOK
  <2>2. CASE b # c
    BY <1>7, <2>2 DEF IInv, ReadersOK
  <2> QED
    BY <2>1, <2>2
<1>11. PrefixRead'
  <2> SUFFICES ASSUME NEW b \in Client, file[b] # NULL, stable[b]
               PROVE  got'[b] = SubSeq(Text(file[b]), 1, pos'[b])
    BY <1>1 DEF PrefixRead, Text
  <2>1. CASE b = c /\ a # <<>>
    <3>0. /\ pos[c] \in Nat /\ Len(a) \in Nat /\ Len(t) \in Nat
          /\ pos[c] + Len(a) <= Len(t)
      BY <1>3, <1>4, <1>5, <2>1
    <3>1. /\ pos[c] \in (1 - 1)..Len(t)
          /\ pos[c] + Len(a) \in pos[c]..Len(t)
          /\ 1 \in 1..(Len(t) + 1)
      BY <3>0
    <3>2. SubSeq(t, 1, pos[c]) \o SubSeq(t, pos[c] + 1, pos[c] + Len(a)) = SubSeq(t, 1, pos[c] + Len(a))
      BY <1>5, <3>1, ConcatAdjacentSubSeq
    <3> QED
      BY <1>3, <1>7, <1>8, <2>1, <3>2 DEF t
  <2>2. CASE b = c /\ a = <<>>
    <3>1. got[c] \o a = got[c] /\ pos[c] + Len(a) = pos[c]
      BY <1>3, <1>4, <2>2, ConcatEmptySeq
    <3> QED
      BY <1>7, <1>8, <2>2, <3>1 DEF t
  <2>3. CASE b # c
    BY <1>7, <2>3 DEF IInv, PrefixRead
  <2> QED
    BY <2>1, <2>2, <2>3
<1>12. AnnouncedIsRead'
  <2> SUFFICES ASSUME NEW b \in Client, file[b] # NULL, atEnd'[b], Kind[file[b]] = "string"
               PROVE  len[file[b]] = pos'[b]
    BY <1>1 DEF AnnouncedIsRead, Announced, SizeString
  <2>1. CASE b = c
    <3>1. a = <<>> /\ f \notin HostFile /\ f \notin Buffer
      BY <1>7, <2>1 DEF HostFile, Buffer
    <3>2. stable[c]
      BY <3>1 DEF IInv, ReadersOK
    <3> QED
      BY <1>3, <1>4, <1>7, <1>8, <2>1, <3>1, <3>2
  <2>2. CASE b # c
    BY <1>7, <2>2 DEF IInv, AnnouncedIsRead, Announced, SizeString
  <2> QED
    BY <2>1, <2>2
<1> QED
  BY <1>1, <1>9, <1>10, <1>11, <1>12, SameTexts DEF IInv
-----------------------------------------------------------------------------
(* Texts that change *)

LEMMA SamePrefix ==
  ASSUME NEW t \in Seq(Byte), NEW u \in Seq(Byte), NEW n \in Nat,
         n <= Len(t), n <= Len(u), \A i \in 1..n : t[i] = u[i]
  PROVE  SubSeq(t, 1, n) = SubSeq(u, 1, n)
<1>1. \A i \in 1..n : t[i] \in Byte /\ u[i] \in Byte
  BY ElementOfSeq, LenProperties
<1>2. /\ SubSeq(t, 1, n) \in Seq(Byte) /\ Len(SubSeq(t, 1, n)) = n
      /\ \A i \in 1..n : SubSeq(t, 1, n)[i] = t[i]
  BY <1>1, FirstBytes
<1>3. /\ SubSeq(u, 1, n) \in Seq(Byte) /\ Len(SubSeq(u, 1, n)) = n
      /\ \A i \in 1..n : SubSeq(u, 1, n)[i] = u[i]
  BY <1>1, FirstBytes
<1> QED
  BY <1>2, <1>3, SeqEqual

(* The memory of one file changes, and its text still begins with what the  *)
(* stable readers of the file have seen.                                    *)
LEMMA TextStep ==
  ASSUME IInv, NEW f \in File,
         mem' \in [File -> Seq(Byte \cup {NUL})], len' \in [File -> Nat],
         \A g \in File \ {f} : mem'[g] = mem[g] /\ len'[g] = len[g],
         len'[f] <= Len(mem'[f]), \A i \in 1..len'[f] : mem'[f][i] \in Byte,
         \/ Kind[f] = "host" /\ len'[f] = Len(mem'[f])
         \/ /\ Kind[f] = "buffer"
            /\ len'[f] < Len(mem'[f]) /\ mem'[f][len'[f] + 1] = NUL
            /\ Limit[f] # 0 => Len(mem'[f]) = Limit[f] + 1,
         UNCHANGED <<live, kept, fids, reader>>, reply' \in Nat \cup {Denied},
         stable' \in [Client -> BOOLEAN],
         \A b \in Client :
           /\ stable'[b] => stable[b]
           /\ stable[b] /\ ~stable'[b] => file[b] \in Buffer
           /\ stable'[b] /\ file[b] = f =>
                len[f] <= len'[f] /\ \A i \in 1..len[f] : mem'[f][i] = mem[f][i]
  PROVE  IInv'
<1> DEFINE s == mem'[f]
           n == len'[f]
<1>1. /\ live' = live /\ kept' = kept /\ file' = file /\ append' = append
      /\ writes' = writes /\ pos' = pos /\ got' = got /\ atEnd' = atEnd
  BY DEF fids, reader
<1>2. /\ TypeOK /\ mem \in [File -> Seq(Byte \cup {NUL})] /\ len \in [File -> Nat]
      /\ file \in [Client -> File \cup {NULL}] /\ pos \in [Client -> Nat]
  BY DEF IInv, TypeOK
<1>3. /\ mem'[f] = s /\ len'[f] = n /\ n \in Nat
      /\ \A g \in File \ {f} : mem'[g] = mem[g] /\ len'[g] = len[g]
  OBVIOUS
<1>4. /\ Text(f)' \in Seq(Byte) /\ Len(Text(f)') = n
      /\ \A i \in 1..n : Text(f)'[i] = s[i]
  BY <1>3, FirstBytes DEF Text
<1>5. \A g \in File \ {f} : Text(g)' = Text(g)
  BY <1>3 DEF Text
<1>6. TypeOK'
  <2>1. mem' \in [File -> Seq(Byte \cup {NUL})] /\ len' \in [File -> Nat]
    BY <1>2
  <2>2. ASSUME NEW g \in File PROVE len'[g] <= Len(mem'[g]) /\ Text(g)' \in Seq(Byte)
    <3>1. CASE g = f
      BY <1>3, <1>4, <3>1
    <3>2. CASE g # f
      BY <1>3, <1>5, <3>2 DEF IInv, TypeOK
    <3> QED
      BY <3>1, <3>2
  <2> QED
    BY <1>1, <2>1, <2>2 DEF IInv, TypeOK
<1>7. Terminated'
  <2> SUFFICES ASSUME NEW g \in File, Kind[g] \in {"string", "buffer"}
               PROVE  len'[g] < Len(mem'[g]) /\ mem'[g][len'[g] + 1] = NUL
    BY DEF Terminated
  <2>1. CASE g = f
    BY <1>3, <2>1
  <2>2. CASE g # f
    BY <1>3, <2>2 DEF IInv, Terminated
  <2> QED
    BY <2>1, <2>2
<1>8. StoreOK'
  <2> SUFFICES ASSUME NEW g \in File
               PROVE  /\ Kind[g] = "host" => len'[g] = Len(mem'[g])
                      /\ g \in Buffer /\ Limit[g] # 0 => Len(mem'[g]) = Limit[g] + 1
                      /\ Kind[g] = "none" => len'[g] = 0
    BY DEF StoreOK
  <2>1. CASE g = f
    BY <1>3, <2>1 DEF Buffer
  <2>2. CASE g # f
    BY <1>3, <2>2 DEF IInv, StoreOK
  <2> QED
    BY <2>1, <2>2
<1>9. ReadersOK'
  <2> SUFFICES ASSUME NEW b \in Client
               PROVE  /\ stable'[b] \/ file[b] \in Buffer
                      /\ file[b] = NULL => got[b] = <<>> /\ pos[b] = 0 /\ ~atEnd[b]
                      /\ file[b] # NULL /\ stable'[b] => pos[b] <= len'[file[b]]
    BY <1>1 DEF ReadersOK
  <2>1. /\ stable[b] \/ file[b] \in Buffer
        /\ file[b] = NULL => got[b] = <<>> /\ pos[b] = 0 /\ ~atEnd[b]
        /\ file[b] # NULL /\ stable[b] => pos[b] <= len[file[b]]
    BY DEF IInv, ReadersOK
  <2>2. ASSUME file[b] # NULL, stable'[b] PROVE pos[b] <= len'[file[b]]
    <3>1. CASE file[b] = f
      BY <1>2, <1>3, <2>1, <2>2, <3>1
    <3>2. CASE file[b] # f
      BY <1>2, <1>3, <2>1, <2>2, <3>2
    <3> QED
      BY <3>1, <3>2
  <2> QED
    BY <2>1, <2>2
<1>10. PrefixRead'
  <2> SUFFICES ASSUME NEW b \in Client, file[b] # NULL, stable'[b]
               PROVE  got[b] = SubSeq(Text(file[b])', 1, pos[b])
    BY <1>1 DEF PrefixRead
  <2>1. /\ file[b] \in File /\ pos[b] \in Nat /\ pos[b] <= len[file[b]]
        /\ got[b] = SubSeq(Text(file[b]), 1, pos[b])
    BY <1>2 DEF IInv, ReadersOK, PrefixRead
  <2>2. CASE file[b] = f
    <3>1. /\ Text(f) \in Seq(Byte) /\ Len(Text(f)) = len[f]
          /\ \A i \in 1..len[f] : Text(f)[i] = mem[f][i]
      BY <1>2, TextIs
    <3>2. len[f] <= n /\ \A i \in 1..len[f] : s[i] = mem[f][i]
      BY <2>2
    <3>3. /\ pos[b] <= Len(Text(f)) /\ pos[b] <= Len(Text(f)')
          /\ \A i \in 1..pos[b] : Text(f)[i] = Text(f)'[i]
      <4>1. len[f] \in Nat /\ pos[b] \in Nat /\ pos[b] <= len[f]
        BY <1>2, <2>1, <2>2
      <4>2. \A i \in 1..pos[b] : i \in 1..len[f] /\ i \in 1..n
        BY <3>2, <4>1
      <4>3. pos[b] <= Len(Text(f)) /\ pos[b] <= Len(Text(f)')
        BY <1>4, <3>1, <3>2, <4>1
      <4>4. ASSUME NEW i \in 1..pos[b] PROVE Text(f)[i] = Text(f)'[i]
        <5>1. Text(f)[i] = mem[f][i] /\ s[i] = mem[f][i]
          BY <3>1, <3>2, <4>2
        <5>2. Text(f)'[i] = s[i]
          BY <1>4, <4>2
        <5> QED
          BY <5>1, <5>2
      <4> QED
        BY <4>3, <4>4
    <3>4. SubSeq(Text(f), 1, pos[b]) = SubSeq(Text(f)', 1, pos[b])
      BY <1>4, <2>1, <3>1, <3>3, SamePrefix
    <3>5. Text(file[b])' = Text(f)'
      BY <1>1, <2>2 DEF Text
    <3> QED
      BY <2>1, <2>2, <3>4, <3>5
  <2>3. CASE file[b] # f
    <3>1. Text(file[b])' = Text(file[b])
      BY <1>1, <1>3, <2>1, <2>3 DEF Text
    <3> QED
      BY <2>1, <3>1
  <2> QED
    BY <2>2, <2>3
<1>11. AnnouncedIsRead'
  <2> SUFFICES ASSUME NEW b \in Client, file[b] # NULL, atEnd[b], Kind[file[b]] = "string"
               PROVE  len'[file[b]] = pos[b]
    BY <1>1 DEF AnnouncedIsRead, Announced, SizeString
  <2>1. file[b] \in File \ {f}
    BY <1>2
  <2>2. len'[file[b]] = len[file[b]]
    BY <1>3, <2>1
  <2>3. Announced(file[b]) = pos[b]
    BY DEF IInv, AnnouncedIsRead
  <2>4. Announced(file[b]) = len[file[b]]
    BY DEF Announced, SizeString
  <2> QED
    BY <2>2, <2>3, <2>4
<1> QED
  BY <1>6, <1>7, <1>8, <1>9, <1>10, <1>11 DEF IInv

(* The memory of a buffer after a write of d at the offset at. *)
LEMMA WriteIs ==
  ASSUME IInv, NEW c \in Client, NEW o \in Offset, NEW d \in Piece, NEW f \in Buffer,
         file[c] = f, NEW at, at = WriteAt(c, o), at <= len[f],
         NEW k, k = Taken(f, at, d), NEW s, s = Stored(f, at, k, d)
  PROVE  /\ at \in Nat /\ k \in Nat /\ k <= Len(d) /\ Len(d) \in Nat /\ d \in Seq(Byte)
         /\ Limit[f] # 0 => Len(s) = Limit[f] + 1
         /\ s \in Seq(Byte \cup {NUL}) /\ at + k < Len(s) /\ s[at + k + 1] = NUL
         /\ \A i \in 1..at : s[i] = mem[f][i] /\ s[i] \in Byte
         /\ \A i \in 1..k : s[at + i] = d[i] /\ s[at + i] \in Byte
<1>1. /\ f \in File /\ Kind[f] = "buffer" /\ TypeOK /\ Limit[f] \in Nat /\ len[f] \in Nat
      /\ d \in Seq(Byte) /\ o \in Nat /\ UintSize \in Nat \ {0}
  BY PlainFilesAssumption DEF IInv, TypeOK, Buffer
<1>2. at \in Nat
  <2>1. o % UintSize \in Nat
    BY <1>1
  <2> QED
    BY <1>1, <2>1 DEF WriteAt, Uint
<1>3. Len(d) \in Nat /\ \A i \in 1..Len(d) : d[i] \in Byte
  BY <1>1, LenProperties, ElementOfSeq
<1>4. /\ mem[f] \in Seq(Byte \cup {NUL}) /\ Len(mem[f]) \in Nat
      /\ len[f] < Len(mem[f])
      /\ Limit[f] # 0 => Len(mem[f]) = Limit[f] + 1
  BY <1>1, LenProperties DEF IInv, TypeOK, Terminated, StoreOK
<1>5. /\ k \in Nat /\ k <= Len(d)
      /\ Limit[f] # 0 => at + k <= Limit[f]
  BY <1>1, <1>2, <1>3, <1>4 DEF Taken
<1>6. \A i \in 1..Len(mem[f]) : mem[f][i] \in Byte \cup {NUL}
  BY <1>4, ElementOfSeq
<1>7. \A i \in 1..at : mem[f][i] \in Byte /\ i \in 1..Len(mem[f])
  <2>1. \A i \in 1..len[f] : mem[f][i] \in Byte
    BY <1>1, TextIs
  <2> QED
    BY <1>1, <1>2, <1>4, <2>1
<1> DEFINE L == IF Limit[f] = 0 THEN at + k + 1 ELSE Len(mem[f])
           B(i) == IF at < i /\ i <= at + k THEN d[i - at]
                   ELSE IF i = at + k + 1 THEN NUL ELSE mem[f][i]
<1>8. /\ L \in Nat /\ at + k + 1 <= L
      /\ Limit[f] = 0 => L = at + k + 1
      /\ Limit[f] # 0 => L = Len(mem[f]) /\ L = Limit[f] + 1
  BY <1>1, <1>2, <1>4, <1>5
<1>9. s = [i \in 1..L |-> B(i)]
  BY DEF Stored
<1> HIDE DEF L
<1>10. \A i \in 1..L : B(i) \in Byte \cup {NUL}
  <2> TAKE i \in 1..L
  <2>1. CASE at < i /\ i <= at + k
    <3>1. i - at \in 1..Len(d)
      BY <1>2, <1>3, <1>5, <1>8, <2>1
    <3> QED
      BY <1>3, <2>1, <3>1
  <2>2. CASE i = at + k + 1
    BY <1>2, <1>5, <2>2
  <2>3. CASE ~(at < i /\ i <= at + k) /\ i # at + k + 1
    <3>1. i \in 1..Len(mem[f])
      BY <1>2, <1>4, <1>5, <1>7, <1>8, <2>3
    <3> QED
      BY <1>6, <2>3, <3>1
  <2> QED
    BY <2>1, <2>2, <2>3
<1>11. \A i \in 1..L : s[i] = B(i)
  BY <1>9
<1>12. s \in Seq(Byte \cup {NUL}) /\ Len(s) = L
  <2>1. s \in [1..L -> Byte \cup {NUL}]
    BY <1>9, <1>10
  <2> QED
    BY <1>8, <2>1, SeqOf
<1>13. s[at + k + 1] = NUL
  <2>1. at + k + 1 \in 1..L /\ ~(at + k + 1 <= at + k)
    BY <1>2, <1>5, <1>8
  <2>2. B(at + k + 1) = NUL
    BY <2>1
  <2> HIDE DEF B
  <2> QED
    BY <1>11, <2>1, <2>2
<1>14. ASSUME NEW i \in 1..at PROVE s[i] = mem[f][i] /\ s[i] \in Byte
  <2>1. i \in 1..L /\ ~(at < i) /\ i # at + k + 1
    BY <1>2, <1>5, <1>8
  <2>2. B(i) = mem[f][i]
    BY <2>1
  <2> HIDE DEF B
  <2> QED
    BY <1>7, <1>11, <2>1, <2>2
<1>15. ASSUME NEW i \in 1..k PROVE s[at + i] = d[i] /\ s[at + i] \in Byte
  <2>0. i \in Nat /\ i > 0 /\ i <= k
    BY <1>5
  <2>1. /\ at + i \in 1..L /\ at < at + i /\ at + i <= at + k
        /\ (at + i) - at = i /\ i \in 1..Len(d)
    BY <1>2, <1>3, <1>5, <1>8, <2>0
  <2>2. B(at + i) = d[i]
    BY <2>1
  <2> HIDE DEF B
  <2>3. s[at + i] = d[i]
    BY <1>11, <2>1, <2>2
  <2> QED
    BY <1>3, <2>1, <2>3
<1> QED
  BY <1>1, <1>2, <1>3, <1>5, <1>8, <1>12, <1>13, <1>14, <1>15

LEMMA WriteStep ==
  ASSUME IInv, NEW c \in Client, NEW o \in Offset, NEW d \in Piece, WriteBuffer(c, o, d)
  PROVE  IInv'
<1> DEFINE f  == file[c]
           at == WriteAt(c, o)
           k  == Taken(f, at, d)
           s  == Stored(f, at, k, d)
<1>1. /\ f \in Buffer /\ at <= len[f]
      /\ mem' = [mem EXCEPT ![f] = s] /\ len' = [len EXCEPT ![f] = at + k]
      /\ reply' = k
      /\ stable' = [b \in Client |-> stable[b] /\ (file[b] = f => append[c] \/ at = len[f])]
      /\ UNCHANGED <<live, kept, fids, reader>>
  BY DEF WriteBuffer, NewLen
<1>2. f \in File /\ Kind[f] = "buffer" /\ len[f] \in Nat
  BY <1>1 DEF Buffer, IInv, TypeOK
<1>3. append[c] => at = len[f]
  BY DEF WriteAt
<1> HIDE DEF s, k, at
<1>4. /\ at \in Nat /\ k \in Nat
      /\ Limit[f] # 0 => Len(s) = Limit[f] + 1
      /\ s \in Seq(Byte \cup {NUL}) /\ at + k < Len(s) /\ s[at + k + 1] = NUL
      /\ \A i \in 1..at : s[i] = mem[f][i] /\ s[i] \in Byte
      /\ \A i \in 1..k : s[at + i] \in Byte
  BY <1>1, WriteIs DEF s, k, at
<1> HIDE DEF f
<1>5. Len(s) \in Nat
  BY <1>4, LenProperties
<1>6. ASSUME NEW i \in 1..(at + k) PROVE s[i] \in Byte
  <2>1. CASE i <= at
    BY <1>4, <2>1
  <2>2. CASE i > at
    <3>1. i - at \in 1..k /\ at + (i - at) = i
      BY <1>4, <2>2
    <3> QED
      BY <1>4, <3>1
  <2> QED
    BY <1>4, <2>1, <2>2
<1>7. stable' \in [Client -> BOOLEAN]
  BY <1>1
<1>8. /\ \A b \in Client : stable'[b] => stable[b]
      /\ \A b \in Client : stable[b] /\ ~stable'[b] => file[b] \in Buffer
      /\ \A b \in Client : stable'[b] /\ file[b] = f => at = len[f]
  BY <1>1, <1>3
<1>9. /\ mem' \in [File -> Seq(Byte \cup {NUL})] /\ len' \in [File -> Nat]
      /\ mem'[f] = s /\ len'[f] = at + k
      /\ \A g \in File \ {f} : mem'[g] = mem[g] /\ len'[g] = len[g]
  <2>1. /\ mem \in [File -> Seq(Byte \cup {NUL})] /\ len \in [File -> Nat]
        /\ s \in Seq(Byte \cup {NUL}) /\ at + k \in Nat
    BY <1>4 DEF IInv, TypeOK
  <2> DEFINE n == at + k
  <2>2. n \in Nat /\ len' = [len EXCEPT ![f] = n] /\ mem' = [mem EXCEPT ![f] = s]
    BY <1>1, <2>1
  <2> HIDE DEF n
  <2>3. /\ mem' \in [File -> Seq(Byte \cup {NUL})] /\ len' \in [File -> Nat]
        /\ mem'[f] = s /\ len'[f] = n
        /\ \A g \in File \ {f} : mem'[g] = mem[g] /\ len'[g] = len[g]
    BY <1>2, <2>1, <2>2
  <2> QED
    BY <2>3 DEF n
<1>10. /\ len'[f] <= Len(mem'[f]) /\ \A i \in 1..len'[f] : mem'[f][i] \in Byte
       /\ reply' \in Nat \cup {Denied}
  BY <1>1, <1>4, <1>5, <1>6, <1>9
<1>11. /\ Kind[f] = "buffer"
       /\ len'[f] < Len(mem'[f]) /\ mem'[f][len'[f] + 1] = NUL
       /\ Limit[f] # 0 => Len(mem'[f]) = Limit[f] + 1
  BY <1>2, <1>4, <1>9
<1>12. \A b \in Client :
         /\ stable'[b] => stable[b]
         /\ stable[b] /\ ~stable'[b] => file[b] \in Buffer
         /\ stable'[b] /\ file[b] = f =>
              len[f] <= len'[f] /\ \A i \in 1..len[f] : mem'[f][i] = mem[f][i]
  BY <1>4, <1>8, <1>9
<1> QED
  BY <1>1, <1>2, <1>7, <1>9, <1>10, <1>11, <1>12, TextStep

(* What the host adds comes behind all bytes. *)
LEMMA GrownIs ==
  ASSUME IInv, NEW f \in File, NEW d \in Piece, Kind[f] = "host"
  PROVE  /\ mem[f] \in Seq(Byte \cup {NUL}) /\ Len(mem[f]) = len[f] /\ len[f] \in Nat
         /\ d \in Seq(Byte) /\ Len(d) \in Nat
         /\ mem[f] \o d \in Seq(Byte \cup {NUL}) /\ Len(mem[f] \o d) = len[f] + Len(d)
         /\ \A i \in 1..len[f] : (mem[f] \o d)[i] = mem[f][i] /\ mem[f][i] \in Byte
         /\ \A i \in 1..Len(d) : (mem[f] \o d)[len[f] + i] = d[i] /\ d[i] \in Byte
<1>1. /\ mem[f] \in Seq(Byte \cup {NUL}) /\ Len(mem[f]) = len[f] /\ len[f] \in Nat
      /\ d \in Seq(Byte) /\ TypeOK
  BY PlainFilesAssumption DEF IInv, TypeOK, StoreOK
<1>2. Len(d) \in Nat /\ d \in Seq(Byte \cup {NUL}) /\ \A i \in 1..Len(d) : d[i] \in Byte
  BY <1>1, LenProperties, ElementOfSeq, SeqMonotonic
<1>3. /\ mem[f] \o d \in Seq(Byte \cup {NUL})
      /\ Len(mem[f] \o d) = len[f] + Len(d)
      /\ \A i \in 1..(len[f] + Len(d)) :
           (mem[f] \o d)[i] = IF i <= len[f] THEN mem[f][i] ELSE d[i - len[f]]
  BY <1>1, <1>2, ConcatProperties
<1>4. \A i \in 1..len[f] : mem[f][i] \in Byte
  BY <1>1, TextIs
<1> HIDE DEF IInv
<1>5. \A i \in 1..len[f] : (mem[f] \o d)[i] = mem[f][i]
  <2> TAKE i \in 1..len[f]
  <2>1. i \in 1..(len[f] + Len(d)) /\ i <= len[f]
    BY <1>1, <1>2
  <2> QED
    BY <1>3, <2>1
<1>6. \A i \in 1..Len(d) : (mem[f] \o d)[len[f] + i] = d[i]
  <2> TAKE i \in 1..Len(d)
  <2>1. /\ len[f] + i \in 1..(len[f] + Len(d)) /\ ~(len[f] + i <= len[f])
        /\ (len[f] + i) - len[f] = i
    BY <1>1, <1>2
  <2> QED
    BY <1>3, <2>1
<1> QED
  BY <1>1, <1>2, <1>3, <1>4, <1>5, <1>6

LEMMA GrowStep ==
  ASSUME IInv, NEW f \in File, NEW d \in Piece, Grow(f, d)
  PROVE  IInv'
<1> DEFINE s == mem[f] \o d
           n == len[f] + Len(d)
<1>1. /\ Kind[f] = "host" /\ mem' = [mem EXCEPT ![f] = s] /\ len' = [len EXCEPT ![f] = n]
      /\ UNCHANGED <<live, kept, fids, reader>> /\ reply' = 0 /\ stable' = stable
  BY DEF Grow
<1>2. /\ s \in Seq(Byte \cup {NUL}) /\ Len(s) = n /\ len[f] \in Nat /\ Len(d) \in Nat
      /\ \A i \in 1..len[f] : s[i] = mem[f][i] /\ mem[f][i] \in Byte
      /\ \A i \in 1..Len(d) : s[len[f] + i] = d[i] /\ d[i] \in Byte
  BY <1>1, GrownIs
<1> HIDE DEF s
<1>3. ASSUME NEW i \in 1..n PROVE s[i] \in Byte
  <2>1. CASE i <= len[f]
    BY <1>2, <2>1
  <2>2. CASE i > len[f]
    <3>1. i - len[f] \in 1..Len(d) /\ len[f] + (i - len[f]) = i
      BY <1>2, <2>2
    <3> QED
      BY <1>2, <3>1
  <2> QED
    BY <1>2, <2>1, <2>2
<1>4. n \in Nat /\ len[f] <= n /\ reply' \in Nat \cup {Denied}
  BY <1>1, <1>2
<1> HIDE DEF n
<1>5. /\ mem' \in [File -> Seq(Byte \cup {NUL})] /\ len' \in [File -> Nat]
      /\ mem'[f] = s /\ len'[f] = n
      /\ \A g \in File \ {f} : mem'[g] = mem[g] /\ len'[g] = len[g]
  BY <1>1, <1>2, <1>4 DEF IInv, TypeOK
<1>6. stable' \in [Client -> BOOLEAN]
  BY <1>1 DEF IInv, TypeOK
<1>7. /\ len'[f] <= Len(mem'[f]) /\ \A i \in 1..len'[f] : mem'[f][i] \in Byte
      /\ Kind[f] = "host" /\ len'[f] = Len(mem'[f])
  BY <1>1, <1>2, <1>3, <1>4, <1>5
<1>8. \A b \in Client :
        /\ stable'[b] => stable[b]
        /\ stable[b] /\ ~stable'[b] => file[b] \in Buffer
        /\ stable'[b] /\ file[b] = f =>
             len[f] <= len'[f] /\ \A i \in 1..len[f] : mem'[f][i] = mem[f][i]
  BY <1>1, <1>2, <1>4, <1>5
<1> QED
  BY <1>1, <1>4, <1>5, <1>6, <1>7, <1>8, TextStep

LEMMA NextIInv == IInv /\ [Next]_vars => IInv'
<1> SUFFICES ASSUME IInv, [Next]_vars PROVE IInv'
  OBVIOUS
<1>0. /\ live \in [File -> BOOLEAN] /\ kept \in [File -> BOOLEAN]
      /\ reply \in Nat \cup {Denied} /\ 0 \in Nat \cup {Denied} /\ Denied \in Nat \cup {Denied}
  BY DEF IInv, TypeOK
<1>1. CASE UNCHANGED vars
  BY <1>0, <1>1, PassStep DEF vars, store
<1>2. ASSUME NEW c \in Client, NEW f \in File, NEW m \in Mode, Open(c, f, m)
      PROVE  IInv'
  <2>1. live' \in [File -> BOOLEAN] /\ file[c] = NULL
    BY <1>0, <1>2 DEF Open
  <2>2. CASE Opened(c, f, m)
    BY <2>1, <2>2, OpenedStep
  <2>3. CASE Refused
    BY <1>0, <2>1, <2>3, PassStep DEF Refused
  <2> QED
    BY <1>2, <2>2, <2>3 DEF Open
<1>3. ASSUME NEW c \in Client, NEW f \in File, NEW m \in Mode, OpenHost(c, f, m)
      PROVE  IInv'
  <2>1. live' \in [File -> BOOLEAN] /\ file[c] = NULL /\ Opened(c, f, m)
    BY <1>0, <1>3 DEF OpenHost
  <2> QED
    BY <2>1, OpenedStep
<1>4. ASSUME NEW c \in Client, NEW f \in File, OpenHostFails(c, f)
      PROVE  IInv'
  <2>1. live' \in [File -> BOOLEAN] /\ Refused
    BY <1>0, <1>4 DEF OpenHostFails
  <2> QED
    BY <1>0, <2>1, PassStep DEF Refused
<1>5. ASSUME NEW c \in Client, NEW n \in Count, Read(c, n)
      PROVE  IInv'
  BY <1>5, ReadStep
<1>6. ASSUME NEW c \in Client, WriteRefused(c)
      PROVE  IInv'
  BY <1>0, <1>6, PassStep DEF WriteRefused, Refused
<1>7. ASSUME NEW c \in Client, Remove(c)
      PROVE  IInv'
  <2>1. kept' \in [File -> BOOLEAN]
    <3>1. PICK ret \in {0, -1} : kept' = [kept EXCEPT ![file[c]] = @ /\ ret # 0]
      BY <1>7 DEF Remove
    <3>2. kept' \in [File -> BOOLEAN]
      BY <1>0, <3>1
    <3> QED
      BY <3>2
  <2>2. reply' = Denied /\ Forget(c)
    BY <1>7 DEF Remove
  <2> QED
    BY <1>0, <2>1, <2>2, ForgetStep
<1>8. ASSUME NEW c \in Client, Clunk(c)
      PROVE  IInv'
  BY <1>0, <1>8, ForgetStep DEF Clunk
<1>9. ASSUME NEW c \in Client, NEW o \in Offset, NEW d \in Piece, WriteNothing(c, o, d)
      PROVE  IInv'
  BY <1>0, <1>9, PassStep DEF WriteNothing, store
<1>10. ASSUME NEW c \in Client, NEW o \in Offset, NEW d \in Piece, WriteBuffer(c, o, d)
       PROVE  IInv'
  BY <1>10, WriteStep
<1>11. ASSUME NEW f \in File, NEW d \in Piece, Grow(f, d)
       PROVE  IInv'
  BY <1>11, GrowStep
<1>12. CASE Create
  BY <1>0, <1>12, PassStep DEF Create, Refused
<1>13. CASE Flush
  BY <1>0, <1>13, PassStep DEF Flush, store
<1> QED
  BY <1>1, <1>2, <1>3, <1>4, <1>5, <1>6, <1>7, <1>8, <1>9, <1>10, <1>11, <1>12, <1>13
     DEF Next
-----------------------------------------------------------------------------
(* The theorems *)

THEOREM Invariant == Spec => []IInv
BY InitIInv, NextIInv, PTL DEF Spec

(* Every variable keeps its type: counts that answer writes are natural     *)
(* numbers, and no client ever receives a byte that is not of a text.       *)
THEOREM Typed == Spec => []TypeOK
<1>1. IInv => TypeOK
  BY DEF IInv
<1> QED
  BY <1>1, Invariant, PTL

(* mixp_write_to_buf() keeps the NUL inside the memory of every buffer.     *)
THEOREM NulKept == Spec => []Terminated
<1>1. IInv => Terminated
  BY DEF IInv
<1> QED
  BY <1>1, Invariant, PTL

(* What a client has read is the begin of the text, for files of any class. *)
THEOREM PrefixIsRead == Spec => []PrefixRead
<1>1. IInv => PrefixRead
  BY DEF IInv
<1> QED
  BY <1>1, Invariant, PTL

(* mixpsrv_rostring_ops_size() tells how much a reader will get.            *)
THEOREM SizeIsRead == Spec => []AnnouncedIsRead
<1>1. IInv => AnnouncedIsRead
  BY DEF IInv
<1> QED
  BY <1>1, Invariant, PTL

(* The steps other than reads leave atEnd as it was or clear it. *)
LEMMA OnlyReadsEnd ==
  ASSUME IInv, [Next]_vars, NEW c \in Client, atEnd'[c], ~atEnd[c]
  PROVE  \E n \in Count : Read(c, n)
<1>1. atEnd \in [Client -> BOOLEAN]
  BY DEF IInv, TypeOK
<1>2. atEnd' # atEnd
  OBVIOUS
<1>3. ASSUME NEW b \in Client, Forget(b) PROVE FALSE
  <2>1. atEnd' = [atEnd EXCEPT ![b] = FALSE]
    BY <1>3 DEF Forget
  <2> QED
    BY <1>1, <2>1
<1>4. ASSUME NEW b \in Client, NEW n \in Count, Read(b, n) PROVE b = c
  <2>1. PICK a \in Answers(file[b], pos[b], n) : atEnd' = [atEnd EXCEPT ![b] = a = <<>>]
    BY <1>4 DEF Read
  <2> QED
    BY <1>1, <2>1
<1> QED
  BY <1>2, <1>3, <1>4
     DEF Next, vars, reader, Open, OpenHost, OpenHostFails, Opened, Refused, WriteRefused,
         Remove, Clunk, WriteNothing, WriteBuffer, Grow, Create, Flush

(* A client that reads until an empty answer has the whole text, unless the *)
(* descriptor of a host file was taken away by an open that failed.         *)
THEOREM NoneEndsEarly == Spec => NoEarlyEnd
<1> DEFINE Ends == \A c \in Client :
                     atEnd'[c] /\ ~atEnd[c] =>
                       \/ pos[c] >= len[file[c]]
                       \/ file[c] \in HostFile /\ ~live[file[c]]
<1>1. ASSUME IInv, [Next]_vars PROVE Ends
  <2> SUFFICES ASSUME NEW c \in Client, atEnd'[c], ~atEnd[c]
               PROVE  \/ pos[c] >= len[file[c]]
                      \/ file[c] \in HostFile /\ ~live[file[c]]
    OBVIOUS
  <2>1. PICK n \in Count : Read(c, n)
    BY <1>1, OnlyReadsEnd
  <2>2. file[c] \in File /\ (n > 0 \/ file[c] \notin Buffer) /\ atEnd \in [Client -> BOOLEAN]
    BY <1>1, <2>1 DEF Read, IInv, TypeOK
  <2>3. PICK a \in Answers(file[c], pos[c], n) : atEnd' = [atEnd EXCEPT ![c] = a = <<>>]
    BY <2>1 DEF Read
  <2>4. a = <<>>
    BY <2>2, <2>3
  <2> DEFINE f == file[c]
  <2>5. file[c] = f /\ f \in File /\ (n > 0 \/ f \notin Buffer) /\ a \in Answers(f, pos[c], n)
    BY <2>2, <2>3
  <2> HIDE DEF f
  <2>6. pos[c] >= len[f] \/ (f \in HostFile /\ ~live[f])
    BY <1>1, <2>4, <2>5, AnswerIs
  <2> QED
    BY <2>5, <2>6
<1> QED
  BY <1>1, Invariant, PTL DEF Spec, NoEarlyEnd

(* The steps that change a text, and how. *)
LEMMA TextChanges ==
  ASSUME IInv, [Next]_vars, NEW f \in File, mem'[f] # mem[f] \/ len'[f] # len[f]
  PROVE  \/ \E c \in Client, o \in Offset, d \in Piece : WriteBuffer(c, o, d) /\ file[c] = f
         \/ \E d \in Piece : Grow(f, d)
<1>1. /\ mem \in [File -> Seq(Byte \cup {NUL})] /\ len \in [File -> Nat]
      /\ \A c \in Client : file[c] \in File \cup {NULL}
  BY DEF IInv, TypeOK
<1>2. ASSUME NEW c \in Client, NEW o \in Offset, NEW d \in Piece, WriteBuffer(c, o, d)
      PROVE  file[c] = f
  BY <1>1, <1>2 DEF WriteBuffer
<1>3. ASSUME NEW g \in File, NEW d \in Piece, Grow(g, d)
      PROVE  g = f
  BY <1>1, <1>3 DEF Grow
<1> QED
  BY <1>2, <1>3
     DEF Next, vars, store, Open, OpenHost, OpenHostFails, Opened, Refused, WriteRefused,
         Remove, Clunk, Forget, WriteNothing, Read, Create, Flush

(* How a write of an appending fid, or the host, changes the text of f.     *)
LEMMA WriteText ==
  ASSUME IInv, NEW c \in Client, NEW o \in Offset, NEW d \in Piece, NEW f \in File,
         file[c] = f, WriteBuffer(c, o, d),
         NEW at, at = WriteAt(c, o), NEW k, k = Taken(f, at, d)
  PROVE  /\ f \in Buffer /\ at \in Nat /\ k \in Nat /\ at <= len[f] /\ k <= Len(d)
         /\ d \in Seq(Byte) /\ Len(d) \in Nat /\ d # <<>>
         /\ Text(f)' \in Seq(Byte) /\ Len(Text(f)') = at + k /\ len'[f] = at + k
         /\ \A i \in 1..at : Text(f)'[i] = Text(f)[i]
         /\ \A i \in 1..k : Text(f)'[at + i] = d[i]
         /\ reply' = k
         /\ UNCHANGED <<live, kept, fids, reader>>
         /\ \A g \in File \ {f} : Text(g)' = Text(g)
<1> DEFINE s == Stored(f, at, k, d)
<1>1. /\ f \in Buffer /\ at <= len[f] /\ d # <<>>
      /\ mem' = [mem EXCEPT ![f] = s] /\ len' = [len EXCEPT ![f] = at + k]
      /\ reply' = k
      /\ UNCHANGED <<live, kept, fids, reader>>
  BY DEF WriteBuffer, NewLen
<1> HIDE DEF s
<1>2. /\ at \in Nat /\ k \in Nat /\ k <= Len(d) /\ Len(d) \in Nat /\ d \in Seq(Byte)
      /\ s \in Seq(Byte \cup {NUL}) /\ at + k < Len(s)
      /\ \A i \in 1..at : s[i] = mem[f][i] /\ s[i] \in Byte
      /\ \A i \in 1..k : s[at + i] = d[i] /\ s[at + i] \in Byte
  BY <1>1, WriteIs DEF s
<1>3. mem'[f] = s /\ len'[f] = at + k /\ at + k \in Nat
  BY <1>1, <1>2 DEF IInv, TypeOK
<1>4. \A i \in 1..(at + k) : s[i] \in Byte
  <2> TAKE i \in 1..(at + k)
  <2>1. CASE i <= at
    BY <1>2, <2>1
  <2>2. CASE i > at
    <3>1. i - at \in 1..k /\ at + (i - at) = i
      BY <1>2, <2>2
    <3> QED
      BY <1>2, <3>1
  <2> QED
    BY <1>2, <2>1, <2>2
<1>5. /\ SubSeq(s, 1, at + k) \in Seq(Byte) /\ Len(SubSeq(s, 1, at + k)) = at + k
      /\ \A i \in 1..(at + k) : SubSeq(s, 1, at + k)[i] = s[i]
  BY <1>3, <1>4, FirstBytes
<1>6. Text(f)' = SubSeq(s, 1, at + k)
  BY <1>3 DEF Text
<1>7. \A i \in 1..len[f] : Text(f)[i] = mem[f][i]
  BY TextIs DEF IInv
<1>8. ASSUME NEW i \in 1..at PROVE Text(f)'[i] = Text(f)[i]
  <2>0. len[f] \in Nat
    BY DEF IInv, TypeOK
  <2>1. i \in 1..(at + k) /\ i \in 1..len[f]
    BY <1>1, <1>2, <2>0
  <2> QED
    BY <1>2, <1>5, <1>6, <1>7, <2>1
<1>9. ASSUME NEW i \in 1..k PROVE Text(f)'[at + i] = d[i]
  <2>1. at + i \in 1..(at + k)
    BY <1>2
  <2> QED
    BY <1>2, <1>5, <1>6, <2>1
<1>10. \A g \in File \ {f} : Text(g)' = Text(g)
  BY <1>1 DEF Text, IInv, TypeOK
<1> QED
  BY <1>1, <1>2, <1>3, <1>5, <1>6, <1>8, <1>9, <1>10

LEMMA GrowText ==
  ASSUME IInv, NEW f \in File, NEW d \in Piece, Grow(f, d)
  PROVE  /\ f \in HostFile /\ d \in Seq(Byte) /\ Text(f) \in Seq(Byte) /\ Text(f)' \in Seq(Byte)
         /\ Len(Text(f)) = len[f] /\ Len(Text(f)') = len[f] + Len(d)
         /\ len[f] \in Nat /\ Len(d) \in Nat /\ len'[f] = len[f] + Len(d)
         /\ \A i \in 1..len[f] : Text(f)'[i] = Text(f)[i]
         /\ Text(f)' = Text(f) \o d
         /\ \A g \in File \ {f} : Text(g)' = Text(g)
<1>1. /\ Kind[f] = "host"
      /\ mem' = [mem EXCEPT ![f] = @ \o d] /\ len' = [len EXCEPT ![f] = @ + Len(d)]
      /\ mem \in [File -> Seq(Byte \cup {NUL})] /\ len \in [File -> Nat]
  BY DEF Grow, IInv, TypeOK
<1>2. /\ mem[f] \in Seq(Byte \cup {NUL}) /\ Len(mem[f]) = len[f] /\ len[f] \in Nat
      /\ d \in Seq(Byte) /\ Len(d) \in Nat
      /\ mem[f] \o d \in Seq(Byte \cup {NUL}) /\ Len(mem[f] \o d) = len[f] + Len(d)
  BY <1>1, GrownIs
<1>3. mem'[f] = mem[f] \o d /\ len'[f] = len[f] + Len(d)
  BY <1>1
<1>4. Text(f) = mem[f]
  BY <1>2, SubSeqFull DEF Text
<1>5. Text(f)' = mem[f] \o d
  <2>1. SubSeq(mem[f] \o d, 1, len[f] + Len(d)) = mem[f] \o d
    BY <1>2, SubSeqFull
  <2> QED
    BY <1>3, <2>1 DEF Text
<1>6. Text(f) \in Seq(Byte)
  BY DEF IInv, TypeOK
<1>7. /\ Text(f) \o d \in Seq(Byte)
      /\ \A i \in 1..(Len(Text(f)) + Len(d)) :
           (Text(f) \o d)[i] = IF i <= Len(Text(f)) THEN Text(f)[i] ELSE d[i - Len(Text(f))]
  BY <1>2, <1>6, ConcatProperties
<1>8. Text(f)' = Text(f) \o d
  BY <1>4, <1>5
<1>9. ASSUME NEW i \in 1..len[f] PROVE Text(f)'[i] = Text(f)[i]
  BY <1>2, <1>4, <1>7, <1>8
<1>10. \A g \in File \ {f} : Text(g)' = Text(g)
  BY <1>1 DEF Text
<1> QED
  BY <1>1, <1>2, <1>3, <1>4, <1>5, <1>6, <1>7, <1>8, <1>9, <1>10 DEF HostFile

(* As long as a file is only appended to, its text only grows. *)
THEOREM AppendsGrow == Spec => AppendOnlyGrows
<1> DEFINE Grows == \A f \in File :
                      (\A c \in Client : file[c] = f /\ writes[c] => append[c])
                        => len[f] <= len'[f] /\ SubSeq(Text(f)', 1, len[f]) = Text(f)
<1>1. ASSUME IInv, [Next]_vars PROVE Grows
  <2> SUFFICES ASSUME NEW f \in File, \A c \in Client : file[c] = f /\ writes[c] => append[c]
               PROVE  len[f] <= len'[f] /\ SubSeq(Text(f)', 1, len[f]) = Text(f)
    OBVIOUS
  <2>1. /\ Text(f) \in Seq(Byte) /\ Len(Text(f)) = len[f] /\ len[f] \in Nat
    BY <1>1, TextIs DEF IInv, TypeOK
  <2>2. SubSeq(Text(f), 1, len[f]) = Text(f)
    BY <2>1, SubSeqFull
  <2>3. ASSUME len[f] <= len'[f], Text(f)' \in Seq(Byte), Len(Text(f)') = len'[f],
               \A i \in 1..len[f] : Text(f)'[i] = Text(f)[i]
        PROVE  len[f] <= len'[f] /\ SubSeq(Text(f)', 1, len[f]) = Text(f)
    <3>1. SubSeq(Text(f)', 1, len[f]) = SubSeq(Text(f), 1, len[f])
      BY <2>1, <2>3, SamePrefix
    <3> QED
      BY <2>2, <2>3, <3>1
  <2>4. CASE ~(mem'[f] # mem[f] \/ len'[f] # len[f])
    <3>1. Text(f)' = Text(f) /\ len'[f] = len[f]
      BY <2>4 DEF Text
    <3> QED
      BY <2>1, <2>2, <3>1
  <2>5. ASSUME NEW c \in Client, NEW o \in Offset, NEW d \in Piece,
               WriteBuffer(c, o, d), file[c] = f
        PROVE  len[f] <= len'[f] /\ SubSeq(Text(f)', 1, len[f]) = Text(f)
    <3> DEFINE at == WriteAt(c, o)
               k  == Taken(f, at, d)
    <3>1. at = len[f]
      BY <2>5 DEF WriteBuffer, WriteAt
    <3> HIDE DEF at, k
    <3>2. /\ at \in Nat /\ k \in Nat
          /\ Text(f)' \in Seq(Byte) /\ Len(Text(f)') = at + k /\ len'[f] = at + k
          /\ \A i \in 1..at : Text(f)'[i] = Text(f)[i]
      BY <1>1, <2>5, WriteText DEF at, k
    <3> QED
      BY <2>1, <2>3, <3>1, <3>2
  <2>6. ASSUME NEW d \in Piece, Grow(f, d)
        PROVE  len[f] <= len'[f] /\ SubSeq(Text(f)', 1, len[f]) = Text(f)
    <3>1. /\ Text(f)' \in Seq(Byte) /\ Len(Text(f)') = len[f] + Len(d)
          /\ len[f] \in Nat /\ Len(d) \in Nat /\ len'[f] = len[f] + Len(d)
          /\ \A i \in 1..len[f] : Text(f)'[i] = Text(f)[i]
      BY <1>1, <2>6, GrowText
    <3> QED
      BY <2>3, <3>1
  <2> QED
    BY <1>1, <2>4, <2>5, <2>6, TextChanges
<1> QED
  BY <1>1, Invariant, PTL DEF Spec, AppendOnlyGrows

(* The run PlainFiles_remove finds a request that is denied and yet removes *)
(* a file.  The successful unlink() there is the only cause: where no class *)
(* has one, a denied open, write, create or remove changes no file.         *)
THEOREM DenialsHarmless ==
  ASSUME Unlinkable = {}
  PROVE  Spec => DeniedChangesNothing
<1>1. IInv /\ [Next]_vars =>
        [reply' = Denied => UNCHANGED <<mem, len, kept>>]_vars
  <2> SUFFICES ASSUME IInv, Next, reply' = Denied
               PROVE  UNCHANGED <<mem, len, kept>>
    BY DEF vars, store
  <2>1. ASSUME NEW c \in Client, NEW o \in Offset, NEW d \in Piece,
               WriteBuffer(c, o, d)
        PROVE  FALSE
    <3> DEFINE k == Taken(file[c], WriteAt(c, o), d)
    <3>1. reply' = k
      BY <2>1 DEF WriteBuffer
    <3>2. k \in Nat
      <4>1. file[c] \in Buffer /\ WriteAt(c, o) <= len[file[c]]
        BY <2>1 DEF WriteBuffer
      <4> QED
        BY <4>1, WriteIs
    <3> QED
      BY <3>1, <3>2 DEF Denied
  <2>2. ASSUME NEW c \in Client, Remove(c)
        PROVE  UNCHANGED <<mem, len, kept>>
    <3>1. /\ file[c] \in File
          /\ kept \in [File -> BOOLEAN]
      BY <2>2 DEF Remove, IInv, TypeOK
    <3>2. kept' = [kept EXCEPT ![file[c]] = @ /\ TRUE]
      <4>1. PICK ret \in {-1} : kept' = [kept EXCEPT ![file[c]] = @ /\ ret # 0]
        BY <2>2 DEF Remove
      <4>2. ret # 0
        OBVIOUS
      <4> QED
        BY <4>1, <4>2
    <3>3. kept' = kept
      BY <3>1, <3>2
    <3> QED
      BY <2>2, <3>3 DEF Remove, Forget
  <2>3. ASSUME NEW f \in File, NEW d \in Piece, Grow(f, d)
        PROVE  FALSE
    BY <2>3 DEF Grow, Denied
  <2>4. Next => \/ \E c \in Client, o \in Offset, d \in Piece : WriteBuffer(c, o, d)
                \/ \E c \in Client : Remove(c)
                \/ \E f \in File, d \in Piece : Grow(f, d)
                \/ UNCHANGED <<mem, len, kept>>
    BY DEF Next, Open, OpenHost, OpenHostFails, Opened, Refused, Read,
           WriteRefused, Clunk, Forget, WriteNothing, Create, Flush, store
  <2> QED
    BY <2>1, <2>2, <2>3, <2>4
<1> QED
  BY <1>1, Invariant, PTL DEF Spec, DeniedChangesNothing
-----------------------------------------------------------------------------
(* Every file is a text *)

T == [f \in File |-> Text(f)]

(* A 32 bit offset is kept as it is. *)
LEMMA SameOffset ==
  ASSUME NEW o \in Offset, o < UintSize
  PROVE  Uint(o) = o
<1>1. o \in Nat /\ UintSize \in Nat \ {0}
  BY PlainFilesAssumption
<1> QED
  BY <1>1 DEF Uint

LEMMA SameT ==
  ASSUME mem' = mem, len' = len
  PROVE  T' = T
BY DEF T, Text

LEMMA TIs ==
  ASSUME IInv, NEW f \in File
  PROVE  T[f] = Text(f) /\ T'[f] = Text(f)' /\ Len(T[f]) = len[f]
BY TextIs DEF T, IInv

LEMMA OpenedRefines ==
  ASSUME IInv, NEW c \in Client, NEW f \in File, NEW m \in Mode,
         file[c] = NULL, Opened(c, f, m)
  PROVE  TF!Next
<1>1. m.append \in BOOLEAN
  BY PlainFilesAssumption DEF AnyMode
<1>2. T' = T /\ UNCHANGED <<pos, got, atEnd>>
  BY SameT DEF Opened, reader
<1>3. TF!Open(c, f, m.append)
  BY <1>2 DEF Opened, TF!Open, T
<1> QED
  BY <1>1, <1>3 DEF TF!Next

LEMMA PassRefines ==
  ASSUME UNCHANGED <<mem, len, fids, reader>>, reply' \in {0, Denied}
  PROVE  TF!Next
<1>1. T' = T
  BY SameT
<1>2. TF!Pass
  BY <1>1 DEF TF!Pass, TF!Denied, Denied, T, fids, reader
<1> QED
  BY <1>2 DEF TF!Next

LEMMA ForgetRefines ==
  ASSUME NEW c \in Client, file[c] # NULL, Forget(c), reply' \in {0, Denied}
  PROVE  TF!Next
<1>1. T' = T
  BY SameT DEF Forget
<1>2. TF!Close(c)
  BY <1>1 DEF TF!Close, TF!Denied, Denied, T, Forget
<1> QED
  BY <1>2 DEF TF!Next

LEMMA ReadRefines ==
  ASSUME IInv, NEW c \in Client, NEW n \in Count, Read(c, n)
  PROVE  TF!Next
<1> DEFINE f == file[c]
<1>1. /\ f \in File /\ f # NULL /\ (n > 0 \/ f \notin Buffer)
      /\ mem' = mem /\ len' = len /\ file' = file /\ append' = append /\ reply' = 0
  BY DEF Read, store, fids, IInv, TypeOK
<1>2. PICK a \in Answers(f, pos[c], n) :
        /\ got' = [got EXCEPT ![c] = @ \o a]
        /\ pos' = [pos EXCEPT ![c] = @ + Len(a)]
        /\ atEnd' = [atEnd EXCEPT ![c] = a = <<>>]
  BY DEF Read
<1>3. /\ pos \in [Client -> Nat] /\ got \in [Client -> Seq(Byte)]
      /\ atEnd \in [Client -> BOOLEAN] /\ len[f] \in Nat
  BY <1>1 DEF IInv, TypeOK
<1>4. T' = T /\ T[f] = Text(f) /\ Len(T[f]) = len[f]
  BY <1>1, SameT, TIs
<1>5. file[c] = f
  OBVIOUS
<1> HIDE DEF f
<1>6. /\ a \in Seq(Byte) /\ Len(a) \in Nat
      /\ a # <<>> => /\ Len(a) > 0 /\ pos[c] + Len(a) <= len[f]
                     /\ a = SubSeq(Text(f), pos[c] + 1, pos[c] + Len(a))
      /\ a = <<>> => Len(a) = 0 /\ (pos[c] >= len[f] \/ (f \in HostFile /\ ~live[f]))
  BY <1>1, <1>2, <1>5, AnswerIs
<1>7. Len(got'[c]) = Len(got[c]) + Len(a) /\ Len(got[c]) \in Nat
  <2>1. got[c] \in Seq(Byte) /\ got'[c] = got[c] \o a
    BY <1>2, <1>3
  <2> QED
    BY <1>6, <2>1, ConcatProperties, LenProperties
<1>8. Len(a) \in 0..Len(got'[c])
  BY <1>6, <1>7
<1>9. CASE a # <<>>
  <2> DEFINE k == Len(a)
  <2>1. k # 0 /\ pos[c] + k <= Len(T[f]) /\ (a = <<>>) = (k = 0)
    BY <1>4, <1>6, <1>9
  <2>2. SubSeq(T[f], pos[c] + 1, pos[c] + k) = a
    BY <1>4, <1>6, <1>9
  <2> HIDE DEF k
  <2>3. /\ got' = [got EXCEPT ![c] = @ \o SubSeq(T[f], pos[c] + 1, pos[c] + k)]
        /\ pos' = [pos EXCEPT ![c] = @ + k]
        /\ atEnd' = [atEnd EXCEPT ![c] = (k = 0)]
    BY <1>2, <2>1, <2>2 DEF k
  <2>4. TF!Read(c, k)
    BY <1>1, <1>4, <1>5, <2>1, <2>3 DEF TF!Read, T
  <2> QED
    BY <1>8, <2>4 DEF TF!Next, k
<1>10. CASE a = <<>> /\ pos[c] >= len[f]
  <2>1. SubSeq(T[f], pos[c] + 1, pos[c] + 0) = a
    BY <1>3, <1>10, SubSeqEmpty
  <2>2. PICK k \in 0..Len(got'[c]) : k = 0 /\ k = Len(a)
    BY <1>6, <1>8, <1>10
  <2>3. SubSeq(T[f], pos[c] + 1, pos[c] + k) = a /\ (a = <<>>) = (k = 0)
    BY <1>10, <2>1, <2>2
  <2>4. /\ got' = [got EXCEPT ![c] = @ \o SubSeq(T[f], pos[c] + 1, pos[c] + k)]
        /\ pos' = [pos EXCEPT ![c] = @ + k]
        /\ atEnd' = [atEnd EXCEPT ![c] = (k = 0)]
    BY <1>2, <2>2, <2>3
  <2>5. k = 0 /\ pos[c] >= Len(T[f])
    BY <1>4, <1>10, <2>2
  <2>6. TF!Read(c, k)
    BY <1>1, <1>4, <1>5, <2>4, <2>5 DEF TF!Read, T
  <2> QED
    BY <2>6 DEF TF!Next
<1>11. CASE a = <<>> /\ f \in HostFile
  <2>1. got[c] \o a = got[c] /\ pos[c] + Len(a) = pos[c]
    BY <1>3, <1>6, <1>11, ConcatEmptySeq
  <2>2. got' = got /\ pos' = pos /\ atEnd' = [atEnd EXCEPT ![c] = TRUE]
    BY <1>2, <1>3, <1>11, <2>1
  <2>3. TF!Fail(c)
    BY <1>1, <1>4, <1>5, <1>11, <2>2 DEF TF!Fail, T
  <2> QED
    BY <2>3 DEF TF!Next
<1> QED
  BY <1>6, <1>9, <1>10, <1>11

LEMMA WriteNothingRefines ==
  ASSUME IInv, NEW c \in Client, NEW o \in Offset, NEW d \in Piece, o < UintSize,
         WriteNothing(c, o, d)
  PROVE  TF!Next
<1> DEFINE f == file[c]
<1>1. /\ f \in Buffer /\ f \in File /\ f # NULL /\ (WriteAt(c, o) > len[f] \/ d = <<>>)
      /\ reply' = 0 /\ mem' = mem /\ len' = len
      /\ UNCHANGED <<file, append, pos, got, atEnd>>
  BY PlainFilesAssumption DEF WriteNothing, Buffer, store, fids, reader
<1>2. T' = T /\ T[f] = Text(f) /\ Len(T[f]) = len[f]
  BY <1>1, SameT, TIs
<1>3. WriteAt(c, o) = IF append[c] THEN Len(T[f]) ELSE o
  BY <1>2, SameOffset DEF WriteAt
<1>4. TF!Write(c, o, d)
  BY <1>1, <1>2, <1>3 DEF TF!Write, T
<1> QED
  BY <1>4 DEF TF!Next

LEMMA WriteBufferRefines ==
  ASSUME IInv, NEW c \in Client, NEW o \in Offset, NEW d \in Piece, o < UintSize,
         WriteBuffer(c, o, d)
  PROVE  TF!Next
<1>0. PICK f \in File : file[c] = f
  BY DEF WriteBuffer, Buffer
<1> DEFINE at == WriteAt(c, o)
           k  == Taken(f, at, d)
<1>1. f \in File /\ f # NULL
  BY PlainFilesAssumption
<1>2. T[f] = Text(f) /\ Len(T[f]) = len[f] /\ T[f] \in Seq(Byte) /\ len[f] \in Nat /\ Limit[f] \in Nat
  BY <1>1, TIs, PlainFilesAssumption DEF IInv, TypeOK
<1>3. at = IF append[c] THEN Len(T[f]) ELSE o
  BY <1>0, <1>2, SameOffset DEF WriteAt
<1>4. k = IF Limit[f] # 0 /\ Len(d) > Limit[f] - at THEN Limit[f] - at ELSE Len(d)
  BY DEF Taken
<1>5. file[c] = f
  BY <1>0
<1> HIDE DEF at, k
<1>6. /\ f \in Buffer /\ at \in Nat /\ k \in Nat /\ at <= len[f] /\ k <= Len(d)
      /\ d \in Seq(Byte) /\ Len(d) \in Nat /\ d # <<>>
      /\ Text(f)' \in Seq(Byte) /\ Len(Text(f)') = at + k
      /\ \A i \in 1..at : Text(f)'[i] = Text(f)[i]
      /\ \A i \in 1..k : Text(f)'[at + i] = d[i]
      /\ reply' = k
      /\ UNCHANGED <<live, kept, fids, reader>>
      /\ \A g \in File \ {f} : Text(g)' = Text(g)
  BY <1>1, <1>5, WriteText DEF at, k
<1> DEFINE u == SubSeq(T[f], 1, at)
           v == SubSeq(d, 1, k)
<1>7. /\ u \in Seq(Byte) /\ Len(u) = at /\ \A i \in 1..at : u[i] = Text(f)[i]
  <2>1. \A i \in 1..at : T[f][i] \in Byte
    BY <1>2, <1>6, ElementOfSeq
  <2> QED
    BY <1>2, <1>6, <2>1, FirstBytes
<1>8. /\ v \in Seq(Byte) /\ Len(v) = k /\ \A i \in 1..k : v[i] = d[i]
  <2>1. \A i \in 1..k : d[i] \in Byte
    BY <1>6, ElementOfSeq
  <2> QED
    BY <1>6, <2>1, FirstBytes
<1> HIDE DEF u, v
<1>9. Text(f)' = u \o v
  <2>0. u \in Seq(Byte) /\ v \in Seq(Byte) /\ Len(u) = at /\ Len(v) = k
    BY <1>7, <1>8
  <2>1. /\ u \o v \in Seq(Byte) /\ Len(u \o v) = at + k
        /\ \A i \in 1..(at + k) : (u \o v)[i] = IF i <= at THEN u[i] ELSE v[i - at]
    BY <2>0, ConcatProperties
  <2>2. ASSUME NEW i \in 1..(at + k) PROVE Text(f)'[i] = (u \o v)[i]
    <3>1. CASE i <= at
      <4>1. i \in 1..at
        BY <1>6, <3>1
      <4>2. Text(f)'[i] = Text(f)[i]
        BY <1>6, <4>1
      <4>3. (u \o v)[i] = u[i]
        BY <2>1, <3>1
      <4> QED
        BY <1>7, <4>1, <4>2, <4>3
    <3>2. CASE ~(i <= at)
      <4>1. i - at \in 1..k /\ at + (i - at) = i /\ ~(i <= at)
        BY <1>6, <3>2
      <4>2. Text(f)'[at + (i - at)] = d[i - at]
        BY <1>6, <4>1
      <4>3. (u \o v)[i] = v[i - at]
        BY <2>1, <4>1
      <4>4. v[i - at] = d[i - at]
        BY <1>8, <4>1
      <4>5. Text(f)'[i] = d[i - at]
        BY <4>1, <4>2
      <4> QED
        BY <4>3, <4>4, <4>5
    <3> QED
      BY <3>1, <3>2
  <2> QED
    BY <1>6, <2>1, <2>2, SeqEqual
<1>10. T' = [T EXCEPT ![f] = SubSeq(@, 1, at) \o SubSeq(d, 1, k)]
  <2> DEFINE w == u \o v
  <2>1. Text(f)' = w
    BY <1>9
  <2> HIDE DEF w
  <2>2. ASSUME NEW g \in File PROVE T'[g] = IF g = f THEN w ELSE T[g]
    <3>1. T'[g] = Text(g)' /\ T[g] = Text(g)
      BY TIs
    <3>2. CASE g = f
      BY <2>1, <3>1, <3>2
    <3>3. CASE g # f
      BY <1>6, <3>1, <3>3
    <3> QED
      BY <3>2, <3>3
  <2>3. /\ T' = [g \in File |-> T'[g]]
        /\ T  = [g \in File |-> T[g]]
    BY DEF T
  <2>4. T' = [T EXCEPT ![f] = w]
    BY <1>1, <2>2, <2>3
  <2> QED
    BY <2>4 DEF u, v, w
<1>11. k = IF Limit[f] = 0 THEN Len(d) ELSE TF!Least(Len(d), Limit[f] - at)
  BY <1>2, <1>4, <1>6 DEF TF!Least
<1>12. ~(at > Len(T[f]) \/ d = <<>>)
  BY <1>2, <1>6
<1>13. file[c] # NULL /\ UNCHANGED <<file, append, pos, got, atEnd>>
  BY <1>1, <1>5, <1>6 DEF fids, reader
<1>14. TF!Write(c, o, d)
  BY <1>3, <1>5, <1>6, <1>10, <1>11, <1>12, <1>13 DEF TF!Write, T
<1> QED
  BY <1>14 DEF TF!Next

LEMMA GrowRefines ==
  ASSUME IInv, NEW f \in File, NEW d \in Piece, Grow(f, d)
  PROVE  TF!Next
<1>1. /\ f \in HostFile /\ Text(f)' = Text(f) \o d
      /\ \A g \in File \ {f} : Text(g)' = Text(g)
  BY GrowText
<1>2. T' = [T EXCEPT ![f] = @ \o d]
  BY <1>1 DEF T
<1>3. reply' = 0 /\ UNCHANGED <<file, append, pos, got, atEnd>>
  BY DEF Grow, fids, reader
<1>4. TF!Grow(f, d)
  BY <1>1, <1>2, <1>3 DEF TF!Grow, T
<1> QED
  BY <1>4 DEF TF!Next

(* Whatever serves a file, its clients see a text: each step of the         *)
(* requests is a step of TextFile, as long as offsets have 32 bits.         *)
THEOREM FilesAreTexts ==
  ASSUME \A o \in Offset : o < UintSize
  PROVE  Spec => Implements
<1>1. Init => TF!Init
  <2> SUFFICES ASSUME Init PROVE TF!Init
    OBVIOUS
  <2>1. \A f \in File : Text(f) \in Seq(Byte)
    BY InitIInv DEF IInv, TypeOK
  <2> QED
    BY <2>1 DEF Init, TF!Init
<1>2. IInv /\ [Next]_vars => [TF!Next]_(TF!vars)
  <2> SUFFICES ASSUME IInv, [Next]_vars, ~UNCHANGED TF!vars PROVE TF!Next
    OBVIOUS
  <2>0. Denied \in {0, Denied}
    OBVIOUS
  <2>1. ASSUME NEW c \in Client, NEW f \in File, NEW m \in Mode, Open(c, f, m)
        PROVE  TF!Next
    <3>1. CASE Opened(c, f, m)
      BY <2>1, <3>1, OpenedRefines DEF Open
    <3>2. CASE Refused
      BY <2>0, <3>2, PassRefines DEF Refused
    <3> QED
      BY <2>1, <3>1, <3>2 DEF Open
  <2>2. ASSUME NEW c \in Client, NEW f \in File, NEW m \in Mode, OpenHost(c, f, m)
        PROVE  TF!Next
    BY <2>2, OpenedRefines DEF OpenHost
  <2>3. ASSUME NEW c \in Client, NEW f \in File, OpenHostFails(c, f)
        PROVE  TF!Next
    BY <2>0, <2>3, PassRefines DEF OpenHostFails, Refused
  <2>4. ASSUME NEW c \in Client, NEW n \in Count, Read(c, n)
        PROVE  TF!Next
    BY <2>4, ReadRefines
  <2>5. ASSUME NEW c \in Client, WriteRefused(c)
        PROVE  TF!Next
    BY <2>0, <2>5, PassRefines DEF WriteRefused, Refused
  <2>6. ASSUME NEW c \in Client, Remove(c)
        PROVE  TF!Next
    BY <2>0, <2>6, ForgetRefines DEF Remove
  <2>7. ASSUME NEW c \in Client, Clunk(c)
        PROVE  TF!Next
    BY <2>7, ForgetRefines DEF Clunk
  <2>8. ASSUME NEW c \in Client, NEW o \in Offset, NEW d \in Piece, WriteNothing(c, o, d)
        PROVE  TF!Next
    BY <2>8, WriteNothingRefines
  <2>9. ASSUME NEW c \in Client, NEW o \in Offset, NEW d \in Piece, WriteBuffer(c, o, d)
        PROVE  TF!Next
    BY <2>9, WriteBufferRefines
  <2>10. ASSUME NEW f \in File, NEW d \in Piece, Grow(f, d)
         PROVE  TF!Next
    BY <2>10, GrowRefines
  <2>11. CASE Create
    BY <2>0, <2>11, PassRefines DEF Create, Refused
  <2>12. CASE Flush
    BY <2>12, PassRefines DEF Flush, store
  <2>13. CASE UNCHANGED vars
    <3>1. T' = T
      BY <2>13, SameT DEF vars, store
    <3> QED
      BY <2>13, <3>1 DEF vars, fids, reader, TF!vars, T
  <2> QED
    BY <2>1, <2>2, <2>3, <2>4, <2>5, <2>6, <2>7, <2>8, <2>9, <2>10, <2>11, <2>12, <2>13
       DEF Next
<1> QED
  BY <1>1, <1>2, Invariant, PTL DEF Spec, Implements, TF!Spec
==============================================================================
