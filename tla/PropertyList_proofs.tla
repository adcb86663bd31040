-------------------------- MODULE PropertyList_proofs --------------------------
(***************************************************************************)
(* Proofs about PropertyList: one lemma on reading for each question the   *)
(* theorems ask of it, then one lemma for each action.                     *)
(***************************************************************************)
EXTENDS PropertyList, SequenceTheorems, TLAPS

USE PropertyListAssumption

(* What the two conversions answer, with a buffer of any size. *)
LEMMA CopyTyped ==
  ASSUME NEW t \in Text, NEW size \in Sizes
  PROVE  /\ Copy(t, size) \in Answer
         /\ Copy(t, size).text = t
         /\ Length[t] + 2 <= size => Whole(Copy(t, size))
  BY DEF Copy, Answer, Whole, Min

LEMMA PrintfTyped ==
  ASSUME NEW n \in Number, NEW size \in Sizes
  PROVE  /\ Printf(n, size) \in Answer
         /\ Printf(n, size).text = Decimal[n]
         /\ Length[Decimal[n]] + 2 <= size => Whole(Printf(n, size))
<1>1. Decimal[n] \in Text /\ Length[Decimal[n]] \in Nat /\ size \in Nat
  OBVIOUS
<1> QED
  BY <1>1 DEF Printf, Answer, Whole, Min

LEMMA NothingTyped == Nothing \in Answer /\ Nothing.text = NULL /\ Nothing.count = 0
  BY DEF Nothing, Answer

(* What a callback stores has the type the entry is read as. *)
LEMMA StoredTyped ==
  ASSUME TypeOK, NEW e \in Ent, NEW v \in Stored(e)
  PROVE  /\ Type[e] = "STRING" => v \in Text \cup {NULL}
         /\ Type[e] # "STRING" => v \in Number
         /\ e \notin Unreliable => v = app[e]
  BY DEF Stored, TypeOK, Kept

(* Whatever is read is an answer. *)
LEMMA ReadTyped ==
  ASSUME TypeOK, NEW e \in Ent, NEW o \in Nat, NEW size \in Sizes, NEW v \in Stored(e)
  PROVE  Read(e, o, size, v) \in Answer
<1>1. CASE Type[e] = "STRING"
  BY <1>1, StoredTyped, CopyTyped, NothingTyped DEF Read, ReadString
<1>2. CASE Type[e] = "INT"
  BY <1>2, StoredTyped, CopyTyped, PrintfTyped, NothingTyped DEF Read, ReadInt
<1>3. CASE Type[e] = "INT_VAL"
  <2>1. int_value[e] \in Number
    BY DEF TypeOK
  <2> QED
    BY <1>3, <2>1, StoredTyped, CopyTyped, PrintfTyped, NothingTyped DEF Read, ReadIntVal
<1>4. CASE Type[e] = "LONG_PTR"
  <2>1. app[e] \in Number
    BY <1>4 DEF TypeOK, Kept
  <2> QED
    BY <1>4, <2>1, StoredTyped, CopyTyped, PrintfTyped, NothingTyped DEF Read, ReadLongPtr
<1>5. CASE Type[e] \notin {"STRING", "INT", "INT_VAL", "LONG_PTR"}
  BY <1>5, NothingTyped DEF Read
<1> QED
  BY <1>1, <1>2, <1>3, <1>4, <1>5

(* What an entry shows, type by type. *)
LEMMA ShownIs ==
  ASSUME NEW e \in Ent
  PROVE  /\ Type[e] = "STRING" =>
              Shown(e) = IF Const[e] # NULL THEN Const[e]
                         ELSE IF "getString" \notin Ops[e] THEN NULL ELSE app[e]
         /\ Type[e] = "INT" =>
              Shown(e) = IF Const[e] # NULL THEN Const[e]
                         ELSE IF "getInt" \notin Ops[e] THEN NULL ELSE Decimal[app[e]]
         /\ Type[e] = "INT_VAL" =>
              Shown(e) = IF "getInt" \in Ops[e] THEN Decimal[app[e]]
                         ELSE IF Const[e] # NULL THEN Const[e] ELSE Decimal[int_value[e]]
         /\ Type[e] = "LONG_PTR" =>
              Shown(e) = IF Const[e] # NULL \/ "getInt" \in Ops[e] THEN Decimal[app[e]]
                         ELSE NULL
         /\ Type[e] \notin {"STRING", "INT", "INT_VAL", "LONG_PTR"} => Shown(e) = NULL
<1>1. CASE Type[e] = "STRING"
  BY <1>1 DEF Shown, Read, ReadString, Copy, Nothing
<1>2. CASE Type[e] = "INT"
  BY <1>2 DEF Shown, Read, ReadInt, Copy, Printf, Nothing
<1>3. CASE Type[e] = "INT_VAL"
  BY <1>3 DEF Shown, Read, ReadIntVal, Copy, Printf, Nothing
<1>4. CASE Type[e] = "LONG_PTR"
  BY <1>4 DEF Shown, Read, ReadLongPtr, Printf, Nothing
<1>5. CASE Type[e] \notin {"STRING", "INT", "INT_VAL", "LONG_PTR"}
  BY <1>5 DEF Shown, Read, Nothing
<1> QED
  BY <1>1, <1>2, <1>3, <1>4, <1>5

(* A first read answers what the entry shows: as a whole if the count has   *)
(* room for it, or not at all.                                             *)
LEMMA FirstRead ==
  ASSUME TypeOK, NEW e \in Ent, NEW size \in Sizes
  PROVE  /\ Read(e, 0, size, app[e]).text = Shown(e)
         /\ \/ Shown(e) = NULL /\ Read(e, 0, size, app[e]).count = 0
            \/ /\ Shown(e) \in Text
               /\ Length[Shown(e)] + 2 <= size => Whole(Read(e, 0, size, app[e]))
<1>1. \A t \in Text : /\ t # NULL /\ Copy(t, size).text = t
                      /\ Length[t] + 2 <= size => Whole(Copy(t, size))
  BY CopyTyped
<1>2. \A n \in Number : /\ Decimal[n] \in Text
                        /\ Printf(n, size).text = Decimal[n]
                        /\ Length[Decimal[n]] + 2 <= size => Whole(Printf(n, size))
  BY PrintfTyped
<1>3. Const[e] # NULL => Const[e] \in Text
  OBVIOUS
<1>4. CASE Type[e] = "STRING"
  <2>1. app[e] \in Text
    BY <1>4 DEF TypeOK, Kept
  <2> QED
    BY <1>1, <1>3, <1>4, <2>1, ShownIs, NothingTyped DEF Read, ReadString
<1>5. CASE Type[e] = "INT"
  <2>1. app[e] \in Number
    BY <1>5 DEF TypeOK, Kept
  <2> QED
    BY <1>1, <1>2, <1>3, <1>5, <2>1, ShownIs, NothingTyped DEF Read, ReadInt
<1>6. CASE Type[e] = "INT_VAL"
  <2>1. app[e] \in Number /\ int_value[e] \in Number
    BY <1>6 DEF TypeOK, Kept
  <2> QED
    BY <1>1, <1>2, <1>3, <1>6, <2>1, ShownIs DEF Read, ReadIntVal
<1>7. CASE Type[e] = "LONG_PTR"
  <2>1. app[e] \in Number
    BY <1>7 DEF TypeOK, Kept
  <2> QED
    BY <1>2, <1>7, <2>1, ShownIs, NothingTyped DEF Read, ReadLongPtr
<1>8. CASE Type[e] \notin {"STRING", "INT", "INT_VAL", "LONG_PTR"}
  BY <1>8, ShownIs, NothingTyped DEF Read
<1> QED
  BY <1>4, <1>5, <1>6, <1>7, <1>8

(* A read at an offset is answered with the end, whatever the count, what  *)
(* callbacks store, or a writer has done, but for a constant INT.          *)
LEMMA OffsetEnds ==
  ASSUME NEW e \in Ent, ~Again(e), NEW o \in Nat, o # 0, NEW size \in Sizes, NEW v
  PROVE  Read(e, o, size, v).count = 0
<1>1. CASE Type[e] = "INT" /\ Const[e] # NULL
  <2>1. Const[e] \in Text /\ Length[Const[e]] = 0
    BY <1>1 DEF Again
  <2>2. Copy(Const[e], size).count = 0
    BY <2>1 DEF Copy, Min
  <2> QED
    BY <1>1, <2>2 DEF Read, ReadInt
<1>2. CASE Type[e] # "INT" \/ Const[e] = NULL
  BY <1>2, NothingTyped DEF Read, ReadString, ReadInt, ReadIntVal, ReadLongPtr
<1> QED
  BY <1>1, <1>2
-----------------------------------------------------------------------------
(* What a write leaves behind, and what it answers. *)

LEMMA WriteTyped ==
  ASSUME TypeOK, NEW e \in Ent, NEW o \in {0, 1}, NEW t \in Text
  PROVE  /\ WriteEntry(e, o, t).int_value \in [Ent -> Number]
         /\ WriteEntry(e, o, t).app \in [Ent -> Value]
         /\ \A d \in Ent : WriteEntry(e, o, t).app[d] \in Kept(d)
<1>1. /\ int_value \in [Ent -> Number] /\ app \in [Ent -> Value]
      /\ \A d \in Ent : app[d] \in Kept(d)
  BY DEF TypeOK
<1>2. Parse[t] # NULL => Parse[t] \in Number
  OBVIOUS
<1>3. CASE Type[e] \in {"INT", "INT_VAL"} /\ Length[t] # 0 /\ o = 0
  <2>1. Kept(e) = Number
    BY <1>3 DEF Kept
  <2> QED
    BY <1>1, <1>2, <1>3, <2>1 DEF WriteEntry, WriteInt, Error, Taken, Value
<1>4. CASE Type[e] = "STRING" /\ Length[t] # 0 /\ o = 0
  <2>1. Kept(e) = Text
    BY <1>4 DEF Kept
  <2> QED
    BY <1>1, <1>4, <2>1 DEF WriteEntry, WriteString, Error, Taken, Value
<1>5. CASE Type[e] \notin {"INT", "INT_VAL", "STRING"} \/ Length[t] = 0 \/ o # 0
  BY <1>1, <1>5 DEF WriteEntry, Ignored, Error
<1> QED
  BY <1>3, <1>4, <1>5

(* The other entries keep what they show. *)
LEMMA OthersKeep ==
  ASSUME TypeOK, NEW e \in Ent, NEW o \in {0, 1}, NEW t \in Text, NEW d \in Ent \ {e}
  PROVE  WriteEntry(e, o, t).int_value[d] = int_value[d] /\ WriteEntry(e, o, t).app[d] = app[d]
  BY DEF WriteEntry, WriteInt, WriteString, Ignored, Error, Taken, TypeOK

(* An entry shows the same while what it may look at stays the same. *)
LEMMA ShownStays ==
  ASSUME NEW d \in Ent, app'[d] = app[d], int_value'[d] = int_value[d]
  PROVE  Shown(d)' = Shown(d)
  BY DEF Shown, Read, ReadString, ReadInt, ReadIntVal, ReadLongPtr, Copy, Printf, Nothing

(* The entry a client reads after a step, under a name of its own. *)
LEMMA ShownOfFile ==
  ASSUME NEW c \in Client, NEW e \in Ent, file'[c] = e
  PROVE  Shown(file[c])' = Shown(e)'
  BY DEF Shown, Read, ReadString, ReadInt, ReadIntVal, ReadLongPtr, Copy, Printf, Nothing

(* What an entry shows after a step is a text or nothing. *)
LEMMA ShownTyped ==
  ASSUME int_value' \in [Ent -> Number], NEW e \in Ent, app'[e] \in Kept(e)
  PROVE  Shown(e)' \in Text \cup {NULL}
  BY DEF Shown, Read, ReadString, ReadInt, ReadIntVal, ReadLongPtr, Copy, Printf, Nothing, Kept

LEMMA RecordTyped ==
  ASSUME shown \in [Client -> SUBSET (Text \cup {NULL})],
         file' \in [Client -> Ent \cup {NULL}],
         int_value' \in [Ent -> Number],
         \A e \in Ent : app'[e] \in Kept(e),
         Record
  PROVE  shown' \in [Client -> SUBSET (Text \cup {NULL})]
<1>1. ASSUME NEW c \in Client, file'[c] # NULL
      PROVE  Shown(file[c])' \in Text \cup {NULL}
  <2>1. PICK e \in Ent : file'[c] = e
    BY <1>1
  <2>2. Shown(e)' \in Text \cup {NULL}
    BY <2>1, ShownTyped
  <2> QED
    BY <2>1, <2>2, ShownOfFile
<1>2. ASSUME NEW c \in Client
      PROVE  (IF file'[c] = NULL THEN {} ELSE shown[c] \cup {Shown(file[c])'})
               \in SUBSET (Text \cup {NULL})
  BY <1>1
<1> QED
  BY <1>2 DEF Record
-----------------------------------------------------------------------------
(* Type correctness *)

LEMMA InitTyped == Init => TypeOK
<1> SUFFICES ASSUME Init PROVE TypeOK
  OBVIOUS
<1>1. (CHOOSE n \in Number : TRUE) \in Number
  OBVIOUS
<1>2. ASSUME NEW e \in Ent
      PROVE  (CHOOSE v \in Kept(e) : TRUE) \in Kept(e) /\ Kept(e) \subseteq Value
  <2>1. Kept(e) # {} /\ Kept(e) \subseteq Value
    BY DEF Kept, Value
  <2> QED
    BY <2>1
<1>3. int_value \in [Ent -> Number]
  BY <1>1 DEF Init
<1>4. app \in [Ent -> Value] /\ \A e \in Ent : app[e] \in Kept(e)
  <2>1. app = [e \in Ent |-> CHOOSE v \in Kept(e) : TRUE]
    BY DEF Init
  <2> QED
    BY <2>1, <1>2
<1>5. got \in [Client -> Seq(Answer)]
  <2>1. <<>> \in Seq(Answer)
    BY EmptySeq
  <2> QED
    BY <2>1 DEF Init
<1> QED
  BY <1>3, <1>4, <1>5 DEF Init, TypeOK

LEMMA StepTyped == TypeOK /\ [Next]_vars => TypeOK'
<1> SUFFICES ASSUME TypeOK, [Next]_vars PROVE TypeOK'
  OBVIOUS
<1>1. ASSUME NEW c \in Client, NEW e \in Ent, Open(c, e)
      PROVE  TypeOK'
  <2>1. file' \in [Client -> Ent \cup {NULL}] /\ int_value' = int_value /\ app' = app
    BY <1>1 DEF Open, TypeOK
  <2>2. shown' \in [Client -> SUBSET (Text \cup {NULL})]
    BY <1>1, <2>1, RecordTyped DEF Open, TypeOK
  <2> QED
    BY <1>1, <2>1, <2>2 DEF Open, TypeOK
<1>2. ASSUME NEW c \in Client, NEW size \in Sizes, ReadNext(c, size)
      PROVE  TypeOK'
  <2>1. file[c] \in Ent /\ pos[c] \in Nat /\ got[c] \in Seq(Answer)
    BY <1>2 DEF ReadNext, TypeOK
  <2>2. PICK v \in Stored(file[c]) :
          LET a == Read(file[c], pos[c], size, v)
          IN  /\ atEnd' = [atEnd EXCEPT ![c] = a.count = 0]
              /\ pos' = [pos EXCEPT ![c] = @ + a.count]
              /\ got' = [got EXCEPT ![c] = IF a.count = 0 THEN @ ELSE Append(@, a)]
              /\ spoilt' = [spoilt EXCEPT ![c] = @ \cup Flaws(file[c], size, v, a)]
    BY <1>2 DEF ReadNext
  <2>3. PICK a \in Answer :
          /\ atEnd' = [atEnd EXCEPT ![c] = (a.count = 0)]
          /\ pos' = [pos EXCEPT ![c] = pos[c] + a.count]
          /\ got' = [got EXCEPT ![c] = IF a.count = 0 THEN got[c] ELSE Append(got[c], a)]
          /\ spoilt' = [spoilt EXCEPT ![c] = spoilt[c] \cup Flaws(file[c], size, v, a)]
    BY <2>1, <2>2, ReadTyped
  <2>4. a.count \in Nat /\ Append(got[c], a) \in Seq(Answer)
    BY <2>1, <2>3, AppendProperties DEF Answer
  <2>5. /\ pos' \in [Client -> Nat]
        /\ got' \in [Client -> Seq(Answer)]
    BY <2>1, <2>3, <2>4 DEF TypeOK
  <2>6. atEnd' \in [Client -> BOOLEAN]
    <3>1. (a.count = 0) \in BOOLEAN
      OBVIOUS
    <3> QED
      BY <2>3, <3>1 DEF TypeOK
  <2>7. spoilt' \in [Client -> SUBSET {"short", "failed"}]
    <3>1. Flaws(file[c], size, v, a) \subseteq {"short", "failed"}
      BY DEF Flaws
    <3> QED
      BY <2>3, <3>1 DEF TypeOK
  <2> QED
    BY <1>2, <2>5, <2>6, <2>7 DEF ReadNext, TypeOK
<1>3. ASSUME NEW c \in Client, Clunk(c)
      PROVE  TypeOK'
  <2>1. file' \in [Client -> Ent \cup {NULL}] /\ int_value' = int_value /\ app' = app
    BY <1>3 DEF Clunk, TypeOK
  <2>2. shown' \in [Client -> SUBSET (Text \cup {NULL})]
    BY <1>3, <2>1, RecordTyped DEF Clunk, TypeOK
  <2>3. got' \in [Client -> Seq(Answer)]
    <3>1. <<>> \in Seq(Answer)
      BY EmptySeq
    <3> QED
      BY <1>3, <3>1 DEF Clunk, TypeOK
  <2> QED
    BY <1>3, <2>1, <2>2, <2>3 DEF Clunk, TypeOK
<1>4. ASSUME NEW e \in Ent, NEW t \in Text, NEW o \in {0, 1}, Write(e, o, t)
      PROVE  TypeOK'
  <2>1. /\ int_value' \in [Ent -> Number]
        /\ app' \in [Ent -> Value]
        /\ \A d \in Ent : app'[d] \in Kept(d)
    BY <1>4, WriteTyped DEF Write
  <2>2. shown' \in [Client -> SUBSET (Text \cup {NULL})]
    BY <1>4, <2>1, RecordTyped DEF Write, TypeOK
  <2> QED
    BY <1>4, <2>1, <2>2 DEF Write, TypeOK
<1>5. ASSUME NEW e \in Ent, NEW v \in Kept(e), Change(e, v)
      PROVE  TypeOK'
  <2>1. /\ int_value' \in [Ent -> Number]
        /\ app' \in [Ent -> Value]
        /\ \A d \in Ent : app'[d] \in Kept(d)
    <3>1. v \in Value
      BY DEF Kept, Value
    <3> QED
      BY <1>5, <3>1 DEF Change, TypeOK
  <2>2. shown' \in [Client -> SUBSET (Text \cup {NULL})]
    BY <1>5, <2>1, RecordTyped DEF Change, TypeOK
  <2> QED
    BY <1>5, <2>1, <2>2 DEF Change, TypeOK
<1>6. CASE UNCHANGED vars
  BY <1>6 DEF vars, TypeOK
<1> QED
  BY <1>1, <1>2, <1>3, <1>4, <1>5, <1>6 DEF Next

(* In every state the variables have their types: entries keep numbers or  *)
(* texts as their type says, whatever clients write to them.               *)
THEOREM Typed == Spec => []TypeOK
<1> QED
  BY InitTyped, StepTyped, PTL DEF Spec
-----------------------------------------------------------------------------
(* Readers *)

(* A step that only adds to a client's history leaves its reading in order. *)
LEMMA RecordKeeps ==
  ASSUME TypeOK, Record, NEW c \in Client, ReaderOK(c),
         file'[c] = file[c], pos'[c] = pos[c], got'[c] = got[c], atEnd'[c] = atEnd[c],
         spoilt'[c] = spoilt[c]
  PROVE  ReaderOK(c)'
<1>1. file'[c] # NULL => shown'[c] = shown[c] \cup {Shown(file[c])'}
  BY DEF Record
<1> QED
  BY <1>1 DEF ReaderOK, Unread, Again, Whole

LEMMA ReadKeeps ==
  ASSUME TypeOK, TypeOK', NEW c \in Client, ReaderOK(c), NEW size \in Sizes,
         ReadNext(c, size)
  PROVE  ReaderOK(c)'
<1>1. PICK e \in Ent : file[c] = e
  BY DEF ReadNext, TypeOK
<1>2. PICK v \in Stored(e) :
        LET a == Read(e, pos[c], size, v)
        IN  /\ atEnd' = [atEnd EXCEPT ![c] = a.count = 0]
            /\ pos' = [pos EXCEPT ![c] = @ + a.count]
            /\ got' = [got EXCEPT ![c] = IF a.count = 0 THEN @ ELSE Append(@, a)]
            /\ spoilt' = [spoilt EXCEPT ![c] = @ \cup Flaws(e, size, v, a)]
  BY <1>1 DEF ReadNext
<1>3. PICK a \in Answer :
        /\ a = Read(e, pos[c], size, v)
        /\ atEnd'[c] = (a.count = 0)
        /\ pos'[c] = pos[c] + a.count
        /\ got'[c] = IF a.count = 0 THEN got[c] ELSE Append(got[c], a)
        /\ spoilt'[c] = spoilt[c] \cup Flaws(e, size, v, a)
  BY <1>1, <1>2, ReadTyped DEF TypeOK
<1>4. /\ file'[c] = e /\ e # NULL /\ shown'[c] = shown[c] /\ ~atEnd[c]
      /\ a.count \in Nat /\ pos[c] \in Nat /\ got[c] \in Seq(Answer)
  BY <1>1 DEF ReadNext, TypeOK, Answer
<1>5. Shown(file[c])' = Shown(file[c])
  <2>1. app' = app /\ int_value' = int_value
    BY DEF ReadNext
  <2>2. Shown(e)' = Shown(e)
    BY <2>1, ShownStays
  <2> QED
    BY <1>1, <1>4, <2>2, ShownOfFile
<1>6. Shown(e) \in shown[c]
  BY <1>1, <1>4 DEF ReaderOK
<1>7. CASE Again(e) \/ "failed" \in spoilt'[c]
  <2>1. Again(e) => Again(file[c])'
    BY <1>4 DEF Again
  <2> QED
    BY <1>1, <1>4, <1>5, <1>6, <1>7, <2>1 DEF ReaderOK
<1>8. CASE ~Again(e) /\ "failed" \notin spoilt'[c]
  <2>1. v = app[e] /\ "failed" \notin spoilt[c]
    BY <1>3, <1>8 DEF Flaws
  <2>2. CASE Unread(c)
    <3>1. pos[c] = 0 /\ got[c] = <<>>
      BY <2>2 DEF Unread
    <3>2. a = Read(e, 0, size, app[e])
      BY <1>3, <2>1, <3>1
    <3>3. /\ a.text = Shown(e)
          /\ \/ Shown(e) = NULL /\ a.count = 0
             \/ Shown(e) \in Text /\ (Length[Shown(e)] + 2 <= size => Whole(a))
      BY <3>2, FirstRead
    <3>4. Shown(e) \in Text /\ "short" \notin spoilt'[c] => Whole(a)
      <4> SUFFICES ASSUME Shown(e) \in Text, "short" \notin spoilt'[c]
                   PROVE  Whole(a)
        OBVIOUS
      <4>1. ~(a.text # NULL /\ size < Length[a.text] + 2)
        BY <1>3 DEF Flaws
      <4>2. Length[Shown(e)] \in Nat /\ size \in Nat /\ Shown(e) # NULL
        OBVIOUS
      <4>3. Length[Shown(e)] + 2 <= size
        BY <3>3, <4>1, <4>2
      <4> QED
        BY <3>3, <4>2, <4>3
    <3>5. CASE a.count = 0
      <4>1. "short" \in spoilt'[c] \/ a.text = NULL \/ Length[a.text] = 0
        BY <3>3, <3>4, <3>5 DEF Whole
      <4>2. Unread(c)'
        BY <1>3, <1>4, <3>1, <3>5 DEF Unread
      <4>3. "short" \in spoilt'[c] \/ \E t \in shown'[c] : t = NULL \/ Length[t] = 0
        BY <1>4, <1>6, <3>3, <4>1
      <4> QED
        BY <1>1, <1>4, <1>5, <1>6, <4>2, <4>3 DEF ReaderOK
    <3>6. CASE a.count # 0
      <4>1. got'[c] = Append(<<>>, a)
        BY <1>3, <3>1, <3>6
      <4>2. Len(got'[c]) = 1 /\ got'[c][1] = a
        BY <4>1
      <4>3. pos'[c] > 0
        BY <1>3, <1>4, <3>1, <3>6
      <4>4. got'[c][1].text \in shown'[c]
        BY <1>4, <1>6, <3>3, <4>2
      <4>5. "short" \notin spoilt'[c] => Whole(got[c][1])'
        BY <3>3, <3>4, <3>6, <4>2 DEF Whole
      <4> QED
        BY <1>1, <1>4, <1>5, <1>6, <4>2, <4>3, <4>4, <4>5 DEF ReaderOK
    <3> QED
      BY <3>5, <3>6
  <2>3. CASE ~Unread(c)
    <3>1. /\ pos[c] > 0 /\ Len(got[c]) = 1
          /\ got[c][1].text \in shown[c]
          /\ "short" \notin spoilt[c] => Whole(got[c][1])
      BY <1>1, <1>4, <1>8, <2>1, <2>3 DEF ReaderOK
    <3>2. a.count = 0
      BY <1>3, <1>4, <1>8, <3>1, OffsetEnds
    <3>3. pos'[c] = pos[c] /\ got'[c] = got[c]
      BY <1>3, <1>4, <3>2
    <3>4. "short" \notin spoilt'[c] => Whole(got[c][1])'
      BY <1>3, <3>1, <3>3 DEF Whole
    <3> QED
      BY <1>1, <1>4, <1>5, <1>6, <3>1, <3>3, <3>4 DEF ReaderOK
  <2> QED
    BY <2>2, <2>3
<1> QED
  BY <1>7, <1>8

LEMMA InitReaders == Init => ReadersOK
  BY DEF Init, ReadersOK, ReaderOK, Unread

LEMMA StepReaders ==
  ASSUME IInv, TypeOK', [Next]_vars
  PROVE  ReadersOK'
<1> SUFFICES ASSUME NEW c \in Client
             PROVE  ReaderOK(c)'
  BY DEF ReadersOK
<1>a. TypeOK /\ ReaderOK(c)
  BY DEF IInv, ReadersOK
<1>1. ASSUME NEW d \in Client, NEW e \in Ent, Open(d, e)
      PROVE  ReaderOK(c)'
  <2>1. CASE d = c
    <3>1. file[c] = NULL /\ file'[c] = e
      BY <1>a, <1>1, <2>1 DEF Open, TypeOK
    <3>2. Unread(c)' /\ ~atEnd'[c]
      BY <1>a, <1>1, <3>1 DEF Open, ReaderOK, Unread
    <3>3. e # NULL
      OBVIOUS
    <3>4. (Shown(file[c]) \in shown[c])'
      BY <1>1, <3>1, <3>3 DEF Open, Record
    <3> QED
      BY <3>1, <3>2, <3>3, <3>4 DEF ReaderOK
  <2>2. CASE d # c
    BY <1>a, <1>1, <2>2, RecordKeeps DEF Open, TypeOK
  <2> QED
    BY <2>1, <2>2
<1>2. ASSUME NEW d \in Client, NEW size \in Sizes, ReadNext(d, size)
      PROVE  ReaderOK(c)'
  <2>1. CASE d = c
    BY <1>a, <1>2, <2>1, ReadKeeps
  <2>2. CASE d # c
    <3>1. /\ pos'[c] = pos[c] /\ got'[c] = got[c] /\ atEnd'[c] = atEnd[c]
          /\ spoilt'[c] = spoilt[c]
          /\ file' = file /\ shown' = shown /\ app' = app /\ int_value' = int_value
      BY <1>a, <1>2, <2>2 DEF ReadNext, TypeOK
    <3>2. CASE file[c] = NULL
      BY <1>a, <3>1, <3>2 DEF ReaderOK, Unread
    <3>3. CASE file[c] # NULL
      <4>1. PICK e \in Ent : file[c] = e
        BY <1>a, <3>3 DEF TypeOK
      <4>2. Shown(e)' = Shown(e)
        BY <3>1, ShownStays
      <4>3. Shown(file[c])' = Shown(file[c])
        BY <3>1, <4>1, <4>2, ShownOfFile
      <4> QED
        BY <1>a, <3>1, <3>3, <4>3 DEF ReaderOK, Unread, Again, Whole
    <3> QED
      BY <3>2, <3>3
  <2> QED
    BY <2>1, <2>2
<1>3. ASSUME NEW d \in Client, Clunk(d)
      PROVE  ReaderOK(c)'
  <2>1. CASE d = c
    <3>1. file'[c] = NULL /\ Unread(c)' /\ ~atEnd'[c]
      BY <1>a, <1>3, <2>1 DEF Clunk, TypeOK, Unread
    <3> QED
      BY <3>1 DEF ReaderOK
  <2>2. CASE d # c
    BY <1>a, <1>3, <2>2, RecordKeeps DEF Clunk, TypeOK
  <2> QED
    BY <2>1, <2>2
<1>4. ASSUME NEW e \in Ent, NEW t \in Text, NEW o \in {0, 1}, Write(e, o, t)
      PROVE  ReaderOK(c)'
  BY <1>a, <1>4, RecordKeeps DEF Write
<1>5. ASSUME NEW e \in Ent, NEW v \in Kept(e), Change(e, v)
      PROVE  ReaderOK(c)'
  BY <1>a, <1>5, RecordKeeps DEF Change
<1>6. CASE UNCHANGED vars
  <2>1. CASE file[c] = NULL
    BY <1>a, <1>6, <2>1 DEF vars, ReaderOK, Unread
  <2>2. CASE file[c] # NULL
    <3>1. PICK e \in Ent : file[c] = e
      BY <1>a, <2>2 DEF TypeOK
    <3>2. Shown(file[c])' = Shown(file[c])
      BY <1>6, <3>1, ShownStays, ShownOfFile DEF vars
    <3> QED
      BY <1>a, <1>6, <2>2, <3>2 DEF vars, ReaderOK, Unread, Again, Whole
  <2> QED
    BY <2>1, <2>2
<1> QED
  BY <1>1, <1>2, <1>3, <1>4, <1>5, <1>6 DEF Next

(* Every state keeps what each reader's answers so far tell about the      *)
(* values its entry had, for counts of any size.                           *)
THEOREM Invariant == Spec => []IInv
<1>1. Init => IInv
  BY InitTyped, InitReaders DEF IInv
<1>2. IInv /\ [Next]_vars => IInv'
  <2> SUFFICES ASSUME IInv, [Next]_vars PROVE IInv'
    OBVIOUS
  <2>1. TypeOK'
    BY StepTyped DEF IInv
  <2>2. ReadersOK'
    BY <2>1, StepReaders
  <2> QED
    BY <2>1, <2>2 DEF IInv
<1> QED
  BY <1>1, <1>2, PTL DEF Spec

(* A client that has read an entry to its end has what it has of one value *)
(* that the entry had while it was open, whoever writes in between and     *)
(* whatever the counts: the whole of it if each count had room for it.     *)
THEOREM ValuesAreWhole == Spec => []WholeValue
<1>1. IInv => WholeValue
  <2> SUFFICES ASSUME IInv, NEW c \in Client,
                      atEnd[c], ~Again(file[c]), "failed" \notin spoilt[c]
               PROVE  IF got[c] = <<>>
                      THEN "short" \in spoilt[c] \/ \E t \in shown[c] : t = NULL \/ Length[t] = 0
                      ELSE /\ Len(got[c]) = 1
                           /\ got[c][1].text \in shown[c]
                           /\ "short" \notin spoilt[c] => Whole(got[c][1])
    BY DEF WholeValue
  <2>1. ReaderOK(c) /\ file[c] # NULL
    BY DEF IInv, ReadersOK, ReaderOK
  <2>2. CASE Unread(c)
    BY <2>1, <2>2 DEF ReaderOK, Unread
  <2>3. CASE ~Unread(c)
    <3>1. Len(got[c]) = 1 /\ got[c][1].text \in shown[c]
          /\ ("short" \notin spoilt[c] => Whole(got[c][1]))
      BY <2>1, <2>3 DEF ReaderOK
    <3>2. got[c] # <<>>
      <4>1. Len(<<>>) = 0
        OBVIOUS
      <4> QED
        BY <3>1, <4>1
    <3> QED
      BY <3>1, <3>2
  <2> QED
    BY <2>2, <2>3
<1> QED
  BY <1>1, Invariant, PTL
-----------------------------------------------------------------------------
(* The end of a reading *)

(* Once a reader has something, its next answer is the end. *)
NextIsEnd ==
  [][\A c \in Client, size \in Sizes :
       ReadNext(c, size) /\ pos[c] > 0 /\ ~Again(file[c]) => atEnd'[c]]_vars

(* A client that reads on has its empty answer after at most one with data, *)
(* also of entries whose callbacks fail and with counts of any size; the    *)
(* exception is the constant INT that the run PropertyList_int is about.    *)
(* ReadEnds adds that the client does read on.                              *)
THEOREM ReadingEnds == Spec => NextIsEnd
<1>1. TypeOK /\ [Next]_vars =>
        [\A c \in Client, size \in Sizes :
           ReadNext(c, size) /\ pos[c] > 0 /\ ~Again(file[c]) => atEnd'[c]]_vars
  <2> SUFFICES ASSUME TypeOK, NEW c \in Client, NEW size \in Sizes,
                      ReadNext(c, size), pos[c] > 0, ~Again(file[c])
               PROVE  atEnd'[c]
    OBVIOUS
  <2>1. PICK e \in Ent : file[c] = e
    BY DEF ReadNext, TypeOK
  <2>2. PICK v : atEnd' = [atEnd EXCEPT ![c] = Read(e, pos[c], size, v).count = 0]
    BY <2>1 DEF ReadNext
  <2>3. pos[c] \in Nat /\ pos[c] # 0 /\ ~Again(e)
    BY <2>1 DEF TypeOK
  <2>4. Read(e, pos[c], size, v).count = 0
    BY <2>3, OffsetEnds
  <2>5. atEnd'[c] = (Read(e, pos[c], size, v).count = 0)
    BY <2>2 DEF TypeOK
  <2> QED
    BY <2>4, <2>5
<1> QED
  BY <1>1, Typed, PTL DEF Spec, NextIsEnd
-----------------------------------------------------------------------------
(* Writes *)

(* What a write that is answered with success stores. *)
LEMMA TakenIs ==
  ASSUME TypeOK, NEW e \in Ent, NEW t \in Text, WriteEntry(e, 0, t).ret = "ok"
  PROVE  /\ Type[e] \in {"STRING", "INT", "INT_VAL"}
         /\ Type[e] = "STRING" => WriteEntry(e, 0, t).app[e] = t /\ "setString" \in Ops[e]
         /\ Type[e] # "STRING" =>
              /\ WriteEntry(e, 0, t).int_value[e] = Parse[t]
              /\ WriteEntry(e, 0, t).app[e] = IF "setInt" \in Ops[e] THEN Parse[t] ELSE app[e]
<1>1. Length[t] # 0
  BY DEF WriteEntry, Ignored
<1>2. CASE Type[e] = "STRING"
  BY <1>1, <1>2 DEF WriteEntry, WriteString, Error, Taken, TypeOK
<1>3. CASE Type[e] \in {"INT", "INT_VAL"}
  BY <1>1, <1>3 DEF WriteEntry, WriteInt, Error, Taken, TypeOK
<1>4. CASE Type[e] \notin {"STRING", "INT", "INT_VAL"}
  BY <1>1, <1>4 DEF WriteEntry, Error
<1> QED
  BY <1>2, <1>3, <1>4

(* What an entry shows after a step, by the place that reads look at.      *)
LEMMA ShownByPlace ==
  ASSUME NEW e \in Ent
  PROVE  /\ ReadFrom(e) \in {"const", "none"} => Shown(e)' = Shown(e)
         /\ ReadFrom(e) = "app" /\ app'[e] = app[e] => Shown(e)' = Shown(e)
         /\ ReadFrom(e) = "app" =>
              Shown(e)' = IF Type[e] = "STRING" THEN app'[e] ELSE Decimal[app'[e]]
         /\ ReadFrom(e) = "int_value" =>
              Type[e] = "INT_VAL" /\ Shown(e)' = Decimal[int_value'[e]]
         /\ ReadFrom(e) = "int_value" /\ int_value'[e] = int_value[e] => Shown(e)' = Shown(e)
         /\ ReadFrom(e) \in {"const", "none", "app", "int_value"}
  BY DEF ReadFrom, Shown, Read, ReadString, ReadInt, ReadIntVal, ReadLongPtr,
         Copy, Printf, Nothing

(* What a write that is answered with an error leaves behind: a number that *)
(* setInt() refused is in int_value.                                       *)
LEMMA ErrorIs ==
  ASSUME TypeOK, NEW e \in Ent, NEW o \in {0, 1}, NEW t \in Text,
         WriteEntry(e, o, t).ret = "error"
  PROVE  /\ WriteEntry(e, o, t).app = app
         /\ Type[e] = "INT_VAL" =>
              WriteEntry(e, o, t).int_value[e] =
                IF o = 0 /\ Parse[t] # NULL THEN Parse[t] ELSE int_value[e]
<1>1. Length[t] # 0
  BY DEF WriteEntry, Ignored
<1>2. CASE o # 0
  BY <1>1, <1>2 DEF WriteEntry, Error
<1>3. CASE o = 0 /\ Type[e] \in {"INT", "INT_VAL"}
  BY <1>1, <1>3 DEF WriteEntry, WriteInt, Error, Taken, TypeOK
<1>4. CASE o = 0 /\ Type[e] = "STRING"
  BY <1>1, <1>4 DEF WriteEntry, WriteString, Error, Taken
<1>5. CASE o = 0 /\ Type[e] \notin {"INT", "INT_VAL", "STRING"}
  BY <1>1, <1>5 DEF WriteEntry, Error
<1> QED
  BY <1>2, <1>3, <1>4, <1>5

(* What a write answered with success has stored is what the next read     *)
(* shows wherever reads look at what writes store, and it shows in no      *)
(* other entry.                                                            *)
THEOREM WritesShow == Spec => AcceptedWriteShows
<1>1. TypeOK => (\A e \in Ent, t \in Text :
         Write(e, 0, t) /\ WriteEntry(e, 0, t).ret = "ok" =>
           /\ Shown(e)' = IF ReadFrom(e) \in WrittenTo(e) THEN Accepted(e, t) ELSE Shown(e)
           /\ \A d \in Ent \ {e} : Shown(d)' = Shown(d))
  <2> SUFFICES ASSUME TypeOK, NEW e \in Ent, NEW t \in Text,
                      Write(e, 0, t), WriteEntry(e, 0, t).ret = "ok"
               PROVE  /\ Shown(e)' = IF ReadFrom(e) \in WrittenTo(e)
                                     THEN Accepted(e, t) ELSE Shown(e)
                      /\ \A d \in Ent \ {e} : Shown(d)' = Shown(d)
    OBVIOUS
  <2>1. int_value' = WriteEntry(e, 0, t).int_value /\ app' = WriteEntry(e, 0, t).app
    BY DEF Write
  <2>2. /\ Type[e] \in {"STRING", "INT", "INT_VAL"}
        /\ Type[e] = "STRING" => app'[e] = t /\ "setString" \in Ops[e]
        /\ Type[e] # "STRING" =>
             /\ int_value'[e] = Parse[t]
             /\ app'[e] = IF "setInt" \in Ops[e] THEN Parse[t] ELSE app[e]
    BY <2>1, TakenIs
  <2>3. ASSUME NEW d \in Ent \ {e}
        PROVE  Shown(d)' = Shown(d)
    <3>1. app'[d] = app[d] /\ int_value'[d] = int_value[d]
      BY <2>1, OthersKeep
    <3> QED
      BY <3>1, ShownStays
  <2>4. CASE ReadFrom(e) \in WrittenTo(e)
    <3>1. ReadFrom(e) = "app" =>
            "setInt" \in Ops[e] \/ Type[e] = "STRING"
      BY <2>4 DEF WrittenTo
    <3>2. ReadFrom(e) \in {"app", "int_value"}
      BY <2>4 DEF WrittenTo
    <3> QED
      BY <2>2, <2>3, <2>4, <3>1, <3>2, ShownByPlace DEF Accepted
  <2>5. CASE ReadFrom(e) \notin WrittenTo(e)
    <3>1. ReadFrom(e) # "int_value"
      BY <2>5 DEF WrittenTo, ReadFrom
    <3>2. ReadFrom(e) = "app" => app'[e] = app[e]
      BY <2>2, <2>5 DEF WrittenTo
    <3> QED
      BY <2>3, <2>5, <3>1, <3>2, ShownByPlace
  <2> QED
    BY <2>4, <2>5
<1> QED
  BY <1>1, Typed, PTL DEF AcceptedWriteShows

(* A write answered with an error shows nowhere, whatever callbacks a list *)
(* has, but for a number that setInt() refused in an entry that is read    *)
(* from int_value.                                                         *)
THEOREM RefusalsTraced == Spec => RefusedWriteTraced
<1>1. TypeOK => (\A e \in Ent, t \in Text, o \in {0, 1} :
         Write(e, o, t) /\ WriteEntry(e, o, t).ret = "error" =>
           /\ Shown(e)' = IF o = 0 /\ ReadFrom(e) = "int_value" /\ Parse[t] # NULL
                          THEN Decimal[Parse[t]] ELSE Shown(e)
           /\ \A d \in Ent \ {e} : Shown(d)' = Shown(d))
  <2> SUFFICES ASSUME TypeOK, NEW e \in Ent, NEW t \in Text, NEW o \in {0, 1},
                      Write(e, o, t), WriteEntry(e, o, t).ret = "error"
               PROVE  /\ Shown(e)' = IF o = 0 /\ ReadFrom(e) = "int_value" /\ Parse[t] # NULL
                                     THEN Decimal[Parse[t]] ELSE Shown(e)
                      /\ \A d \in Ent \ {e} : Shown(d)' = Shown(d)
    OBVIOUS
  <2>1. int_value' = WriteEntry(e, o, t).int_value /\ app' = WriteEntry(e, o, t).app
    BY DEF Write
  <2>2. /\ app' = app
        /\ Type[e] = "INT_VAL" =>
             int_value'[e] = IF o = 0 /\ Parse[t] # NULL THEN Parse[t] ELSE int_value[e]
    BY <2>1, ErrorIs
  <2>3. ASSUME NEW d \in Ent \ {e}
        PROVE  Shown(d)' = Shown(d)
    <3>1. app'[d] = app[d] /\ int_value'[d] = int_value[d]
      BY <2>1, OthersKeep
    <3> QED
      BY <3>1, ShownStays
  <2> QED
    BY <2>2, <2>3, ShownByPlace
<1> QED
  BY <1>1, Typed, PTL DEF RefusedWriteTraced
================================================================================
