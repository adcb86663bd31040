----------------------------- MODULE PropertyList -----------------------------
(***************************************************************************)
(* The entries of a property list as files: what reading one yields and    *)
(* what writing one does, for each entry type of propertylist_ops.c, with  *)
(* several clients that read an entry to its end while others write it and *)
(* the application changes the values behind its callbacks.                *)
(*                                                                         *)
(* A handler runs to its end before the next request is served, so each    *)
(* request is one step; a client's reading of one file is many.            *)
(***************************************************************************)
EXTENDS Integers, Sequences

CONSTANTS
  Client,       \* fids that are open on an entry, over all connections
  Ent,          \* the entries
  Type,         \* MIXP_PROPERTYLIST_ENT.type
  Const,        \* MIXP_PROPERTYLIST_ENT.value as a text, NULL if not set
  Ops,          \* of each entry, the callbacks its property list has
  Text,         \* what clients write and what constants are
  Length,       \* strlen() of a text
  Parse,        \* strtol() of a text, NULL when it is out of range
  Decimal,      \* "%ld" of a number
  Refused,      \* what the application's setInt() and setString() refuse
  Unreliable,   \* entries whose getInt() or getString() may store nothing
  Sizes,        \* counts in the clients' read requests
  MaxPos,       \* model bound: the offset at which a client gives up
  NULL

Callback == {"getInt", "setInt", "getString", "setString"}
Number   == DOMAIN Decimal
Value    == Number \cup Text    \* what an application keeps for an entry

ASSUME PropertyListAssumption ==
  /\ Type \in [Ent -> {"STRING", "INT", "DIR", "FILE", "INT_VAL", "FLOAT_VAL", "LONG_PTR"}]
  /\ Const \in [Ent -> Text \cup {NULL}]
  /\ Ops \in [Ent -> SUBSET Callback]
  /\ Text # {}
  /\ NULL \notin Text \cup Number \cup Ent
  /\ Length \in [Text -> Nat]
  /\ Number # {} /\ Decimal \in [Number -> Text]
  /\ Parse \in [Text -> Number \cup {NULL}]
  /\ Refused \subseteq Value
  /\ Unreliable \subseteq Ent
  /\ Sizes \subseteq Nat \ {0}
  /\ MaxPos \in Nat

VARIABLES
  int_value,    \* MIXP_PROPERTYLIST_ENT.int_value
  app,          \* what the application keeps behind callbacks or a pointer
  file,         \* the entry each client reads, NULL if none
  pos,          \* the offset it asks for next
  got,          \* the answers it got
  atEnd,        \* it got an empty one
  shown,        \* history: the texts the entry had since the client opened it
  spoilt        \* history: whether an answer had too short a count ("short"), or
                \* a callback stored something else than the value ("failed")

vars == <<int_value, app, file, pos, got, atEnd, shown, spoilt>>

Min(a, b) == IF a < b THEN a ELSE b

(* The answer to a read: "kept" bytes of a text, announced as "count".     *)
Answer == [text : Text \cup {NULL}, kept : Nat, count : Nat]

Nothing == [text |-> NULL, kept |-> 0, count |-> 0]

(* strncpy(buf, t, size-1) into a zeroed buffer, and strlen(buf) *)
Copy(t, size) ==
  [text |-> t, kept |-> Min(Length[t], size - 1), count |-> Min(Length[t], size - 1)]

(* snprintf(buf, size-1, "%ld", n) returns the length of the whole text. *)
Printf(n, size) ==
  [text |-> Decimal[n], kept |-> IF size < 3 THEN 0 ELSE Min(Length[Decimal[n]], size - 2),
   count |-> Length[Decimal[n]]]
-----------------------------------------------------------------------------
(* Reading: e is the entry, o the offset, size the count, v what the       *)
(* callback stored.                                                        *)

(* A getInt() that fails leaves the "long" it was to fill as it was, which *)
(* is uninitialised; a getString() that fails leaves the buffer empty.     *)
Stored(e) ==
  IF e \notin Unreliable THEN {app[e]}
  ELSE IF Type[e] = "STRING" THEN {app[e], NULL} ELSE Number

(* Slips: a string read that goes on where the last one ended, in what may *)
(* be another text by now; an INT_VAL read that ignores the offset.        *)
ReadStringOn(e, o, size, v) ==
  LET t == IF Const[e] # NULL THEN Const[e] ELSE v
  IN  IF t = NULL \/ o >= Length[t] THEN Nothing
      ELSE [text |-> t, kept |-> Length[t] - o, count |-> Length[t] - o]

ReadIntValAgain(e, o, size, v) ==
  IF "getInt" \in Ops[e] THEN Printf(v, size)
  ELSE IF Const[e] # NULL THEN Copy(Const[e], size)
  ELSE Printf(int_value[e], size)

ReadString(e, o, size, v) ==
  IF o # 0 THEN Nothing
  ELSE IF Const[e] # NULL THEN Copy(Const[e], size)
  ELSE IF "getString" \notin Ops[e] \/ v = NULL THEN Nothing
  ELSE Copy(v, size)

ReadInt(e, o, size, v) ==
  IF Const[e] # NULL THEN Copy(Const[e], size)
  ELSE IF o # 0 \/ "getInt" \notin Ops[e] THEN Nothing
  ELSE Printf(v, size)

ReadIntVal(e, o, size, v) ==
  IF o # 0 THEN Nothing
  ELSE IF "getInt" \in Ops[e] THEN Printf(v, size)
  ELSE IF Const[e] # NULL THEN Copy(Const[e], size)
  ELSE Printf(int_value[e], size)

(* The value field of a LONG_PTR is a pointer; Const only says that it is  *)
(* set, and the number it points to is in app.                             *)
ReadLongPtr(e, o, size, v) ==
  IF o # 0 THEN Nothing
  ELSE IF Const[e] # NULL THEN Printf(app[e], size)
  ELSE IF "getInt" \in Ops[e] THEN Printf(v, size)
  ELSE Nothing

Read(e, o, size, v) ==
  CASE Type[e] = "STRING"   -> ReadString(e, o, size, v)
    [] Type[e] = "INT"      -> ReadInt(e, o, size, v)
    [] Type[e] = "INT_VAL"  -> ReadIntVal(e, o, size, v)
    [] Type[e] = "LONG_PTR" -> ReadLongPtr(e, o, size, v)
    [] OTHER                -> Nothing

(* What stat() measures, and a read from the begin with room enough yields. *)
Shown(e) == Read(e, 0, 1023, app[e]).text
-----------------------------------------------------------------------------
(* Writing text t at offset o: what becomes of int_value and app, and the  *)
(* answer: the bytes are taken, or the client gets an error; a write of no *)
(* bytes is answered with success and ignored.                             *)

Ignored       == [int_value |-> int_value, app |-> app, ret |-> "ignored"]
Error(iv, ap) == [int_value |-> iv, app |-> ap, ret |-> "error"]
Taken(iv, ap) == [int_value |-> iv, app |-> ap, ret |-> "ok"]

(* Slips: setInt() is not called, or int_value is set before errno is      *)
(* looked at.                                                              *)
WriteIntNoCallback(e, t) ==
  LET n == Parse[t]
  IN  IF n = NULL THEN Error(int_value, app)
      ELSE Taken([int_value EXCEPT ![e] = n], app)

WriteIntEarly(e, t) ==
  LET n == IF Parse[t] = NULL THEN CHOOSE m \in Number : m # int_value[e] ELSE Parse[t]
      stored == [int_value EXCEPT ![e] = n]
  IN  IF Parse[t] = NULL THEN Error(stored, app) ELSE Taken(stored, app)

WriteInt(e, t) ==
  LET n      == Parse[t]
      stored == [int_value EXCEPT ![e] = n]
  IN  IF n = NULL THEN Error(int_value, app)
      ELSE IF "setInt" \notin Ops[e] THEN Taken(stored, app)
      ELSE IF n \in Refused THEN Error(stored, app)
      ELSE Taken(stored, [app EXCEPT ![e] = n])

WriteString(e, t) ==
  IF "setString" \notin Ops[e] \/ t \in Refused THEN Error(int_value, app)
  ELSE Taken(int_value, [app EXCEPT ![e] = t])

WriteEntry(e, o, t) ==
  IF Length[t] = 0 THEN Ignored
  ELSE IF o # 0 THEN Error(int_value, app)
  ELSE CASE Type[e] \in {"INT", "INT_VAL"} -> WriteInt(e, t)
         [] Type[e] = "STRING"             -> WriteString(e, t)
         [] OTHER                          -> Error(int_value, app)

(* What an application keeps for an entry of this type. *)
Kept(e) == IF Type[e] = "STRING" THEN Text ELSE Number
-----------------------------------------------------------------------------
Init ==
  /\ int_value = [e \in Ent |-> CHOOSE n \in Number : TRUE]
  /\ app = [e \in Ent |-> CHOOSE v \in Kept(e) : TRUE]
  /\ file = [c \in Client |-> NULL]
  /\ pos = [c \in Client |-> 0]
  /\ got = [c \in Client |-> <<>>]
  /\ atEnd = [c \in Client |-> FALSE]
  /\ shown = [c \in Client |-> {}]
  /\ spoilt = [c \in Client |-> {}]

(* What the entries show after a step, for the clients that read them. *)
Record ==
  shown' = [c \in Client |-> IF file'[c] = NULL THEN {}
                             ELSE shown[c] \cup {Shown(file[c])'}]

Open(c, e) ==
  /\ file[c] = NULL
  /\ file' = [file EXCEPT ![c] = e]
  /\ UNCHANGED <<int_value, app, pos, got, atEnd, spoilt>>
  /\ Record

Clunk(c) ==
  /\ file[c] # NULL
  /\ file' = [file EXCEPT ![c] = NULL]
  /\ pos' = [pos EXCEPT ![c] = 0]
  /\ got' = [got EXCEPT ![c] = <<>>]
  /\ atEnd' = [atEnd EXCEPT ![c] = FALSE]
  /\ spoilt' = [spoilt EXCEPT ![c] = {}]
  /\ UNCHANGED <<int_value, app>>
  /\ Record

(* What is wrong with the answer a to a read of size bytes of e: the text  *)
(* and the two bytes handlers hold back do not fit, or v is not the value. *)
Flaws(e, size, v, a) ==
  (IF a.text # NULL /\ size < Length[a.text] + 2 THEN {"short"} ELSE {})
    \cup (IF v # app[e] THEN {"failed"} ELSE {})

(* The next read of a client that reads an entry to its end. *)
ReadNext(c, size) ==
  /\ file[c] # NULL
  /\ ~atEnd[c]
  /\ pos[c] <= MaxPos
  /\ \E v \in Stored(file[c]) :
       LET a == Read(file[c], pos[c], size, v)
       IN  /\ atEnd' = [atEnd EXCEPT ![c] = a.count = 0]
           /\ pos' = [pos EXCEPT ![c] = @ + a.count]
           /\ got' = [got EXCEPT ![c] = IF a.count = 0 THEN @ ELSE Append(@, a)]
           /\ spoilt' = [spoilt EXCEPT ![c] = @ \cup Flaws(file[c], size, v, a)]
  /\ UNCHANGED <<int_value, app, file, shown>>

(* A write to e. *)
Write(e, o, t) ==
  LET w == WriteEntry(e, o, t)
  IN  /\ int_value' = w.int_value
      /\ app' = w.app
      /\ UNCHANGED <<file, pos, got, atEnd, spoilt>>
      /\ Record

(* The application changes what it keeps, between two requests. *)
Change(e, v) ==
  /\ Ops[e] # {} \/ Type[e] = "LONG_PTR"
  /\ app' = [app EXCEPT ![e] = v]
  /\ UNCHANGED <<int_value, file, pos, got, atEnd, spoilt>>
  /\ Record

Next ==
  \/ \E c \in Client, e \in Ent : Open(c, e)
  \/ \E c \in Client, size \in Sizes : ReadNext(c, size)
  \/ \E c \in Client : Clunk(c)
  \/ \E e \in Ent, t \in Text, o \in {0, 1} : Write(e, o, t)
  \/ \E e \in Ent : \E v \in Kept(e) : Change(e, v)

Spec == Init /\ [][Next]_vars

(* Clients that read go on reading. *)
FairSpec ==
  Spec /\ \A c \in Client : WF_vars(\E size \in Sizes : ReadNext(c, size))
-----------------------------------------------------------------------------
(* Properties *)

TypeOK ==
  /\ int_value \in [Ent -> Number]
  /\ app \in [Ent -> Value] /\ \A e \in Ent : app[e] \in Kept(e)
  /\ file \in [Client -> Ent \cup {NULL}]
  /\ pos \in [Client -> Nat]
  /\ got \in [Client -> Seq(Answer)]
  /\ atEnd \in [Client -> BOOLEAN]
  /\ shown \in [Client -> SUBSET (Text \cup {NULL})]
  /\ spoilt \in [Client -> SUBSET {"short", "failed"}]

(* The whole of a text; and the entry whose reading never ends: a constant *)
(* INT, which answers every offset with its text.                          *)
Whole(a) == a.text # NULL /\ a.kept = Length[a.text] /\ a.count = a.kept

Again(e) == Type[e] = "INT" /\ Const[e] # NULL /\ Length[Const[e]] > 0

(* A client that reads an entry to its end gets what it gets of one text   *)
(* that the entry had at some time since the client opened it: never the   *)
(* begin of one value and the end of another, whoever writes in between    *)
(* and whatever the counts.  It gets the whole of it unless it asked for   *)
(* too little, and the one entry that is exempted is the constant INT.     *)
(* Only a callback that failed while this client read excuses another      *)
(* value, as its result is not looked at.                                  *)
WholeValue ==
  \A c \in Client :
    atEnd[c] /\ ~Again(file[c]) /\ "failed" \notin spoilt[c] =>
      IF got[c] = <<>>
      THEN "short" \in spoilt[c] \/ \E t \in shown[c] : t = NULL \/ Length[t] = 0
      ELSE /\ Len(got[c]) = 1
           /\ got[c][1].text \in shown[c]
           /\ "short" \notin spoilt[c] => Whole(got[c][1])

(* A client that has read nothing yet. *)
Unread(c) == pos[c] = 0 /\ got[c] = <<>>

(* A reader's history has what its entry shows now, and what it has read   *)
(* so far is nothing or comes from one value.                              *)
ReaderOK(c) ==
  /\ file[c] = NULL => Unread(c) /\ ~atEnd[c]
  /\ file[c] # NULL => Shown(file[c]) \in shown[c]
  /\ file[c] # NULL /\ ~Again(file[c]) /\ "failed" \notin spoilt[c] =>
       \/ /\ Unread(c)
          /\ atEnd[c] => "short" \in spoilt[c] \/ \E t \in shown[c] : t = NULL \/ Length[t] = 0
       \/ /\ pos[c] > 0 /\ Len(got[c]) = 1
          /\ got[c][1].text \in shown[c]
          /\ "short" \notin spoilt[c] => Whole(got[c][1])

ReadersOK == \A c \in Client : ReaderOK(c)

IInv == TypeOK /\ ReadersOK

(* Where a read of e looks, and where a write to it is kept.  The two are  *)
(* decided apart, and each depends on other callbacks of the list.         *)
ReadFrom(e) ==
  IF Type[e] = "INT_VAL"
  THEN IF "getInt" \in Ops[e] THEN "app" ELSE IF Const[e] # NULL THEN "const" ELSE "int_value"
  ELSE IF Const[e] # NULL /\ Type[e] \in {"STRING", "INT"} THEN "const"
  ELSE IF \/ Type[e] = "STRING" /\ "getString" \in Ops[e]
          \/ Type[e] \in {"INT", "LONG_PTR"} /\ "getInt" \in Ops[e]
          \/ Type[e] = "LONG_PTR" /\ Const[e] # NULL
       THEN "app" ELSE "none"

WrittenTo(e) ==
  (IF Type[e] \in {"INT", "INT_VAL"} THEN {"int_value"} ELSE {})
    \cup (IF \/ Type[e] = "STRING" /\ "setString" \in Ops[e]
             \/ Type[e] \in {"INT", "INT_VAL"} /\ "setInt" \in Ops[e]
          THEN {"app"} ELSE {})

(* What an accepted text is read back as, in the form "%ld" prints. *)
Accepted(e, t) == IF Type[e] = "STRING" THEN t ELSE Decimal[Parse[t]]

(* A write that is answered with success is what the next read shows, if   *)
(* reads look at a place that writes go to; otherwise, where a constant or *)
(* a callback for the other direction is in the way, it is accepted and    *)
(* shows nowhere.  No other entry changes.                                 *)
AcceptedWriteShows ==
  [][\A e \in Ent, t \in Text :
       Write(e, 0, t) /\ WriteEntry(e, 0, t).ret = "ok" =>
         /\ Shown(e)' = IF ReadFrom(e) \in WrittenTo(e) THEN Accepted(e, t) ELSE Shown(e)
         /\ \A d \in Ent \ {e} : Shown(d)' = Shown(d)]_vars

(* A write that is answered with an error shows nowhere, but for one case: *)
(* a number that setInt() refused is read back all the same from an entry  *)
(* that is read from int_value, a list with setInt() and without getInt(). *)
RefusedWriteTraced ==
  [][\A e \in Ent, t \in Text, o \in {0, 1} :
       Write(e, o, t) /\ WriteEntry(e, o, t).ret = "error" =>
         /\ Shown(e)' = IF o = 0 /\ ReadFrom(e) = "int_value" /\ Parse[t] # NULL
                        THEN Decimal[Parse[t]] ELSE Shown(e)
         /\ \A d \in Ent \ {e} : Shown(d)' = Shown(d)]_vars

(* A client that goes on reading an entry comes to its end. *)
ReadEnds == \A c \in Client : file[c] # NULL ~> (atEnd[c] \/ file[c] = NULL)

(* P9_PL_INT_VAL is "just like INT, but the integer value is stored as     *)
(* long": with the same constant both answer the same reads the same.      *)
JustLikeInt ==
  \A c, d \in Client :
    /\ file[c] # NULL /\ file[d] # NULL
    /\ Type[file[c]] = "INT" /\ Type[file[d]] = "INT_VAL"
    /\ Const[file[c]] # NULL /\ Const[file[c]] = Const[file[d]]
    /\ Ops[file[c]] = Ops[file[d]]
    /\ pos[c] = pos[d]
    => \A size \in Sizes :
         Read(file[c], pos[c], size, app[file[c]])
           = Read(file[d], pos[d], size, app[file[d]])
==============================================================================
