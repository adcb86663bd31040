------------------------------- MODULE TextFile -------------------------------
(***************************************************************************)
(* What a plain file promises to its clients, whatever serves it: the file *)
(* is a text.  A client that reads it from the begin gets the bytes that   *)
(* follow the ones it has, and an empty answer only where the text ends.   *)
(* What a client writes comes to stand at its offset, or at the end if it  *)
(* appends, and ends the text; the answer tells how much of it was taken.  *)
(***************************************************************************)
EXTENDS Integers, Sequences

CONSTANTS
  Client,       \* fids, over all connections
  File,         \* plain files
  HostFile,     \* files that are read from the host, which may fail
  Byte,
  Piece,        \* what is written with one request
  Offset,       \* offsets of the write requests
  Limit,        \* of each file, the most bytes it takes; 0 if there is none
  NULL

VARIABLES
  text,     \* the text of each file
  file,     \* the file a client has open, NULL if none
  append,   \* the client appends
  pos,      \* the offset up to which it has read
  got,      \* the bytes it has received
  atEnd,    \* it has got an empty answer
  reply     \* what the last step was answered with: see Denied below

vars == <<text, file, append, pos, got, atEnd, reply>>

(* An error.  The answer to a write is a count, any other 0 here. *)
Denied == -1

Least(a, b) == IF a < b THEN a ELSE b

Init ==
  /\ DOMAIN text = File
  /\ \A f \in File : text[f] \in Seq(Byte)
  /\ file = [c \in Client |-> NULL]
  /\ append = [c \in Client |-> FALSE]
  /\ pos = [c \in Client |-> 0]
  /\ got = [c \in Client |-> <<>>]
  /\ atEnd = [c \in Client |-> FALSE]
  /\ reply = 0

Open(c, f, a) ==
  /\ file[c] = NULL
  /\ file' = [file EXCEPT ![c] = f]
  /\ append' = [append EXCEPT ![c] = a]
  /\ reply' = 0
  /\ UNCHANGED <<text, pos, got, atEnd>>

Close(c) ==
  /\ file[c] # NULL
  /\ file' = [file EXCEPT ![c] = NULL]
  /\ append' = [append EXCEPT ![c] = FALSE]
  /\ pos' = [pos EXCEPT ![c] = 0]
  /\ got' = [got EXCEPT ![c] = <<>>]
  /\ atEnd' = [atEnd EXCEPT ![c] = FALSE]
  /\ reply' \in {0, Denied}
  /\ UNCHANGED text

(* A request that does not touch the file *)
Pass ==
  /\ reply' \in {0, Denied}
  /\ UNCHANGED <<text, file, append, pos, got, atEnd>>

(* k bytes that follow those the client has *)
Read(c, k) ==
  /\ file[c] # NULL
  /\ LET t == text[file[c]]
     IN  /\ IF k = 0 THEN pos[c] >= Len(t) ELSE pos[c] + k <= Len(t)
         /\ got' = [got EXCEPT ![c] = @ \o SubSeq(t, pos[c] + 1, pos[c] + k)]
  /\ pos' = [pos EXCEPT ![c] = @ + k]
  /\ atEnd' = [atEnd EXCEPT ![c] = (k = 0)]
  /\ reply' = 0
  /\ UNCHANGED <<text, file, append>>

(* The host cannot read the file any more. *)
Fail(c) ==
  /\ file[c] \in HostFile
  /\ atEnd' = [atEnd EXCEPT ![c] = TRUE]
  /\ reply' = 0
  /\ UNCHANGED <<text, file, append, pos, got>>

(* The bytes of d for which there is room *)
Write(c, o, d) ==
  /\ file[c] # NULL
  /\ LET f  == file[c]
         at == IF append[c] THEN Len(text[f]) ELSE o
         k  == IF Limit[f] = 0 THEN Len(d) ELSE Least(Len(d), Limit[f] - at)
     IN  IF at > Len(text[f]) \/ d = <<>>
         THEN reply' = 0 /\ UNCHANGED text
         ELSE /\ text' = [text EXCEPT ![f] = SubSeq(@, 1, at) \o SubSeq(d, 1, k)]
              /\ reply' = k
  /\ UNCHANGED <<file, append, pos, got, atEnd>>

(* Somebody on the host adds to a file. *)
Grow(f, d) ==
  /\ f \in HostFile
  /\ text' = [text EXCEPT ![f] = @ \o d]
  /\ reply' = 0
  /\ UNCHANGED <<file, append, pos, got, atEnd>>

Next ==
  \/ \E c \in Client, f \in File, a \in BOOLEAN : Open(c, f, a)
  \/ \E c \in Client : Close(c) \/ Fail(c)
  \/ Pass
  \/ \E c \in Client : \E k \in 0..Len(got'[c]) : Read(c, k)
  \/ \E c \in Client, o \in Offset, d \in Piece : Write(c, o, d)
  \/ \E f \in File, d \in Piece : Grow(f, d)

Spec == Init /\ [][Next]_vars
===============================================================================
