------------------------------ MODULE PlainFiles ------------------------------
(***************************************************************************)
(* Requests on plain files: clients open a file, read it in pieces from    *)
(* its begin, write pieces of it, append to it, remove it, while others do *)
(* the same and the host adds to files of its own.  A file is served in    *)
(* one of four ways:                                                       *)
(*   "string"  rostring_ops.c, a copy of a string and its length           *)
(*   "host"    hostfile_ops.c, a descriptor in the file's handle           *)
(*   "buffer"  a buffer of an application that keeps its own ops and puts  *)
(*             the helpers of ixp_util.c into p9srv_ops.read and .write    *)
(*   "none"    default_ops.c                                               *)
(* The fids on a file share its handle.  Each request is one step: the     *)
(* server is one thread and a handler runs to its end.                     *)
(***************************************************************************)
EXTENDS Integers, Sequences

CONSTANTS
  Client,       \* fids, over all connections
  File,         \* plain files
  Kind,         \* how each is served
  Start,        \* the text of each at first
  Limit,        \* "max" of each buffer; 0 lets it grow by realloc()
  Writable,     \* files whose permissions have 0200
  Unlinkable,   \* files of a class with an unlink()
  Byte,
  NUL,          \* the byte that ends a C string
  Piece,        \* what is written with one request
  Offset,       \* offsets of the write requests
  Count,        \* counts of the read requests
  MaxCount,     \* largest count the server serves (32768 in the code)
  Mode,         \* modes of the open requests
  UintSize,     \* 2^32, the values of an unsigned int
  MaxLen,       \* model bound: bytes of a text
  NULL

HostFile == {f \in File : Kind[f] = "host"}
Buffer   == {f \in File : Kind[f] = "buffer"}

AnyMode == [acc : {"read", "write", "rdwr", "exec"}, append : BOOLEAN, other : BOOLEAN]

ASSUME PlainFilesAssumption ==
  /\ NULL \notin File
  /\ Kind \in [File -> {"string", "host", "buffer", "none"}]
  /\ DOMAIN Start = File
  /\ \A f \in File : Start[f] \in Seq(Byte) /\ (Kind[f] = "none" => Start[f] = <<>>)
  /\ Limit \in [File -> Nat]
  /\ \A f \in Buffer : Limit[f] # 0 => Len(Start[f]) <= Limit[f]
  /\ Writable \subseteq File
  /\ Unlinkable \subseteq Buffer
  /\ NUL \notin Byte
  /\ Piece \subseteq Seq(Byte)
  /\ Offset \subseteq Nat
  /\ Count \subseteq Nat
  /\ MaxCount \in Nat \ {0}
  /\ Mode \subseteq AnyMode
  /\ UintSize \in Nat \ {0}
  /\ MaxLen \in Nat

VARIABLES
  mem,      \* the bytes in the memory, or on the host, behind each file
  len,      \* strlen() of a string, *len of a buffer, the size of a host file
  live,     \* priv.fd of the file's handle is a descriptor
  kept,     \* the application has the file
  file,     \* the file a client has open, NULL if none
  append,   \* MIXP_FID.omode & P9_OAPPEND
  writes,   \* MIXP_FID.omode allows to write
  pos,      \* the offset the client reads at next
  got,      \* the bytes it has received
  atEnd,    \* it has got an empty answer
  stable,   \* history: nobody wrote into the text since it opened the file
  reply     \* what the last step was answered with: see Denied below

store  == <<mem, len, live, kept>>
fids   == <<file, append, writes>>
reader == <<pos, got, atEnd>>
vars   == <<store, fids, reader, stable, reply>>

(* MIXPSRV_ERR_NOPERM.  The answer to a write is a count, any other 0 here. *)
Denied == -1

Text(f) == SubSeq(mem[f], 1, len[f])

Least(a, b) == IF a < b THEN a ELSE b

(* A conversion to unsigned int *)
Uint(n) == n % UintSize
-----------------------------------------------------------------------------
(* Reading: the bytes a read of n bytes at offset o may yield *)

(* A slip: no lower bound. *)
ClampHigh(n) == IF n > MaxCount THEN MaxCount ELSE n

(* p9srv_ops_read() puts the count into bounds. *)
Clamp(n) == IF n < 1 THEN 1 ELSE IF n > MaxCount THEN MaxCount ELSE n

(* Slips: the bytes are taken from the begin; the NUL is counted. *)
ReadStringAgain(f, o, n) ==
  IF o >= len[f] THEN <<>>
  ELSE LET size == IF o + n > len[f] THEN len[f] - o ELSE n
       IN  SubSeq(mem[f], 1, size)

ReadStringNul(f, o, n) ==
  LET size == IF o + n > len[f] + 1 THEN len[f] + 1 - o ELSE n
  IN  IF o > len[f] THEN <<>> ELSE SubSeq(mem[f], o + 1, o + size)

(* mixpsrv_rostring_ops_read() *)
ReadString(f, o, n) ==
  IF o >= len[f] THEN <<>>
  ELSE LET size == IF o + n > len[f] THEN len[f] - o ELSE n
       IN  SubSeq(mem[f], o + 1, o + size)

(* mixp_write_buf(), which answers a read *)
ReadBuffer(f, o, n) ==
  IF o >= len[f] THEN <<>>
  ELSE SubSeq(mem[f], o + 1, o + Least(len[f] - o, n))

(* mixpsrv_hostfile_ops_read(): the host may yield less than was asked for; *)
(* the error of a read without descriptor becomes an empty answer.          *)
ReadHost(f, o, n) ==
  IF ~live[f] \/ o >= len[f] THEN {<<>>}
  ELSE {SubSeq(mem[f], o + 1, o + k) : k \in 1..Least(len[f] - o, n)}

ReadDefault == <<>>

Answers(f, o, n) ==
  CASE Kind[f] = "string" -> {ReadString(f, o, Clamp(n))}
    [] Kind[f] = "host"   -> ReadHost(f, o, Clamp(n))
    [] Kind[f] = "buffer" -> {ReadBuffer(f, o, n)}
    [] Kind[f] = "none"   -> {ReadDefault}

(* A slip: the NUL is counted. *)
SizeofString(f) == Len(mem[f])

SizeString(f) == len[f]
SizeHost      == 0
SizeDefault   == 0

(* The length that a stat request is answered with *)
Announced(f) ==
  CASE Kind[f] = "string" -> SizeString(f)
    [] Kind[f] = "host"   -> SizeHost
    [] OTHER              -> SizeDefault
-----------------------------------------------------------------------------
(* Writing the bytes d at offset o of a buffer *)

(* Slips: OAPPEND is not looked at; the room is counted from the begin; the *)
(* text keeps what follows the written bytes; the NUL is left out.          *)
WriteAtOffset(c, o) == Uint(o)
TakenFromStart(f, o, d) ==
  IF Limit[f] # 0 /\ Len(d) > Limit[f] THEN Limit[f] ELSE Len(d)

WriteAt(c, o) == IF append[c] THEN len[file[c]] ELSE Uint(o)

Taken(f, o, d) ==
  IF Limit[f] # 0 /\ Len(d) > Limit[f] - o THEN Limit[f] - o ELSE Len(d)

KeepsTail(f, o, k) == IF o + k > len[f] THEN o + k ELSE len[f]

NewLen(f, o, k) == o + k

StoredNoNul(f, o, k, d) ==
  [i \in 1..(IF Limit[f] = 0 THEN o + k + 1 ELSE Len(mem[f])) |->
     IF o < i /\ i <= o + k THEN d[i - o]
     ELSE IF i <= Len(mem[f]) THEN mem[f][i] ELSE NUL]

(* memcpy() of k bytes and a NUL, after a realloc() if there is no limit *)
Stored(f, o, k, d) ==
  [i \in 1..(IF Limit[f] = 0 THEN o + k + 1 ELSE Len(mem[f])) |->
     IF o < i /\ i <= o + k THEN d[i - o]
     ELSE IF i = o + k + 1 THEN NUL ELSE mem[f][i]]
-----------------------------------------------------------------------------
Init ==
  /\ mem = [f \in File |->
              CASE Kind[f] = "host"                    -> Start[f]
                [] Kind[f] = "buffer" /\ Limit[f] # 0  ->
                     [i \in 1..(Limit[f] + 1) |->
                        IF i <= Len(Start[f]) THEN Start[f][i] ELSE NUL]
                [] OTHER                               -> Append(Start[f], NUL)]
  /\ len = [f \in File |-> Len(Start[f])]
  /\ live = [f \in File |-> FALSE]
  /\ kept = [f \in File |-> TRUE]
  /\ file = [c \in Client |-> NULL]
  /\ append = [c \in Client |-> FALSE]
  /\ writes = [c \in Client |-> FALSE]
  /\ pos = [c \in Client |-> 0]
  /\ got = [c \in Client |-> <<>>]
  /\ atEnd = [c \in Client |-> FALSE]
  /\ stable = [c \in Client |-> TRUE]
  /\ reply = 0

(* mixpsrv_default_ops_open() *)
DefaultAllows(f, m) ==
  /\ m.acc # "exec"
  /\ m.acc = "read" \/ f \in Writable
  /\ ~m.other

(* The fid is open.  What libmixp keeps of the mode decides later which     *)
(* requests it hands over.                                                  *)
Opened(c, f, m) ==
  /\ file' = [file EXCEPT ![c] = f]
  /\ append' = [append EXCEPT ![c] = m.append]
  /\ writes' = [writes EXCEPT ![c] = m.acc \in {"write", "rdwr"}]
  /\ stable' = [stable EXCEPT ![c] = TRUE]
  /\ reply' = 0
  /\ UNCHANGED <<mem, len, kept, reader>>

Refused ==
  /\ reply' = Denied
  /\ UNCHANGED <<mem, len, kept, fids, reader, stable>>

(* A walk to f and p9srv_ops_open(), of a class that needs nothing to open. *)
Open(c, f, m) ==
  /\ file[c] = NULL
  /\ kept[f]
  /\ Kind[f] # "host"
  /\ IF Kind[f] = "string" \/ DefaultAllows(f, m) THEN Opened(c, f, m) ELSE Refused
  /\ UNCHANGED live

(* mixpsrv_hostfile_ops_open(), when the host grants it and when it does not. *)
OpenHost(c, f, m) ==
  /\ file[c] = NULL
  /\ Kind[f] = "host"
  /\ live' = [live EXCEPT ![f] = TRUE]
  /\ Opened(c, f, m)

OpenHostFails(c, f) ==
  /\ file[c] = NULL
  /\ Kind[f] = "host"
  /\ live' = [live EXCEPT ![f] = FALSE]
  /\ Refused

Forget(c) ==
  /\ file' = [file EXCEPT ![c] = NULL]
  /\ append' = [append EXCEPT ![c] = FALSE]
  /\ writes' = [writes EXCEPT ![c] = FALSE]
  /\ pos' = [pos EXCEPT ![c] = 0]
  /\ got' = [got EXCEPT ![c] = <<>>]
  /\ atEnd' = [atEnd EXCEPT ![c] = FALSE]
  /\ stable' = [stable EXCEPT ![c] = TRUE]
  /\ UNCHANGED <<mem, len, live>>

Clunk(c) ==
  /\ file[c] # NULL
  /\ reply' = 0
  /\ Forget(c)
  /\ UNCHANGED kept

(* The next read of a client that reads its file to the end.  Not asking for *)
(* anything makes sense only where the server asks for one byte instead.     *)
Read(c, n) ==
  /\ file[c] # NULL
  /\ ~atEnd[c]
  /\ n > 0 \/ file[c] \notin Buffer
  /\ \E a \in Answers(file[c], pos[c], n) :
       /\ got' = [got EXCEPT ![c] = @ \o a]
       /\ pos' = [pos EXCEPT ![c] = @ + Len(a)]
       /\ atEnd' = [atEnd EXCEPT ![c] = a = <<>>]
  /\ reply' = 0
  /\ UNCHANGED <<store, fids, stable>>

(* p9srv_ops_write() of a class without write(): the fid is open for it, as  *)
(* its open() granted it, and the default is to refuse.                      *)
WriteRefused(c) ==
  /\ file[c] # NULL
  /\ writes[c]
  /\ file[c] \notin Buffer
  /\ Refused
  /\ UNCHANGED live

(* mixp_write_to_buf(): nothing is written beyond the end, nor at no length. *)
WriteNothing(c, o, d) ==
  /\ file[c] \in Buffer
  /\ writes[c]
  /\ WriteAt(c, o) > len[file[c]] \/ d = <<>>
  /\ reply' = 0
  /\ UNCHANGED <<store, fids, reader, stable>>

WriteBuffer(c, o, d) ==
  /\ file[c] \in Buffer
  /\ writes[c]
  /\ WriteAt(c, o) <= len[file[c]] /\ d # <<>>
  /\ LET f  == file[c]
         at == WriteAt(c, o)
         k  == Taken(f, at, d)
     IN  /\ at + k <= MaxLen
         /\ mem' = [mem EXCEPT ![f] = Stored(f, at, k, d)]
         /\ len' = [len EXCEPT ![f] = NewLen(f, at, k)]
         /\ reply' = k
         /\ stable' = [b \in Client |->
                         stable[b] /\ (file[b] = f => append[c] \/ at = len[f])]
  /\ UNCHANGED <<live, kept, fids, reader>>

(* p9srv_ops_remove(): a class may have an unlink().  Its success is taken   *)
(* for an error.  The fid is gone in any case.                               *)
Remove(c) ==
  /\ file[c] # NULL
  /\ \E ret \in (IF file[c] \in Unlinkable THEN {0, -1} ELSE {-1}) :
       kept' = [kept EXCEPT ![file[c]] = @ /\ ret # 0]
  /\ reply' = Denied
  /\ Forget(c)

(* p9srv_ops_create() refuses; p9srv_ops_flush() finds nothing to flush, as  *)
(* all requests before it are answered.                                     *)
Create == Refused /\ UNCHANGED live

Flush ==
  /\ reply' = 0
  /\ UNCHANGED <<store, fids, reader, stable>>

(* Somebody on the host adds to a file. *)
Grow(f, d) ==
  /\ Kind[f] = "host"
  /\ len[f] + Len(d) <= MaxLen
  /\ mem' = [mem EXCEPT ![f] = @ \o d]
  /\ len' = [len EXCEPT ![f] = @ + Len(d)]
  /\ reply' = 0
  /\ UNCHANGED <<live, kept, fids, reader, stable>>

Next ==
  \/ \E c \in Client, f \in File, m \in Mode : Open(c, f, m) \/ OpenHost(c, f, m)
  \/ \E c \in Client, f \in File : OpenHostFails(c, f)
  \/ \E c \in Client, n \in Count : Read(c, n)
  \/ \E c \in Client : WriteRefused(c) \/ Remove(c) \/ Clunk(c)
  \/ \E c \in Client, o \in Offset, d \in Piece :
       WriteNothing(c, o, d) \/ WriteBuffer(c, o, d)
  \/ \E f \in File, d \in Piece : Grow(f, d)
  \/ Create \/ Flush

Spec == Init /\ [][Next]_vars
-----------------------------------------------------------------------------
(* Properties *)

TypeOK ==
  /\ mem \in [File -> Seq(Byte \cup {NUL})]
  /\ len \in [File -> Nat]
  /\ \A f \in File : len[f] <= Len(mem[f]) /\ Text(f) \in Seq(Byte)
  /\ live \in [File -> BOOLEAN]
  /\ kept \in [File -> BOOLEAN]
  /\ file \in [Client -> File \cup {NULL}]
  /\ append \in [Client -> BOOLEAN]
  /\ writes \in [Client -> BOOLEAN]
  /\ pos \in [Client -> Nat]
  /\ got \in [Client -> Seq(Byte)]
  /\ atEnd \in [Client -> BOOLEAN]
  /\ stable \in [Client -> BOOLEAN]
  /\ reply \in Nat \cup {Denied}

(* A string and a buffer always end with a NUL, at their length and inside  *)
(* their memory, whatever writes of several clients went before.            *)
Terminated ==
  \A f \in File :
    Kind[f] \in {"string", "buffer"} => len[f] < Len(mem[f]) /\ mem[f][len[f] + 1] = NUL

(* What a client has read in several requests is the begin of the text as   *)
(* it is now, however the file grew in between, unless someone wrote into   *)
(* the middle of it.                                                        *)
PrefixRead ==
  \A c \in Client : file[c] # NULL /\ stable[c] => got[c] = SubSeq(Text(file[c]), 1, pos[c])

(* An empty answer means that the client has the whole text, or that a      *)
(* failed open of another fid took the descriptor of their handle away.     *)
NoEarlyEnd ==
  [][\A c \in Client :
       atEnd'[c] /\ ~atEnd[c] =>
         \/ pos[c] >= len[file[c]]
         \/ file[c] \in HostFile /\ ~live[file[c]]]_vars

(* While all who write a file append to it, what was written stays: no      *)
(* append lands on bytes of another.                                        *)
AppendOnlyGrows ==
  [][\A f \in File :
       (\A c \in Client : file[c] = f /\ writes[c] => append[c])
         => len[f] <= len'[f] /\ SubSeq(Text(f)', 1, len[f]) = Text(f)]_vars

(* A string that is read to its end has the length stat() announces. *)
AnnouncedIsRead ==
  \A c \in Client :
    file[c] # NULL /\ atEnd[c] /\ Kind[file[c]] = "string" => Announced(file[c]) = pos[c]

(* The inductive invariant behind the properties above.  A host file has no *)
(* NUL, a buffer with a limit keeps its memory, a file without ops has no   *)
(* text.  Only the text of a buffer can change under a reader, and others   *)
(* never read past the end.                                                 *)
StoreOK ==
  \A f \in File :
    /\ Kind[f] = "host" => len[f] = Len(mem[f])
    /\ f \in Buffer /\ Limit[f] # 0 => Len(mem[f]) = Limit[f] + 1
    /\ Kind[f] = "none" => len[f] = 0

ReadersOK ==
  \A c \in Client :
    /\ stable[c] \/ file[c] \in Buffer
    /\ file[c] = NULL => got[c] = <<>> /\ pos[c] = 0 /\ ~atEnd[c]
    /\ file[c] # NULL /\ stable[c] => pos[c] <= len[file[c]]

IInv ==
  /\ TypeOK
  /\ Terminated
  /\ StoreOK
  /\ ReadersOK
  /\ PrefixRead
  /\ AnnouncedIsRead

(* A request that is answered with "permission denied" has changed no file. *)
DeniedChangesNothing == [][reply' = Denied => UNCHANGED <<mem, len, kept>>]_vars

(* Every file is a text. *)
TF == INSTANCE TextFile WITH text <- [f \in File |-> Text(f)]
Implements == TF!Spec
===============================================================================
