------------------------------- MODULE DirRead -------------------------------
(***************************************************************************)
(* A client reads a directory: p9srv_ops_read_dir() answers each Tread by  *)
(* walking the list of entries from its first, skipping the bytes before   *)
(* the requested offset and packing whole entries while they fit.  The     *)
(* server keeps nothing between two requests.  The client asks for the     *)
(* next bytes until an answer is empty, with a count of its choice each    *)
(* time, and may start over.  Between requests the application may append  *)
(* entries to the directory.                                               *)
(*                                                                         *)
(* An entry is what matters here: the bytes of its packed stat, none for   *)
(* an entry the server leaves out (".", "..", or a handle without name).   *)
(***************************************************************************)
EXTENDS Integers, Sequences, Functions

CONSTANTS
  Sizes,        \* sizes of packed entries; 0 for an entry that is left out
  Start,        \* the directory at first: see start below
  MaxEntries,   \* model bound: entries the directory may have
  Counts,       \* counts in the client's requests
  MaxCount      \* largest count the server serves (32768 in the code)

ASSUME DirReadAssumption ==
  /\ Sizes \subseteq Nat
  /\ MaxEntries \in Nat
  /\ Counts \subseteq Nat
  /\ MaxCount \in Nat \ {0}
  /\ Start \in Seq(Nat) /\ Start # <<>> /\ Start[1] = 0
  /\ \A k \in 1..Len(Start), l \in 1..Len(Start) : k <= l => Start[k] <= Start[l]

VARIABLES
  start,    \* start[i]: bytes before entry i; the last one is the total
  pc,       \* "idle", or "pack" while the server walks the list
  req,      \* Tread.offset and Tread.count
  i,        \* the entry the server looks at
  offset,   \* bytes of the entries it skipped
  written,  \* bytes of the entries it packed
  packed,   \* those entries
  pos,      \* the offset the client asks for next
  got       \* the entries the client received

client == <<pos, got>>
server == <<pc, req, i, offset, written, packed>>
vars   == <<start, server, client>>

Entries == 1..(Len(start) - 1)
Size(k) == start[k + 1] - start[k]
Packable == {k \in Entries : Size(k) # 0}

Request == [offset : Nat, count : 1..MaxCount]

(* A slip: no upper bound. *)
ClampLow(n) == IF n < 1 THEN 1 ELSE n

(* p9srv_ops_read() puts the count into bounds. *)
Clamp(n) == IF n < 1 THEN 1 ELSE IF n > MaxCount THEN MaxCount ELSE n
-----------------------------------------------------------------------------
Init ==
  /\ start = Start
  /\ pc = "idle"
  /\ req = [offset |-> 0, count |-> 1]
  /\ i = 1
  /\ offset = 0
  /\ written = 0
  /\ packed = <<>>
  /\ pos = 0
  /\ got = <<>>

(* The application appends an entry of n bytes to the directory. *)
Grow(n) ==
  /\ pc = "idle"
  /\ Len(start) <= MaxEntries
  /\ start' = Append(start, start[Len(start)] + n)
  /\ UNCHANGED <<server, client>>

(* The client asks for the bytes after those it has. *)
Tread(n) ==
  /\ pc = "idle"
  /\ pc' = "pack"
  /\ req' = [offset |-> pos, count |-> Clamp(n)]
  /\ i' = 1
  /\ offset' = 0
  /\ written' = 0
  /\ packed' = <<>>
  /\ UNCHANGED <<start, client>>

(* The client reads the directory from its begin again. *)
Rewind ==
  /\ pc = "idle"
  /\ pos' = 0
  /\ got' = <<>>
  /\ UNCHANGED <<start, server>>

(* Slips in the loop: an entry that ends the buffer is refused, the entry  *)
(* is not counted, the entry at the offset is skipped, and "offset += n"   *)
(* done for every entry.                                                   *)
FitsShort == written + Size(i) < req.count
FitsLate  == written <= req.count

SkipOneMore ==
  /\ pc = "pack" /\ i \in Packable
  /\ offset <= req.offset
  /\ offset' = offset + Size(i)
  /\ i' = i + 1
  /\ UNCHANGED <<start, pc, req, written, packed, client>>

PackMovesOffset ==
  /\ pc = "pack" /\ i \in Packable
  /\ offset >= req.offset
  /\ written + Size(i) <= req.count
  /\ offset' = offset + Size(i)
  /\ written' = written + Size(i)
  /\ packed' = Append(packed, i)
  /\ i' = i + 1
  /\ UNCHANGED <<start, pc, req, client>>

AtEntry == pc = "pack" /\ i \in Entries
Fits    == written + Size(i) <= req.count

(* An entry without name, "." or "..": neither offset nor written moves. *)
LeaveOut ==
  /\ AtEntry
  /\ i \notin Packable
  /\ i' = i + 1
  /\ UNCHANGED <<start, pc, req, offset, written, packed, client>>

(* An entry that starts before the requested offset. *)
Skip ==
  /\ AtEntry
  /\ i \in Packable
  /\ offset < req.offset
  /\ offset' = offset + Size(i)
  /\ i' = i + 1
  /\ UNCHANGED <<start, pc, req, written, packed, client>>

(* mixp_pstat() *)
Pack ==
  /\ AtEntry
  /\ i \in Packable
  /\ offset >= req.offset
  /\ Fits
  /\ written' = written + Size(i)
  /\ packed' = Append(packed, i)
  /\ i' = i + 1
  /\ UNCHANGED <<start, pc, req, offset, client>>

(* The list is at its end, or the next entry does not fit any more. *)
Finished ==
  /\ pc = "pack"
  /\ i \in Packable => offset >= req.offset /\ ~Fits
  /\ i \in Entries => i \in Packable

(* The answer reaches the client. *)
Rread ==
  /\ Finished
  /\ pos' = pos + written
  /\ got' = got \o packed
  /\ pc' = "idle"
  /\ UNCHANGED <<start, req, i, offset, written, packed>>

Next ==
  \/ \E n \in Sizes : Grow(n)
  \/ \E n \in Counts : Tread(n)
  \/ Rewind
  \/ LeaveOut \/ Skip \/ Pack \/ Rread

Spec == Init /\ [][Next]_vars
-----------------------------------------------------------------------------
(* Properties *)

TypeOK ==
  /\ start \in Seq(Nat) /\ start # <<>>
  /\ pc \in {"idle", "pack"}
  /\ req \in Request
  /\ i \in Nat \ {0}
  /\ offset \in Nat
  /\ written \in Nat
  /\ packed \in Seq(Nat)
  /\ pos \in Nat
  /\ got \in Seq(Nat)

Ascending(s) == \A a, b \in DOMAIN s : a < b => s[a] < s[b]

(* The client has every entry before its offset, each once and in the      *)
(* order of the directory, however its requests cut the listing and        *)
(* however the directory grew in the meantime.                             *)
EachEntryOnce ==
  /\ Ascending(got)
  /\ Range(got) = {k \in Packable : start[k] < pos}

(* The server never answers more bytes than the client asked for, and the  *)
(* bytes it answers are those that follow the offset, without a gap.       *)
AnswerFollowsOffset ==
  pc = "pack" =>
    /\ written <= req.count
    /\ packed # <<>> => start[packed[1]] = req.offset
    /\ written > 0 => offset + written = start[i]

(* An empty answer, which tells the client it has read the directory, is   *)
(* given only when it has all entries, or when the next entry alone is     *)
(* larger than the count ("Buffer too small for next element ... client    *)
(* has to do further requests").                                           *)
EmptyMeansEnd ==
  [][Rread /\ written = 0 =>
       \/ Range(got) = Packable
       \/ i \in Packable /\ start[i] = pos /\ Size(i) > req.count]_vars
-----------------------------------------------------------------------------
(* The inductive invariant behind these properties *)

Monotone ==
  /\ start[1] = 0
  /\ \A k, l \in DOMAIN start : k <= l => start[k] <= start[l]

(* The client's offset is where an entry starts, or the end. *)
AtBoundary == \E m \in DOMAIN start : pos = start[m]

(* What the server has skipped and packed is what precedes entry i. *)
Packing ==
  pc = "pack" =>
    /\ req.offset = pos
    /\ i \in DOMAIN start
    /\ offset + written = start[i]
    /\ offset <= pos
    /\ written <= req.count
    /\ packed = <<>> <=> written = 0
    /\ packed # <<>> => offset = pos /\ start[packed[1]] = pos
    /\ Ascending(packed)
    /\ Range(packed) = {k \in Packable : k < i /\ pos <= start[k]}

IInv ==
  /\ Monotone
  /\ AtBoundary
  /\ EachEntryOnce
  /\ Packing
==============================================================================
