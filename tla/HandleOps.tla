------------------------------- MODULE HandleOps -------------------------------
(***************************************************************************)
(* What a file handle carries beside its links: the fields the ops of each *)
(* file class use, over the life of a handle that is taken from the pool,  *)
(* initialised by one of the constructors, opened by several fids, closed  *)
(* with the last of them and handed out again for another file.            *)
(*                                                                         *)
(* p9srv_get_file() resets nref, next and ops only, and the constructors   *)
(* set different fields, so what a handle was before shows through.  The   *)
(* priv.fd field is a host file descriptor to hostfile_ops.c and the       *)
(* length of a string to rostring_ops.c.                                   *)
(*                                                                         *)
(* A member of Fid is a fid with the handle it stands for.  A fid that     *)
(* keeps a handle further down its stack, as the parent of another, is a   *)
(* member of Fid that shares the handle and does not open it.              *)
(***************************************************************************)
EXTENDS Integers, Sequences, FiniteSets

CONSTANTS
  Fid,          \* fids, over all connections
  MaxHandle,    \* model bound: handles in the pool
  MaxFd,        \* model bound: host descriptors the process may have
  Length,       \* lengths of the strings served
  Made,         \* the constructors the application uses
  Sock,         \* owner of a descriptor that is a connection
  None          \* owner of a descriptor that is closed

Handle == 1..MaxHandle
NULL   == 0
Fd     == 1..MaxFd
Class  == {"default", "dir", "entry", "hostfile", "rostring"}
Mode   == {"read", "other"}    \* OREAD with or without OTRUNC, OAPPEND; any other

ASSUME HandleOpsAssumption ==
  /\ MaxHandle \in Nat \ {0}
  /\ MaxFd \in Nat \ {0}
  /\ Length \subseteq Nat
  /\ Made \subseteq {"root", "dir", "plain", "entry", "hostfile", "rostring"}
  /\ Sock \notin Handle /\ None \notin Handle /\ Sock # None

VARIABLES
  free,     \* free_fileid: the recycled handles, last in first out
  file,     \* MIXP_FID.aux, the handle on top of the stack of a fid
  omode,    \* MIXP_FID.omode as the library keeps it, "none" if not open
  field,    \* the fields of each handle
  owner,    \* which open() or accept() a host descriptor came from
  allocs    \* strings on the heap that belong to handles

vars == <<free, file, omode, field, owner, allocs>>

(* ops is the class of the ops table; perm tells a directory from the rest *)
(* ("zero" is what calloc() left), and so does qtype, where a file is 0;   *)
(* name is TRUE when it points to a string of its own; priv is what        *)
(* priv.name points to; fd is priv.fd.                                     *)
Field == [ops  : Class, perm : {"zero", "dir", "file"}, qtype : {"dir", "file"},
          name : BOOLEAN, priv : {"null", "def", "path", "string"}, fd : Int]

New == [ops |-> "default", perm |-> "zero", qtype |-> "file", name |-> FALSE,
        priv |-> "null", fd |-> 0]

InUse(h) == \E x \in Fid : file[x] = h
Unused   == {d \in Fd : owner[d] = None}

(* The descriptor the host picks *)
Lowest   == {d \in Unused : \A e \in Unused : d <= e}
-----------------------------------------------------------------------------
(* Constructors *)

(* What each makes of the fields r of a handle from the pool; the directory *)
(* of a property list is made just as by p9srv_get_dir().                   *)
GetFile(r)  == [r EXCEPT !.ops = "default"]
OpenRoot(r) == [r EXCEPT !.ops = "dir", !.perm = "dir", !.qtype = "dir", !.name = TRUE]
GetDir(r)   == [r EXCEPT !.ops = "dir", !.perm = "dir", !.qtype = "dir", !.name = TRUE,
                         !.priv = "def"]
CreateList(r)        == GetDir(r)
HostFileInit(r)      == [r EXCEPT !.ops = "hostfile", !.priv = "path", !.fd = -1]
RoStringInit(r, len) == [r EXCEPT !.ops = "rostring", !.priv = "string", !.fd = len]

(* Slips: a property list entry that does not set its permissions, or does *)
(* not set its type, as the type of a file is 0.                           *)
EntryNoPerm(r) ==
  [r EXCEPT !.ops = "entry", !.qtype = "file", !.name = TRUE, !.priv = "def"]
EntryNoType(r) ==
  [r EXCEPT !.ops = "entry", !.perm = "file", !.name = TRUE, !.priv = "def"]
CreateEnt(r) == [r EXCEPT !.ops = "entry", !.perm = "file", !.qtype = "file",
                          !.name = TRUE, !.priv = "def"]

Construct(k, r, len) ==
  CASE k = "root"     -> OpenRoot(r)
    [] k = "dir"      -> CreateList(r)
    [] k = "entry"    -> CreateEnt(r)
    [] k = "hostfile" -> HostFileInit(r)
    [] k = "rostring" -> RoStringInit(r, len)
    [] k = "plain"    -> GetFile(r)

(* The strdup() calls of the constructors: a name, or a copy of a string. *)
Dups(k) == IF k \in {"root", "dir", "entry", "rostring"} THEN 1 ELSE 0

(* The close() in mixpsrv_hostfile_ops_init(). *)
ClosedByInit(k, r) == IF k = "hostfile" /\ r.fd > 0 THEN {r.fd} ELSE {}

(* Slips: close() leaves the length of its string in priv.fd, or leaves    *)
(* the name it has freed to p9srv_free_file().                             *)
ClosedKeepsLength(r) ==
  CASE r.ops = "entry"    -> [r EXCEPT !.name = FALSE]
    [] r.ops = "rostring" -> [r EXCEPT !.priv = "null"]
    [] OTHER              -> r

ClosedKeepsName(r) ==
  IF r.ops = "rostring" THEN [r EXCEPT !.priv = "null", !.fd = 0] ELSE r

(* The ops.close() of a handle, before its name is freed. *)
Closed(r) ==
  CASE r.ops = "entry"                        -> [r EXCEPT !.name = FALSE]
    [] r.ops = "rostring" /\ r.priv # "null"  -> [r EXCEPT !.priv = "null", !.fd = 0]
    [] OTHER                                  -> r

FreedByClose(r) ==
  IF (r.ops = "entry" /\ r.name) \/ (r.ops = "rostring" /\ r.priv # "null")
  THEN 1 ELSE 0

(* Both opens that grant by themselves, and mixpsrv_default_ops_open(): no *)
(* handle has the permission bit 0200.                                     *)
Allows(r, m) == r.ops \in {"entry", "hostfile", "rostring"} \/ m = "read"
-----------------------------------------------------------------------------
Init ==
  /\ free = [i \in 1..MaxHandle |-> i]
  /\ file = [x \in Fid |-> NULL]
  /\ omode = [x \in Fid |-> "none"]
  /\ field = [h \in Handle |-> New]
  /\ owner = [d \in Fd |-> None]
  /\ allocs = 0

(* Fid x comes to stand for a new file: an attach, a walk to a name, or an *)
(* entry of the list a directory read makes and drops.                     *)
Make(x, k, len) ==
  /\ file[x] = NULL
  /\ free # <<>>
  /\ LET h == Head(free)
         r == field[h]
     IN  /\ field' = [field EXCEPT ![h] = Construct(k, r, len)]
         /\ owner' = [d \in Fd |-> IF d \in ClosedByInit(k, r) THEN None ELSE owner[d]]
         /\ file' = [file EXCEPT ![x] = h]
  /\ free' = Tail(free)
  /\ allocs' = allocs + Dups(k)
  /\ UNCHANGED omode

(* A walk without names: y shares the handle of x. *)
Share(x, y) ==
  /\ file[x] # NULL
  /\ file[y] = NULL
  /\ file' = [file EXCEPT ![y] = file[x]]
  /\ UNCHANGED <<free, omode, field, owner, allocs>>

(* p9srv_ops_open() of a class whose open() keeps nothing. *)
Open(x, m) ==
  /\ file[x] # NULL
  /\ omode[x] = "none"
  /\ field[file[x]].ops # "hostfile"
  /\ omode' = [omode EXCEPT ![x] = IF Allows(field[file[x]], m) THEN m ELSE "none"]
  /\ UNCHANGED <<free, file, field, owner, allocs>>

(* mixpsrv_hostfile_ops_open() when the host grants it. *)
OpenHostFile(x, m) ==
  /\ file[x] # NULL
  /\ omode[x] = "none"
  /\ field[file[x]].ops = "hostfile"
  /\ \E d \in Lowest :
       /\ field' = [field EXCEPT ![file[x]].fd = d]
       /\ owner' = [owner EXCEPT ![d] = file[x]]
  /\ omode' = [omode EXCEPT ![x] = m]
  /\ UNCHANGED <<free, file, allocs>>

(* The host refuses: no such file, or no descriptor left. *)
OpenHostFileFails(x) ==
  /\ file[x] # NULL
  /\ omode[x] = "none"
  /\ field[file[x]].ops = "hostfile"
  /\ field' = [field EXCEPT ![file[x]].fd = -1]
  /\ UNCHANGED <<free, file, omode, owner, allocs>>

(* A slip: the fid forgets its handle before the handle is recycled. *)
ClunkForgets(x) ==
  /\ file[x] # NULL
  /\ file' = [file EXCEPT ![x] = NULL]
  /\ omode' = [omode EXCEPT ![x] = "none"]
  /\ free' = <<file'[x]>> \o free
  /\ UNCHANGED <<field, owner, allocs>>

(* p9srv_ops_freefid(); the last reference closes and recycles the handle. *)
Clunk(x) ==
  /\ file[x] # NULL
  /\ file' = [file EXCEPT ![x] = NULL]
  /\ omode' = [omode EXCEPT ![x] = "none"]
  /\ LET h == file[x]
         r == Closed(field[h])
     IN  IF \E y \in Fid \ {x} : file[y] = h
         THEN UNCHANGED <<free, field, allocs>>
         ELSE /\ field' = [field EXCEPT ![h] = [r EXCEPT !.name = FALSE]]
              /\ free' = <<h>> \o free
              /\ allocs' = allocs - FreedByClose(field[h]) - (IF r.name THEN 1 ELSE 0)
  /\ UNCHANGED owner

(* The library accepts a connection, or one ends. *)
Accept ==
  /\ \E d \in Lowest : owner' = [owner EXCEPT ![d] = Sock]
  /\ UNCHANGED <<free, file, omode, field, allocs>>

Hangup(d) ==
  /\ owner[d] = Sock
  /\ owner' = [owner EXCEPT ![d] = None]
  /\ UNCHANGED <<free, file, omode, field, allocs>>

Next ==
  \/ \E x \in Fid, k \in Made :
       \E len \in (IF k = "rostring" THEN Length ELSE {0}) : Make(x, k, len)
  \/ \E x, y \in Fid : Share(x, y)
  \/ \E x \in Fid, m \in Mode : Open(x, m) \/ OpenHostFile(x, m)
  \/ \E x \in Fid : OpenHostFileFails(x) \/ Clunk(x)
  \/ Accept
  \/ \E d \in Fd : Hangup(d)

Spec == Init /\ [][Next]_vars
-----------------------------------------------------------------------------
(* What a client is told of a handle, and what it then reads                *)

(* The type in the qid that attach, walk and stat answer with, and the mode *)
(* of a stat, where "x" stands for the bits 0111.                           *)
DefaultStat(r) ==
  [type |-> r.qtype,
   mode |-> CASE r.perm = "zero" -> {}
              [] r.perm = "dir"  -> {"dir", "r", "x"}
              [] r.perm = "file" -> {"r", "x"}]

EntStat(r) == [DefaultStat(r) EXCEPT !.mode = @ \ {"x"}]

Stat(r) == IF r.ops = "entry" THEN EntStat(r) ELSE DefaultStat(r)

(* p9srv_ops_read(): where the answer to a read of a handle comes from.    *)
AsDirectory(r) == r.perm = "dir"

Answer(r) ==
  IF AsDirectory(r) THEN IF r.ops = "dir" THEN "entries" ELSE "nothing"
  ELSE CASE r.ops = "entry"    -> "value"
         [] r.ops = "hostfile" -> IF r.fd \in Fd THEN "file" ELSE "error"
         [] r.ops = "rostring" -> "string"
         [] OTHER              -> "nothing"

(* Properties *)

TypeOK ==
  /\ free \in Seq(Handle)
  /\ file \in [Fid -> Handle \cup {NULL}]
  /\ omode \in [Fid -> Mode \cup {"none"}]
  /\ field \in [Handle -> Field]
  /\ owner \in [Fd -> Handle \cup {Sock, None}]
  /\ allocs \in Int

(* A descriptor in priv.fd is always one that this handle opened itself,   *)
(* however the handle was used before: the length of a string, or the      *)
(* descriptor of another handle or of a connection, is never taken for it. *)
OwnDescriptor ==
  \A h \in Handle :
    field[h].fd > 0 /\ ~(InUse(h) /\ field[h].ops = "rostring")
      => field[h].fd \in Fd /\ owner[field[h].fd] = h

(* The close() of a recycled handle's descriptor never ends a connection   *)
(* and never closes the file another handle is reading.                    *)
ClosesOnlyOwn ==
  [][\A d \in Fd :
       /\ owner[d] = Sock /\ owner'[d] # Sock => UNCHANGED <<field, file>>
       /\ owner[d] \in Handle /\ owner'[d] # owner[d]
            => ~InUse(owner[d]) /\ field[owner[d]].fd = d]_vars

(* Each name and each string copy is freed once, by the request that drops *)
(* the handle: not twice by close() and p9srv_free_file(), and not lost    *)
(* when the handle gets another class.                                     *)
FreedOnce ==
  allocs = Cardinality({h \in Handle : field[h].name})
           + Cardinality({h \in Handle : field[h].priv = "string"})

(* The inductive invariant behind the properties above.  A handle in the   *)
(* pool is there once and is no fid's, and holds no string.  One in use    *)
(* holds a copy of a string if and only if it is of that class, and the    *)
(* classes of property lists have their permissions.  Whoever sets perm    *)
(* sets qtype, also in handles that have been recycled.                    *)
PoolOK ==
  /\ \A i, j \in DOMAIN free : free[i] = free[j] => i = j
  /\ \A i \in DOMAIN free : ~InUse(free[i])

FieldsOK ==
  \A h \in Handle :
    LET r == field[h]
    IN  IF InUse(h)
        THEN /\ r.ops = "rostring" <=> r.priv = "string"
             /\ r.ops = "dir" => r.perm = "dir"
             /\ r.ops = "entry" => r.perm = "file"
        ELSE ~r.name /\ r.priv # "string"

KindsOK == \A h \in Handle : field[h].perm = "dir" <=> field[h].qtype = "dir"

IInv ==
  /\ TypeOK
  /\ PoolOK
  /\ FieldsOK
  /\ \A x \in Fid : omode[x] # "none" => file[x] # NULL
  /\ KindsOK
  /\ OwnDescriptor
  /\ FreedOnce

(* The answer that a read of a handle of this class should get. *)
OwnAnswer(r) ==
  CASE r.ops = "dir"      -> "entries"
    [] r.ops = "entry"    -> "value"
    [] r.ops = "hostfile" -> "file"
    [] r.ops = "rostring" -> "string"
    [] r.ops = "default"  -> "nothing"

(* A file that is open is read by the read operation of its own class.     *)
ReadByOwnClass ==
  \A x \in Fid :
    omode[x] # "none" => Answer(field[file[x]]) = OwnAnswer(field[file[x]])

(* An open property list or an open entry of one is read as such, whatever *)
(* file of another class its handle was before.                            *)
ListsReadAsLists ==
  \A x \in Fid :
    omode[x] # "none" /\ field[file[x]].ops \in {"dir", "entry"}
      => Answer(field[file[x]]) = OwnAnswer(field[file[x]])

(* Clients take a file for a directory by the type that attach, walk and   *)
(* stat answer with, the server by the permissions.  They agree, though    *)
(* constructors leave either as it was in the handle's last life; and an   *)
(* entry is announced neither as a directory nor as executable.            *)
ServedAsAnnounced ==
  \A x \in Fid :
    file[x] # NULL =>
      LET r == field[file[x]]
      IN  /\ Stat(r).type = "dir" <=> AsDirectory(r)
          /\ r.ops = "entry" => Stat(r).mode \subseteq {"r"}

(* "So now files are really closed on clunk": a host file is open only     *)
(* while a fid stands for its handle.                                      *)
ClosedOnClunk ==
  \A d \in Fd : owner[d] \in Handle => InUse(owner[d])
==============================================================================
