# libmixpsrv in TLA+

libmixpsrv is a small library for 9P file servers: an application describes its
files as property lists, host files or strings, and the library answers the
requests that libmixp (the protocol library, not part of this repository)
decodes and dispatches. This directory models the library in TLA+, checks the
model with TLC and proves almost all of what is checked with TLAPS.

File and line references are relative to the repository root (`src/` in
PROJECT.json). `p9srv_ops.c`, `propertylist_ops.c` and the other C files are in
`libmixpsrv/`, the headers in `include/9p-mixpsrv/`.

## 1. Inventory

The server is one thread. The loop of libmixp reads a request, calls one handler
of `p9srv_ops.c` and sends the answer before it looks at the next request, on
whichever connection that comes. So handlers never interleave with each other.
What interleaves are the *requests* of several fids and connections, and they
meet in shared state: the global pool of file handles, the handles that several
fids have in common, the values behind property lists, and the descriptors of
the process.

| Component | State | Operations | Talks to |
|---|---|---|---|
| Fid and handle management (`p9srv_ops.c`) | `free_fileid`; `next`, `nref`, `ops`, `priv` of each handle; `fid->aux` | attach, walk, freefid, get_file, free_file, the list of a directory read | libmixp (fid table), `ops.lookup`, `ops.close` |
| Directory read (`p9srv_ops_read_dir`) | nothing between two requests | skip to an offset, pack entries, answer | `ops.lookup(f, NULL)`, `ops.stat` |
| Handle fields (all constructors, open, close) | `ops`, `perm`, `qtype`, `name`, `priv`, `priv.fd` | init of each class, open, read dispatch, close | the pool, host descriptors |
| Property lists (`propertylist_ops.c`) | entries with constant values, `int_value`, callbacks, pointers | lookup, read, write, open, close, stat | callbacks of the application |
| Dispatch and default ops (`call_ops.h`, `default_ops.c`) | none | lookup of an op, default open and stat | every class |
| Host files (`hostfile_ops.c`) | `priv.fd`, a descriptor | init, open, read, size | the host |
| Read-only strings (`rostring_ops.c`) | a copy of a string, its length in `priv.fd` | init, read, size, close | - |
| Other requests (stat, open, write, create, remove, flush) | none of their own | one handler each | ops of the handle |
| Buffer helpers (`ixp_util.c`) | the buffer of their caller | answer a read from a buffer, write into one; exported for applications, not called in the library | requests of libmixp |
| Server start (`server.c`) | a socket | open and hand over to libmixp | libmixp |
| Demo server (`ixpserv/fs.c`) | a directory name | a lookup that makes host files | constructors |
| Union file system, 9P client ops | - | marked unusable, or not built at all (`Makefile`) | - |

What is hard in each, and what correctness means:

* **Fid and handle management.** Handles are reference counted by hand, linked
  by one `next` pointer with three meanings (stack of a fid, list of a
  directory, free list), recycled through a global pool, and counted in 16 bits.
  Correct means: a handle in use is never recycled; a request on one fid never
  disturbs another that shares its handles; counts are exact, so that handles
  are closed when they should be; every loop over `next` ends; and a client sees
  a walk as one step that works or changes nothing.
* **Directory read.** The server is stateless between requests and finds its
  place from a byte offset. Correct means: a client gets each entry once,
  in order, however its requests cut the listing and however the directory
  grows; an empty answer means the end.
* **Handle fields.** A recycled handle is not cleared. Correct means: nothing of
  its last life shows in the next one; a descriptor is closed only by the handle
  that opened it; strings are freed once.
* **Stat and qid.** Three fields (`perm`, `qtype`, the ops) tell what kind of file
  a handle is, and different constructors set different ones. Correct means: a
  file is announced as what it is then read as.
* **Property lists.** Reading a file takes several requests, writes of others
  come in between, and a value may live in one of four places. Correct means: a
  reader gets one value and not parts of two; an accepted write is what is read
  next, where reads look at what writes store; a refused one leaves no trace, with
  one exception that is named; reading ends.

* **Plain files** (strings, host files, buffers of an application). Reads with an
  offset and a count, a limit on the count in the server, appends, a full buffer,
  one descriptor per handle instead of per fid. Correct means: whatever serves
  it, a file is a text; what a client reads in pieces is a prefix of it; an
  empty answer means its end; a buffer ends with a NUL inside its memory; appends
  never overwrite each other.

PROJECT.json lists each hazard at the line where it bites, with the properties
that would notice it going wrong, or why none does.

## 2. Modules

| Module | Models |
|---|---|
| `HandleChain` | handles, and which of them a loop over `next` visits |
| `FileTree` | what `lookup()` answers: property lists as the handlers see them |
| `P9Srv` | the fid side of `p9srv_ops.c` and the pool |
| `FidPaths` | the abstract specification: a fid is a path, a walk is atomic |
| `P9SrvPaths` | the refinement mapping from `P9Srv` to `FidPaths` |
| `HandleOps` | the fields of recycled handles, constructors, open, close, descriptors |
| `DirRead` | the packing loop and a client that reads a growing directory |
| `PropertyList` | read and write of each entry type |
| `TextFile` | the abstract specification of a plain file: it is a text |
| `PlainFiles` | open, read, write, remove of strings, host files, buffers; implements `TextFile` |
| `MC...` | small instances of these for TLC |
| `P9SrvHeap_proofs` | facts about chains of `next` pointers, and what each way of changing the heap keeps |
| `P9Srv_proofs` | the inductive invariant of `P9Srv` and what follows from it |
| `P9SrvPool_proofs` | no handle is lost, the pool grows only when full, the assertion on counts holds |
| `P9SrvPaths_proofs` | `P9Srv` implements the safety part of `FidPaths`; lists are whole and in order |
| `DirRead_proofs`, `HandleOps_proofs`, `PropertyList_proofs`, `PlainFiles_proofs` | the theorems of these modules |

`P9Srv` composes `HandleChain` and `FileTree` (it extends both); `P9SrvPaths`
composes `P9Srv` with `FidPaths`, and `PlainFiles` holds its own instance of
`TextFile`. `HandleOps`, `DirRead`, `PropertyList` and `PlainFiles` are separate: each takes from the rest of the system only what it needs (a fid that
holds a handle; a list that `lookup` returned; an open fid). This is justified
by what `P9Srv` shows: a handle in use is not recycled and its stack is frozen,
so a handler that holds one may be looked at alone.

Some definitions are marked "slip" in their comment. They are plausible mistakes
in the function next to them (a missing guard, a swapped order) and are not used
by the specifications; replacing the function by its slip has to violate a
property.

### P9Srv

A request starts only when `pc = "idle"`. Handlers with loops are split into one
step per iteration of the outermost loop, so the invariants are checked inside
handlers too:

| Code | Actions |
|---|---|
| `p9srv_ops_attach` | `Attach` |
| `p9srv_ops_walk` 42-47, `p9srv_clone_files` | `Walk`; `CloneAborts` when the assertion fails |
| its loop over names | `WalkUp` (".."), `WalkInto` (found), `WalkMiss` (not found), `WalkNull` (no handle) |
| its end | `WalkDone`, `WalkDoneSameFid` |
| the release loops, `p9srv_ops_freefid` | `Clunk`, `Release`, `Released` |
| `p9srv_ops_read_dir` with `mixp_propertylist_ops_lookup_list` | `ReadDir`, `ListEntry`, `ListNothing`, `ListDone`, then `Release` |
| write and open on a fid without handle; remove, stat, read | `UseNull`; `RemoveNull`, `StatNull`, `ReadNull` |

`p9srv_get_file` and `p9srv_free_file` are the operators `GetFile` and
`FreeFile`, part of the actions that call them, including the block of handles
`calloc()` adds to an empty pool. `nref` is an unsigned counter of width
`RefMod`. External: libmixp's fid table (`fids`), of which the model assumes
that a request names a fid in use, that `newfid` is unused or equal to `fid`,
that a failed walk leaves no `newfid`, and that each fid is freed once.

The abstract `FidPaths` has only the path of each fid and the walk that is being
served. `P9SrvPaths!PathFrom` reads the path off the `next` pointers. A walk is
one step there, `EndWalk`, which maps to the last step of a walk in `P9Srv`:
`WalkDone` if it succeeded, `Released` if it failed. `FidPaths!Safety` is what a
client may see, `FidPaths!Answers` that a walk is answered; together they are its
`Spec`.

### HandleOps

Here a handle has its fields and no links. The fids that hold a handle stand
for its references. `Make` is "taken from the pool and initialised" for any of
the six constructors, `Share` a walk without names, `Open` and `OpenHostFile` the
open request, `Clunk` freefid with close and recycling. `Accept` and `Hangup`
are libmixp's use of the same descriptor numbers. `Answer` is the dispatch of
`p9srv_ops_read`, `Stat` the answer to a stat request without names and times.

### DirRead

A directory is the sequence `start` of byte positions at which entries begin;
an entry of no bytes is one the server leaves out. `Tread` starts a request,
`LeaveOut`, `Skip` and `Pack` are the branches of the loop, `Rread` sends the
answer. `Grow` appends an entry between requests. The client asks for what
follows the bytes it has, with any count from `Counts`.

### PropertyList

One handler is one step here, as nothing can come between; a client's reading of
a file is many steps. `Read` and `WriteEntry` are the two dispatchers over entry
types. Texts are members of a small set with a length, and conversions
(`strtol`, `"%ld"`, `strncpy`, `snprintf`) are modelled by what they do to them:
`strtol` makes 0 of a text that is no number, `snprintf` announces the length of
the whole text even if the buffer is smaller, a failing `getInt()` leaves an
uninitialised number, i.e. any. Two variables are histories of a reading: `shown`
has the values that the entry had since the client opened it, `spoilt` whether one
of the client's requests had too short a count for the text or met a callback that
failed.

Where a value is written and where it is read from are decided by two functions
that do not know of each other. `WrittenTo` and `ReadFrom` say which place each
chooses; the properties of writes are stated with them, and `WriteInt`, `ReadInt`
and their like are what the code does.

### PlainFiles

One handler is one step. A file has a class (`Kind`); `Answers` dispatches a read
to `ReadString`, `ReadHost`, `ReadBuffer` or the default, behind the bounds that
`p9srv_ops_read` puts on the count (`Clamp`). `ReadBuffer` and the operators of
`WriteBuffer` (`WriteAt`, `Taken`, `NewLen`, `Stored`) are the helpers of
`ixp_util.c` as an application uses them: it puts handlers of its own into
`p9srv_ops.read` and `.write` which call the helpers on a buffer, so these reads
do not pass through `p9srv_ops_read`. `mem` is the memory itself, with the NUL; so
a write behind its end would be a step out of its type. Host reads may be short,
and fail when the handle has no descriptor (`live`), which is the handle's and
not the fid's.

`TextFile` knows nothing of memory, descriptors, classes and bounds: it has the
text of each file and for each reader what it has received.

What the model takes for granted: libmixp checks the mode of a fid before it
hands over a write (as the comment at p9srv_ops.c:129 says) and drops the fid on
a remove whatever the answer; the payload of a write is the request's (the helper
reads it as `ifcall->Rwrite.data`, which is the same memory in libmixp); the answer
is zeroed before a handler runs; a buffer with a limit has one byte more
than the limit for the NUL; offsets are below 2^63, and texts below 2^31 bytes. The
offset of a write is cut to an unsigned int, as in the code (`Uint`).

## 3. Runs

| Run | Bounds | Shows |
|---|---|---|
| `P9Srv_any` | 2 fids, 4 handles in blocks of 2, counter of width 3, walks of up to 2 names, property lists with refused and doubled entries and one called "." | with any client and list, no handle in use is recycled or changed, no reference is missing, handles are lost at three places only (`LossesKnown`), NULL is used only where a fid lost its stack to a walk onto itself (`NullUseTraced`), and each step of a handler brings its end nearer (`HandlersEnd`) |
| `P9Srv_clean` | the same pool and counter, regular lists, no walk onto the same fid | counts are exact, no handle is lost, the assertion on counts holds with a counter that is just wide enough for the fids, the server implements `FidPaths` (`ImplementsPaths`; `WalkOK` is the loop invariant of walk), the list of a directory read is whole and in order (`ListInOrder`), every request is answered, with the path it names if it is a walk (`AllAnswered`) |
| `P9Srv_samefid` | as `_clean`, counter of width 6, walks onto the same fid | **violated**: `NothingLost` |
| `HandleOps_all` | 2 fids, 2 handles, 3 descriptors, all constructors, strings of length 0 and 2 | descriptors and strings are closed and freed by their owner, once; property lists are read as such in whatever handle, and files are announced as what they are read as; `IInv`, the invariant of the proofs |
| `HandleOps_stale` | property lists and host files | **violated**: `ReadByOwnClass` |
| `HandleOps_clunk` | host files | **violated**: `ClosedOnClunk` |
| `DirRead_fits` | up to 6 entries of 0, 2 or 3 bytes, counts from 0 to 9 with a limit of 8 | each entry once and in order; empty is the end, or the next entry is larger than the count |
| `PlainFiles_all` | 2 clients; a string of 3 bytes, a host file, a buffer of at most 2 bytes, one that grows; texts up to 3 bytes; reads of 0 or 5 bytes with a limit of 2; writes of 2 bytes at 0, 1 or the end; 5 open modes | what is read in pieces and written is one text (`TextFile`), whatever serves it; buffers keep their NUL; appends keep what was there; `IInv` |
| `PlainFiles_remove` | one file of a class with an unlink() | **violated**: `DeniedChangesNothing` |
| `PropertyList_write` | 6 entries without a reader: a string, an INT with both callbacks, an INT_VAL with `setInt()` only and one with `getInt()` only, a constant INT, a directory; clients and application write | what accepted and refused writes show |
| `PropertyList_read` | a reader of 5 entries with counts of 1, 3 and 6 bytes for texts of up to 4, writers, callbacks that fail, fairness | a reader gets one value, whole if there was room; reading ends; `IInv` |
| `PropertyList_int` | a constant INT and INT_VAL | **violated**: `JustLikeInt` |

Why the bounds are enough. Two fids are needed to share a handle, and a third
party, the running handler, holds references too. Four handles are a root, a directory and a
file in one stack plus one to recycle; blocks of two make the pool grow twice.
`Room` refuses a request for which the bounded pool may not suffice, instead of
stopping in the middle of a handler. Two names let a walk fail at the second
after the first made a handle, and let ".." undo a name. The width of `nref` is
3 in `P9Srv_any`, so the counter reaches zero on a handle in use. Two descriptor
numbers suffice for a conflict; the third lets a string length (2) name a
descriptor someone else may have. Six entries give several answers with several
entries each, and sizes that fill a count exactly, leave one byte, or do not fit.
In `PropertyList_read` a count of 6 has room for every text (the handlers hold two
bytes back), 3 cuts all but the shortest and 1 leaves no byte. The counts of
`DirRead_fits` have room for several entries, for one, or (0, which the server makes
1, and 2) not for the largest. In `PlainFiles_all` a limit of 2 on counts
and texts of 3 bytes make readers need two answers and the empty one; a buffer
of 2 bytes is filled, and overfilled, by one write; two clients are a reader and a
writer, or two writers, of each file. The unlink() that succeeds is only in
`PlainFiles_remove`, since the library has no class with one. The writes of
property lists have a run of their own without readers, `PropertyList_write`,
since a write never looks at who reads.
Deadlock checking is off where the system may stop: `P9Srv_any`
and `P9Srv_samefid` reach an abort or a null pointer, and `HandleOps` and
`PlainFiles` are sets of operations any of which may be impossible at the bounds.

Fairness. `P9Srv!FairSpec` assumes weak fairness of `Serve`: a handler that has
started goes on, since the thread has nothing else to do until it returns. No
client has to send anything. `PropertyList!FairSpec` assumes that a client that
has started to read a file goes on asking until an empty answer, which is how
files are read over 9P; the server, the writers and the application are not
assumed to do anything. `FidPaths` asks for a walk to be answered (`Answers`), which
follows from the fairness of `Serve`. It says so with a leads-to, which means the
same as weak fairness of its `EndWalk` (that step is possible as long as a walk is
being served), and which TLC can evaluate under the refinement mapping.

### What the violated runs say

* `P9Srv_samefid`: p9srv_ops.c:88 says "Remove refs for r->fid if no new fid",
  but the loop at line 94 starts from the new stack. The fid is left without a
  handle, and the handles of its old stack are lost.
* `HandleOps_stale`: a recycled directory handle that becomes a host file keeps
  the directory's permissions and is read as an empty directory.
* `HandleOps_clunk`: ChangeLog:24 says files are "*really* closed on clunk"; the
  host file class has no close().
* `PlainFiles_remove`: p9srv_ops.c:179 compares the result of unlink() with the
  character '0', so a file that is gone is answered with "permission denied"
  (errors.h:5), as if nothing had happened. No class of the library has an
  unlink(); the run's file is of an application's.
* `PropertyList_int`: propertylist_ops.h:19 says INT_VAL is "just like INT";
  a constant INT ignores the offset of a read, a constant INT_VAL does not. The
  read of a constant INT therefore never ends (`PropertyList_read` has none).

## 4. Theorems

Proved for every value of the constants that satisfies the assumptions declared
with them (`MaxHandleAssumption`, `TreeAssumption`, `PoolAssumption`,
`DirReadAssumption`, `HandleOpsAssumption`, `PlainFilesAssumption`,
`PropertyListAssumption`, which say what kind of thing a constant is, and that
a text starts within the limit of its buffer).

**P9Srv.** `Typed`, `Invariant`, and from the latter `CountsCover`,
`NoHandleInUseIsFree`, `StacksFrozen`, `LossesAreKnown` and `NullUseOnlyOfBareFids`;
`CountsExact` under the assumption `Clean`. For any number of fids and
handles, any tree, any counter width.

`Covered` is not inductive by itself: that a step keeps counts right depends on
where the `next` pointers lead. The inductive invariant `IInv` adds

* `HeapOK`: pointers in use lead to allocated handles, each chain is acyclic,
  the free list is disjoint from everything a fid or the handler reaches, and
  counts cover (and under `Clean` equal) the holders. It is a predicate of any
  heap rather than of the variables, so that `P9SrvHeap_proofs` has one lemma
  for each way the heap changes (take a handle and push it, take it and lose it,
  drop one reference, move a root, count a stack up), and the proof of each
  action is a use of one of them;
* `ServingOK`: which local variables are in use at which `pc`, and that a running walk
  has no handle only if its fid was bare;
* `ListOK`: the list under construction belongs to nobody else and `fh` is its
  end;
* `StacksOK`: a fid in use has a handle if nobody walks onto the same fid.

A count of 0 on a handle in use counts as `RefMod` (`Counted`). That is what makes
the wrap of `nref` harmless up to the assertion, and why the proof needs no bound
on the number of fids. `Chain` is defined as a least closed set, so a proof
instantiates it with the set it needs in place of an induction on the length of
a list; `P9SrvHeap_proofs` has the resulting facts.

`LoopsEnd` is what can be proved of termination: `HandlersEnd` says that each step of
a running handler either enters a later loop (`Stage`) or leaves a smaller number
of names, entries or handles to its own (`Left`). It holds whatever clients do,
since lists that holders reach are acyclic also where counts are too high. With
weak fairness of `Serve` it is the reason for `AllAnswered`; that step, from a
decreasing number to an eventual end, stays with TLC.

`LossesAreKnown` and `NullUseOnlyOfBareFids` are about what goes wrong, and hold
whatever clients do. The excess of a count over its references (`Excess`) grows only
at three places (`Loses`): the heap lemmas of `P9SrvHeap_proofs` each conclude,
besides what keeps `IInv`, that their change of the heap leaves no handle with more
excess (`NoMore`), so every step outside the three places is covered by the lemma of
its change. A fid in use becomes bare only in a walk onto itself, or as the newfid of a
walk from a fid that is bare already. `NoNullPointer` is a corollary: without walks
onto the same fid no fid is ever bare and no handler reads through NULL.

The assumption `Clean` names the three ways in which the code loses references:
a walk onto the same fid, an entry called ".", an entry whose getFileHandle()
returns NULL. `CountsCover`, `NoHandleInUseIsFree` and `StacksFrozen` hold
without it: the code may lose handles but never recycles one that is in use.

**DirRead.** `Typed`, `Invariant`, `NoEntryTwice`, `NoGap` and `EmptyIsEnd`, for every
directory, growth and choice of counts. The invariant says that the client's offset is where an entry starts
(`AtBoundary`), which is what makes skipping by bytes land on an entry, and that
what was skipped and packed are the entries before the current one (`Packing`).

**P9SrvPool.** `NoHandleLost` (under `Clean`) strengthens `NothingLost` to every
state inside a handler: an allocated handle is on the free list or someone, a fid
or the running handler, holds it (`Accounted`). There is again one lemma per way
the heap changes. That a new block is reached from its head is proved by taking
the least number of a handle that is not (`LeastElement`), in place of an
induction. `NeverAborts` says that the increment in `p9srv_clone_files` never
wraps, assuming `Clean` and fewer fids than the counter has values. Without the
latter it is false: 65536 fids on one handle abort the server, which is the action
`CloneAborts` that `P9Srv_any` reaches at width 3. `PoolGrowsWhenFull` (under `Clean`)
says that `calloc()` is called only when every handle of the pool is held, so the
memory of the pool follows the most that was ever in use at once.

**P9SrvPaths.** `ServesPaths`: `P9Srv` implements `FidPaths!Safety` under
`~SameFidWalk` alone, so also with property lists that refuse entries or contain
".": these lose handles but no path is ever wrong. The argument has three parts.

* `PathFrom` is a recursive function on the handles of a chain. That it has the
  value its definition says (`PathUnfold`) and that it depends on nothing but the
  links and nodes of that chain (`PathFrame`) is proved with `ListInduction`: a set
  that contains `NULL` and, with the rest of an acyclic list, its first handle
  contains every acyclic list. That is an instance of the least-number principle
  (the shortest list that is not in the set), not an induction theorem.
* `WalksCompute` is the loop invariant of walk (`WalkOK`): after `i` names the stack
  under construction is `Steps(path of fid, names)[i]`, the `i`-th path of the abstract
  walk. `Steps` is a recursive function of the number of names, so each
  iteration of the loop is one unfolding. Once a name is not found, all later
  paths are empty, so a walk that releases its references leads nowhere.
* Each step of `P9Srv` is then a step of `FidPaths` or leaves both its variables
  alone. That the paths of the other fids stay is `PathFrame` with
  `FrozenWhileHeld`'s lemma `StepFrozen`: what lies under a handle a fid stands for
  does not change.

With `SameFidWalk` the theorem is false: after such a walk the fid has no handle.

`ListsComplete` is about the other loop that builds a list, with no assumption: the
handles a directory read has listed are the entries so far, in their order, as long
as none was refused (`ListInOrder`). `DirRead` starts from that sequence. Its step is
`PathAppend`: a fresh handle linked behind the end of a list, with all else on the
list as it was, puts its node at the end of the path.

**HandleOps.** `Typed`, `Invariant`, `DescriptorIsOwn`, `StringsFreedOnce`,
`ListsRead`, `AnnouncedIsServed`, `OnlyOwnClosed`, for any number of fids, handles and
descriptors, and any choice of constructors. The invariant needs that a handle in
the pool is there once, is nobody's and holds no string (`PoolOK`, `FieldsOK`),
that a handle in use holds a copied string exactly if it is of that class, and
that `perm` and `qtype` agree in every handle, recycled or not (`KindsOK`).
`FreedOnce` is an equation between a counter and the handles, so the proof of
each step says by how much both sides change.

**PlainFiles.** `Typed`, `Invariant`, `NulKept`, `PrefixIsRead`, `SizeIsRead`,
`NoneEndsEarly`, `AppendsGrow`, `DenialsHarmless`, and `FilesAreTexts`: the refinement to `TextFile`,
step by step, for any files, texts, limits, pieces and modes, if offsets of
writes are below `UintSize` (2^32). Beyond that the code writes at the offset
modulo 2^32. The invariant adds to the properties what memory each class has
(`StoreOK`) and that the text under a reader that nobody wrote into has not become
shorter than what it has read (`ReadersOK`). `DenialsHarmless` shows that the
successful `unlink()` is the only cause of what `PlainFiles_remove` finds: where no
class has one (`Unlinkable = {}`), no denied request changes a file.

**PropertyList.** `Typed`, `Invariant`, `ValuesAreWhole`, `WritesShow`,
`RefusalsTraced` and `ReadingEnds`, for any entries, constants, callbacks and counts,
with no assumption on which callbacks go together. The invariant says that a
reader has nothing yet, or an answer from one value that the entry had since it was
opened, and the whole of it unless a count was too short (`ReaderOK`); a reading in
which a callback failed is excused, and only that reading.

`ShownByPlace` reduces what an entry shows to the place a read looks at. `WritesShow`
and `RefusalsTraced` compare that with the place a write stores to. An accepted write
shows exactly where the two agree. A refused write shows in one case: an INT_VAL with
`setInt()` but without `getInt()` and without a constant is read from `int_value`,
which line 160 sets before the callback refuses the number. The theorem says that
this is the number read then, and that there is no second case.

`ReadingEnds`: once a reader has had data, its next answer is the end, except for a
constant INT, which is what `PropertyList_int` is about.

**Only model-checked.** The liveness properties `AllAnswered` and `ReadEnds`, which rest on fairness. `LoopsEnd` and `ReadingEnds` prove what they
need besides fairness: that no loop of a handler can go on for ever, and that a
reader gets its empty answer after at most one with data. Every invariant and
every action property of the passing runs is a theorem.

## 5. Plan

Done: the fid handles with their abstract specification, the directory read, the
handle fields with stat, the property list values, plain files and the buffer
helpers with theirs; proofs of all safety properties of these, and of both
refinements (fids to paths, plain files to texts).

Left:

1. A composition of `P9Srv` with `HandleOps`, so that the class of a recycled
   handle and its links are in one state. At present `HandleOps` counts
   references by the fids that share a handle, which `Exact` of `P9Srv` justifies.
2. A composition of `DirRead` with `P9Srv`, with entries that are removed between two
   requests, should a document ever say what a client is to get.
3. The constructor helpers of the headers (`MIXPSRV_LOOKUP_*`), once something in the
   library uses them.

## 6. Not modelled

* libmixp: its fid table, message formats and server loop are not in this
  repository. What the models assume of it is said at each place.
* `server.c`: opens a socket and calls libmixp; no state of its own.
* `union_ops.c`, `p9client_ops.c`: not built and not compilable against the
  present headers.
* Of a stat: owner names, times, the packing of the answer. The copies of owner
  names it makes are never freed (propertylist_ops.c:464, 488).
* Logging and debug output.
* `mixp_data_to_cstring()` of `ixp_util.c`: it turns the payload of a write into a C
  string for an application; nothing in the library calls it.
* Lack of memory: the code does not test the result of calloc() and strdup().
* The MIXPSRV_LOOKUP macros of the headers: nothing in the library uses them
  (`MIXPSRV_LOOKUP_ADD` evaluates its argument twice, so a constructor call given to
  it would make two handles).
* Entries removed from a directory while it is read: an offset then means
  something else, and no document says what a client should get.
