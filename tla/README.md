# Log-based VOL: a verification project in TLA+

The log-based VOL is an HDF5 connector that does not write a dataset in place.
`H5Dwrite` only queues a request; a flush appends the data of all queued
requests of all MPI ranks to the file as one *log dataset* `_ld_<n>`, and a
later step writes a *metadata dataset* `_md_<n>` that says which selection of
which dataset each piece of log data is. A read loads the metadata into an
index, searches it, and collects the pieces.

This directory holds the specifications of that machinery, the TLC runs that
check them on small instances, and the theorems TLAPS proves for every instance.
`PROJECT.json` lists components, runs, wrong variants of definitions that each
property catches, the source lines each definition stands for, findings, hazards
and theorems. Source paths below are relative to the repository, file names
without a directory are those of `src/` without the prefixes `H5VL_log_` and
`H5VL_logi_`.

Run a check with `tlc -config LogFile.cfg MCLogFile.tla`, a proof with
`tlapm LogFileProofs.tla`.

## 1. Inventory

| Part | State | Operations | What is hard | Modules |
|---|---|---|---|---|
| Write requests (`dataseti` write, `nb`) | per rank: `wreqs`, `mreqs`, `nflushed`, `wreq_hash`, `mdsize`, data buffers | queue, merge, share, pack, `flush_write_reqs` | ranks write different amounts at different times, offsets come from a scan over ranks; a request lives through several flushes | LogFile, MetaIndex |
| Metadata flush and load (`filei_meta`) | `metadirty`, `nmdset`, index | `metaflush`, `metaupdate`, `metaupdate_part` | collective; every rank writes its section and reads everybody's | LogFile, MetaPieces |
| Metadata entries (`logi_meta`) | none (a format) | encode, decode, decode a reference | mixed-radix encoding, record entries, references within a section | MetaIndex |
| Index (`idx_list`, `idx_compact`) | `idx`, `idxvalid` | clear, parse, search | references; data offsets inside an entry | MetaIndex, MetaPieces |
| Read path (`dataseti` read, `nb` perform_read) | `rreqs` | blocking and queued read, file and memory types | implicit flush, order of overlapping pieces, reads that share a piece of the log, collectives only some ranks reach | LogFile, MetaIndex, ReadTypes |
| Selections (`dataspace`) | none | convert, sort, merge, break down, encode | order of packing against order of decoding | Selections, MetaIndex |
| Datasets (`dataset`) | `dsets_info` | create, open, set_extent, close | failing half way; dims that change under queued entries | Handles, MetaIndex |
| File life cycle (`file`, `filei`) | counters, attribute `_int_att`, reference count, registry | create, open, reopen, flush, close | counters that follow the file over sessions; who closes the file; half-done closes | LogFile, Handles |
| Objects of the file (`obji`, `wrap`, `group`, `att`, `dtype`) | references to the file object | open, close, wrap, unwrap | lifetimes | Handles |
| Names (`att`, `link`, `obj`, `util`) | none of its own: names and positions in the file | every call that names or counts attributes and links | internal names beside the application's | Names |
| Configuration (`prop`, `filei`, `file`) | property lists, environment, attribute | setters and getters, parsing at create and open | three sources, several sessions | Config |
| Subfiling (`filei`, `nb`) | groups, subfile, counters | form groups, create/open/switch subfiles | collectives of group and file mixed | Subfiles |
| Requests of asynchronous calls (`req`) | sub-requests with status | wait, notify, cancel, free | parts that finish separately | not modelled |
| Filters, profiling, memory pools, tokens, blobs, introspection, `h5ldump`, `h5lreplay` | none | byte transformations, forwarding, offline tools | sizes of buffers | not modelled |

Interaction: the application's calls reach the callbacks of objects, which
rewrite names and forward them, and those of datasets and files, which queue
requests in the file object or run the collective procedures of `nb.cpp` and
`filei_meta.cpp`. Everything that was opened in a file shares its file object
and keeps it alive by a reference count. Ranks share nothing but the file; they
meet in collectives (`MPI_Allreduce`, `MPI_Exscan`, dataset creation,
`MPI_Barrier`, `MPI_File_set_view`, collective reads and writes).

What makes the system correct: no accepted write is lost and none is misplaced
(`NoWriteLost`, `LogIntact`); a read returns what the last relevant write put
there (`ReadReturnsLatest`, `QueuedReadsCorrect`); the metadata describes
exactly what was written (`ListFindsWrites`, `CompactFindsWrites`) and all of it
is searched once (`SearchedAll`, `SearchedOnce`); ranks never wait in different
collectives (`CollectivesMatch`, `CallsReturn`, `CallsEnd`); a closed file stays
readable (`ClosedStaysReadable`, `NamesAreNew`, `EntriesReadable`); a file is open
exactly as long as it is used (`SharesFiles`); and the application sees a file
without the connector's own names (`SeesPlainFile`).

## 2. Modules

### LogFile

One file opened by `NP` ranks. `pc[r]` names the next step of rank `r` inside
the VOL call it is in. A rank's own steps interleave freely with the others'; a
collective is one action guarded by *every* rank being at it (`At`), because
that is when it can complete. A rank that waits in another collective blocks
it, as MPI would.

State: the file object of each rank (`wreqs`, `mreqs`, `nflushed`, `rreqs`,
`metadirty`, `idxvalid`, `idx`, `nldset`, `nmdset`), the locals of a running
flush (`cur`, `fsize`, `foff`), the file (`disk`: log data; `ldsets`: log
datasets with address and length; `mdsets`: metadata datasets, one section per
rank; `attr`: `_int_att`), and the history of the application (`hist`: every
accepted write; `prog`: the sequence of collective calls, which all ranks make
alike; `epoch`; `durable`).

| Code | Actions |
|---|---|
| `H5VL_log_dataseti_write` | `Write` |
| `H5VL_log_file_specific` flush, `H5VL_log_filei_flush` | `CallFlush`, `AllreducePending` |
| `H5VL_log_dataseti_read` | `CallRead`, `CallBufferedRead` |
| `H5VL_log_nb_flush_write_reqs` | `PushMerged`, `Pack` (one request per step), `ScanAndCreate`, `WriteData` |
| `H5VL_log_filei_metaflush` | `GatherAndCreate`, `WriteSection`, `MetaBarrier`, `MetaClean` |
| `H5VL_log_nb_perform_read`, `H5VL_log_filei_metaupdate` | `Search`, `SetView`, `ReadAll`, `RestoreView`, `Return` |
| `H5VL_log_filei_close`, `post_open` | `CallClose`, `CloseFile`, `OpenFile` |

Abstractions: a block is a selection of one dataset, two blocks are equal or
disjoint; the bytes of a write are its number; an entry is the pair of a write
and its file offset (its encoding is MetaIndex's subject). A merged request is
kept as its blocks, so `nflushed` counts blocks where the code counts
requests; the two agree on what is flushed. The layout is the default one: no
subfiling, no aligned driver, unlimited metadata buffer. `MayAllocate`
stands for the library below, which gives a new dataset an address that
overlaps no other log dataset, in increasing order (`InOrder`) or in any, and
may fail to (`AllocFails`). The same failure for a metadata dataset is not
modelled.

The application is restricted by two constants. `FlushFirst`: it flushes
before a read and does not write in between (what `doc/design.md:129` asks
for). `UniformReads`: every rank reads the same selection. Writes are made only
while the file is open for writing. A bounded behaviour ends with a close, so
TLC's deadlock check is real: the only stop is `Finished`, after the last close.

### Selections, MetaIndex and ReadTypes

These refine what LogFile keeps abstract for one rank.

`Selections` has no state. A coordinate is a sequence of numbers of any length,
a block a start and a count. `HyperslabBlocks` is the conversion of a hyperslab
selection: sort, merge along the dimensions from the last (`MergeAlong`), break
down what interleaves. `SelEncode` and `SelDecode` are the mixed-radix encoding.
`Cells` lists the cells of a block in the order in which its data is packed.

`MetaIndex` has the queue of one rank down to the words of its entries.
`Write` builds an entry (`NewEntry`: record flag, multi-block flag, encoding
with `dsteps`), replaces it by a reference if an equal one is in the hash
(`SharedEntry`), or appends to the merged entry (`AppendMerged`); `WriteRefused`
is a write whose filter the connector does not have, which stops half way;
`SetExtent` and `SetExtentRefused` change the dims the encoding is calculated
with (`extent`, `dsteps`); `FlushData` lays data out byte by byte in the order
the memory selection is packed; `FlushMeta` writes the section and resets
queue, size and hash. `Decode`, `ListBlocks` and `CompactBlocks` are the parsers,
`Search`, `Intersect` and `Hit` the search. `QueueHits` and `QueueMemory`
perform a queue of reads together.

`ReadTypes` has what a read makes of its hits (`H5VL_log_dataset_readi_gen_rtypes`):
sorting (`HitBefore`), groups of hits that interleave (`HitGroups`), rows of a
group (`Pieces`), trimming of a piece that starts inside the one before it
(`Trim`), and the copies made afterwards (`Fetched`). `InFileOrder` is what MPI
demands of a file type.

Every byte of log data names the write, the cell of memory and the byte it is, so
the properties compare what a read delivers with what was written, cell by cell.
The hash compares sizes and bodies; entries of equal size whose bodies differ
in length are taken as different (the code compares a common prefix). Words
beyond the end of an array are the constant `Beyond`. `std::sort` leaves the
order of hits that start at the same cell open; the model keeps their order, and
`sortoffsets` is stable only below 16 pieces, as in the instances here.
`Unlinked` are datasets the visit at open does not find. Compressed selections,
filtered data, endianness and type conversion are left out.

### MetaPieces

The section table of metadata datasets and a read with an index buffer of
limited size (`metaupdate_part`): place `md`, `sec` of the read, the sections in
the index, those searched. One action per piece (`Part`). Sizes are in units of
a table entry.

### Handles and FileSharing

One process, several files and file objects. `files` is the registry (`filei_search`,
`register`), `refcnt` the count of a file object, `fids`, `objs`, `dsets`, `wraps` the handles
the application holds, `ctx` a wrap context, `left` and `lost` what a failed
call leaves behind. A file is created or opened in two callbacks: the call below
(`Made`, `NotMade`) and then `H5VL_NATIVE_FILE_POST_OPEN`, which the library makes with a handle
it keeps from the application if that fails (`HandedOut`, `Withheld`). A file that is opened is
registered before it, a created one at its end (`PostCreate`, `PostOpen`). Actions: `FileCreate`, `FileOpen`, `FileReopen`, `FileClose`,
`ObjectMake` and the closes of groups, attributes and datatypes, `DatasetCreate`,
`DatasetOpen`, `DatasetClose`, `GetWrapCtx`, `WrapObject`, `WrapDataset`,
`WrapFile`, `UnwrapObject`, `FreeWrapCtx`. The last reference closes the file, in a call
that returns the error (`DecRefReturning`) or in a destructor, which cannot
(`Destroy`). `Failing` names the calls below that may fail.

`FileSharing` is the promise: a file is opened once, stays open as long as
anything of it is held, and is closed with the last thing let go. `Handles`
implements it (`SharesFiles`), with `open` the registered files and `holders`
the counted handles, those out of reach included. Left out: `H5VLclose` that fails when a file is opened
without connector information, after it was registered (`file.cpp:310-314`); and closing a wrapped
file handle of a file that is not log-based, where `file.cpp:547` takes an object of
`wrap.cpp:125-126` for a file object.

### Names and PlainNames

`PlainNames` is the attributes and links of a few objects as the library keeps
them: creating, opening, renaming, deleting, iterating, by name or by position.
`Names` is the same calls through the connector: it keeps one `PlainNames` of
stored names (`Under`), whose objects have the connector's own attributes and
group, and adjusts names and positions on the way down and back, each call its
own way. The refinement `SeesPlainFile` says that what the application sees is
again a `PlainNames`. A name is a number of leading underscores and a rest;
a link is named by its name or by a path to it (`Stored`), of which the connector looks at the first
character only. `Uses` lists which calls an application makes with which names, paths and handles.
Attributes are iterated in the order of creation, from any start.

### Config

The properties of the three classes with their setters and getters, the
environment, and the attribute. Three setters return before they do anything
(`H5VL_log.cpp:197,256,315`); sharing metadata entries is on unless the application turns it off. `FileCreate`, `FileOpen` with its later
`FileOptional` (where the attribute is written or read), `Close`, `Crash`. An
entry remembers the settings it was written with, a session the settings it
reads with.

### Subfiles

Groups of processes (`CalcNodeRank`), each with its subfile, its counters
`nld`, `nmd` and its queue. The members of a group move together, groups do not;
`Sizes` and `Barrier` are collectives of all. Steps of a group: `Data`, `Metaflush`,
`Search`, `SwitchSubfile` (the read of all subfiles, one after the other) and
`SwitchEnd`, `PutAtt` (close).

### MC modules and proof modules

`MCLogFile`, `MCMetaIndex`, `MCMetaPieces`, `MCHandles`, `MCNames`, `MCConfig`
and `MCSubfiles` define instances. `LogFileProofs` (types, no write lost, numbers,
offsets, closed files) and `LogFileCollectProofs` (collectives, what reads return), which
extends it, and `HandlesProofs`, `MetaPiecesProofs`, `MetaIndexProofs` (entries, and the
selections they are made from), `NamesProofs`,
`ConfigProofs` and `SubfilesProofs` hold theorems. The definitions
marked as wrong variants in the modules are what a plausible mistake would make of
a definition; each property is violated by one of them.

## 3. Runs

| Run (cfg) | Instance | Shows |
|---|---|---|
| `LogFile` | 2 ranks, 2 datasets with blocks of 1 and 2 bytes, 3 writes, 4 calls | type, offsets, no lost write, reads, matching collectives, closed files, dataset names |
| `LogOneRank` | 1 rank, no application rules, 3 writes, 5 calls | the implicit flush of a blocking read |
| `LogLive` | 3 ranks, merging, addresses in any order, 2 writes, 3 calls, fairness | every collective call returns |
| `MetaIndex` | 4 datasets (three 3x3 matrices, one of which grows to 3x4 and one cannot be written; 2 records of 3x3), 8 requests, 3 writes, 2 metadata flushes | the list index keeps the blocks written, both indexes find exactly the writes, and reads performed together each get the last write to every cell |
| `MetaPieces` | up to 2 metadata datasets of 1 or 3 sections of size 0 to 2, buffers of 0, 1, 2, 4 and unlimited | a read searches every section exactly once, and ends |
| `Handles` | 2 files, one log-based, 2 file objects, 2 further handles, two failures, at any point of a creation, an open or a close | references, lifetimes, one file object per file, the refinement, files are closed in the end |
| `HandlesFail` | the same with every failure, two of them, and wrapped handles closed like others | nothing is counted for nobody, but what a failed call left behind |
| `Names` | 3 objects, 4 names, 6 ways to use a file, 2 creations | the application sees a file without the connector |
| `Config` | 3 sessions, 2 changes of properties or variables, crashes | a file keeps its configuration and stays readable |
| `Subfiles` | 3 processes on 2 nodes, groups per node, 2 or 3, 3 writes, 4 calls, 2 sessions | groups agree, subfiles stay apart and whole, calls end |
| `ReadUnflushed` | 2 ranks, reads without flush | violation of `ClosedStaysReadable` |
| `MetaRefused` | a write that is refused for its filter, then an equal one | violation of `RefsLand` |

Settings to run by hand, each of which shows one divergence of section 6:
`ReadApart`, `AllocDown`, `AllocNone` (with `MCLogFile.tla`), `MetaFullRow`,
`MetaMerged`, `MetaRecord`, `MetaGrown`, `MetaReads`, `MetaUnlinked` (with
`MCMetaIndex.tla`), `NamesPath` (with `MCNames.tla`).

Why the bounds are enough.

* LogFile: two ranks give every order of their local steps and both positions in
  the scan; three writes give one rank two requests in one flush or in two, while
  the other has none or one; four calls reach flush, flush, read, close, and
  write, close, reopen, read, close. Block sizes of one and two bytes make a wrong
  offset overlap something. `Addrs` and `MaxBytes` bound only the choices of the
  library below. Reads are checked without merging, whose metadata cannot be
  decoded (`MetaMerged`); the liveness of calls is checked with it.
* MetaIndex: three writes fit a target and two references to it in one section, or a
  target in one section and its twin in the next; single-block,
  multi-block, record and encoded entries all occur, and so do references into
  another dataset and into another record, and a change of dims between two
  equal selections. The same instance passes with four writes (227046 distinct
  states, about four minutes). It leaves out what the Meta settings show: blocks
  as wide as a dimension in multi-block requests, merging, the same record
  written twice, unlinked datasets, growth that is refused half way, points that
  are not in increasing order. Its datasets have one element size: a reference in
  the list index keeps the data offsets of its target (`H5VL_logi_meta.cpp:58`), and with
  unequal sizes `ListKeepsBlocks` is violated.
* `MCMetaIndex` also states three facts that TLC evaluates before the run:
  `ConversionsKeepOrder` (every set of cells of a line of 5, a square of 3x3 and a
  box of 2x2x3 is converted to blocks whose cells come in the order of the
  selection), `RegularKeepsOrder` (the same of all regular selections of two
  dimensions with starts 0 and 1, strides up to 3, one or two blocks of one or two),
  and `PairsAreRead` (any two parts of a 3x3 entry are read right together,
  except for the pairs `EndsInside` describes, see section 6).
* MetaPieces: the buffers are smaller than a section, as large, and larger than
  several; two datasets give the change from one to the next in every place. The
  theorems hold for all sizes.
* Handles: two file objects give a file closed and opened again, and two files at
  once; two handles beyond the file's own give every order of closing. The
  theorems hold for any number.
* Names: the names `_ID` and `_LOG`, so used by the application, collide with
  the connector's; a lower-case and an upper-case name sort on both
  sides of the internal ones. Two creations make positions that differ. Attributes and
  links do not touch each other, so a use makes calls on either; the theorems hold for all uses.
* Config: create, crash or close, open twice; two changes reach a property and a
  variable that contradict it.
* Subfiles: three processes on two nodes, the first and the last on one, give
  groups of unequal size whose ranks are not adjacent; four calls give flush,
  read, flush, close at different paces.

Runs other than the LogFile ones switch the deadlock check off: their bounded
behaviours simply end (no writes, handles or sessions left).

### Properties

* `LogIntact`: every flushed request and every entry gives the offset of its
  own bytes, which no other log data overlaps. `NoWriteLost`: an accepted write
  is queued or recorded, always. `ReadReturnsLatest`: a read returns a write that no
  other superseded, among those flushed by anyone or issued by the reader.
* `CollectivesMatch`, `CallsReturn`: no two ranks wait in different
  collectives; every collective call returns.
* `ClosedStaysReadable`: what an earlier close completed stays reachable
  through the attribute on disk, wherever a later session stops. A crash is not
  an action: the property speaks of the file alone, in every reachable state.
  `NamesAreNew`: the counters never name an existing dataset.
* `OffsetsPredicted`: the `meta_off` from which relative references are
  computed is the real offset of the entry in its section. `RefsLand`: a
  reference stands where it says behind an entry with a selection.
  `ListKeepsBlocks`: what the list index keeps of an entry are the blocks that were
  written and where the data of each starts.
* `ListFindsWrites`, `CompactFindsWrites`: what a search of either index leads
  to is, element by element, what was written. `QueuedReadsCorrect`: reads performed
  together get what each would get alone, and MPI a file type in order.
* `SearchedAll`, `SearchedOnce`, `ReadEnds`: a limited buffer changes nothing.
* `RefsCounted`, `NeverOvercounted`, `NoDangling`, `OneInstance`,
  `NothingHeldIsClosed`, `SharesFiles`, `FilesClosed`: see Handles.
* `OwnIntact` (the connector's attributes and group stay where opening a file
  needs them), `SeesPlainFile`, and `EachCallPlain` (each call returns what the
  same call of the library alone would).
* `EntriesReadable` (a session has the settings its file's entries need),
  `FileListsStripped` (no list of a file goes below with a property of the connector;
  the transfer list, which goes below as it is, may),
  `ConfigKept`.
* `GroupsAgree`, `OwnSubfile`, `CountsTrue`, `ReadFindsOwn`, `CallsEnd`: see Subfiles.
* `TypeOK` of each module contains the type facts that can go wrong: never more
  requests flushed than queued, a read at a place that exists. That of Handles (no
  negative count) is proved and no run checks it.

### Fairness

* `LogLive` assumes weak fairness of each rank's local steps (a rank inside the
  VOL is running code without waiting), of joining a call the other ranks have
  made (an MPI program calls collectives on every rank), and of the collectives
  (MPI completes one that every rank has entered). No rank is required to write or
  to start a call.
* `Subfiles` assumes the same of groups: one inside a call goes on, joins calls
  others have made, and collectives complete.
* `Handles` assumes that an application that is done closes what it
  opened and frees its wrap contexts. Before that nothing is required.
* `MetaPieces` assumes that a read that has started goes on.

## 4. Theorems

**LogFile**, from its named assumptions (`NPAssumption`, `DsetAssumption`,
`SizeAssumption`, `ConfigAssumption`, `BoundAssumption`), for any number of
ranks, any set of blocks, any sizes, with or without merging, for any value of
`FlushFirst`, `UniformReads`, `InOrder` and `AllocFails`:

* `LogFileProofs!TypeCorrect`: `Spec => []TypeOK`. `TypeOK` is inductive. It
  needs the bound `nflushed <= Len(wreqs)` and that the merged requests only
  ever append, one case per action.
* `LogFileProofs!WritesAccounted`: `Spec => []NoWriteLost`. `NoWriteLost`
  is not inductive: when `MetaClean` deletes the queue, the requests in it must
  have been recorded by this rank's own section, and when `OpenFile` starts
  with empty queues, they must have been empty at close. The invariant `Inv`
  adds `RecordInv` (a rank past its section has its queue recorded),
  `QueueInv` (a rank that is closing or closed has nothing queued), and the
  numbering facts of `TypeInv`. There is one lemma per group of actions. Read
  together with the run `ReadUnflushed`: the request is never lost, its data can
  be.
* `LogFileProofs!NamesNew`: `Spec => []NamesAreNew`. `NumberInv` adds that a
  rank in the write of a flush is the only kind that has not counted its log dataset yet,
  that the ranks close together, and that the attribute has the counts of the
  file whenever no session can still change them.

With hypotheses on the constants:

* `LogFileProofs!DataIntact`: `Spec => []LogIntact`, if `~AllocFails` and
  `FlushFirst \/ NP = 1`. `AllocFails` has to be excluded because the flush discards
  the data of a log dataset without an address and records it all the same
  (`AllocNone`); reads of several ranks have to come after a flush because a blocking
  read records unflushed requests (finding `ReadUnflushed`). The invariant
  `LogInv` says where a flush is: `LayoutInv` (the requests packed so far lie
  one after the other below `fsize`), `ReadyInv` and `ProgInv` (a rank that
  will record its queue has flushed all of it, because of the call it is in), `SpaceInv`
  (data on disk is within a log dataset; the room a writing rank has in the new one
  is free and no other rank's). That the ranges of the ranks are apart is a fact about
  prefix sums (`PrefixSumsApart`), proved from the least rank at which it would fail.
* `LogFileProofs!ClosesDurable`: `Spec => []ClosedStaysReadable`, under the same
  hypotheses. `DurableInv` (every write before the last completed close has an entry that
  the attribute leads to) needs `NoWriteLost` at the close and `LogInv` for the bytes.
* `LogFileCollectProofs!RanksMeet`: `Spec => []CollectivesMatch`, if `UniformReads` (the
  divergence `ReadApart` shows why) or there is one rank. `CollectivesMatch` speaks of
  ranks that wait; the invariant `AgreeInv` speaks of all. `CallInv` ties the state of a rank
  to the program of calls (what it has queued to read, where it goes after its data
  flush), `IndexInv` ties its index to the file, `Dirty` (there is metadata to
  flush) is the same on all ranks, and `Together` says of two ranks that the next
  collective each will wait in (`NextWait`) is the same, or one is ahead in the calls
  by nothing but buffered reads.
* `LogFileCollectProofs!ReadsLatest`: `Spec => []ReadReturnsLatest`, if `InOrder`,
  `~AllocFails` and `FlushFirst \/ NP = 1`. `InOrder` has to be assumed because the index
  lets the piece at the highest offset win, which is the last written only if log datasets
  follow each other in the file (`AllocDown`); the other two are the hypotheses of
  `LogIntact`. Ranks may read different selections. The argument has three levels:
  * the queue of a rank: `OwnInv` (its requests are its own writes) and `RisingInv`
    (requests for a block are in the order of the writes, also when merged requests move
    behind the others);
  * the flushes: `EpochInv` (what is not flushed is of the current epoch, or of the
    one before while others go on writing), `PlaceInv` (a flush puts its log dataset
    behind all that is placed), and from these `OrderInv` (of two writes to a block the
    superseding one is at the higher offset);
  * the reads: `CleanInv` (who reads has nothing queued), `IndexInv` with `SectionInv` (a
    valid index has every entry of the file), `LogInv` (the bytes are there) and
    `ReadStepInv` (a finished read stays right until it returns).

**Handles**, from `HandlesAssumption`, for any number of files, file objects,
handles and failures. The actions are first sorted into kinds of step by what
they do to the counts (`Opens`, `Takes`, `Drops`, `Wraps`, `Unwraps`); the
invariants are proved of the kinds.

* `TypeCorrect`, and `NothingOvercounted`, hold for all values of the constants. A call of the library
  that fails after the file object was made (`Strands`: post-create, post-open) or in the open of
  a plain file's dataset leaves a reference out of reach; `NothingOvercounted` says that nothing else
  does, and that every such failure costs at most one.
* `ReferencesCounted`, `NothingDangles` and `OneFileObject` assume that no handle
  out of a wrap context is closed (`~WrappedClosed`). The invariants are `CountInv` (the
  count of an open file object is its references and positive; of a broken one it
  is at most zero; a new or deleted one is held by nobody; a wrapped handle goes before
  the context) and `RegistryInv` (the registry and the open file objects match).
  Neither property is inductive alone: a dropped reference ends the file object
  only if the count is right, and the count is right only if no handle belongs to
  a file object that is gone.
* `ClosedWithTheLast` also assumes that nothing below is left open and the flush
  at close succeeds (`"info"`, `"flush"` not in `Failing`); what a failed call left behind may keep a
  file open, and `ClosedWithoutException` excludes those failures, too (`"plain"`, `"post_create"`,
  `"post_open"`). `NoneLeft` (no object
  left, no broken file object) is the invariant.
* `SharingImplemented` (`"info"`, `"flush"` not in `Failing`): `Spec => Sharing!Spec`.
  `Init` maps to `Init`; each kind of step maps to opening, acquiring, releasing or
  a stutter.

**MetaPieces**, from `PiecesAssumption`, for any buffer, any number of
datasets and sections of any size: `PlaceExists`, `EverythingSearched`,
`NothingTwice`. The invariant is `PlaceInv`: a read is at an existing section and has
searched exactly the sections before it (`Before(md, sec)`).

**MetaIndex**, from `DatasetAssumption` and `BlocksAssumption`, for any datasets, writes, changes of
dims, encodings, and numbers of writes and flushes:

* `EntriesTyped` (`TypeOK`), by `TypeInv`. The body of an entry is the flattened words of its
  blocks, encoded with `dsteps`, so the steps have a word for every dimension of their dataset.
* `OffsetsFixed` (`OffsetsPredicted`), if `~Merge`: merged entries take their offset when data is
  flushed, behind entries that may have been queued since. `OffsetInv` adds that `mdsize` is the
  offset behind the last queued entry, and that whatever the hash hands out for an accepted
  write is queued at its offset without being a reference itself. Flushing data
  sets addresses in queued entries and changes neither the size nor the place of one.
* `ReferencesLand` (`RefsLand`), if `Unlinked = {}`, and `~Reuses` or `Refused = {}`. The invariant
  `LandInv` says of the queue what `RefsLand` says of sections: every reference has its target
  before it, at the distance it states. It needs `OffsetInv` for the distance, and that nobody
  refers to what a refused write left in the hash. With merging nothing is a reference (`NoRefs`). The hypotheses are what the
  run `MetaRefused` (section 5) and the setting `MetaUnlinked` (section 6) drop.
* `EntryDecodes`: the words of an entry that is no reference decode to the blocks it was made
  from. `Shaped` says where `Decode` finds the steps, starts and counts in a body; each is cut out
  (`WordsOfBody`) and, if encoded, divided (`EncodingInverts`).
* `BlocksKept` (`ListKeepsBlocks`), if also nothing is merged, elements have one size (`OneSize`),
  an encoded block is narrower than its dataset (`NarrowBlocks`) and a growth that is refused
  changes nothing (`RefusedAtOnce`). The invariants are `StepsInv` (`dsteps` are the steps of
  the present dims, which are ones a call may set, so blocks fit whenever they are encoded) and `KeepInv`:
  queued entries are `Shaped` and decode to what was written (`QueueHolds`), and so does
  whatever a reference may still be made to (`HashHolds`), since equal sizes and bodies mean equal
  blocks (`TakenBlocks`). When the section is written, the distance of a reference leads
  to the one entry it was computed from (`TargetIs`, as positions grow). That nothing is merged is
  a limit of the proof. The other five hypotheses are needed: without them the property is violated by `MetaFullRow`
  (`NarrowBlocks`), `MetaGrown` (`RefusedAtOnce`), `MetaUnlinked`, `MetaRefused`, and by datasets of
  unequal element size. The run `MetaIndex` meets them all.

`BlocksAssumption` says that converting a selection gives blocks with a coordinate for every dimension.
The conversion sorts with an operator the provers cannot look into, so TLC evaluates it for the
selections of every MetaIndex instance. Sums, products and flattened sequences are recursive
functions of the community modules. Their types, and that a sum over positions grows by the last
term (`SumLast`, through `SumAnyFirst`: a sum over a finite set may start with any element), are proved
from the smallest set or index for which they would be wrong.

**Selections**, for any number of dimensions (in `MetaIndexProofs`): `EncodingInverts` (a coordinate
decodes from the offset it is encoded to if all but its first component lie below their dimension,
which a count that fills a dimension does not: section 6). The steps are products of the trailing
dimensions, each the next times the dimension between (`StepsDivide`), so what is left after the
first components is below the last step divided by (`DivideOnce`).
`MergingKeepsCells` (joining a
block with one that goes on where it ends keeps the cells, none twice) and
`ApartInOrder` (if one block ends before another starts, all its cells come before all
of the other's). Both argue with the extent along each dimension; the second
takes the least dimension in which two cells differ.

**Config**, from `ConfigAssumption`, `NoneAssumption` (the mark for
"no attribute" is not an attribute), for any number of sessions, changes of lists and
variables, and crashes: `ConfigTypes` (`TypeOK`), `NonePassed` (`FileListsStripped`), `OpenedReadable`
(`EntriesReadable`), `ConfigurationKept` (`ConfigKept`). The invariant `KeptInv` says that
entries are in the file only with an attribute whose configuration they can be read with,
and that an open session has the configuration of the attribute.

**Subfiles**, from `SubfilesAssumption`, for any number of processes on any nodes, any number of
subfiles asked for, and any interleaving of the groups:

* `GroupingAgreed` (`GroupsAgree`): `calc_node_rank` counts the leaders below a rank; the
  proof is about cardinalities of such sets, and the invariant is only that nobody
  changes the groups.
* `SubfileTypes` (`TypeOK`): the counters stay below the calls entered (`Bounds`).
* `SubfilesApart` (`OwnSubfile`): `PlaceInv` (a group not reading another subfile has its own
  open), `CallInv`, `RestInv` (where writes are before they are indexed), `OwnInv`.
* `ReadsFindOwn` (`ReadFindsOwn`, of the step that searches): `FoundInv`.
* `CountsAreTrue` (`CountsTrue`), if `~Rewrites`: a subfile opened anew, or one written
  after a read of all subfiles, counts from the main file's counters (section 6).

**Names**, from `ObjectsAssumption`, `UsesAssumption` and `NamesAssumption`, for any names, any
ways of using a file and any number of creations:

* `NamesTypes` (`TypeOK`): also that no object has two attributes and no group two links of
  one name, through renames and moves.
* `OwnStays` (`OwnIntact`), if every use is `Careful`: in a log-based file what is not adjusted,
  the names of a rename, the end of a path and the position of a deletion, does not occur with a name of
  one underscore, or, the last, at all (the setting `NamesPath` shows what a path does). The proof is that `Remap` never yields a name of one underscore
  (`RemapLeavesOwn`), and that what deletes or renames by another name leaves the first
  attributes where they are (`OwnFirstKept`).
* `PlainFileSeen` (`SeesPlainFile`: Names implements `PlainNames`) and `CallsPlain`
  (`EachCallPlain`, of every call), if every use is `Unseen`: without the calls, positions, paths and
  names the connector does not adjust (section 6 lists what shows otherwise). The invariant `Seen` adds
  `NamesShared` to the two above: whatever is not the connector's is stored under `Remap` of a
  name in use. Then the library's operators commute with the view (`View`, `ViewLinks`): adding,
  deleting, renaming, finding by name (`ViewGrows`, `ViewShrinks`, `ViewRenamed`, `ViewId`,
  `ViewLinkTo`), by position (`NthByAge`; alphabetically there is one attribute at every
  position, `PositionExists`, since `Earlier` is a total order) and iterating (`ToldRest`).
  There is one lemma per call.

Model-checked only: `ListFindsWrites`, `CompactFindsWrites` and `QueuedReadsCorrect` of
MetaIndex, whose values are what decoding, searching and converting compute for every
selection: nested folds, sorting and choices over lists of blocks. Out of the prover's reach:
`CallsReturn`, `CallsEnd`, `FilesClosed` and `ReadEnds` (liveness under fairness). Where
the proofs need induction on numbers they take the least counterexample (`LeastElement`,
`LeastOf`, from the well-foundedness of the naturals).

## 5. Findings

1. `ReadUnflushed`: with more than one rank a blocking read does not flush the
   pending writes (`H5VL_log_dataseti.cpp:1131` tests the file's own transfer
   property list), but the read's metadata flush records and deletes them:
   their data never reaches the file. `doc/usage.md:161,169` promise a flush
   at reads and at close.
2. `MetaRefused`: a request is put in the hash of entries to refer to
   (`H5VL_log_dataseti.cpp:856`) before its data is filtered (`:992`). When
   the filter throws (`H5VL_logi_filter.cpp:54`) the request is never queued but stays in the
   hash, and the next write of an equal selection, of any dataset, refers to the
   place it would have had: to itself or to another entry
   (`doc/metadata_format.md:37`). That write cannot be found.

## 6. Divergences

Behaviour of the code that differs from its documents, or from what a caller would
expect, met while modelling. Where a setting shows it, the setting and the
property it violates are named.

Log and index:

* `ReadApart` (`CollectivesMatch`): in a collective read a rank with an empty
  selection returns at once (`dataseti.cpp:1060`) and a rank without hits sets no view
  (`nb.cpp:412`); the others wait for it.
* `AllocDown` (`ReadReturnsLatest`): overlapping pieces are applied in
  file-offset order (`idx.cpp:20`), not in the order of creation `doc/design.md:128` promises.
* `AllocNone` (`DiscardedNotRecorded`): requests whose data is "not recorded"
  (`nb.cpp:796`) are recorded in the metadata.
* `MetaFullRow` (`ListFindsWrites`): a count as long as its dimension overflows
  the encoding (`logi_meta.hpp:61`), with the default configuration.
* `MetaMerged` (`ListFindsWrites`): merged entries interleave starts and counts
  (`nb.cpp:310`), and cannot be decoded.
* `MetaRecord` (`CompactFindsWrites`): a shared entry of the same record breaks
  the compact index (`dataseti.cpp:869`), both default settings.
* `MetaGrown` (`ListFindsWrites`): `H5Dset_extent` that is refused for a later
  dimension leaves earlier dims changed and `dsteps` stale (`dataset.cpp:550-556`).
* `MetaUnlinked` (`ListFindsWrites`): an entry that refers to one of an unlinked
  dataset finds nothing (`idx_list.cpp:51`); the compact index takes a null target.
* `MetaReads` (`QueuedReadsCorrect`): with `Queues <- MCContained`, a read of a part in
  the middle of a row another read covers is given the end of that row
  (`dataseti.cpp:658-660`); with `MCThreeParts`, the second comparison of `operator>`
  repeats the first (`idx.cpp:47-52`), hits are compared with the wrong one and the file type is
  out of order; with `MCUnsorted` (as the file has it), points are sorted
  (`dataspace.cpp:394`), so data of unsorted points is permuted. The destructor then frees
  the array that the sort moved.
* Filters of a contiguous dataset are not saved (`dataset.cpp:110`), so a
  reopened file reads filtered data unfiltered.
* `config ^ METADATA_MERGE` (`dataseti.cpp:837`) is nearly always true: with merging an
  unused request is made as well.

Limited buffer: with no metadata dataset at all a read with a limited index buffer fails
(`filei_meta.cpp:452`); with an unlimited one it returns fill values.

Files and handles (settings of `Handles`):

* `Failing = {"flush"}`: `NothingHeldIsClosed`, and `NeverAborted` (the exception leaves a
  destructor, `obji.cpp:79`). `FileClose` cannot be repeated (`filei.cpp:1086`).
* `Failing = {"info"}`: `NothingHeldIsClosed` (a dataset below stays open, `dataseti.cpp:710`).
* In every setting with `"post_open"`, `"post_create"` or `"plain"` a file may stay open with nothing held
  by the application (`lost`): post-open fails after the file was registered (`file.cpp:308,521`), which
  then cannot be opened again; post-create before it is (`filei.cpp:290`), so the file is open below and may
  be created once more; the open of a plain file's dataset leaves the object (`dataset.cpp:264`).
* `WrappedClosed = TRUE`: `NoDangling` (a wrapped file is not counted, `filei.cpp:1074`).

Names (settings `Uses <- X` of `Names`, defined in `MCNames`):

* `OwnIntact`: `PathsToGroup`, which is `NamesPath.cfg`: a name is adjusted only if its first character is an
  underscore (`logi_util.hpp:112`). The calls on links do it to "Block access to internal objects"
  (`link.cpp:196,296,378`), but a path such as `/_LOG` goes down as it is, so `H5Ldelete` or `H5Lmove` of it
  takes the connector's group out of the file. `RenamesOwn`: a rename and a deletion by index reach
  internal attributes (`att.cpp:438`).
* `EachCallPlain`: `IteratesFrom` (where an iteration starts is passed on as it is and counts the connector's
  attributes, `att.cpp:431-437`), `OpensFromEnd` (`att.cpp:133`), `AsksInfo` (`att.cpp:299`), `OrdersByName`
  (`att.cpp:132`), `RootAsGroup` (`obj.cpp:213`), `LoglessAttrs`.
* `SeesPlainFile`: `AsksName` (the stored name is returned, `att.cpp:345`), `CountsLinks` (`group.cpp:198`).

Subfiling (settings of `Subfiles`):

* `AllWrite = FALSE`: `CallsEnd` (a group without entries skips the barrier on the file's
  communicator, `filei_meta.cpp:289`).
* `Rewrites = TRUE`: `CountsTrue` (counts are taken from the main file's attribute, which has
  zero, `filei.cpp:938-944`).
* A read of all subfiles never searches (`nb.cpp:556-590`, against
  `doc/usage.md:80-117`). A reopened file forms as many groups as its configuration
  read as a number, that is one per process (`filei.cpp:131-132`), and processes without a subfile fail.
  Creating takes the base name of the file, opening the full one (`filei.cpp:887,935`).

Configuration (read from the code, part of Config's definitions): three setters return before
they do anything, those of the two buffer sizes and of merging (`H5VL_log.cpp:197,256,315`,
`doc/api.md:118`); `file.cpp:305` says that properties can override the configuration in the file, but
post-open, which comes later, takes the attribute's (`filei.cpp:134`); the names that are stripped from lists
(`filei.cpp:484-489`) lack `H5VL_log_nonblocking`, so a transfer list goes below with it (`file.cpp:301`);
the variable of the data layout is inverted (`filei.cpp:449-455`);
the property for single-subfile reads is inserted in one class and read from another, so
only the variable works; `H5Pset_buffered` has the inverse sense (`dataseti.cpp:935`,
`doc/api.md:73`); a number of zero subfiles disables subfiling, against `doc/usage.md`.

## 7. Plan

Next, in this order:

1. `ArrayStore`, the abstract promise of a file (a map from blocks to the writes a
   read may return), and LogFile under the application rules shown to implement
   it by a refinement mapping.
2. `ListFindsWrites` from `ListKeepsBlocks`: that cutting a block by the one read (`Intersect`)
   leads to the cells they share.
3. Subfiles composed with LogFile, so that the log of a group is LogFile's.
4. Filtered requests, whose sizes differ from the data's, in MetaIndex.

## 8. Not modelled

* The aligned layout (`ost_write`, `flush_write_reqs_align`): the source marks it as
  deprecated, and its setup asks a file handle that is not open yet for the stripes
  (`filei.cpp:217-219`).
* Requests of asynchronous calls: calls with a request pointer put requests of several
  parts together, but the connector registers only NULL request callbacks
  (`H5VL_log_main.cpp:43`), so they are never waited for or freed.
* Filters, compression and type conversion: byte transformations of libraries. Pass-through
  reads: the library's own reads.
* `H5Dread_n` and `H5Dwrite_n` as entry points: their blocks are selections of
  MetaIndex. The stored attributes of a dataset.
* Tokens, blobs, connector info and introspection: forwarded, no state. Buffer accounting
  (`balloc`, `bfree`), profiling and debugging.
* `h5ldump` and `h5lreplay`: offline tools with a decoder of their own.
