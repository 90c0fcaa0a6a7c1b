----------------------------- MODULE MetaIndex -----------------------------
(***************************************************************************)
(* What LogFile leaves out of the requests of one rank: how a selection is *)
(* encoded in a metadata entry, shared with an equal earlier entry or      *)
(* merged with the other writes of its dataset, how an entry read back is  *)
(* decoded, how the list index and the compact index are built and         *)
(* searched, and how the reads of one flush get their data.                *)
(*                                                                         *)
(* The body of an entry is its sequence of words: the number of blocks if  *)
(* there is more than one (4 bytes), then words of 8 bytes.  The log data  *)
(* is one sequence of bytes, each naming the write, the cell of memory it  *)
(* was written from and the byte it is.  Compressed selections, filtered   *)
(* data and type conversion are not modelled.                              *)
(***************************************************************************)
EXTENDS ReadTypes

CONSTANTS
    NDset,       \* fp->ndset
    Dims,        \* dims of a dataset when it is created
    MaxDims,     \* mdims of a dataset; where unlimited, the largest it ever has
    Extents,     \* changes of dims the application may ask for: [did, size]
    Record,      \* datasets whose first dimension is unlimited (mdims[0])
    ESize,       \* esize of a dataset
    Requests,    \* writes an application makes: a dataset, a selection of it and one of memory
    Queries,     \* blocks an application reads
    Queues,      \* sequences of reads, each of a selection, that one flush performs
    Merge,       \* H5VL_FILEI_CONFIG_METADATA_MERGE
    Share,       \* H5VL_FILEI_CONFIG_METADATA_SHARE
    Encode,      \* H5VL_FILEI_CONFIG_SEL_ENCODE
    SameRecord,  \* the application writes one selection of a record twice between metadata flushes
    Refused,     \* datasets with a filter the connector does not have
    Unlinked,    \* datasets whose links are gone when the metadata is read
    Reuses,      \* the application selects what a refused write selected, before the next metadata flush
    Beyond,      \* a word of memory beyond the end of an array of blocks
    MaxWrites,   \* bound: writes of a behaviour
    MaxSections  \* bound: metadata flushes of a behaviour

Dids == 0 .. NDset - 1

ASSUME DatasetAssumption ==
    /\ NDset \in Nat /\ Record \subseteq Dids /\ Refused \subseteq Dids /\ Unlinked \subseteq Dids
    /\ ESize \in [Dids -> Nat \ {0}]
    /\ Dims \in [Dids -> Seq(Nat \ {0})] /\ MaxDims \in [Dids -> Seq(Nat \ {0})]
    /\ \A d \in Dids : Len(MaxDims[d]) = Len(Dims[d])
    /\ \A x \in Extents :
          x.did \in Dids /\ x.size \in Seq(Nat) /\ Len(x.size) = Len(Dims[x.did])
    /\ \A d \in Record : Dims[d] # <<>>
ASSUME ChoiceAssumption ==
    /\ Merge \in BOOLEAN /\ Share \in BOOLEAN /\ Encode \in BOOLEAN /\ SameRecord \in BOOLEAN
    /\ Reuses \in BOOLEAN
    /\ MaxWrites \in Nat /\ MaxSections \in Nat /\ Beyond \in Nat
ASSUME InputAssumption ==
    /\ \A q \in Requests :
          /\ q.did \in Dids
          /\ q.sel.type = "all" => MaxDims[q.did] = Dims[q.did]
          /\ Len(SelectionOrder(q.sel, MaxDims[q.did])) = Len(SelectionOrder(q.mem, q.mdims))
    /\ \A q \in Queries : q.did \in Dids \ Unlinked
    /\ \A queue \in Queues : \A k \in DOMAIN queue : queue[k].did \in Dids \ Unlinked
\* A selection is converted to blocks with a coordinate for every dimension.
ASSUME BlocksAssumption ==
    \A q \in Requests :
        LET cords == [DOMAIN Dims[q.did] -> Nat]
        IN  /\ Selected(q.sel, MaxDims[q.did]) \in Seq([start : cords, count : cords])
            /\ Selected(q.mem, q.mdims) \in Seq([start : Seq(Nat), count : Seq(Nat)])

VARIABLES
    hist,      \* every write, in order
    wreqs,     \* fp->wreqs
    mreqs,     \* fp->mreqs: no or one merged entry per dataset
    hash,      \* fp->wreq_hash: the entries later ones may refer to
    mdsize,    \* fp->mdsize: bytes of the queued entries
    nflushed,  \* fp->nflushed
    extent,    \* dip->dims of every dataset
    dsteps,    \* dip->dsteps of every dataset
    data,      \* bytes of the log datasets
    sections   \* this rank's sections of the metadata datasets

vars == <<hist, wreqs, mreqs, hash, mdsize, nflushed, extent, dsteps, data, sections>>
-----------------------------------------------------------------------------
(***************************************************************************)
(* Selections                                                              *)
(***************************************************************************)
\* H5VL_log_selections of a request, for the dataset and for memory.
Converted == [q \in Requests |-> Selected(q.sel, MaxDims[q.did])]
Sels(q) == Converted[q]

\* The cells of memory in the order in which MPI_Pack takes them, block by block.
Packed == [q \in Requests |-> CellsOf(Selected(q.mem, q.mdims))]
-----------------------------------------------------------------------------
(***************************************************************************)
(* Metadata entries                                                        *)
(***************************************************************************)
\* A write within one record of a dataset with an unlimited first dimension.
IsRecord(did, sels) ==
    /\ did \in Record
    /\ \A b \in Range(sels) : b.count[1] = 1 /\ b.start[1] = sels[1].start[1]

\* A record entry stores its record number once and no first coordinate.
Inner(cord, rec) == IF rec THEN Tail(cord) ELSE cord

IsEncoded(did, rec, sels) == Encode /\ Len(sels) > 1 /\ Len(Inner(Dims[did], rec)) > 1

\* Number of blocks, dsteps, all the starts, all the counts.
Body(did, rec, sels) ==
    LET steps   == Inner(dsteps[did], rec)
        Word(c) == IF IsEncoded(did, rec, sels) THEN <<SelEncode(steps, Inner(c, rec))>>
                   ELSE Inner(c, rec)
    IN  (IF Len(sels) > 1 THEN <<Len(sels)>> ELSE <<>>)
        \o (IF IsEncoded(did, rec, sels) THEN Front(steps) ELSE <<>>)
        \o FlattenSeq([k \in DOMAIN sels |-> Word(sels[k].start)])
        \o FlattenSeq([k \in DOMAIN sels |-> Word(sels[k].count)])

\* The entry of the next write, to be written at offset mdsize of the section.
NewEntry(did, sels) ==
    LET rec == IsRecord(did, sels)
    IN  [did |-> did, rec |-> rec, recnum |-> IF rec THEN sels[1].start[1] ELSE 0,
         mul |-> Len(sels) > 1, enc |-> IsEncoded(did, rec, sels), ref |-> FALSE,
         body |-> Body(did, rec, sels),
         meta_off |-> mdsize, foff |-> 0, writes |-> <<Len(hist) + 1>>]

HeaderSize == 28  \* sizeof (H5VL_logi_meta_hdr), packed
SelSize(e)  == 8 * Len(e.body) - (IF e.mul /\ ~e.ref THEN 4 ELSE 0)
MetaSize(e) == HeaderSize + (IF e.rec THEN 8 ELSE 0) + SelSize(e)

\* Only an entry longer than a reference is shared.
Sharable(e) == Share /\ SelSize(e) > 8

\* H5VL_log_wreq_t::operator==: neither the dataset nor the record number nor
\* the flags are compared.
Equal(e) == {t \in hash : MetaSize(t) = MetaSize(e) /\ t.body = e.body}

\* Wrong variant: the record number goes if there is one at the target.
RefEntryDropsRecord(e, t) ==
    LET keeps == e.rec /\ ~t.rec
    IN  [e EXCEPT !.ref = TRUE, !.rec = keeps, !.recnum = IF keeps THEN @ ELSE 0,
                  !.body = <<t.meta_off - mdsize>>]

\* The body becomes the offset of the equal entry relative to this one; the
\* record number goes if it is the same.
RefEntry(e, t) ==
    LET keeps == e.rec /\ ~(t.rec /\ t.recnum = e.recnum)
    IN  [e EXCEPT !.ref = TRUE, !.rec = keeps, !.recnum = IF keeps THEN @ ELSE 0,
                  !.body = <<t.meta_off - mdsize>>]

SharedEntry(e) ==
    IF Sharable(e) /\ Equal(e) # {} THEN RefEntry(e, CHOOSE t \in Equal(e) : TRUE) ELSE e

\* A merged entry before its first write.  The flag says its blocks are
\* encoded if Encode is set, but the code that packs them tests the bit of
\* another flag, and packs coordinates.
EmptyMerged(d) ==
    [did |-> d, rec |-> FALSE, recnum |-> 0, mul |-> TRUE, enc |-> Encode /\ Len(Dims[d]) > 1,
     ref |-> FALSE, body |-> <<0>>, meta_off |-> 0, foff |-> 0, writes |-> <<>>]

\* Each write appends its starts and then its counts.
AppendMerged(m, sels) ==
    [m EXCEPT !.body = <<@[1] + Len(sels)>> \o Tail(@)
                          \o FlattenSeq([k \in DOMAIN sels |-> sels[k].start])
                          \o FlattenSeq([k \in DOMAIN sels |-> sels[k].count]),
              !.writes = Append(@, Len(hist) + 1)]
-----------------------------------------------------------------------------
Init ==
    /\ hist = <<>> /\ wreqs = <<>> /\ hash = {} /\ mdsize = 0 /\ nflushed = 0
    /\ mreqs = [d \in Dids |-> <<>>]
    /\ extent = Dims /\ dsteps = [d \in Dids |-> DSteps(Dims[d])]
    /\ data = <<>> /\ sections = <<>>

MayWrite(sels, e) ==
    /\ Len(hist) < MaxWrites
    /\ sels # <<>>
    /\ \A b \in Range(sels) : \A i \in DOMAIN b.start : End(b)[i] < extent[e.did][i]
    /\ SameRecord \/ ~\E t \in hash : t.rec /\ Equal(e) = {t} /\ t.recnum = e.recnum
    /\ Reuses \/ \A t \in Equal(e) : t.writes # <<>>

\* An entry equal to none in the hash is put there.
Hashed(e) == IF Sharable(e) /\ Equal(e) = {} THEN {e} ELSE {}

\* H5VL_log_dataseti_write.  (With merging an entry is made too, and only its
\* trace in the hash stays.)
Write(q) ==
    \E sels \in {Sels(q)} : \E e \in {NewEntry(q.did, sels)} :
        /\ MayWrite(sels, e) /\ q.did \notin Refused
        /\ hist' = Append(hist, q)
        /\ hash' = hash \cup Hashed(e)
        /\ IF Merge
           THEN /\ LET m == IF mreqs[q.did] = <<>> THEN EmptyMerged(q.did) ELSE mreqs[q.did][1]
                   IN  mreqs' = [mreqs EXCEPT ![q.did] = <<AppendMerged(m, sels)>>]
                /\ UNCHANGED <<wreqs, mdsize>>
           ELSE /\ wreqs' = Append(wreqs, SharedEntry(e))
                /\ mdsize' = mdsize + MetaSize(SharedEntry(e))
                /\ UNCHANGED mreqs
        /\ UNCHANGED <<nflushed, extent, dsteps, data, sections>>

\* A write that fails when its data is to be filtered, after its entry was
\* put in the hash.  The entry is never queued.
WriteRefused(q) ==
    \E sels \in {Sels(q)} : \E e \in {NewEntry(q.did, sels)} :
        /\ MayWrite(sels, e) /\ q.did \in Refused
        /\ hash' = hash \cup Hashed([e EXCEPT !.writes = <<>>])
        /\ UNCHANGED <<hist, wreqs, mreqs, mdsize, nflushed, extent, dsteps, data, sections>>

Allowed(x) == \A i \in DOMAIN x.size : x.size[i] <= MaxDims[x.did][i]

\* Wrong variant: the steps are left as they were.
SetExtentKeepsSteps(x) ==
    /\ Allowed(x) /\ extent[x.did] # x.size
    /\ extent' = [extent EXCEPT ![x.did] = x.size]
    /\ UNCHANGED <<hist, wreqs, mreqs, hash, mdsize, nflushed, dsteps, data, sections>>

\* H5Dset_extent within the maximal dims.  With encoding the steps are
\* calculated anew, and the merged entry, which has the old ones, is queued.
SetExtent(x) ==
    LET merged == IF Encode THEN mreqs[x.did] ELSE <<>>
    IN  /\ Allowed(x) /\ extent[x.did] # x.size
        /\ extent' = [extent EXCEPT ![x.did] = x.size]
        /\ dsteps' = IF Encode THEN [dsteps EXCEPT ![x.did] = DSteps(x.size)] ELSE dsteps
        /\ wreqs' = wreqs \o merged
        /\ mreqs' = IF Encode THEN [mreqs EXCEPT ![x.did] = <<>>] ELSE mreqs
        /\ mdsize' = mdsize + SumFunction([k \in DOMAIN merged |-> MetaSize(merged[k])])
        /\ UNCHANGED <<hist, hash, nflushed, data, sections>>

\* H5Dset_extent beyond the maximal dims fails at the first that is exceeded:
\* the ones before it have changed, the steps have not.
SetExtentRefused(x) ==
    LET first == CHOOSE i \in DOMAIN x.size :
                    /\ x.size[i] > MaxDims[x.did][i]
                    /\ \A j \in 1 .. i - 1 : x.size[j] <= MaxDims[x.did][j]
    IN  /\ ~Allowed(x)
        /\ extent' = [extent EXCEPT ![x.did] =
                         [i \in DOMAIN @ |-> IF i < first THEN x.size[i] ELSE @[i]]]
        /\ UNCHANGED <<hist, wreqs, mreqs, hash, mdsize, nflushed, dsteps, data, sections>>

\* The bytes of a write, packed from memory.
Bytes(w) ==
    FlattenSeq([n \in DOMAIN Packed[hist[w]] |->
        [byte \in 1 .. ESize[hist[w].did] |-> <<w, Packed[hist[w]][n], byte - 1>>]])

EntryBytes(e) == FlattenSeq([k \in DOMAIN e.writes |-> Bytes(e.writes[k])])

\* H5VL_log_nb_flush_write_reqs: queue the merged entries, lay out and write
\* the data of the entries not yet flushed.
FlushData ==
    LET merged  == FlattenSeq([d \in 1 .. NDset |-> mreqs[d - 1]])
        reqs    == wreqs \o merged
        new     == SubSeq(reqs, nflushed + 1, Len(reqs))
        Size(k) == Len(EntryBytes(reqs[k]))
        Foff(k) == Len(data) + SumFunction([j \in nflushed + 1 .. k - 1 |-> Size(j)])
    IN  /\ new # <<>>
        /\ wreqs' = [k \in DOMAIN reqs |->
                        IF k > nflushed THEN [reqs[k] EXCEPT !.foff = Foff(k)] ELSE reqs[k]]
        /\ mreqs' = [d \in Dids |-> <<>>]
        /\ nflushed' = Len(reqs)
        /\ mdsize' = mdsize + SumFunction([k \in DOMAIN merged |-> MetaSize(merged[k])])
        /\ data' = data \o FlattenSeq([k \in DOMAIN new |-> EntryBytes(new[k])])
        /\ UNCHANGED <<hist, hash, extent, dsteps, sections>>

\* H5VL_log_filei_metaflush before a read or at close, all data flushed: the
\* section is written and the queue, its size and the hash are reset.
MayFlushMeta ==
    /\ wreqs # <<>> /\ nflushed = Len(wreqs) /\ \A d \in Dids : mreqs[d] = <<>>
    /\ Len(sections) < MaxSections

\* Wrong variants: one of the resets is missing.
FlushMetaKeepsCount ==
    /\ MayFlushMeta
    /\ sections' = Append(sections, wreqs)
    /\ wreqs' = <<>> /\ hash' = {} /\ mdsize' = 0
    /\ UNCHANGED <<hist, mreqs, nflushed, extent, dsteps, data>>

FlushMetaKeepsSize ==
    /\ MayFlushMeta
    /\ sections' = Append(sections, wreqs)
    /\ wreqs' = <<>> /\ nflushed' = 0 /\ hash' = {}
    /\ UNCHANGED <<hist, mreqs, mdsize, extent, dsteps, data>>

FlushMeta ==
    /\ MayFlushMeta
    /\ sections' = Append(sections, wreqs)
    /\ wreqs' = <<>> /\ nflushed' = 0 /\ mdsize' = 0 /\ hash' = {}
    /\ UNCHANGED <<hist, mreqs, extent, dsteps, data>>

Next ==
    \/ \E q \in Requests : Write(q) \/ WriteRefused(q)
    \/ \E x \in Extents : SetExtent(x) \/ SetExtentRefused(x)
    \/ FlushData \/ FlushMeta

Spec == Init /\ [][Next]_vars
-----------------------------------------------------------------------------
(***************************************************************************)
(* Reading a section back                                                  *)
(***************************************************************************)
\* Offset of the k-th entry in a section.
Position(sec, k) == SumFunction([j \in 1 .. k - 1 |-> MetaSize(sec[j])])

\* Entries of a dataset that was not found when the file was opened are skipped
\* (no fp->dsets_info), so they are not in the cache of targets either.
Kept(e) == e.did \notin Unlinked

\* bcache[bufp + roff]: the entry without reference at the offset referred to.
Target(sec, k) ==
    {j \in 1 .. k - 1 :
        /\ Kept(sec[j]) /\ ~sec[j].ref
        /\ Position(sec, j) = Position(sec, k) + sec[k].body[1]}

\* H5VL_logi_metaentry_decode: the blocks of an entry that is no reference.
Decode(e) ==
    LET width == Len(Inner(Dims[e.did], e.rec))
        n     == IF e.mul THEN e.body[1] ELSE 1
        words == IF e.mul THEN Tail(e.body) ELSE e.body
        steps == Append(SubSeq(words, 1, width - 1), 1)
        Cord(k) == IF e.enc THEN SelDecode(steps, words[width - 1 + k])
                   ELSE SubSeq(words, (k - 1) * width + 1, k * width)
        First(x) == IF e.rec THEN <<x>> ELSE <<>>
    IN  [k \in 1 .. n |-> [start |-> First(e.recnum) \o Cord(k), count |-> First(1) \o Cord(n + k)]]

\* doff: where the data of each block starts in the data of its entry.
WithOffsets(blocks, esize) ==
    [k \in DOMAIN blocks |->
        [start |-> blocks[k].start, count |-> blocks[k].count,
         doff |-> esize * SumFunction([j \in 1 .. k - 1 |-> NumElems(blocks[j].count)])]]

\* An entry of the list index.  A reference takes over the decoded blocks of
\* its target, data offsets included, and puts its own record number in.
ListBlocks(sec, k) ==
    LET e == sec[k]
        Own(j) == WithOffsets(Decode(sec[j]), ESize[sec[j].did])
        InRecord(b) == [b EXCEPT !.start = [@ EXCEPT ![1] = e.recnum], !.count = [@ EXCEPT ![1] = 1]]
    IN  IF ~Kept(e) THEN <<>>
        ELSE IF ~e.ref THEN Own(k)
        ELSE FlattenSeq([j \in 1 .. k - 1 |->
                IF j \notin Target(sec, k) THEN <<>>
                ELSE IF e.rec THEN [i \in DOMAIN Own(j) |-> InRecord(Own(j)[i])]
                ELSE Own(j)])

\* Wrong variant: no value tells that there is no record number.
CompactRecDefaultsToZero(e) == IF e.rec THEN e.recnum ELSE 0

\* The record number of a compact index entry, -1 if it is no record entry.
CompactRec(e) == IF e.rec THEN e.recnum ELSE -1

\* The words a compact index entry keeps: start and count of each block,
\* without the first coordinate in a record entry.
CompactWords(e) ==
    FlattenSeq([k \in DOMAIN Decode(e) |->
        Inner(Decode(e)[k].start, e.rec) \o Inner(Decode(e)[k].count, e.rec)])

\* The blocks a search reads from them.  A reference uses the words of its
\* target, but its own record number tells how wide they are.
CompactBlocks(sec, k) ==
    LET e     == sec[k]
        rec   == CompactRec(e)
        width == Len(Dims[e.did]) - (IF rec >= 0 THEN 1 ELSE 0)
        First(x) == IF rec >= 0 THEN <<x>> ELSE <<>>
        From(j) ==
            LET words   == CompactWords(sec[j])
                Word(i) == IF i \in DOMAIN words THEN words[i] ELSE Beyond
                Cord(i) == [c \in 1 .. width |-> Word((i - 1) * width + c)]
            IN  [i \in DOMAIN Decode(sec[j]) |->
                    [start |-> First(rec) \o Cord(2 * i - 1), count |-> First(1) \o Cord(2 * i)]]
        src == IF ~Kept(e) THEN {} ELSE IF e.ref THEN Target(sec, k) ELSE {k}
    IN  WithOffsets(FlattenSeq([j \in 1 .. k |-> IF j \in src THEN From(j) ELSE <<>>]),
                    ESize[e.did])

\* The entries of all sections, with their blocks.
ListIndex ==
    FlattenSeq([s \in DOMAIN sections |-> [k \in DOMAIN sections[s] |->
        [did |-> sections[s][k].did, foff |-> sections[s][k].foff,
         blocks |-> ListBlocks(sections[s], k)]]])
CompactIndex ==
    FlattenSeq([s \in DOMAIN sections |-> [k \in DOMAIN sections[s] |->
        [did |-> sections[s][k].did, foff |-> sections[s][k].foff,
         blocks |-> CompactBlocks(sections[s], k)]]])
-----------------------------------------------------------------------------
(***************************************************************************)
(* Searching an index                                                      *)
(***************************************************************************)
Least(x, y) == IF x < y THEN x ELSE y
Greatest(x, y) == IF x < y THEN y ELSE x

\* The common part of two blocks; they meet if it has elements.
Intersect(a, b) ==
    LET so == [i \in DOMAIN a.start |-> Greatest(a.start[i], b.start[i])]
        eo == [i \in DOMAIN a.start |-> Least(a.start[i] + a.count[i], b.start[i] + b.count[i])]
    IN  [start |-> so, count |-> Minus(eo, so)]

Meets(a, b) == \A i \in DOMAIN a.start : Intersect(a, b).count[i] > 0

\* One H5VL_log_idx_search_ret_t: what block q, kept at address xbuf, wants of
\* a block of an entry.
Hit(e, block, q, xbuf) ==
    LET common == Intersect(block, q)
    IN  [foff |-> e.foff, doff |-> block.doff, esize |-> ESize[e.did],
         dstart |-> Minus(common.start, block.start), dsize |-> block.count,
         mstart |-> Minus(common.start, q.start), msize |-> q.count,
         count |-> common.count, xbuf |-> xbuf]

\* Every block of every entry of the dataset that the block read meets.
SearchBlock(index, did, q, xbuf) ==
    FlattenSeq([i \in DOMAIN index |->
        LET met == SelectSeq(index[i].blocks, LAMBDA b : index[i].did = did /\ Meets(b, q))
        IN  [k \in DOMAIN met |-> Hit(index[i], met[k], q, xbuf)]])

\* A read: its blocks are kept one after the other, from address xbuf.
Search(index, did, sels, xbuf) ==
    FlattenSeq([k \in DOMAIN sels |->
        SearchBlock(index, did, sels[k],
                    xbuf + ESize[did] * SumFunction([j \in 1 .. k - 1 |-> NumElems(sels[j].count)]))])

\* The bytes each cell of block q gets from the entries it meets.
Found(index, q) ==
    LET hits == SearchBlock(index, q.did, q, 0)
        From(h) == LET part == Range(Cells([start |-> [i \in DOMAIN h.count |-> 0], count |-> h.count]))
                       Place(v) == h.foff + h.doff + h.esize * SelEncode(DSteps(h.dsize), Plus(h.dstart, v))
                   IN  {<<Plus(Plus(q.start, h.mstart), v), Place(v)>> : v \in part}
    IN  {<<f[1], IF f[2] + 1 \in DOMAIN data THEN data[f[2] + 1] ELSE <<>>>> :
            f \in UNION {From(hits[k]) : k \in DOMAIN hits}}

\* H5VL_log_nb_perform_read of a queue of reads: their blocks, the memory they
\* share, each behind the ones before it, and what is in it after the read.
Reads == UNION {Range(queue) : queue \in Queues}
ReadSels == [read \in Reads |-> Selected(read.sel, MaxDims[read.did])]
ReadBytes == [read \in Reads |-> ESize[read.did] * Len(CellsOf(ReadSels[read]))]
Address == [queue \in Queues |-> [k \in 1 .. Len(queue) + 1 |->
                SumFunction([j \in 1 .. k - 1 |-> ReadBytes[queue[j]]])]]

QueueHits(index, queue) ==
    FlattenSeq([k \in DOMAIN queue |->
        Search(index, queue[k].did, ReadSels[queue[k]], Address[queue][k])])
QueueMemory(plan, queue) ==
    Fetched(plan, [x \in 0 .. Address[queue][Len(queue) + 1] - 1 |-> <<>>], data)
-----------------------------------------------------------------------------
(***************************************************************************)
(* Properties                                                              *)
(***************************************************************************)
Entry == [did : Dids, rec : BOOLEAN, recnum : Nat, mul : BOOLEAN, enc : BOOLEAN, ref : BOOLEAN,
          body : Seq(Int), meta_off : Nat, foff : Nat, writes : Seq(Nat)]

\* The variables hold values of the C++ types they stand for, no more requests
\* are flushed than queued, and a dataset has at most one merged entry.
TypeOK ==
    /\ hist \in Seq(Requests)
    /\ wreqs \in Seq(Entry) /\ hash \in SUBSET Entry /\ mdsize \in Nat
    /\ nflushed \in 0 .. Len(wreqs)
    /\ extent \in [Dids -> Seq(Nat)] /\ dsteps \in [Dids -> Seq(Nat)]
    /\ mreqs \in [Dids -> Seq(Entry)] /\ \A d \in Dids : Len(mreqs[d]) <= 1
    /\ sections \in Seq(Seq(Entry))
    /\ \A i \in DOMAIN data : data[i][1] \in DOMAIN hist

\* The offset an entry computed its references with when it was queued
\* (meta_off, the running mdsize) is the offset it will have in the section,
\* for the entries the hash hands out too.
OffsetsPredicted ==
    /\ \A k \in DOMAIN wreqs : wreqs[k].meta_off = Position(wreqs, k)
    /\ \A t \in hash : Merge \/ t.writes = <<>> \/ \E k \in DOMAIN wreqs :
                            wreqs[k].meta_off = t.meta_off /\ wreqs[k].body = t.body

\* A reference stands at the distance it states behind an entry of the same
\* section that has a selection of its own (doc/metadata_format.md, ref_selection).
RefsLand ==
    \A s \in DOMAIN sections : \A k \in DOMAIN sections[s] :
        sections[s][k].ref => Target(sections[s], k) # {}

\* What the list index keeps of an entry are the blocks of the selection that
\* was written, and where in the entry's data the data of each block starts
\* (H5VL_logi_metaentry_decode, H5VL_logi_metaentry_ref_decode).
ListKeepsBlocks ==
    \A s \in DOMAIN sections : \A k \in DOMAIN sections[s] :
        LET q == hist[sections[s][k].writes[1]]
        IN  Len(sections[s][k].writes) = 1 =>
                ListBlocks(sections[s], k) = WithOffsets(Sels(q), ESize[q.did])

\* No write is waiting for a flush.
Settled == wreqs = <<>> /\ \A d \in Dids : mreqs[d] = <<>>

\* The order in which the application's cells and those of its memory go together.
Order == [q \in Requests |-> SelectionOrder(q.sel, MaxDims[q.did])]
Memory == [q \in Requests |-> SelectionOrder(q.mem, q.mdims)]

\* The first byte of every element written to a cell of the block read.
Written(q) ==
    UNION {{<<Order[hist[w]][n], <<w, Memory[hist[w]][n], 0>>>> :
               n \in {i \in DOMAIN Order[hist[w]] : Order[hist[w]][i] \in Range(Cells(q))}} :
              w \in {i \in DOMAIN hist : hist[i].did = q.did}}

\* A search of the list index leads to exactly the elements written: through
\* conversion, encoding, sharing or merging, decoding and intersecting, each
\* cell read gets the element the application put there in each write to it
\* (H5VL_log_dataseti_write, H5VL_logi_array_idx_t).
ListFindsWrites ==
    Settled => \A q \in Queries : Found(ListIndex, q) = Written(q)

\* The same of the compact index, the default one.
CompactFindsWrites ==
    Settled => \A q \in Queries : Found(CompactIndex, q) = Written(q)

\* What a read of did at cell c must get: the element of the last write to the
\* cell, nothing if there is none.
Latest(did, c) ==
    LET writes == {w \in DOMAIN hist : hist[w].did = did /\ c \in Range(Order[hist[w]])}
        last   == CHOOSE w \in writes : \A v \in writes : v <= w
        place  == CHOOSE n \in DOMAIN Order[hist[last]] : Order[hist[last]][n] = c
    IN  IF writes = {} THEN <<>> ELSE <<last, Memory[hist[last]][place], 0>>

ReadOrder == [read \in Reads |-> SelectionOrder(read.sel, MaxDims[read.did])]

\* Reads performed together get what each of them would get alone, whatever
\* part of the log they share: cell by cell, in the order of the selection,
\* the last write to it; and MPI is given a file type it accepts
\* (H5VL_log_dataset_readi_gen_rtypes, H5VL_log_nb_perform_read).
QueuedReadsCorrect ==
    Settled => \A queue \in Queues :
        \* Each of these three ranges over one value, which TLC then computes once.
        \A hits \in {QueueHits(CompactIndex, queue)} : \A plan \in {ReadPlan(hits)} :
        \A memory \in {QueueMemory(plan, queue)} :
            /\ InFileOrder(plan.pieces)
            /\ \A k \in DOMAIN queue : \A n \in DOMAIN ReadOrder[queue[k]] :
                  memory[Address[queue][k] + ESize[queue[k].did] * (n - 1)]
                      = Latest(queue[k].did, ReadOrder[queue[k]][n])
=============================================================================
