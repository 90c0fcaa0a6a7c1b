------------------------------ MODULE LogFile ------------------------------
(***************************************************************************)
(* One file of the log-based VOL opened by NP MPI ranks: queueing of write *)
(* requests, the flush that appends them as a log dataset, the flush of    *)
(* their metadata, the index, the collective read, close and reopen.       *)
(*                                                                         *)
(* A rank executes its own steps; a collective (MPI or HDF5 metadata) is   *)
(* one action that needs every rank waiting at it.  pc[r] names the next   *)
(* step of rank r inside the VOL call it is in, "app" when in none.        *)
(*                                                                         *)
(* Data is abstracted to blocks: a block is a selection of one dataset,    *)
(* two blocks are equal or disjoint, and the bytes of a write are its      *)
(* number (its position in the history hist).  The layout modelled is the  *)
(* default one: no subfiling, no aligned driver, unlimited metadata buffer.*)
(***************************************************************************)
EXTENDS Integers, Sequences, Functions

CONSTANTS
    NP,            \* fp->np
    Blocks,        \* selections of datasets
    NDset,         \* fp->ndset
    Dset,          \* the dataset id of a block
    Size,          \* bytes of a block (hdr->fsize, db.size)
    Merge,         \* H5VL_FILEI_CONFIG_METADATA_MERGE
    InOrder,       \* the library below allocates every log dataset beyond the earlier ones
    AllocFails,    \* the library below may leave a log dataset without a file address
    FlushFirst,    \* the application flushes before it reads
    UniformReads,  \* every rank reads the same selection
    Addrs,         \* bound: file addresses of log datasets when not InOrder
    MaxBytes,      \* bound: bytes one flush can write
    MaxWrites,     \* bound: writes of a behaviour
    MaxCalls       \* bound: collective calls of a behaviour

Ranks == 0 .. NP - 1

ASSUME NPAssumption == NP \in Nat \ {0}
ASSUME DsetAssumption == NDset \in Nat /\ Dset \in [Blocks -> 0 .. NDset - 1]
ASSUME SizeAssumption == Size \in [Blocks -> Nat \ {0}]
ASSUME ConfigAssumption ==
    /\ Merge \in BOOLEAN /\ InOrder \in BOOLEAN /\ AllocFails \in BOOLEAN
    /\ FlushFirst \in BOOLEAN /\ UniformReads \in BOOLEAN
ASSUME BoundAssumption ==
    /\ Addrs \subseteq Nat \ {0}
    /\ MaxBytes \in Nat /\ MaxWrites \in Nat /\ MaxCalls \in Nat

VARIABLES
    \* the application: what was called so far
    hist,       \* every accepted write: its rank, its block, the flushes before it
    prog,       \* the collective calls of the program, in order
    ncalls,     \* calls each rank has entered
    epoch,      \* flushes that wrote data
    \* H5VL_log_file_t, one per rank
    pc, cont,   \* next step; step after the flush of the writes
    wreqs,      \* fp->wreqs: requests whose metadata is not in the file
    mreqs,      \* fp->mreqs: merged requests by dataset
    nflushed,   \* fp->nflushed: requests of wreqs whose data is in the file
    cur,        \* loop index of the current step
    fsize,      \* fsize_local of the flush
    foff,       \* foff_group + doff of the flush
    rreqs,      \* fp->rreqs: queued reads
    rd, val,    \* selections being read; what was read for them
    metadirty, idxvalid, idx,
    nldset, nmdset,
    \* the file
    mode,       \* "rw" or "ro"
    eof,        \* end of the allocated file space
    disk,       \* log data written: address and write
    ldsets,     \* the _ld_<n> datasets: address and length, address 0 if not allocated
    mdsets,     \* the _md_<n> datasets: one section of entries per rank
    attr,       \* attribute _int_att of the file
    durable     \* writes accepted before the last completed close

appVars  == <<hist, prog, ncalls, epoch>>
reqVars  == <<wreqs, mreqs, nflushed, cur, fsize, foff>>
readVars == <<rreqs, rd, val>>
metaVars == <<metadirty, idxvalid, idx>>
numVars  == <<nldset, nmdset>>
fileVars == <<mode, eof, disk, ldsets, mdsets, attr, durable>>
vars == <<appVars, pc, cont, reqVars, readVars, metaVars, numVars, fileVars>>
-----------------------------------------------------------------------------
Ids     == 1 .. Len(hist)
BlkOf(i)  == hist[i].blk
SizeOf(i) == Size[BlkOf(i)]

Fill    == 0    \* no log entry: the fill value, or the buffer as it was
Garbage == -1   \* bytes of the file that no log dataset owns

\* H5VL_log_filei_get_num_pending_writes() > 0
Pending(r) == nflushed[r] < Len(wreqs[r]) \/ \E d \in 0 .. NDset - 1 : mreqs[r][d] # <<>>

\* Rank r's next collective is the same call as every other rank's.
At(step) == \A r \in Ranks : pc[r] = step

Goto(r, step) == pc' = [pc EXCEPT ![r] = step]

\* The operation rank r is in.
Op(r) == prog[ncalls[r]].op

Init ==
    /\ hist = <<>> /\ prog = <<>> /\ epoch = 0
    /\ ncalls = [r \in Ranks |-> 0]
    /\ pc = [r \in Ranks |-> "app"]
    /\ cont = [r \in Ranks |-> "app"]
    /\ wreqs = [r \in Ranks |-> <<>>]
    /\ mreqs = [r \in Ranks |-> [d \in 0 .. NDset - 1 |-> <<>>]]
    /\ nflushed = [r \in Ranks |-> 0]
    /\ cur = [r \in Ranks |-> 0]
    /\ fsize = [r \in Ranks |-> 0]
    /\ foff = [r \in Ranks |-> 0]
    /\ rreqs = [r \in Ranks |-> {}]
    /\ rd = [r \in Ranks |-> {}]
    /\ val = [r \in Ranks |-> [b \in Blocks |-> Fill]]
    /\ metadirty = [r \in Ranks |-> FALSE]
    /\ idxvalid = [r \in Ranks |-> FALSE]
    /\ idx = [r \in Ranks |-> {}]
    /\ nldset = [r \in Ranks |-> 0]
    /\ nmdset = [r \in Ranks |-> 0]
    /\ mode = "rw" /\ eof = 1
    /\ disk = {} /\ ldsets = <<>> /\ mdsets = <<>>
    /\ attr = [nldset |-> 0, nmdset |-> 0]
    /\ durable = 0
-----------------------------------------------------------------------------
(***************************************************************************)
(* The program.  Every rank makes the same sequence of collective calls    *)
(* (an MPI program has to); the first rank to make the next call fixes it. *)
(***************************************************************************)
Reading == {"read", "bread"}

\* No rank holds a write that no flush of the program has written.
FlushedBefore ==
    /\ prog # <<>> => prog[Len(prog)].op \in {"flush", "read", "close"}
    /\ \A q \in Ranks : ncalls[q] = Len(prog) => ~Pending(q)

\* The last call of a bounded behaviour is a close.
MayCall(op) ==
    /\ op # "close" => Len(prog) + 1 < MaxCalls
    /\ Len(prog) < MaxCalls
    /\ op = "read" /\ FlushFirst => FlushedBefore

Joins(r, op, sel) ==
    /\ pc[r] = "app"
    /\ IF ncalls[r] < Len(prog)
       THEN /\ prog[ncalls[r] + 1].op = op
            /\ UniformReads => prog[ncalls[r] + 1].sel = sel
            /\ UNCHANGED prog
       ELSE MayCall(op) /\ prog' = Append(prog, [op |-> op, sel |-> sel])
    /\ ncalls' = [ncalls EXCEPT ![r] = @ + 1]
    /\ UNCHANGED <<hist, epoch>>

\* With FlushFirst no rank writes between a flush and the read that follows it.
MayWrite(r) ==
    FlushFirst /\ ncalls[r] < Len(prog) => prog[ncalls[r] + 1].op # "read"
-----------------------------------------------------------------------------
\* H5Dwrite: queue the request, or append it to the dataset's merged request.
Write(r, b) ==
    /\ pc[r] = "app" /\ mode = "rw" /\ MayWrite(r)
    /\ Len(hist) < MaxWrites
    /\ hist' = Append(hist, [rank |-> r, blk |-> b, ep |-> epoch])
    /\ IF Merge
       THEN /\ mreqs' = [mreqs EXCEPT ![r][Dset[b]] = Append(@, Len(hist'))]
            /\ UNCHANGED wreqs
       ELSE /\ wreqs' = [wreqs EXCEPT ![r] = Append(@, [id |-> Len(hist'), foff |-> 0])]
            /\ UNCHANGED mreqs
    /\ UNCHANGED <<prog, ncalls, epoch, pc, cont, nflushed, cur, fsize, foff,
                   readVars, metaVars, numVars, fileVars>>

\* H5Fflush
CallFlush(r) ==
    /\ Joins(r, "flush", {})
    /\ Goto(r, "pending")
    /\ UNCHANGED <<cont, reqVars, readVars, metaVars, numVars, fileVars>>

\* Wrong variant: no implicit flush.
NeverFlushes(r) == FALSE

\* A blocking read flushes the pending writes in a run of one rank only: the
\* other condition of the code, a collective transfer mode, is tested on the
\* file's own transfer property list, which nothing sets.
FlushesBeforeRead(r) == NP = 1

\* H5Dread of a selection of one dataset, blocking.  An empty selection
\* returns at once.
CallRead(r, sel) ==
    /\ Joins(r, "read", sel)
    /\ rd' = [rd EXCEPT ![r] = sel]
    /\ Goto(r, IF sel = {} THEN "app" ELSE IF FlushesBeforeRead(r) THEN "pending" ELSE "search")
    /\ UNCHANGED <<cont, reqVars, rreqs, val, metaVars, numVars, fileVars>>

\* H5Dread with H5Pset_buffered: the request is queued until the next flush.
CallBufferedRead(r, sel) ==
    /\ Joins(r, "bread", sel)
    /\ rreqs' = [rreqs EXCEPT ![r] = @ \cup sel]
    /\ UNCHANGED <<pc, cont, reqVars, rd, val, metaVars, numVars, fileVars>>

\* H5Fclose
CallClose(r) ==
    /\ Joins(r, "close", {})
    /\ IF mode = "ro"
       THEN Goto(r, "closing") /\ UNCHANGED <<cont, cur>>
       ELSE /\ Goto(r, "push")
            /\ cur' = [cur EXCEPT ![r] = 0]
            /\ cont' = [cont EXCEPT ![r] = "gather"]
    /\ UNCHANGED <<wreqs, mreqs, nflushed, fsize, foff, readVars, metaVars, numVars, fileVars>>
-----------------------------------------------------------------------------
(***************************************************************************)
(* H5VL_log_filei_flush and the flush of a blocking read: the ranks agree  *)
(* on whether anyone has pending writes or queued reads.                   *)
(***************************************************************************)
\* Wrong variant: without the reduction.
OwnWrites(r) == Pending(r)

\* What rank r holds after MPI_Allreduce with MPI_MAX: num_reqs[0] > 0 and
\* num_reqs[1] > 0.
AnyWrites(r) == \E q \in Ranks : Pending(q)
AnyReads(r)  == \E q \in Ranks : rreqs[q] # {}

AfterWrites(r) == IF Op(r) = "read" \/ AnyReads(r) THEN "search" ELSE "app"

AllreducePending ==
    /\ At("pending")
    /\ pc' = [r \in Ranks |-> IF AnyWrites(r) THEN "push" ELSE AfterWrites(r)]
    /\ cont' = [r \in Ranks |-> AfterWrites(r)]
    /\ cur' = [r \in Ranks |-> 0]
    /\ rd' = [r \in Ranks |-> IF Op(r) = "read" THEN rd[r] ELSE rreqs[r]]
    /\ UNCHANGED <<appVars, wreqs, mreqs, nflushed, fsize, foff, rreqs, val,
                   metaVars, numVars, fileVars>>

(***************************************************************************)
(* H5VL_log_nb_flush_write_reqs                                            *)
(***************************************************************************)
\* Wrong variant: every flush starts over.
FirstRequest(r) == 0

\* Requests before this one keep the file offset of an earlier flush.
FirstUnflushed(r) == nflushed[r]

\* One iteration of the loop that queues the merged requests, which skips the
\* datasets without any; then the loop over the unflushed requests starts.
PushMerged(r) ==
    /\ pc[r] = "push"
    /\ \/ \E d \in 0 .. NDset - 1 :
            LET m == mreqs[r][d] IN
            /\ m # <<>> /\ \A e \in 0 .. d - 1 : mreqs[r][e] = <<>>
            /\ wreqs' = [wreqs EXCEPT ![r] =
                             @ \o [k \in 1 .. Len(m) |-> [id |-> m[k], foff |-> 0]]]
            /\ mreqs' = [mreqs EXCEPT ![r][d] = <<>>]
            /\ UNCHANGED <<pc, cur, fsize>>
       \/ /\ \A d \in 0 .. NDset - 1 : mreqs[r][d] = <<>>
          /\ Goto(r, "pack")
          /\ cur' = [cur EXCEPT ![r] = FirstUnflushed(r)]
          /\ fsize' = [fsize EXCEPT ![r] = 0]
          /\ UNCHANGED <<wreqs, mreqs>>
    /\ UNCHANGED <<appVars, cont, nflushed, foff, readVars, metaVars, numVars, fileVars>>

\* One iteration of the loop that lays the unflushed requests out one after
\* the other and counts their bytes.
Pack(r) ==
    /\ pc[r] = "pack"
    /\ IF cur[r] < Len(wreqs[r])
       THEN LET k == cur[r] + 1 IN
            /\ wreqs' = [wreqs EXCEPT ![r][k].foff = fsize[r]]
            /\ fsize' = [fsize EXCEPT ![r] = @ + SizeOf(wreqs[r][k].id)]
            /\ cur' = [cur EXCEPT ![r] = k]
            /\ UNCHANGED pc
       ELSE Goto(r, "scan") /\ UNCHANGED <<wreqs, fsize, cur>>
    /\ UNCHANGED <<appVars, cont, mreqs, nflushed, foff, readVars, metaVars, numVars, fileVars>>

\* MPI_Exscan and MPI_Allreduce with MPI_SUM: offs[r] is the sum over the
\* ranks below r, offs[NP] the sum over all of them.
IsPrefixSum(offs, len) ==
    offs[0] = 0 /\ \A r \in Ranks : offs[r + 1] = offs[r] + len[r]

\* Two file ranges share no byte.
Apart(o1, l1, o2, l2) == o1 + l1 <= o2 \/ o2 + l2 <= o1

\* H5VLdataset_create with early allocation, by the library below: an address
\* range that no log dataset has (not modelled from src/; address 0 is the
\* superblock's), or none at all.
MayAllocate(addr, len) ==
    \/ /\ addr > 0
       /\ IF InOrder THEN addr = eof ELSE addr \in Addrs
       /\ \A n \in 1 .. Len(ldsets) :
            ldsets[n].addr > 0 => Apart(addr, len, ldsets[n].addr, ldsets[n].len)
    \/ AllocFails /\ addr = 0

\* The ranks sum their sizes, create the log dataset and get its address; if
\* nobody has anything to write the flush is over.  A log dataset the library
\* below does not allocate keeps address 0 (the data is then discarded).
ScanAndCreate ==
    /\ At("scan")
    /\ \E offs \in [0 .. NP -> 0 .. MaxBytes] :
         /\ IsPrefixSum(offs, fsize)
         /\ IF offs[NP] = 0
            THEN /\ pc' = cont
                 /\ UNCHANGED <<foff, ldsets, eof, epoch>>
            ELSE \E doff \in Addrs \cup {0, eof} :
                 /\ MayAllocate(doff, offs[NP])
                 /\ \A r \in Ranks : nldset[r] = Len(ldsets)   \* _ld_<nldset> is a new name
                 /\ ldsets' = Append(ldsets, [addr |-> doff, len |-> offs[NP]])
                 /\ eof' = IF doff + offs[NP] > eof THEN doff + offs[NP] ELSE eof
                 /\ foff' = [r \in Ranks |-> offs[r] + doff]
                 /\ pc' = [r \in Ranks |-> "write"]
                 /\ epoch' = epoch + 1
    /\ UNCHANGED <<hist, prog, ncalls, cont, wreqs, mreqs, nflushed, cur, fsize, readVars,
                   metaVars, numVars, mode, disk, mdsets, attr, durable>>

\* MPI_File_write_at_all of the rank's blocks at foff_group + doff, nothing if
\* the dataset has no address; then the requests get their file offsets.
WriteData(r) ==
    /\ pc[r] = "write"
    /\ LET Flushed == {k \in 1 .. Len(wreqs[r]) : k > nflushed[r]}
           failed  == ldsets[Len(ldsets)].addr = 0
       IN  /\ disk' = IF failed THEN disk
                      ELSE disk \cup {[off |-> foff[r] + wreqs[r][k].foff, id |-> wreqs[r][k].id] :
                                      k \in Flushed}
           /\ wreqs' = [wreqs EXCEPT ![r] =
                           [k \in 1 .. Len(wreqs[r]) |->
                              IF k \in Flushed
                              THEN [id |-> wreqs[r][k].id, foff |-> wreqs[r][k].foff + foff[r]]
                              ELSE wreqs[r][k]]]
    /\ nflushed' = [nflushed EXCEPT ![r] = Len(wreqs[r])]
    /\ nldset' = [nldset EXCEPT ![r] = @ + 1]
    /\ metadirty' = [metadirty EXCEPT ![r] = TRUE]
    /\ Goto(r, cont[r])
    /\ UNCHANGED <<appVars, cont, mreqs, cur, fsize, foff, readVars, idxvalid, idx, nmdset,
                   mode, eof, ldsets, mdsets, attr, durable>>
-----------------------------------------------------------------------------
(***************************************************************************)
(* H5VL_log_filei_metaflush                                                *)
(***************************************************************************)
\* The ranks gather the sizes of their metadata; if there is any, they create
\* the metadata dataset with one section per rank.
GatherAndCreate ==
    /\ At("gather")
    /\ IF \A r \in Ranks : wreqs[r] = <<>>
       THEN /\ pc' = [r \in Ranks |-> "clean"]
            /\ UNCHANGED <<mdsets, nmdset>>
       ELSE /\ \A r \in Ranks : nmdset[r] = Len(mdsets)        \* _md_<nmdset> is a new name
            /\ mdsets' = Append(mdsets, [r \in Ranks |-> {}])
            /\ nmdset' = [r \in Ranks |-> nmdset[r] + 1]
            /\ pc' = [r \in Ranks |-> "section"]
    /\ UNCHANGED <<appVars, cont, reqVars, readVars, metaVars, nldset,
                   mode, eof, disk, ldsets, attr, durable>>

\* Wrong variant: one request short.
AllButLastEntry(r) == {wreqs[r][k] : k \in 1 .. Len(wreqs[r]) - 1}

\* The metadata entries of a rank's section: all its requests.
MetaEntries(r) == Range(wreqs[r])

WriteSection(r) ==
    /\ pc[r] = "section"
    /\ mdsets' = [mdsets EXCEPT ![nmdset[r]][r] = MetaEntries(r)]
    /\ Goto(r, "barrier")
    /\ UNCHANGED <<appVars, cont, reqVars, readVars, metaVars, numVars,
                   mode, eof, disk, ldsets, attr, durable>>

MetaBarrier ==
    /\ At("barrier")
    /\ pc' = [r \in Ranks |-> "clean"]
    /\ UNCHANGED <<appVars, cont, reqVars, readVars, metaVars, numVars, fileVars>>

\* Wrong variant: nflushed is not reset.
MetaCleanKeepsCount(r) ==
    /\ pc[r] = "clean"
    /\ wreqs' = [wreqs EXCEPT ![r] = <<>>]
    /\ metadirty' = [metadirty EXCEPT ![r] = FALSE]
    /\ idxvalid' = [idxvalid EXCEPT ![r] = FALSE]
    /\ Goto(r, IF Op(r) = "close" THEN "closing" ELSE "search")
    /\ UNCHANGED <<appVars, cont, mreqs, nflushed, cur, fsize, foff, readVars, idx, numVars,
                   fileVars>>

\* The requests are deleted and the index has to be read again.
MetaClean(r) ==
    /\ pc[r] = "clean"
    /\ wreqs' = [wreqs EXCEPT ![r] = <<>>]
    /\ nflushed' = [nflushed EXCEPT ![r] = 0]
    /\ metadirty' = [metadirty EXCEPT ![r] = FALSE]
    /\ idxvalid' = [idxvalid EXCEPT ![r] = FALSE]
    /\ Goto(r, IF Op(r) = "close" THEN "closing" ELSE "search")
    /\ UNCHANGED <<appVars, cont, mreqs, cur, fsize, foff, readVars, idx, numVars, fileVars>>
-----------------------------------------------------------------------------
(***************************************************************************)
(* H5VL_log_nb_perform_read                                                *)
(***************************************************************************)
\* Entries of the first n metadata datasets.
EntriesIn(n) == UNION {mdsets[k][r] : k \in 1 .. n, r \in Ranks}

\* Wrong variant: a rank reads only the sections it wrote.
LoadOwnSections(r) == UNION {mdsets[k][r] : k \in 1 .. nmdset[r]}

\* H5VL_log_filei_metaupdate: the index of every section of every metadata dataset.
LoadIndex(r) == EntriesIn(nmdset[r])

\* The index entries a selection intersects.
Hits(entries, sel) == {e \in entries : BlkOf(e.id) \in sel}

\* Flush dirty metadata first; else load the index if it is not valid and
\* search it.  Only a rank with hits sets a file view.
Search(r) ==
    /\ pc[r] = "search"
    /\ IF metadirty[r]
       THEN Goto(r, "gather") /\ UNCHANGED <<idx, idxvalid>>
       ELSE /\ idx' = [idx EXCEPT ![r] = IF idxvalid[r] THEN @ ELSE LoadIndex(r)]
            /\ idxvalid' = [idxvalid EXCEPT ![r] = TRUE]
            /\ Goto(r, IF Hits(idx'[r], rd[r]) # {} THEN "view" ELSE "readall")
    /\ UNCHANGED <<appVars, cont, reqVars, readVars, metadirty, numVars, fileVars>>

\* MPI_File_set_view is collective.
SetView ==
    /\ At("view")
    /\ pc' = [r \in Ranks |-> "readall"]
    /\ UNCHANGED <<appVars, cont, reqVars, readVars, metaVars, numVars, fileVars>>

\* The bytes at an address of the file.
DataAt(off) ==
    IF \E x \in disk : x.off = off THEN (CHOOSE x \in disk : x.off = off).id ELSE Garbage

\* Wrong variant: the order reversed.
FirstRead(hits) == CHOOSE e \in hits : \A f \in hits : f.foff >= e.foff

\* The blocks found are read in the order of their file offsets, so the one
\* at the highest offset is what remains in the user's buffer.
LastRead(hits) == CHOOSE e \in hits : \A f \in hits : f.foff <= e.foff

ReadBlock(r, b) ==
    LET hits == Hits(idx[r], {b})
    IN  IF hits = {} THEN Fill
        ELSE DataAt(LastRead(hits).foff)

\* MPI_File_read_at_all, then the copy to the user's buffers.  The view is
\* restored by the ranks that set one.
ReadAll ==
    /\ At("readall")
    /\ val' = [r \in Ranks |-> [b \in Blocks |-> IF b \in rd[r] THEN ReadBlock(r, b) ELSE Fill]]
    /\ pc' = [r \in Ranks |-> IF Hits(idx[r], rd[r]) # {} THEN "unview" ELSE "return"]
    /\ UNCHANGED <<appVars, cont, reqVars, rreqs, rd, metaVars, numVars, fileVars>>

RestoreView ==
    /\ At("unview")
    /\ pc' = [r \in Ranks |-> "return"]
    /\ UNCHANGED <<appVars, cont, reqVars, readVars, metaVars, numVars, fileVars>>

\* The read call, or the flush that performed the queued reads, returns.
Return(r) ==
    /\ pc[r] = "return"
    /\ rreqs' = [rreqs EXCEPT ![r] = IF Op(r) = "flush" THEN {} ELSE @]
    /\ rd' = [rd EXCEPT ![r] = {}]
    /\ val' = [val EXCEPT ![r] = [b \in Blocks |-> Fill]]
    /\ Goto(r, "app")
    /\ UNCHANGED <<appVars, cont, reqVars, metaVars, numVars, fileVars>>
-----------------------------------------------------------------------------
(***************************************************************************)
(* H5VL_log_filei_close, H5VL_log_filei_post_open                          *)
(***************************************************************************)
\* Wrong variants: a counter is not updated.
AttrOldMeta == [nldset |-> nldset[0], nmdset |-> attr.nmdset]
AttrOldData == [nldset |-> attr.nldset, nmdset |-> nmdset[0]]

\* attbuf[1] and attbuf[2]; every rank writes the same values.
AttrAtClose == [nldset |-> nldset[0], nmdset |-> nmdset[0]]

\* A file open for writing gets its attribute; then everything is closed.
\* Queued reads are dropped with the rest of the file object.
CloseFile ==
    /\ At("closing")
    /\ IF mode = "rw"
       THEN /\ attr' = AttrAtClose
            /\ durable' = Len(hist)
       ELSE UNCHANGED <<attr, durable>>
    /\ rreqs' = [r \in Ranks |-> {}]
    /\ pc' = [r \in Ranks |-> "closed"]
    /\ UNCHANGED <<appVars, cont, reqVars, rd, val, metaVars, numVars,
                   mode, eof, disk, ldsets, mdsets>>

\* A later H5Fopen: a new file object, its counters from the attribute.
OpenFile(m) ==
    /\ At("closed") /\ Len(prog) < MaxCalls
    /\ mode' = m
    /\ pc' = [r \in Ranks |-> "app"]
    /\ wreqs' = [r \in Ranks |-> <<>>]
    /\ mreqs' = [r \in Ranks |-> [d \in 0 .. NDset - 1 |-> <<>>]]
    /\ nflushed' = [r \in Ranks |-> 0]
    /\ metadirty' = [r \in Ranks |-> FALSE]
    /\ idxvalid' = [r \in Ranks |-> FALSE]
    /\ idx' = [r \in Ranks |-> {}]
    /\ nldset' = [r \in Ranks |-> attr.nldset]
    /\ nmdset' = [r \in Ranks |-> attr.nmdset]
    /\ UNCHANGED <<appVars, cont, cur, fsize, foff, readVars, eof, disk, ldsets, mdsets,
                   attr, durable>>

\* The program has closed the file and does not open it again.
Finished == At("closed") /\ UNCHANGED vars
-----------------------------------------------------------------------------
\* Selections an H5Dread call can have: blocks of one dataset.
Selections == {s \in SUBSET Blocks : /\ \A b, c \in s : Dset[b] = Dset[c]
                                     /\ UniformReads => s # {}}

Call(r) ==
    \/ CallFlush(r)
    \/ \E s \in Selections : CallRead(r, s)
    \/ \E s \in Selections \ {{}} : CallBufferedRead(r, s)
    \/ CallClose(r)

LocalStep(r) ==
    \/ PushMerged(r)
    \/ Pack(r)
    \/ WriteData(r)
    \/ WriteSection(r)
    \/ MetaClean(r)
    \/ Search(r)
    \/ Return(r)

Collective ==
    \/ AllreducePending
    \/ ScanAndCreate
    \/ GatherAndCreate
    \/ MetaBarrier
    \/ SetView
    \/ ReadAll
    \/ RestoreView
    \/ CloseFile

Next ==
    \/ \E r \in Ranks :
         \/ \E b \in Blocks : Write(r, b)
         \/ Call(r)
         \/ LocalStep(r)
    \/ Collective
    \/ \E m \in {"rw", "ro"} : OpenFile(m)
    \/ Finished

Spec == Init /\ [][Next]_vars

\* A rank inside the VOL keeps running, a collective every rank has reached
\* completes, and a rank makes the calls the other ranks have made.
Fairness ==
    /\ \A r \in Ranks : WF_vars(LocalStep(r))
    /\ \A r \in Ranks : WF_vars(ncalls[r] < Len(prog) /\ Call(r))
    /\ WF_vars(Collective)

FairSpec == Spec /\ Fairness
-----------------------------------------------------------------------------
(***************************************************************************)
(* Properties                                                              *)
(***************************************************************************)
Steps == {"app", "pending", "push", "pack", "scan", "write", "gather", "section", "barrier",
          "clean", "search", "view", "readall", "unview", "return", "closing", "closed"}

WriteRecord == [rank : Ranks, blk : Blocks, ep : Nat]
CallRecord  == [op : {"flush", "close"} \cup Reading, sel : SUBSET Blocks]
Request     == [id : Nat, foff : Nat]

AppType ==
    /\ hist \in Seq(WriteRecord) /\ prog \in Seq(CallRecord)
    /\ ncalls \in [Ranks -> Nat] /\ epoch \in Nat
    /\ \A r \in Ranks : ncalls[r] <= Len(prog)
StepType == pc \in [Ranks -> Steps] /\ cont \in [Ranks -> Steps]
ReqType ==
    /\ wreqs \in [Ranks -> Seq(Request)]
    /\ mreqs \in [Ranks -> [0 .. NDset - 1 -> Seq(Nat)]]
    /\ nflushed \in [Ranks -> Nat]
    /\ \A r \in Ranks : nflushed[r] <= Len(wreqs[r])
    /\ cur \in [Ranks -> Nat] /\ fsize \in [Ranks -> Nat] /\ foff \in [Ranks -> Nat]
ReadType ==
    /\ rreqs \in [Ranks -> SUBSET Blocks] /\ rd \in [Ranks -> SUBSET Blocks]
    /\ val \in [Ranks -> [Blocks -> Int]]
MetaType ==
    /\ metadirty \in [Ranks -> BOOLEAN] /\ idxvalid \in [Ranks -> BOOLEAN]
    /\ idx \in [Ranks -> SUBSET Request]
NumType == nldset \in [Ranks -> Nat] /\ nmdset \in [Ranks -> Nat]
FileType ==
    /\ mode \in {"rw", "ro"} /\ eof \in Nat \ {0}
    /\ disk \in SUBSET [off : Nat, id : Nat]
    /\ ldsets \in Seq([addr : Nat, len : Nat])
    /\ mdsets \in Seq([Ranks -> SUBSET Request])
    /\ attr \in [nldset : Nat, nmdset : Nat]
    /\ durable \in Nat

\* The variables hold values of the C++ types they stand for, and no rank has
\* flushed more requests than it has queued (the unsigned difference
\* wreqs.size() - nflushed of H5VL_log_filei_get_num_pending_writes).
TypeOK ==
    AppType /\ StepType /\ ReqType /\ ReadType /\ MetaType /\ NumType /\ FileType

\* The bytes of write i are at off and no other log data overlaps them.
HasData(i, off) ==
    /\ [off |-> off, id |-> i] \in disk
    /\ \A x \in disk : x.id = i \/ Apart(off, SizeOf(i), x.off, SizeOf(x.id))

\* Write i is still queued by its rank.
Queued(i) ==
    LET r == hist[i].rank IN
    \/ \E d \in 0 .. NDset - 1 : i \in Range(mreqs[r][d])
    \/ \E k \in 1 .. Len(wreqs[r]) : wreqs[r][k].id = i

\* One of the first n metadata datasets has an entry of write i.
Recorded(i, n) == \E e \in EntriesIn(n) : e.id = i

\* Every request marked flushed and every entry of a metadata dataset gives
\* the file offset of that write's own bytes: the running offsets of the
\* flush, the offsets between ranks (MPI_Exscan) and the address of the log
\* dataset fit together, for every interleaving of the ranks' writes.
LogIntact ==
    /\ \A r \in Ranks : \A k \in 1 .. nflushed[r] : HasData(wreqs[r][k].id, wreqs[r][k].foff)
    /\ \A e \in EntriesIn(Len(mdsets)) : HasData(e.id, e.foff)

\* A write accepted by H5Dwrite is queued by its rank or has an entry in a
\* metadata dataset: no flush, read, metadata flush, close or reopen drops the
\* request.  (Where its bytes are is LogIntact's business.)
NoWriteLost == \A i \in Ids : Queued(i) \/ Recorded(i, Len(mdsets))

\* Write j supersedes write i: it was issued after a flush that wrote i, or
\* later by the same rank.
Supersedes(j, i) ==
    \/ hist[i].ep < hist[j].ep
    \/ hist[i].rank = hist[j].rank /\ i < j

\* A read returns, for every block, the bytes of a write to it that no other
\* write supersedes among those flushed by anyone or issued by the reader, and
\* leaves the block alone if there is none.
ReadReturnsLatest ==
    \A r \in Ranks : pc[r] \in {"unview", "return"} =>
        \A b \in rd[r] :
            LET before == {i \in Ids : BlkOf(i) = b /\ (hist[i].ep < epoch \/ hist[i].rank = r)}
            IN  IF before = {} THEN val[r][b] = Fill
                ELSE /\ val[r][b] \in before
                     /\ \A j \in before : ~Supersedes(j, val[r][b])

Waits == {"pending", "scan", "gather", "barrier", "view", "readall", "unview", "closing"}

\* Two ranks that wait in a collective wait in the same collective of the
\* same call (otherwise both wait for ever).
CollectivesMatch ==
    \A r, q \in Ranks : pc[r] \in Waits /\ pc[q] \in Waits =>
        pc[r] = pc[q] /\ ncalls[r] = ncalls[q]

\* Everything accepted before a completed close stays readable through the
\* attribute on disk, whatever a later session does and wherever it stops.
ClosedStaysReadable ==
    \A i \in 1 .. durable : \E e \in EntriesIn(attr.nmdset) : e.id = i /\ HasData(i, e.foff)

\* The ranks number the log and metadata datasets alike when they create one,
\* and never give an existing name: the counters follow the file over closes
\* and reopens.
NamesAreNew ==
    /\ At("scan") => \A r \in Ranks : nldset[r] = Len(ldsets)
    /\ At("gather") => \A r \in Ranks : nmdset[r] = Len(mdsets)

\* The requests of a flush whose log dataset the library below could not
\* allocate, "discarded" by the code, do not appear in the metadata.
DiscardedNotRecorded ==
    \A e \in EntriesIn(Len(mdsets)) : \E x \in disk : x.id = e.id

\* Every collective call that is entered returns.
CallsReturn == \A r \in Ranks : pc[r] # "app" ~> pc[r] \in {"app", "closed"}
=============================================================================
