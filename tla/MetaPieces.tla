------------------------------ MODULE MetaPieces ------------------------------
(***************************************************************************)
(* Reading the metadata of a file with an index buffer of limited size     *)
(* (H5VL_LOG_IDX_BSIZE).  Every metadata dataset _md_<n> has one section   *)
(* per process that wrote it; a table at its start says where each ends.   *)
(* A read goes through all datasets, a piece of whole sections at a time:  *)
(* the index is cleared, the piece parsed, the requests searched in it.    *)
(* Sections are numbered from 0, sizes are in units of a table entry.      *)
(***************************************************************************)
EXTENDS Integers, Sequences

CONSTANTS
    Unlimited,   \* LOG_VOL_BSIZE_UNLIMITED
    Buffers,     \* sizes of the index buffer
    Widths,      \* numbers of processes that write metadata together
    MaxSize,     \* bound: size of a process's metadata
    MaxSets      \* bound: metadata datasets

ASSUME PiecesAssumption ==
    /\ Unlimited \notin Nat
    /\ Buffers \subseteq Nat \cup {Unlimited}
    /\ Widths \subseteq Nat \ {0} /\ MaxSize \in Nat /\ MaxSets \in Nat

VARIABLES
    mbuf_size,   \* the buffer of this session
    mds,         \* the datasets: number of sections, and where each ends
    metadirty,   \* there are entries not written yet
    idxvalid,    \* the index is up to date
    idx,         \* sections in the index
    st,          \* "idle", "part": within a read, "done", "error"
    md, sec,     \* dataset and section the read is at
    searched     \* sections searched by this read

vars == <<mbuf_size, mds, metadirty, idxvalid, idx, st, md, sec, searched>>

nmdset == Len(mds)
nsec(m) == mds[m + 1].nsec
offs(m, s) == mds[m + 1].offs[s]
\* The first section starts after the table.
Start(m, s) == IF s = 0 THEN nsec(m) + 1 ELSE offs(m, s - 1)

\* Sections of a dataset, and of all.
In(m, ss) == {<<m, s>> : s \in ss}
All == UNION {In(m, 0 .. nsec(m) - 1) : m \in 0 .. nmdset - 1}

\* Where the sections of n processes end: the first one behind a table with an
\* entry for each and one for their number, the others behind the one before.
Tables(n) ==
    {o \in [0 .. n - 1 -> n + 1 .. n + 1 + n * MaxSize] :
        \A s \in 0 .. n - 1 : o[s] - (IF s = 0 THEN n + 1 ELSE o[s - 1]) \in 0 .. MaxSize}

\* Metadata is written, if some process of those that flush together has any.
Metaflush ==
    \E n \in Widths : \E o \in Tables(n) :
        mds' = IF o[n - 1] > n + 1 THEN Append(mds, [nsec |-> n, offs |-> o]) ELSE mds

Idle == st # "part"

\* Data is flushed: its metadata is to be written before the next read.
WriteData ==
    /\ Idle /\ nmdset < MaxSets
    /\ metadirty' = TRUE
    /\ UNCHANGED <<mbuf_size, mds, idxvalid, idx, st, md, sec, searched>>

\* The file is closed and opened again, with another buffer.
Reopen ==
    /\ Idle
    /\ IF metadirty THEN Metaflush ELSE UNCHANGED mds
    /\ mbuf_size' \in Buffers
    /\ metadirty' = FALSE /\ idxvalid' = FALSE /\ idx' = {}
    /\ st' = "idle" /\ md' = 0 /\ sec' = 0 /\ searched' = {}

\* read_idx_search: metadata is flushed, then everything is loaded and
\* searched, or the read starts at the first section of the first dataset.
ReadStart ==
    /\ Idle
    /\ IF metadirty THEN Metaflush ELSE UNCHANGED mds
    /\ metadirty' = FALSE
    /\ IF mbuf_size = Unlimited
       THEN /\ idx' = IF idxvalid /\ ~metadirty THEN idx ELSE All'
            /\ idxvalid' = TRUE
            /\ searched' = idx'
            /\ st' = "done" /\ UNCHANGED <<md, sec>>
       ELSE /\ idxvalid' = (idxvalid /\ ~metadirty)
            /\ searched' = {} /\ UNCHANGED idx
            /\ st' = "part" /\ md' = 0 /\ sec' = 0
    /\ UNCHANGED mbuf_size

\* The sections from sec on that fit, one at least.
Fits(i) ==
    /\ i < nsec(md) => offs(md, i) - Start(md, sec) > mbuf_size
    /\ \A j \in sec + 1 .. i - 1 : offs(md, j) - Start(md, sec) =< mbuf_size

\* Wrong variant: The number of the section is not reset.
AdvanceKeepsSec(i) ==
    LET m == IF i >= nsec(md) THEN md + 1 ELSE md
    IN /\ sec' = i
       /\ md' = IF m >= nmdset THEN -1 ELSE m
\* Wrong variant: Go on with the last section that was loaded.
AdvanceOneLess(i) ==
    LET m == IF i >= nsec(md) THEN md + 1 ELSE md
    IN /\ sec' = IF i >= nsec(md) THEN 0 ELSE i - 1
       /\ md' = IF m >= nmdset THEN -1 ELSE m
\* Wrong variant: The end is one dataset further.
AdvancePastLast(i) ==
    LET m == IF i >= nsec(md) THEN md + 1 ELSE md
    IN /\ sec' = IF i >= nsec(md) THEN 0 ELSE i
       /\ md' = IF m > nmdset THEN -1 ELSE m

\* Go on behind section i - 1.
Advance(i) ==
    LET m == IF i >= nsec(md) THEN md + 1 ELSE md
    IN /\ sec' = IF i >= nsec(md) THEN 0 ELSE i
       /\ md' = IF m >= nmdset THEN -1 ELSE m

\* Wrong variant: Also the first section has to fit.
MetaupdatePartNone ==
    /\ st = "part" /\ md < nmdset
    /\ \E i \in sec .. nsec(md) :
         /\ i < nsec(md) => offs(md, i) - Start(md, sec) > mbuf_size
         /\ \A j \in sec .. i - 1 : offs(md, j) - Start(md, sec) =< mbuf_size
         /\ idx' = In(md, sec .. i - 1)
         /\ searched' = searched \cup idx'
         /\ Advance(i)
    /\ st' = IF md' = -1 THEN "done" ELSE "part"
    /\ UNCHANGED <<mbuf_size, mds, metadirty, idxvalid>>

\* metaupdate_part, and the search in what it loaded.
MetaupdatePart ==
    /\ st = "part" /\ md < nmdset
    /\ \E i \in sec + 1 .. nsec(md) :
         /\ Fits(i)
         /\ idx' = In(md, sec .. i - 1)
         /\ searched' = searched \cup idx'
         /\ Advance(i)
    /\ st' = IF md' = -1 THEN "done" ELSE "part"
    /\ UNCHANGED <<mbuf_size, mds, metadirty, idxvalid>>

\* The dataset does not exist: the read fails.
NoDataset ==
    /\ st = "part" /\ md >= nmdset
    /\ idx' = {} /\ st' = "error"
    /\ UNCHANGED <<mbuf_size, mds, metadirty, idxvalid, md, sec, searched>>

Init ==
    /\ mbuf_size \in Buffers
    /\ mds = <<>> /\ metadirty = FALSE /\ idxvalid = FALSE /\ idx = {}
    /\ st = "idle" /\ md = 0 /\ sec = 0 /\ searched = {}

Part == MetaupdatePart \/ NoDataset
Next == WriteData \/ Reopen \/ ReadStart \/ Part

Spec == Init /\ [][Next]_vars

\* A read that has started goes on.
FairSpec == Spec /\ WF_vars(Part)
-----------------------------------------------------------------------------
Dataset == UNION {[nsec : {n}, offs : Tables(n)] : n \in Widths}
\* The place a read is at exists, when there is any metadata (md, sec).
TypeOK ==
    /\ mbuf_size \in Buffers
    /\ mds \in Seq(Dataset)
    /\ metadirty \in BOOLEAN /\ idxvalid \in BOOLEAN
    /\ st \in {"idle", "part", "done", "error"}
    /\ md \in Int /\ md >= -1 /\ (md > 0 => md < nmdset)
    /\ sec \in Nat
    /\ searched \subseteq Int \X Int /\ idx \subseteq Int \X Int

\* A read that returns has searched every section of every dataset, whatever
\* the sizes of the sections and of the buffer; one that fails had no metadata
\* to search (metaupdate_part and the loop around it).
SearchedAll ==
    /\ st = "done" => searched = All
    /\ st = "error" => nmdset = 0

\* No section is searched twice: blocks found twice would be read twice.
SearchedOnce ==
    [][st = "part" /\ st' # "error" => idx' # {} /\ idx' \cap searched = {}]_vars

\* A read comes to an end, also when a section is larger than the buffer.
ReadEnds == st = "part" ~> st # "part"
=============================================================================
