--------------------------- MODULE MetaPiecesProofs ---------------------------
(***************************************************************************)
(* Theorems about MetaPieces, for every size of the buffer, any number of  *)
(* metadata datasets and any sizes of their sections.                      *)
(***************************************************************************)
EXTENDS MetaPieces, TLAPS

\* The sections a read has behind it when it is at section s of dataset m.
Earlier(m) == UNION {In(k, 0 .. nsec(k) - 1) : k \in 0 .. m - 1}
Before(m, s) == Earlier(m) \cup In(m, 0 .. s - 1)

\* An index of a session without a limit is complete; a read is at a section
\* that exists, if any does, and has searched those before it.
IdxInv == idxvalid => mbuf_size = Unlimited /\ idx = All
PlaceInv ==
    st = "part" =>
        /\ ~idxvalid /\ md >= 0
        /\ nmdset > 0 => /\ md < nmdset /\ sec < nsec(md)
                         /\ searched = Before(md, sec)
Inv == TypeOK /\ IdxInv /\ PlaceInv /\ SearchedAll
-----------------------------------------------------------------------------
(***************************************************************************)
(* Sections                                                                *)
(***************************************************************************)
\* A metadata dataset has a section for every process that wrote it.
LEMMA HasSections ==
  ASSUME NEW ms \in Seq(Dataset), NEW k \in 1 .. Len(ms)
  PROVE  ms[k].nsec \in Nat \ {0}
  <1>1. ms[k] \in Dataset
    OBVIOUS
  <1>2. ms[k].nsec \in Widths
    BY <1>1 DEF Dataset
  <1>3. QED
    BY <1>2, PiecesAssumption

LEMMA SectionsExist ==
  ASSUME mds \in Seq(Dataset), NEW m \in 0 .. nmdset - 1
  PROVE  nsec(m) \in Nat \ {0}
  <1>1. m + 1 \in 1 .. Len(mds)
    BY DEF nmdset
  <1>2. QED
    BY <1>1, HasSections DEF nsec

\* A section lies before section s of dataset m if its dataset does, or if it
\* is of that dataset and has a lower number.
LEMMA BeforeMembers ==
  ASSUME NEW m, NEW s, NEW x
  PROVE  x \in Before(m, s) <=> \/ \E k \in 0 .. m - 1 : \E j \in 0 .. nsec(k) - 1 : x = <<k, j>>
                                \/ \E j \in 0 .. s - 1 : x = <<m, j>>
  <1>1. x \in Earlier(m) <=> \E k \in 0 .. m - 1 : \E j \in 0 .. nsec(k) - 1 : x = <<k, j>>
    BY DEF Earlier, In
  <1>2. x \in In(m, 0 .. s - 1) <=> \E j \in 0 .. s - 1 : x = <<m, j>>
    BY DEF In
  <1>3. QED
    BY <1>1, <1>2 DEF Before

LEMMA AllMembers ==
  ASSUME NEW x
  PROVE  x \in All <=> \E k \in 0 .. nmdset - 1 : \E j \in 0 .. nsec(k) - 1 : x = <<k, j>>
  BY DEF All, In

\* Sections behind the read, and a piece that starts where it is.
LEMMA PieceAdded ==
  ASSUME NEW m, NEW s \in Nat, NEW i \in Int, s <= i
  PROVE  Before(m, s) \cup In(m, s .. i - 1) = Before(m, i)
  <1>1. ASSUME NEW x PROVE x \in Before(m, s) \cup In(m, s .. i - 1) <=> x \in Before(m, i)
    <2>1. x \in In(m, s .. i - 1) <=> \E j \in s .. i - 1 : x = <<m, j>>
      BY DEF In
    <2>2. \A j : j \in 0 .. i - 1 <=> j \in 0 .. s - 1 \/ j \in s .. i - 1
      OBVIOUS
    <2>3. QED
      BY <2>1, <2>2, BeforeMembers
  <1>2. QED
    BY <1>1

LEMMA DatasetEnds ==
  ASSUME NEW m \in Nat
  PROVE  Before(m, nsec(m)) = Before(m + 1, 0)
  <1>1. ASSUME NEW x PROVE x \in Before(m, nsec(m)) <=> x \in Before(m + 1, 0)
    <2>1. \A k : k \in 0 .. (m + 1) - 1 <=> k \in 0 .. m - 1 \/ k = m
      OBVIOUS
    <2>2. 0 .. 0 - 1 = {}
      OBVIOUS
    <2>3. QED
      BY <2>1, <2>2, BeforeMembers
  <1>2. QED
    BY <1>1

LEMMA AllBefore == Before(nmdset, 0) = All
  <1>1. 0 .. 0 - 1 = {}
    OBVIOUS
  <1>2. ASSUME NEW x PROVE x \in Before(nmdset, 0) <=> x \in All
    BY <1>1, BeforeMembers, AllMembers
  <1>3. QED
    BY <1>2

\* A piece holds at least the section the read is at, and none it has searched.
LEMMA PieceIsNew ==
  ASSUME NEW m \in Nat, NEW s \in Nat, NEW i \in Int, s < i
  PROVE  In(m, s .. i - 1) # {} /\ In(m, s .. i - 1) \cap Before(m, s) = {}
  <1>1. <<m, s>> \in In(m, s .. i - 1)
    BY DEF In
  <1>2. ASSUME NEW x \in In(m, s .. i - 1) PROVE x \notin Before(m, s)
    <2>1. PICK j \in s .. i - 1 : x = <<m, j>>
      BY <1>2 DEF In
    <2>2. QED
      BY <2>1, BeforeMembers
  <1>3. QED
    BY <1>1, <1>2
-----------------------------------------------------------------------------
(***************************************************************************)
(* The invariant                                                           *)
(***************************************************************************)
\* What a metadata flush does to the datasets.
LEMMA FlushType ==
  ASSUME mds \in Seq(Dataset), Metaflush
  PROVE  mds' \in Seq(Dataset) /\ Len(mds) <= Len(mds')
  <1>1. PICK n \in Widths :
           \E o \in Tables(n) :
              mds' = IF o[n - 1] > n + 1 THEN Append(mds, [nsec |-> n, offs |-> o]) ELSE mds
    BY DEF Metaflush
  <1>2. PICK o \in Tables(n) :
           mds' = IF o[n - 1] > n + 1 THEN Append(mds, [nsec |-> n, offs |-> o]) ELSE mds
    BY <1>1
  <1>3. [nsec |-> n, offs |-> o] \in Dataset
    BY DEF Dataset
  <1>4. QED
    BY <1>2, <1>3

LEMMA WriteDataInv ==
  ASSUME Inv, WriteData
  PROVE  Inv'
  BY DEF Inv, TypeOK, IdxInv, PlaceInv, SearchedAll, WriteData, Idle, All, In, nmdset, nsec

LEMMA ReopenInv ==
  ASSUME Inv, Reopen
  PROVE  Inv'
  <1>1. mds' \in Seq(Dataset)
    BY FlushType DEF Inv, TypeOK, Reopen
  <1>2. /\ mbuf_size' \in Buffers /\ metadirty' = FALSE /\ idxvalid' = FALSE /\ idx' = {}
        /\ st' = "idle" /\ md' = 0 /\ sec' = 0 /\ searched' = {}
    BY DEF Reopen
  <1>3. TypeOK'
    <2>1. (mds \in Seq(Dataset))'
      BY <1>1
    <2>2. metadirty' \in BOOLEAN /\ idxvalid' \in BOOLEAN
      BY <1>2
    <2>3. (md > 0 => md < nmdset)'
      BY <1>2
    <2>4. (searched \subseteq Int \X Int /\ idx \subseteq Int \X Int)'
      BY <1>2
    <2>5. QED
      BY <1>2, <2>1, <2>2, <2>3, <2>4 DEF TypeOK
  <1>4. IdxInv' /\ PlaceInv' /\ SearchedAll'
    BY <1>2 DEF IdxInv, PlaceInv, SearchedAll
  <1>5. QED
    BY <1>3, <1>4 DEF Inv

LEMMA ReadStartInv ==
  ASSUME Inv, ReadStart
  PROVE  Inv'
  <1>1. mds' \in Seq(Dataset) /\ Len(mds) <= Len(mds')
    BY FlushType DEF Inv, TypeOK, ReadStart
  <1>2. mbuf_size' = mbuf_size /\ mbuf_size \in Buffers /\ metadirty' = FALSE
    BY DEF Inv, TypeOK, ReadStart
  <1>3. (All \subseteq Int \X Int)'
    BY <1>1 DEF All, In
  <1>4. CASE mbuf_size = Unlimited
    <2>1. idxvalid /\ ~metadirty => All' = All
      BY DEF ReadStart, All, nmdset, nsec
    <2>2. idx' = All'
      BY <1>4, <2>1 DEF ReadStart, Inv, IdxInv
    <2>3. searched' = idx' /\ st' = "done" /\ idxvalid' = TRUE /\ md' = md /\ sec' = sec
      BY <1>4 DEF ReadStart
    <2>4. md \in Int /\ md >= -1 /\ (md > 0 => md < Len(mds')) /\ sec \in Nat
      BY <1>1 DEF Inv, TypeOK, nmdset
    <2>5. QED
      BY <1>1, <1>2, <1>3, <1>4, <2>2, <2>3, <2>4
      DEF Inv, TypeOK, IdxInv, PlaceInv, SearchedAll, nmdset
  <1>5. CASE mbuf_size # Unlimited
    <2>1. idx' = idx /\ searched' = {} /\ st' = "part" /\ md' = 0 /\ sec' = 0 /\ ~idxvalid'
      BY <1>5 DEF ReadStart, Inv, IdxInv
    <2>2. idxvalid' \in BOOLEAN
      BY <1>5, Zenon DEF ReadStart
    <2>3. Before(0, 0)' = {}
      BY DEF Before, Earlier, In
    <2>4. nmdset' > 0 => nsec(0)' \in Nat \ {0}
      BY <1>1, HasSections DEF nmdset, nsec
    <2>5. TypeOK'
      <3>1. (mds \in Seq(Dataset))' /\ (md > 0 => md < nmdset)'
        BY <1>1, <2>1
      <3>2. metadirty' \in BOOLEAN
        BY <1>2
      <3>3. (searched \subseteq Int \X Int /\ idx \subseteq Int \X Int)'
        BY <2>1 DEF Inv, TypeOK
      <3>4. QED
        BY <1>2, <2>1, <2>2, <3>1, <3>2, <3>3 DEF TypeOK
    <2>6. PlaceInv'
      BY <2>1, <2>3, <2>4 DEF PlaceInv
    <2>7. IdxInv' /\ SearchedAll'
      BY <2>1 DEF IdxInv, SearchedAll
    <2>8. QED
      BY <2>5, <2>6, <2>7 DEF Inv
  <1>6. QED
    BY <1>4, <1>5

\* A piece: the read moves on by whole sections.
LEMMA PartInv ==
  ASSUME Inv, MetaupdatePart
  PROVE  Inv'
  <1>1. /\ md \in 0 .. nmdset - 1 /\ sec \in Nat /\ sec < nsec(md)
        /\ searched = Before(md, sec) /\ mds \in Seq(Dataset)
    BY DEF MetaupdatePart, Inv, TypeOK, PlaceInv, nmdset
  <1>2. nsec(md) \in Nat \ {0} /\ nmdset \in Nat
    BY <1>1, SectionsExist DEF nmdset
  <1>3. PICK i \in sec + 1 .. nsec(md) :
           idx' = In(md, sec .. i - 1) /\ searched' = searched \cup idx' /\ Advance(i)
    BY DEF MetaupdatePart
  <1>4. /\ UNCHANGED <<mbuf_size, mds, metadirty, idxvalid>>
        /\ st' = IF md' = -1 THEN "done" ELSE "part"
    BY DEF MetaupdatePart
  <1>5. /\ All' = All /\ nmdset' = nmdset /\ \A m : nsec(m)' = nsec(m)
        /\ \A m, s : Before(m, s)' = Before(m, s)
    BY <1>4 DEF All, nmdset, nsec, Before, Earlier
  <1>6. searched' = Before(md, i)
    BY <1>1, <1>2, <1>3, PieceAdded
  <1>7. sec' \in Nat /\ md' \in Int /\ md' >= -1 /\ md' < nmdset
    BY <1>1, <1>2, <1>3 DEF Advance
  <1>8. idx' \subseteq Int \X Int /\ searched' \subseteq Int \X Int
    BY <1>1, <1>2, <1>3 DEF In, Inv, TypeOK
  <1>9. TypeOK'
    BY <1>1, <1>4, <1>5, <1>7, <1>8 DEF Inv, TypeOK
  <1>10. IdxInv'
    BY <1>4 DEF Inv, IdxInv, PlaceInv, MetaupdatePart
  <1>11. PlaceInv' /\ SearchedAll'
    <2>1. CASE i < nsec(md)
      <3>1. md' = md /\ sec' = i
        BY <1>1, <1>2, <1>3, <2>1 DEF Advance
      <3>2. st' = "part" /\ ~idxvalid' /\ md' >= 0 /\ (md < nmdset /\ sec < nsec(md))'
        BY <1>1, <1>2, <1>4, <1>5, <2>1, <3>1 DEF MetaupdatePart, Inv, PlaceInv, nsec, nmdset
      <3>3. searched' = Before(md, sec)'
        BY <1>4, <1>6, <3>1 DEF Before, Earlier, nsec
      <3>4. QED
        BY <3>2, <3>3 DEF PlaceInv, SearchedAll
    <2>2. CASE i = nsec(md) /\ md + 1 < nmdset
      <3>1. md' = md + 1 /\ sec' = 0
        BY <1>1, <1>2, <1>3, <2>2 DEF Advance
      <3>2. searched' = Before(md + 1, 0)
        BY <1>1, <1>6, <2>2, DatasetEnds
      <3>3. nsec(md + 1) \in Nat \ {0}
        BY <1>1, <1>2, <2>2, SectionsExist
      <3>4. QED
        BY <1>1, <1>4, <1>5, <2>2, <3>1, <3>2, <3>3
        DEF MetaupdatePart, Inv, PlaceInv, SearchedAll
    <2>3. CASE i = nsec(md) /\ md + 1 = nmdset
      <3>1. md' = -1
        BY <1>1, <1>2, <1>3, <2>3 DEF Advance
      <3>2. searched' = All
        BY <1>1, <1>6, <2>3, DatasetEnds, AllBefore
      <3>3. QED
        BY <1>4, <1>5, <3>1, <3>2 DEF PlaceInv, SearchedAll
    <2>4. QED
      BY <1>1, <1>2, <1>3, <2>1, <2>2, <2>3
  <1>12. QED
    BY <1>9, <1>10, <1>11 DEF Inv

LEMMA NoDatasetInv ==
  ASSUME Inv, NoDataset
  PROVE  Inv'
  <1>1. nmdset = 0 /\ nmdset' = nmdset
    BY DEF Inv, TypeOK, PlaceInv, NoDataset, nmdset
  <1>2. QED
    BY <1>1 DEF Inv, TypeOK, IdxInv, PlaceInv, SearchedAll, NoDataset

LEMMA StepInv ==
  ASSUME Inv, [Next]_vars
  PROVE  Inv'
  <1>1. CASE UNCHANGED vars
    <2>1. All' = All /\ nmdset' = nmdset /\ nsec(md)' = nsec(md) /\ Before(md, sec)' = Before(md, sec)
      BY <1>1 DEF vars, All, nmdset, nsec, Before, Earlier
    <2>2. QED
      BY <1>1, <2>1 DEF vars, Inv, TypeOK, IdxInv, PlaceInv, SearchedAll
  <1>2. QED
    BY <1>1, WriteDataInv, ReopenInv, ReadStartInv, PartInv, NoDatasetInv DEF Next, Part

LEMMA InvAlways == Spec => []Inv
  <1>1. Init => Inv
    <2>1. Init => mds \in Seq(Dataset)
      BY DEF Init
    <2>2. Init => TypeOK
      <3> SUFFICES ASSUME Init PROVE TypeOK
        OBVIOUS
      <3>1. metadirty \in BOOLEAN /\ idxvalid \in BOOLEAN
        BY Zenon DEF Init
      <3>2. md = 0 /\ sec = 0 /\ st = "idle" /\ searched = {} /\ idx = {} /\ mbuf_size \in Buffers
        BY DEF Init
      <3>3. QED
        BY <2>1, <3>1, <3>2 DEF TypeOK
    <2>3. QED
      BY <2>2 DEF Init, Inv, IdxInv, PlaceInv, SearchedAll
  <1>2. QED
    BY <1>1, StepInv, PTL DEF Spec
-----------------------------------------------------------------------------
(***************************************************************************)
(* Theorems                                                                *)
(***************************************************************************)
\* Type correctness: a read is at a dataset that exists (md and sec of
\* H5VL_log_filei_metaupdate_part).
THEOREM PlaceExists == Spec => []TypeOK
  <1>1. Inv => TypeOK
    BY DEF Inv
  <1>2. QED
    BY <1>1, InvAlways, PTL

\* A read that returns has searched all metadata, for any size of the index
\* buffer, also one smaller than a section (H5VL_log_filei_metaupdate_part).
THEOREM EverythingSearched == Spec => []SearchedAll
  <1>1. Inv => SearchedAll
    BY DEF Inv
  <1>2. QED
    BY <1>1, InvAlways, PTL

\* And it has searched nothing twice: every piece brings new sections.
THEOREM NothingTwice == Spec => SearchedOnce
  <1>1. ASSUME Inv, Next, st = "part", st' # "error"
        PROVE  idx' # {} /\ idx' \cap searched = {}
    <2>1. MetaupdatePart
      BY <1>1 DEF Next, Part, WriteData, Reopen, ReadStart, Idle, NoDataset
    <2>2. md \in Nat /\ sec \in Nat /\ searched = Before(md, sec) /\ nsec(md) \in Nat
      BY <1>1, <2>1, SectionsExist DEF MetaupdatePart, Inv, TypeOK, PlaceInv, nmdset
    <2>3. PICK i \in sec + 1 .. nsec(md) : idx' = In(md, sec .. i - 1)
      BY <2>1 DEF MetaupdatePart
    <2>4. QED
      BY <2>2, <2>3, PieceIsNew
  <1>2. Inv /\ [Next]_vars =>
           [st = "part" /\ st' # "error" => idx' # {} /\ idx' \cap searched = {}]_vars
    BY <1>1
  <1>3. QED
    BY <1>2, InvAlways, PTL DEF Spec, SearchedOnce
=============================================================================
