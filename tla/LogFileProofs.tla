--------------------------- MODULE LogFileProofs ---------------------------
(***************************************************************************)
(* Theorems about LogFile, for every number of ranks, blocks and sizes and *)
(* every bound.                                                            *)
(*                                                                         *)
(* The first half: types, and no accepted write is lost.                   *)
(*                                                                         *)
(* The second half, from NumberInv on, is about the log datasets and their *)
(* bytes: the ranks number the datasets alike, every recorded entry leads  *)
(* to its write's own bytes, and what a close made durable stays readable. *)
(***************************************************************************)
EXTENDS LogFile, SequenceTheorems, WellFoundedInduction, TLAPS

\* A function on 1 .. n is a sequence of length n.
LEMMA SeqOfFunction ==
  ASSUME NEW S, NEW n \in Nat, NEW f \in [1 .. n -> S]
  PROVE  f \in Seq(S) /\ Len(f) = n
  <1>1. f \in Seq(S)
    BY SeqDef
  <1>2. DOMAIN f = 1 .. n /\ DOMAIN f = 1 .. Len(f) /\ Len(f) \in Nat
    BY <1>1, LenProperties
  <1>3. QED
    BY <1>1, <1>2

\* Queued requests refer to writes of the history, so that their blocks and
\* sizes are defined.
IdsOK ==
    \A r \in Ranks :
        /\ \A k \in 1 .. Len(wreqs[r]) : wreqs[r][k].id \in Ids
        /\ \A d \in 0 .. NDset - 1 : \A k \in 1 .. Len(mreqs[r][d]) : mreqs[r][d][k] \in Ids

\* The counters of metadata datasets do not run ahead of the file.
NumOK ==
    /\ \A r \in Ranks : nmdset[r] <= Len(mdsets)
    /\ attr.nmdset <= Len(mdsets)

TypeInv == TypeOK /\ IdsOK /\ NumOK

\* The initial state satisfies the type invariant.
LEMMA TypeInit == Init => TypeInv
  <1> SUFFICES ASSUME Init PROVE TypeInv
    OBVIOUS
  <1>1. AppType /\ StepType /\ ReadType /\ MetaType /\ NumType
    BY DEF Init, AppType, StepType, ReadType, MetaType, NumType, Steps, Fill
  <1>2. ReqType /\ IdsOK
    BY EmptySeq DEF Init, ReqType, IdsOK
  <1>3. FileType
    BY EmptySeq DEF Init, FileType
  <1>4. QED
    BY <1>1, <1>2, <1>3, EmptySeq DEF TypeInv, TypeOK, NumOK, Init

\* A step that leaves a group of variables alone keeps its type.
LEMMA TypeUnchanged ==
  ASSUME TypeInv
  PROVE  /\ UNCHANGED appVars => AppType'
         /\ UNCHANGED <<pc, cont>> => StepType'
         /\ UNCHANGED reqVars => ReqType'
         /\ UNCHANGED <<hist, wreqs, mreqs>> => IdsOK'
         /\ UNCHANGED readVars => ReadType'
         /\ UNCHANGED metaVars => MetaType'
         /\ UNCHANGED numVars => NumType'
         /\ UNCHANGED fileVars => FileType'
         /\ UNCHANGED <<mdsets, attr, nmdset>> => NumOK'
         /\ UNCHANGED numVars /\ UNCHANGED fileVars => NumOK'
  BY DEF TypeInv, TypeOK, appVars, reqVars, readVars, metaVars, numVars, fileVars,
     AppType, StepType, ReqType, IdsOK, ReadType, MetaType, NumType, FileType, Ids, NumOK

\* Entering a collective call keeps the types of the program's variables.
LEMMA JoinsType ==
  ASSUME TypeInv, NEW r \in Ranks, NEW op \in {"flush", "close"} \cup Reading,
         NEW sel \in SUBSET Blocks, Joins(r, op, sel)
  PROVE  AppType'
  <1> USE DEF TypeInv, TypeOK, AppType, Joins
  <1>1. CASE ncalls[r] < Len(prog)
    BY <1>1
  <1>2. CASE ~(ncalls[r] < Len(prog))
    <2>1. [op |-> op, sel |-> sel] \in CallRecord
      BY DEF CallRecord
    <2>2. prog' = Append(prog, [op |-> op, sel |-> sel])
      BY <1>2
    <2>3. prog' \in Seq(CallRecord) /\ Len(prog') = Len(prog) + 1
      BY <2>1, <2>2, AppendProperties
    <2>4. QED
      BY <1>2, <2>3
  <1>3. QED
    BY <1>1, <1>2

\* H5Dwrite
LEMMA TypeWrite ==
  ASSUME TypeInv, NEW r \in Ranks, NEW b \in Blocks, Write(r, b)
  PROVE  TypeInv'
  <1> DEFINE w == [rank |-> r, blk |-> b, ep |-> epoch]
  <1>1. hist' = Append(hist, w) /\ w \in WriteRecord
    BY DEF Write, TypeInv, TypeOK, AppType, WriteRecord
  <1>2. hist' \in Seq(WriteRecord) /\ Len(hist') = Len(hist) + 1 /\ Len(hist) \in Nat
    BY <1>1, AppendProperties, LenProperties DEF TypeInv, TypeOK, AppType
  <1>3. AppType'
    BY <1>2 DEF Write, TypeInv, TypeOK, AppType
  <1>7. Ids \subseteq Ids'
    BY <1>2 DEF Ids
  <1>4. CASE Merge
    <2>1. UNCHANGED wreqs /\ mreqs' = [mreqs EXCEPT ![r][Dset[b]] = Append(@, Len(hist'))]
      BY <1>4 DEF Write
    <2>2. Dset[b] \in 0 .. NDset - 1
      BY DsetAssumption
    <2>7. mreqs' \in [Ranks -> [0 .. NDset - 1 -> Seq(Nat)]]
      <3>1. mreqs[r][Dset[b]] \in Seq(Nat)
        BY <2>2 DEF TypeInv, TypeOK, ReqType
      <3>5. Len(hist') \in Nat
        BY <1>2
      <3>2. Append(mreqs[r][Dset[b]], Len(hist')) \in Seq(Nat)
        BY <3>1, <3>5, AppendProperties
      <3>3. [mreqs[r] EXCEPT ![Dset[b]] = Append(mreqs[r][Dset[b]], Len(hist'))]
               \in [0 .. NDset - 1 -> Seq(Nat)]
        BY <3>2 DEF TypeInv, TypeOK, ReqType
      <3>4. QED
        BY <2>1, <3>3 DEF TypeInv, TypeOK, ReqType
    <2>3. ReqType'
      BY <2>1, <2>7 DEF Write, TypeInv, TypeOK, ReqType
    <2>4. ASSUME NEW q \in Ranks, NEW d \in 0 .. NDset - 1, NEW k \in 1 .. Len(mreqs'[q][d])
          PROVE  mreqs'[q][d][k] \in Ids'
      <3>1. mreqs[q][d] \in Seq(Nat)
        BY DEF TypeInv, TypeOK, ReqType
      <3>2. CASE q = r /\ d = Dset[b]
        <4>1. mreqs'[q][d] = Append(mreqs[q][d], Len(hist'))
          BY <2>1, <2>2, <3>2 DEF TypeInv, TypeOK, ReqType
        <4>2. k \in 1 .. Len(mreqs[q][d]) \/ mreqs'[q][d][k] = Len(hist')
          BY <1>2, <3>1, <4>1, AppendProperties
        <4>3. QED
          BY <1>2, <3>1, <4>1, <4>2, AppendProperties DEF TypeInv, IdsOK, Ids
      <3>3. CASE ~(q = r /\ d = Dset[b])
        <4>1. mreqs'[q][d] = mreqs[q][d]
          BY <2>1, <2>2, <3>3 DEF TypeInv, TypeOK, ReqType
        <4>2. QED
          BY <1>2, <4>1 DEF TypeInv, IdsOK, Ids
      <3>4. QED
        BY <3>2, <3>3
    <2>5. IdsOK'
      BY <1>7, <2>1, <2>4 DEF TypeInv, IdsOK
    <2>6. QED
      BY <1>3, <2>3, <2>5, TypeUnchanged DEF Write, TypeInv, TypeOK
  <1>5. CASE ~Merge
    <2>1. UNCHANGED mreqs
          /\ wreqs' = [wreqs EXCEPT ![r] = Append(@, [id |-> Len(hist'), foff |-> 0])]
      BY <1>5 DEF Write
    <2>2. [id |-> Len(hist'), foff |-> 0] \in Request
      BY <1>2 DEF Request
    <2>3. ReqType'
      BY <1>2, <2>1, <2>2, AppendProperties DEF Write, TypeInv, TypeOK, ReqType
    <2>4. ASSUME NEW q \in Ranks, NEW k \in 1 .. Len(wreqs'[q])
          PROVE  wreqs'[q][k].id \in Ids'
      <3>1. wreqs[q] \in Seq(Request) /\ wreqs \in [Ranks -> Seq(Request)]
        BY DEF TypeInv, TypeOK, ReqType
      <3>2. CASE q = r
        BY <1>2, <2>1, <2>2, <3>1, <3>2, AppendProperties DEF TypeInv, IdsOK, Ids
      <3>3. CASE q # r
        BY <1>2, <2>1, <3>1, <3>3 DEF TypeInv, IdsOK, Ids
      <3>4. QED
        BY <3>2, <3>3
    <2>5. IdsOK'
      BY <1>7, <2>1, <2>4 DEF TypeInv, IdsOK
    <2>6. QED
      BY <1>3, <2>3, <2>5, TypeUnchanged DEF Write, TypeInv, TypeOK
  <1>6. QED
    BY <1>4, <1>5

\* H5Fflush, H5Dread, H5Fclose
LEMMA TypeCall ==
  ASSUME TypeInv, NEW r \in Ranks, Call(r)
  PROVE  TypeInv'
  <1>1. CASE CallFlush(r)
    <2>1. AppType'
      BY <1>1, JoinsType DEF CallFlush
    <2>2. StepType'
      BY <1>1 DEF CallFlush, Goto, TypeInv, TypeOK, StepType, Steps
    <2>3. QED
      BY <1>1, <2>1, <2>2, TypeUnchanged DEF CallFlush, Joins, reqVars, TypeInv, TypeOK
  <1>2. ASSUME NEW s \in Selections, CallRead(r, s)
        PROVE  TypeInv'
    <2>1. s \in SUBSET Blocks
      BY DEF Selections
    <2>2. AppType'
      BY <1>2, <2>1, JoinsType DEF CallRead, Reading
    <2>3. ReadType'
      BY <1>2, <2>1 DEF CallRead, TypeInv, TypeOK, ReadType
    <2>4. QED
      BY <1>2, <2>2, <2>3, TypeUnchanged
         DEF CallRead, Goto, Joins, reqVars, TypeInv, TypeOK, StepType, Steps
  <1>3. ASSUME NEW s \in Selections \ {{}}, CallBufferedRead(r, s)
        PROVE  TypeInv'
    <2>1. s \in SUBSET Blocks
      BY DEF Selections
    <2>2. AppType'
      BY <1>3, <2>1, JoinsType DEF CallBufferedRead, Reading
    <2>3. ReadType'
      BY <1>3, <2>1 DEF CallBufferedRead, TypeInv, TypeOK, ReadType
    <2>4. QED
      BY <1>3, <2>2, <2>3, TypeUnchanged DEF CallBufferedRead, Joins, reqVars, TypeInv, TypeOK
  <1>4. CASE CallClose(r)
    <2>1. AppType'
      BY <1>4, JoinsType DEF CallClose
    <2>2. StepType'
      BY <1>4 DEF CallClose, Goto, TypeInv, TypeOK, StepType, Steps
    <2>4. cur' \in [Ranks -> Nat] /\ UNCHANGED <<wreqs, mreqs, nflushed, fsize, foff>>
      BY <1>4 DEF CallClose, TypeInv, TypeOK, ReqType
    <2>5. ReqType'
      BY <2>4 DEF TypeInv, TypeOK, ReqType
    <2>3. QED
      BY <1>4, <2>1, <2>2, <2>5, TypeUnchanged DEF CallClose, Joins, TypeInv, TypeOK
  <1>5. QED
    BY <1>1, <1>2, <1>3, <1>4 DEF Call

\* H5VL_log_filei_flush: the agreement on pending writes and queued reads
LEMMA TypeAllreducePending == ASSUME TypeInv, AllreducePending PROVE TypeInv'
  <1>1. StepType'
    BY DEF AllreducePending, AfterWrites, TypeInv, TypeOK, StepType, Steps
  <1>2. ReqType' /\ ReadType'
    BY DEF AllreducePending, TypeInv, TypeOK, ReqType, ReadType
  <1>3. QED
    BY <1>1, <1>2, TypeUnchanged DEF AllreducePending, appVars, TypeInv, TypeOK

\* The loop that queues the merged requests
NoMerged(r) == \A d \in 0 .. NDset - 1 : mreqs[r][d] = <<>>

LEMMA TypePushMerged ==
  ASSUME TypeInv, NEW r \in Ranks, PushMerged(r)
  PROVE  TypeInv'
  <1>1. CASE ~NoMerged(r)
    <2>11. PICK d \in 0 .. NDset - 1 :
             /\ wreqs' = [wreqs EXCEPT ![r] =
                  @ \o [k \in 1 .. Len(mreqs[r][d]) |-> [id |-> mreqs[r][d][k], foff |-> 0]]]
             /\ mreqs' = [mreqs EXCEPT ![r][d] = <<>>]
             /\ UNCHANGED <<pc, cur, fsize>>
      BY <1>1 DEF PushMerged, NoMerged
    <2> DEFINE m == mreqs[r][d]
               new == [k \in 1 .. Len(m) |-> [id |-> m[k], foff |-> 0]]
    <2>1. d \in 0 .. NDset - 1 /\ m \in Seq(Nat) /\ wreqs[r] \in Seq(Request)
      BY DEF TypeInv, TypeOK, ReqType
    <2>2. Len(m) \in Nat /\ \A k \in 1 .. Len(m) : m[k] \in Nat
      BY <2>1, LenProperties, ElementOfSeq
    <2>3. new \in [1 .. Len(m) -> Request]
      BY <2>2 DEF Request
    <2> HIDE DEF new
    <2>4. new \in Seq(Request) /\ Len(new) = Len(m)
      BY <2>2, <2>3, SeqOfFunction
    <2>5. /\ wreqs[r] \o new \in Seq(Request)
          /\ Len(wreqs[r] \o new) = Len(wreqs[r]) + Len(new)
          /\ \A k \in 1 .. Len(wreqs[r]) + Len(new) : (wreqs[r] \o new)[k] =
               IF k <= Len(wreqs[r]) THEN wreqs[r][k] ELSE new[k - Len(wreqs[r])]
      BY <2>1, <2>4, ConcatProperties
    <2>6. /\ wreqs' = [wreqs EXCEPT ![r] = wreqs[r] \o new]
          /\ mreqs' = [mreqs EXCEPT ![r] = [mreqs[r] EXCEPT ![d] = <<>>]]
          /\ UNCHANGED <<pc, cont, nflushed, cur, fsize, foff>>
      BY <2>11 DEF PushMerged, new
    <2>7. mreqs' \in [Ranks -> [0 .. NDset - 1 -> Seq(Nat)]]
      BY <2>1, <2>6, EmptySeq DEF TypeInv, TypeOK, ReqType
    <2>8. ReqType'
      <3>1. Len(wreqs[r] \o new) >= Len(wreqs[r])
        <4>1. Len(wreqs[r]) \in Nat /\ Len(new) \in Nat
          BY <2>1, <2>2, <2>4, LenProperties
        <4>2. QED
          BY <2>5, <4>1
      <3>2. wreqs' \in [Ranks -> Seq(Request)]
        BY <2>5, <2>6 DEF TypeInv, TypeOK, ReqType
      <3>3. \A q \in Ranks : nflushed[q] <= Len(wreqs'[q])
        BY <2>1, <2>5, <2>6, <3>1 DEF TypeInv, TypeOK, ReqType
      <3>4. QED
        BY <2>6, <2>7, <3>2, <3>3 DEF TypeInv, TypeOK, ReqType
    <2>9. IdsOK'
      <3>1. UNCHANGED hist
        BY DEF PushMerged, appVars
      <3>2. \A k \in 1 .. Len(new) : new[k].id \in Ids
        BY <2>1, <2>4 DEF TypeInv, IdsOK, new
      <3>3. ASSUME NEW q \in Ranks, NEW k \in 1 .. Len(wreqs'[q])
            PROVE  wreqs'[q][k].id \in Ids
        <4>1. CASE q = r
          <5>1. wreqs'[q] = wreqs[r] \o new
            BY <2>6, <4>1 DEF TypeInv, TypeOK, ReqType
          <5>2. CASE k <= Len(wreqs[r])
            BY <2>1, <2>4, <2>5, <5>1, <5>2, LenProperties DEF TypeInv, IdsOK
          <5>3. CASE k > Len(wreqs[r])
            <6>1. k - Len(wreqs[r]) \in 1 .. Len(new)
              BY <2>1, <2>2, <2>4, <2>5, <5>1, <5>3, LenProperties
            <6>2. (wreqs[r] \o new)[k] = new[k - Len(wreqs[r])]
              BY <2>1, <2>2, <2>4, <2>5, <5>1, <5>3, LenProperties
            <6>3. QED
              BY <3>2, <5>1, <6>1, <6>2
          <5>4. QED
            BY <2>1, <2>2, <2>4, <2>5, <5>1, <5>2, <5>3, LenProperties
        <4>2. CASE q # r
          BY <2>6, <4>2 DEF TypeInv, TypeOK, ReqType, IdsOK
        <4>3. QED
          BY <4>1, <4>2
      <3>4. ASSUME NEW q \in Ranks, NEW e \in 0 .. NDset - 1, NEW k \in 1 .. Len(mreqs'[q][e])
            PROVE  mreqs'[q][e][k] \in Ids
        BY <2>1, <2>6, EmptySeq DEF TypeInv, TypeOK, ReqType, IdsOK
      <3>5. QED
        BY <3>1, <3>3, <3>4 DEF IdsOK, Ids
    <2>10. QED
      BY <2>6, <2>8, <2>9, TypeUnchanged DEF PushMerged, TypeInv, TypeOK
  <1>2. CASE NoMerged(r)
    <2> /\ Goto(r, "pack") /\ cur' = [cur EXCEPT ![r] = FirstUnflushed(r)]
        /\ fsize' = [fsize EXCEPT ![r] = 0] /\ UNCHANGED <<wreqs, mreqs>>
      BY <1>2 DEF PushMerged, NoMerged
    <2>1. StepType'
      BY <1>2 DEF PushMerged, Goto, TypeInv, TypeOK, StepType, Steps
    <2>4. /\ cur' \in [Ranks -> Nat] /\ fsize' \in [Ranks -> Nat]
          /\ UNCHANGED <<wreqs, mreqs, nflushed, foff>>
      BY <1>2 DEF PushMerged, FirstUnflushed, TypeInv, TypeOK, ReqType
    <2>2. ReqType'
      BY <2>4 DEF TypeInv, TypeOK, ReqType
    <2>3. QED
      BY <1>2, <2>1, <2>2, TypeUnchanged DEF PushMerged, appVars, TypeInv, TypeOK
  <1>3. QED
    BY <1>1, <1>2

\* The loop that lays out the unflushed requests
LEMMA TypePack ==
  ASSUME TypeInv, NEW r \in Ranks, Pack(r)
  PROVE  TypeInv'
  <1>1. CASE cur[r] < Len(wreqs[r])
    <2> DEFINE k == cur[r] + 1
               w == wreqs[r][k]
    <2>1. wreqs[r] \in Seq(Request) /\ Len(wreqs[r]) \in Nat /\ cur[r] \in Nat /\ fsize[r] \in Nat
      BY LenProperties DEF TypeInv, TypeOK, ReqType
    <2>2. k \in 1 .. Len(wreqs[r])
      BY <1>1, <2>1
    <2>3. w \in Request /\ w.id \in Ids
      BY <2>1, <2>2, ElementOfSeq DEF TypeInv, IdsOK
    <2>4. SizeOf(w.id) \in Nat
      <3>1. hist[w.id] \in WriteRecord
        BY <2>3, ElementOfSeq DEF Ids, TypeInv, TypeOK, AppType
      <3>2. hist[w.id].blk \in Blocks
        BY <3>1 DEF WriteRecord
      <3>3. QED
        BY <3>2, SizeAssumption DEF SizeOf, BlkOf
    <2>5. [w EXCEPT !.foff = fsize[r]] \in Request /\ [w EXCEPT !.foff = fsize[r]].id = w.id
      BY <2>1, <2>3 DEF Request
    <2> DEFINE s == [wreqs[r] EXCEPT ![k] = [w EXCEPT !.foff = fsize[r]]]
    <2>6. /\ s \in Seq(Request) /\ Len(s) = Len(wreqs[r])
          /\ \A j \in 1 .. Len(wreqs[r]) : s[j] = IF j = k THEN [w EXCEPT !.foff = fsize[r]]
                                                           ELSE wreqs[r][j]
      BY <2>1, <2>2, <2>5, ExceptSeq
    <2>7. /\ wreqs' = [wreqs EXCEPT ![r] = s]
          /\ fsize' = [fsize EXCEPT ![r] = @ + SizeOf(w.id)]
          /\ cur' = [cur EXCEPT ![r] = k]
          /\ UNCHANGED <<pc, cont, mreqs, nflushed, foff, hist>>
      BY <1>1 DEF Pack, appVars
    <2> HIDE DEF s, w, k
    <2>8. ReqType'
      <3>1. cur' \in [Ranks -> Nat] /\ fsize' \in [Ranks -> Nat]
        BY <2>1, <2>2, <2>4, <2>7 DEF TypeInv, TypeOK, ReqType
      <3>2. wreqs' \in [Ranks -> Seq(Request)] /\ \A q \in Ranks : Len(wreqs'[q]) = Len(wreqs[q])
        BY <2>6, <2>7 DEF TypeInv, TypeOK, ReqType
      <3>3. QED
        BY <2>7, <3>1, <3>2 DEF TypeInv, TypeOK, ReqType
    <2>9. IdsOK'
      <3>1. ASSUME NEW q \in Ranks, NEW j \in 1 .. Len(wreqs'[q])
            PROVE  wreqs'[q][j].id \in Ids
        BY <2>3, <2>5, <2>6, <2>7 DEF TypeInv, TypeOK, ReqType, IdsOK
      <3>2. QED
        BY <2>7, <3>1 DEF TypeInv, IdsOK, Ids
    <2>10. QED
      BY <2>7, <2>8, <2>9, TypeUnchanged DEF Pack, TypeInv, TypeOK
  <1>2. CASE ~(cur[r] < Len(wreqs[r]))
    <2>1. StepType'
      BY <1>2 DEF Pack, Goto, TypeInv, TypeOK, StepType, Steps
    <2>2. QED
      BY <1>2, <2>1, TypeUnchanged DEF Pack, appVars, reqVars, TypeInv, TypeOK
  <1>3. QED
    BY <1>1, <1>2

\* The sums over the ranks and the creation of the log dataset
LEMMA TypeScanAndCreate == ASSUME TypeInv, ScanAndCreate PROVE TypeInv'
  <1>1. PICK offs \in [0 .. NP -> 0 .. MaxBytes] : 
          /\ IsPrefixSum(offs, fsize)
          /\ IF offs[NP] = 0
             THEN pc' = cont /\ UNCHANGED <<foff, ldsets, eof, epoch>>
             ELSE \E doff \in Addrs \cup {0, eof} :
                    /\ ldsets' = Append(ldsets, [addr |-> doff, len |-> offs[NP]])
                    /\ eof' = IF doff + offs[NP] > eof THEN doff + offs[NP] ELSE eof
                    /\ foff' = [r \in Ranks |-> offs[r] + doff]
                    /\ pc' = [r \in Ranks |-> "write"]
                    /\ epoch' = epoch + 1
    BY DEF ScanAndCreate
  <1>2. offs[NP] \in Nat /\ \A r \in Ranks : offs[r] \in Nat
    BY NPAssumption, BoundAssumption DEF Ranks
  <1>3. AppType' /\ StepType' /\ ReqType' /\ FileType'
    <2>1. CASE offs[NP] = 0
      <3>1. StepType'
        BY <1>1, <2>1 DEF ScanAndCreate, StepType, TypeInv, TypeOK
      <3>2. QED
        BY <1>1, <2>1, <3>1, TypeUnchanged DEF ScanAndCreate, appVars, reqVars, fileVars
    <2>2. CASE offs[NP] # 0
      <3>1. PICK doff \in Addrs \cup {0, eof} :
              /\ ldsets' = Append(ldsets, [addr |-> doff, len |-> offs[NP]])
              /\ eof' = IF doff + offs[NP] > eof THEN doff + offs[NP] ELSE eof
              /\ foff' = [r \in Ranks |-> offs[r] + doff]
              /\ pc' = [r \in Ranks |-> "write"]
              /\ epoch' = epoch + 1
        BY <1>1, <2>2
      <3>2. doff \in Nat
        BY BoundAssumption DEF TypeInv, TypeOK, FileType
      <3>3. AppType' /\ StepType'
        BY <3>1 DEF ScanAndCreate, AppType, StepType, Steps, TypeInv, TypeOK
      <3>4. foff' \in [Ranks -> Nat]
        BY <1>2, <3>1, <3>2
      <3>5. ReqType'
        BY <3>4 DEF ScanAndCreate, ReqType, TypeInv, TypeOK
      <3>6. eof' \in Nat \ {0}
        BY <1>2, <3>1, <3>2 DEF FileType, TypeInv, TypeOK
      <3>7. [addr |-> doff, len |-> offs[NP]] \in [addr : Nat, len : Nat]
        BY <1>2, <3>2
      <3>8. ldsets' \in Seq([addr : Nat, len : Nat])
        BY <3>1, <3>7, AppendProperties DEF FileType, TypeInv, TypeOK
      <3>9. QED
        BY <3>3, <3>5, <3>6, <3>8 DEF ScanAndCreate, FileType, TypeInv, TypeOK
    <2>3. QED
      BY <2>1, <2>2
  <1>4. QED
    BY <1>3, TypeUnchanged DEF ScanAndCreate, numVars, TypeInv, TypeOK

\* The write of the log data
LEMMA TypeWriteData ==
  ASSUME TypeInv, NEW r \in Ranks, WriteData(r)
  PROVE  TypeInv'
  <1> DEFINE n == Len(wreqs[r])
             flushed == {k \in 1 .. n : k > nflushed[r]}
             moved(k) == [id |-> wreqs[r][k].id, foff |-> wreqs[r][k].foff + foff[r]]
             s == [k \in 1 .. n |-> IF k \in flushed THEN moved(k) ELSE wreqs[r][k]]
  <1>1. wreqs[r] \in Seq(Request) /\ n \in Nat /\ foff[r] \in Nat
    BY LenProperties DEF TypeInv, TypeOK, ReqType
  <1>2. \A k \in 1 .. n : wreqs[r][k] \in Request
    BY <1>1, ElementOfSeq
  <1>3. \A k \in 1 .. n : moved(k) \in Request
    BY <1>1, <1>2 DEF Request
  <1>4. s \in [1 .. n -> Request] /\ \A k \in 1 .. n : s[k].id = wreqs[r][k].id
    BY <1>2, <1>3
  <1>5. \A k \in 1 .. n : [off |-> foff[r] + wreqs[r][k].foff, id |-> wreqs[r][k].id]
                             \in [off : Nat, id : Nat]
    BY <1>1, <1>2 DEF Request
  <1>6. /\ wreqs' = [wreqs EXCEPT ![r] = s]
        /\ disk' \in {disk, disk \cup {[off |-> foff[r] + wreqs[r][k].foff, id |-> wreqs[r][k].id] :
                                          k \in flushed}}
        /\ nflushed' = [nflushed EXCEPT ![r] = n]
    BY DEF WriteData
  <1>7. disk' \in SUBSET [off : Nat, id : Nat]
    <2>1. disk \in SUBSET [off : Nat, id : Nat]
      BY DEF TypeInv, TypeOK, FileType
    <2>2. {[off |-> foff[r] + wreqs[r][k].foff, id |-> wreqs[r][k].id] : k \in flushed}
            \in SUBSET [off : Nat, id : Nat]
      BY <1>5
    <2>3. QED
      BY <1>6, <2>1, <2>2
  <1> HIDE DEF s, n
  <1>8. s \in Seq(Request) /\ Len(s) = n
    BY <1>1, <1>4, SeqOfFunction
  <1>9. ReqType'
    <2>1. wreqs' \in [Ranks -> Seq(Request)] /\ nflushed' \in [Ranks -> Nat]
      BY <1>1, <1>6, <1>8 DEF TypeInv, TypeOK, ReqType
    <2>2. \A q \in Ranks : nflushed'[q] <= Len(wreqs'[q])
      BY <1>1, <1>6, <1>8 DEF TypeInv, TypeOK, ReqType
    <2>3. QED
      BY <2>1, <2>2 DEF WriteData, TypeInv, TypeOK, ReqType
  <1>10. IdsOK'
    <2>1. ASSUME NEW q \in Ranks, NEW k \in 1 .. Len(wreqs'[q])
          PROVE  wreqs'[q][k].id \in Ids
      BY <1>4, <1>6, <1>8 DEF TypeInv, TypeOK, ReqType, IdsOK, n
    <2>2. UNCHANGED <<hist, mreqs>>
      BY DEF WriteData, appVars
    <2>3. QED
      BY <2>1, <2>2 DEF TypeInv, IdsOK, Ids
  <1>11. StepType'
    BY DEF WriteData, Goto, StepType, TypeInv, TypeOK
  <1>12. MetaType' /\ NumType'
    BY DEF WriteData, MetaType, NumType, TypeInv, TypeOK
  <1>14. FileType'
    BY <1>7 DEF WriteData, FileType, TypeInv, TypeOK
  <1>13. QED
    BY <1>9, <1>10, <1>11, <1>12, <1>14, TypeUnchanged DEF WriteData, TypeInv, TypeOK

\* H5VL_log_filei_metaflush: the creation of the metadata dataset
LEMMA TypeGatherAndCreate == ASSUME TypeInv, GatherAndCreate PROVE TypeInv'
  <1>1. StepType'
    BY DEF GatherAndCreate, StepType, Steps, TypeInv, TypeOK
  <1>2. NumType'
    BY DEF GatherAndCreate, NumType, TypeInv, TypeOK
  <1>5. mdsets' \in Seq([Ranks -> SUBSET Request]) /\ NumOK'
    <2>1. [r \in Ranks |-> {}] \in [Ranks -> SUBSET Request]
      OBVIOUS
    <2>2. Append(mdsets, [r \in Ranks |-> {}]) \in Seq([Ranks -> SUBSET Request])
      BY <2>1, AppendProperties DEF FileType, TypeInv, TypeOK
    <2>3. \/ UNCHANGED <<mdsets, nmdset>>
          \/ /\ \A r \in Ranks : nmdset[r] = Len(mdsets)
             /\ mdsets' = Append(mdsets, [r \in Ranks |-> {}])
             /\ nmdset' = [r \in Ranks |-> nmdset[r] + 1]
      BY DEF GatherAndCreate
    <2>4. Len(Append(mdsets, [r \in Ranks |-> {}])) = Len(mdsets) + 1 /\ Len(mdsets) \in Nat
      BY <2>1, AppendProperties, LenProperties DEF FileType, TypeInv, TypeOK
    <2>5. mdsets' \in Seq([Ranks -> SUBSET Request])
      BY <2>2, <2>3 DEF FileType, TypeInv, TypeOK
    <2>6. \A r \in Ranks : nmdset'[r] <= Len(mdsets')
      BY <2>3, <2>4 DEF NumType, NumOK, TypeInv, TypeOK
    <2>7. attr' = attr /\ attr.nmdset \in Nat /\ attr.nmdset <= Len(mdsets')
      BY <2>3, <2>4 DEF GatherAndCreate, NumOK, FileType, TypeInv, TypeOK
    <2>8. QED
      BY <2>5, <2>6, <2>7 DEF NumOK
  <1>3. FileType'
    BY <1>5 DEF GatherAndCreate, FileType, TypeInv, TypeOK
  <1>4. QED
    BY <1>1, <1>2, <1>3, <1>5, TypeUnchanged DEF GatherAndCreate, appVars, reqVars, TypeInv, TypeOK

\* H5VL_log_filei_metaflush: the write of a rank's section
LEMMA TypeWriteSection ==
  ASSUME TypeInv, NEW r \in Ranks, WriteSection(r)
  PROVE  TypeInv'
  <1>1. StepType'
    BY DEF WriteSection, Goto, StepType, Steps, TypeInv, TypeOK
  <1>2. MetaEntries(r) \in SUBSET Request
    BY LenProperties DEF MetaEntries, Range, ReqType, TypeInv, TypeOK
  <1>3. mdsets' \in Seq([Ranks -> SUBSET Request]) /\ Len(mdsets') = Len(mdsets)
    <2> DEFINE n == nmdset[r]
               new == [mdsets[n] EXCEPT ![r] = MetaEntries(r)]
    <2>1. mdsets' = [mdsets EXCEPT ![n] = new]
      BY DEF WriteSection
    <2>2. mdsets \in Seq([Ranks -> SUBSET Request])
      BY DEF FileType, TypeInv, TypeOK
    <2>3. CASE n \in 1 .. Len(mdsets)
      <3>1. mdsets[n] \in [Ranks -> SUBSET Request]
        BY <2>2, <2>3, ElementOfSeq
      <3>2. new \in [Ranks -> SUBSET Request]
        BY <1>2, <3>1
      <3>3. QED
        BY <2>1, <2>2, <2>3, <3>2, ExceptSeq
    <2>4. CASE n \notin 1 .. Len(mdsets)
      <3>1. mdsets' = mdsets
        BY <2>1, <2>2, <2>4, LenProperties
      <3>2. QED
        BY <2>2, <3>1
    <2>5. QED
      BY <2>3, <2>4
  <1>4. FileType'
    BY <1>3 DEF WriteSection, FileType, TypeInv, TypeOK
  <1>6. NumOK'
    BY <1>3 DEF WriteSection, numVars, NumOK, TypeInv
  <1>5. QED
    BY <1>1, <1>4, <1>6, TypeUnchanged DEF WriteSection, appVars, reqVars, TypeInv, TypeOK

\* H5VL_log_filei_metaflush: the deletion of the requests
LEMMA TypeMetaClean ==
  ASSUME TypeInv, NEW r \in Ranks, MetaClean(r)
  PROVE  TypeInv'
  <1>1. StepType'
    BY DEF MetaClean, Goto, StepType, Steps, TypeInv, TypeOK
  <1>2. wreqs' \in [Ranks -> Seq(Request)] /\ nflushed' \in [Ranks -> Nat]
    BY EmptySeq DEF MetaClean, ReqType, TypeInv, TypeOK
  <1>3. \A q \in Ranks : nflushed'[q] <= Len(wreqs'[q])
    BY EmptySeq DEF MetaClean, ReqType, TypeInv, TypeOK
  <1>4. ReqType'
    BY <1>2, <1>3 DEF MetaClean, ReqType, TypeInv, TypeOK
  <1>5. IdsOK'
    <2>1. hist' = hist /\ mreqs' = mreqs
      BY DEF MetaClean, appVars
    <2>2. ASSUME NEW q \in Ranks PROVE wreqs'[q] = wreqs[q] \/ Len(wreqs'[q]) = 0
      <3>1. wreqs' = [wreqs EXCEPT ![r] = <<>>] /\ wreqs \in [Ranks -> Seq(Request)]
        BY DEF MetaClean, ReqType, TypeInv, TypeOK
      <3>2. QED
        BY <3>1, EmptySeq
    <2>3. ASSUME NEW q \in Ranks, NEW k \in 1 .. Len(wreqs'[q]) PROVE wreqs'[q][k].id \in Ids
      BY <2>2 DEF IdsOK, TypeInv
    <2>4. QED
      BY <2>1, <2>3 DEF IdsOK, Ids, TypeInv
  <1>6. MetaType'
    BY DEF MetaClean, MetaType, TypeInv, TypeOK
  <1>7. QED
    BY <1>1, <1>4, <1>5, <1>6, TypeUnchanged DEF MetaClean, TypeInv, TypeOK

\* H5VL_log_read_idx_search
LEMMA TypeSearch ==
  ASSUME TypeInv, NEW r \in Ranks, Search(r)
  PROVE  TypeInv'
  <1>1. StepType'
    BY DEF Search, Goto, StepType, Steps, TypeInv, TypeOK
  <1>2. MetaType'
    <2>1. CASE metadirty[r]
      BY <2>1 DEF Search, MetaType, TypeInv, TypeOK
    <2>2. CASE ~metadirty[r]
      <3>1. \A k \in 1 .. nmdset[r] : mdsets[k] \in [Ranks -> SUBSET Request]
        BY LenProperties, ElementOfSeq DEF NumType, FileType, NumOK, TypeInv, TypeOK
      <3>2. LoadIndex(r) \in SUBSET Request
        BY <3>1 DEF LoadIndex, EntriesIn
      <3>3. QED
        BY <2>2, <3>2 DEF Search, MetaType, TypeInv, TypeOK
    <2>3. QED
      BY <2>1, <2>2
  <1>3. QED
    BY <1>1, <1>2, TypeUnchanged DEF Search, appVars, reqVars, TypeInv, TypeOK

\* H5VL_log_nb_perform_read: the collective read
LEMMA TypeReadAll == ASSUME TypeInv, ReadAll PROVE TypeInv'
  <1>1. StepType'
    BY DEF ReadAll, StepType, Steps, TypeInv, TypeOK
  <1>2. \A off : DataAt(off) \in Int
    <2>1. ASSUME NEW off, NEW x \in disk, x.off = off
          PROVE  (CHOOSE y \in disk : y.off = off).id \in Int
      <3>1. (CHOOSE y \in disk : y.off = off) \in disk
        BY <2>1
      <3>2. disk \in SUBSET [off : Nat, id : Nat]
        BY DEF FileType, TypeInv, TypeOK
      <3>3. QED
        BY <3>1, <3>2
    <2>2. QED
      BY <2>1 DEF DataAt, Garbage
  <1>3. \A r \in Ranks, b \in Blocks : ReadBlock(r, b) \in Int
    BY <1>2 DEF ReadBlock, Fill
  <1>4. ReadType'
    BY <1>3 DEF ReadAll, ReadType, Fill, TypeInv, TypeOK
  <1>5. QED
    BY <1>1, <1>4, TypeUnchanged
       DEF ReadAll, appVars, reqVars, numVars, fileVars, TypeInv, TypeOK

\* The return of a read or of the flush that performed the queued reads
LEMMA TypeReturn ==
  ASSUME TypeInv, NEW r \in Ranks, Return(r)
  PROVE  TypeInv'
  <1>1. StepType'
    BY DEF Return, Goto, StepType, Steps, TypeInv, TypeOK
  <1>2. ReadType'
    BY DEF Return, ReadType, Fill, TypeInv, TypeOK
  <1>3. QED
    BY <1>1, <1>2, TypeUnchanged
       DEF Return, appVars, reqVars, numVars, fileVars, TypeInv, TypeOK

\* H5VL_log_filei_close
LEMMA TypeCloseFile == ASSUME TypeInv, CloseFile PROVE TypeInv'
  <1>1. StepType'
    BY DEF CloseFile, StepType, Steps, TypeInv, TypeOK
  <1>2. ReadType'
    BY DEF CloseFile, ReadType, TypeInv, TypeOK
  <1>3. 0 \in Ranks
    BY NPAssumption DEF Ranks
  <1>4. Len(hist) \in Nat
    BY LenProperties DEF AppType, TypeInv, TypeOK
  <1>5. AttrAtClose \in [nldset : Nat, nmdset : Nat] /\ AttrAtClose.nmdset <= Len(mdsets)
    BY <1>3 DEF AttrAtClose, NumType, NumOK, TypeInv, TypeOK
  <1>6. attr' \in [nldset : Nat, nmdset : Nat] /\ durable' \in Nat /\ attr'.nmdset <= Len(mdsets)
    BY <1>4, <1>5 DEF CloseFile, FileType, NumOK, TypeInv, TypeOK
  <1>7. FileType' /\ NumOK'
    BY <1>6 DEF CloseFile, numVars, FileType, NumOK, TypeInv, TypeOK
  <1>8. QED
    BY <1>1, <1>2, <1>7, TypeUnchanged DEF CloseFile, appVars, reqVars, TypeInv, TypeOK

\* H5VL_log_filei_post_open
LEMMA TypeOpenFile ==
  ASSUME TypeInv, NEW m \in {"rw", "ro"}, OpenFile(m)
  PROVE  TypeInv'
  <1>1. StepType'
    BY DEF OpenFile, StepType, Steps, TypeInv, TypeOK
  <1>2. wreqs' \in [Ranks -> Seq(Request)] /\ mreqs' \in [Ranks -> [0 .. NDset - 1 -> Seq(Nat)]]
    BY EmptySeq DEF OpenFile
  <1>3. \A q \in Ranks : nflushed'[q] = 0 /\ Len(wreqs'[q]) = 0
    BY EmptySeq DEF OpenFile
  <1>4. ReqType'
    BY <1>2, <1>3 DEF OpenFile, ReqType, TypeInv, TypeOK
  <1>5. IdsOK'
    BY <1>3, EmptySeq DEF OpenFile, IdsOK
  <1>6. MetaType'
    BY DEF OpenFile, MetaType
  <1>7. NumType' /\ NumOK'
    BY DEF OpenFile, NumType, NumOK, FileType, TypeInv, TypeOK
  <1>8. FileType'
    BY DEF OpenFile, FileType, TypeInv, TypeOK
  <1>9. QED
    BY <1>1, <1>4, <1>5, <1>6, <1>7, <1>8, TypeUnchanged DEF OpenFile, TypeInv, TypeOK

\* The collectives that only move the ranks on
LEMMA TypeMoveOn ==
  ASSUME TypeInv, MetaBarrier \/ SetView \/ RestoreView
  PROVE  TypeInv'
  <1>1. StepType' /\ UNCHANGED <<appVars, cont, reqVars, readVars, metaVars, numVars, fileVars>>
    BY DEF MetaBarrier, SetView, RestoreView, StepType, Steps, TypeInv, TypeOK
  <1>2. QED
    BY <1>1, TypeUnchanged DEF appVars, reqVars, numVars, fileVars, TypeInv, TypeOK

LEMMA TypeStep == TypeInv /\ [Next]_vars => TypeInv'
  <1> SUFFICES ASSUME TypeInv, [Next]_vars PROVE TypeInv'
    OBVIOUS
  <1>1. ASSUME NEW r \in Ranks, LocalStep(r) PROVE TypeInv'
    BY <1>1, TypePushMerged, TypePack, TypeWriteData, TypeWriteSection, TypeMetaClean, TypeSearch,
       TypeReturn DEF LocalStep
  <1>2. CASE Collective
    BY <1>2, TypeAllreducePending, TypeScanAndCreate, TypeGatherAndCreate, TypeMoveOn, TypeReadAll,
       TypeCloseFile DEF Collective
  <1>3. CASE UNCHANGED vars
    BY <1>3, TypeUnchanged
       DEF vars, appVars, reqVars, numVars, fileVars, TypeInv, TypeOK
  <1>4. QED
    BY <1>1, <1>2, <1>3, TypeWrite, TypeCall, TypeOpenFile DEF Next, Finished

\* Every reachable state is well typed, and no rank has flushed more requests
\* than it has queued.
THEOREM TypeCorrect == Spec => []TypeOK
  <1>1. Spec => []TypeInv
    BY TypeInit, TypeStep, PTL DEF Spec
  <1>2. TypeInv => TypeOK
    BY DEF TypeInv
  <1>3. QED
    BY <1>1, <1>2, PTL
-----------------------------------------------------------------------------
(***************************************************************************)
(* No accepted write is dropped: LogFile!NoWriteLost, also when the        *)
(* application does not flush before it reads and when the library below   *)
(* allocates nothing.                                                      *)
(*                                                                         *)
(* NoWriteLost is not inductive.  Two steps empty a rank's queues: the     *)
(* deletion of the requests after the metadata flush, which is safe        *)
(* because the rank has written all of them to its section (RecordInv),    *)
(* and the close, which is safe because nothing is queued any more         *)
(* (QueueInv, which follows the control of a call through the flush).      *)
(***************************************************************************)
QueueInv(r) ==
    /\ pc[r] # "app" => ncalls[r] >= 1
    /\ pc[r] \in {"pending", "search"} => Op(r) # "close"
    /\ pc[r] \in {"push", "pack", "scan", "write"} =>
         IF Op(r) = "close" THEN cont[r] = "gather" ELSE cont[r] \in {"search", "app"}
    /\ pc[r] \in {"pack", "scan", "write"} => NoMerged(r)
    /\ pc[r] \in {"gather", "section", "barrier", "clean"} /\ Op(r) = "close" => NoMerged(r)
    /\ pc[r] \in {"closing", "closed"} \/ mode = "ro" => NoMerged(r) /\ wreqs[r] = <<>>

RecordInv(r) ==
    /\ pc[r] = "section" => /\ nmdset[r] = Len(mdsets) /\ mdsets # <<>>
                            /\ mdsets[Len(mdsets)][r] = {}
    /\ pc[r] \in {"barrier", "clean"} =>
         \A k \in 1 .. Len(wreqs[r]) : Recorded(wreqs[r][k].id, Len(mdsets))

Inv == TypeInv /\ (\A r \in Ranks : QueueInv(r) /\ RecordInv(r)) /\ NoWriteLost
-----------------------------------------------------------------------------
\* Write i is queued by rank r.
QueuedAt(r, i) ==
    \/ \E d \in 0 .. NDset - 1 : i \in Range(mreqs[r][d])
    \/ \E k \in 1 .. Len(wreqs[r]) : wreqs[r][k].id = i

\* The state of rank r that QueueInv(r) depends on.
Kept(r) ==
    /\ pc'[r] = pc[r] /\ cont'[r] = cont[r] /\ cur'[r] = cur[r] /\ mode' = mode
    /\ mreqs'[r] = mreqs[r] /\ wreqs'[r] = wreqs[r]
    /\ ncalls'[r] = ncalls[r] /\ (ncalls[r] >= 1 => Op(r)' = Op(r))

LEMMA QueueKept ==
  ASSUME NEW r \in Ranks, QueueInv(r), Kept(r)
  PROVE  QueueInv(r)'
  BY DEF QueueInv, Kept, NoMerged

\* A later call of another rank leaves the operation a rank is in alone.
LEMMA OpKept ==
  ASSUME TypeInv, NEW r \in Ranks, NEW q \in Ranks, r # q, NEW op, NEW sel, Joins(r, op, sel)
  PROVE  ncalls'[q] = ncalls[q] /\ (ncalls[q] >= 1 => Op(q)' = Op(q))
  <1>1. ncalls'[q] = ncalls[q]
    BY DEF Joins, TypeInv, TypeOK, AppType
  <1>2. ASSUME ncalls[q] >= 1 PROVE prog'[ncalls[q]] = prog[ncalls[q]]
    <2>1. prog \in Seq(CallRecord) /\ Len(prog) \in Nat /\ ncalls[q] \in 1 .. Len(prog)
      BY <1>2, LenProperties DEF TypeInv, TypeOK, AppType
    <2>2. UNCHANGED prog \/ prog' = Append(prog, [op |-> op, sel |-> sel])
      BY DEF Joins
    <2>3. ASSUME NEW c, prog' = Append(prog, c) PROVE prog'[ncalls[q]] = prog[ncalls[q]]
      BY <2>1, <2>3
    <2>4. QED
      BY <2>2, <2>3
  <1>3. QED
    BY <1>1, <1>2 DEF Op

\* The rank that makes a call is in that operation.
LEMMA OpCalled ==
  ASSUME TypeInv, NEW r \in Ranks, NEW op, NEW sel, Joins(r, op, sel)
  PROVE  ncalls'[r] >= 1 /\ Op(r)' = op
  <1>1. ncalls'[r] = ncalls[r] + 1 /\ ncalls[r] \in Nat /\ ncalls[r] <= Len(prog)
    BY DEF Joins, TypeInv, TypeOK, AppType
  <1>2. prog \in Seq(CallRecord) /\ Len(prog) \in Nat
    BY LenProperties DEF TypeInv, TypeOK, AppType
  <1>3. CASE ncalls[r] < Len(prog)
    BY <1>1, <1>3 DEF Joins, Op
  <1>4. CASE ~(ncalls[r] < Len(prog))
    <2>1. prog' = Append(prog, [op |-> op, sel |-> sel]) /\ ncalls'[r] = Len(prog) + 1
      BY <1>1, <1>2, <1>4 DEF Joins
    <2>2. prog'[Len(prog) + 1] = [op |-> op, sel |-> sel]
      BY <1>2, <2>1
    <2>3. QED
      BY <1>1, <2>1, <2>2 DEF Op
  <1>5. QED
    BY <1>3, <1>4

\* A step of one rank keeps the others' state.
LEMMA OthersKept ==
  ASSUME TypeInv, NEW r \in Ranks, NEW q \in Ranks, r # q,
         (\E b \in Blocks : Write(r, b)) \/ Call(r) \/ LocalStep(r)
  PROVE  Kept(q)
  <1> USE DEF TypeInv, TypeOK, StepType, ReqType
  <1>1. ASSUME NEW b \in Blocks, Write(r, b) PROVE Kept(q)
    BY <1>1 DEF Write, Kept, fileVars, Op
  <1>2. CASE Call(r)
    <2>1. CASE CallFlush(r)
      BY <2>1, OpKept DEF CallFlush, Goto, reqVars, fileVars, Kept
    <2>2. ASSUME NEW s \in Selections, CallRead(r, s) PROVE Kept(q)
      BY <2>2, OpKept DEF CallRead, Goto, reqVars, fileVars, Kept
    <2>3. ASSUME NEW s \in Selections, CallBufferedRead(r, s) PROVE Kept(q)
      BY <2>3, OpKept DEF CallBufferedRead, reqVars, fileVars, Kept
    <2>4. CASE CallClose(r)
      BY <2>4, OpKept DEF CallClose, Goto, fileVars, Kept
    <2>5. QED
      BY <1>2, <2>1, <2>2, <2>3, <2>4 DEF Call
  <1>3. CASE LocalStep(r)
    <2>1. CASE PushMerged(r)
      BY <2>1 DEF PushMerged, Goto, appVars, fileVars, Kept, Op
    <2>2. CASE Pack(r)
      BY <2>2 DEF Pack, Goto, appVars, fileVars, Kept, Op
    <2>3. CASE WriteData(r)
      BY <2>3 DEF WriteData, Goto, appVars, Kept, Op
    <2>4. CASE WriteSection(r)
      BY <2>4 DEF WriteSection, Goto, appVars, reqVars, Kept, Op
    <2>5. CASE MetaClean(r)
      BY <2>5 DEF MetaClean, Goto, appVars, fileVars, Kept, Op
    <2>6. CASE Search(r)
      BY <2>6 DEF Search, Goto, appVars, reqVars, fileVars, Kept, Op
    <2>7. CASE Return(r)
      BY <2>7 DEF Return, Goto, appVars, reqVars, fileVars, Kept, Op
    <2>8. QED
      BY <1>3, <2>1, <2>2, <2>3, <2>4, <2>5, <2>6, <2>7 DEF LocalStep
  <1>4. QED
    BY <1>1, <1>2, <1>3
-----------------------------------------------------------------------------
\* QueueInv of the rank that makes a step of its own, one case per action.
LEMMA QueueLocal ==
  ASSUME TypeInv, NEW r \in Ranks, QueueInv(r),
         (\E b \in Blocks : Write(r, b)) \/ Call(r) \/ LocalStep(r)
  PROVE  QueueInv(r)'
  <1> USE DEF TypeInv, TypeOK, StepType, ReqType
  <1>1. ASSUME NEW b \in Blocks, Write(r, b) PROVE QueueInv(r)'
    BY <1>1 DEF Write, QueueInv, fileVars
  <1>2. CASE Call(r)
    <2>1. CASE CallFlush(r)
      <3>1. ncalls'[r] >= 1 /\ Op(r)' = "flush"
        BY <2>1, OpCalled DEF CallFlush
      <3>2. QED
        BY <2>1, <3>1 DEF CallFlush, Goto, reqVars, fileVars, QueueInv, NoMerged
    <2>2. ASSUME NEW s \in Selections, CallRead(r, s) PROVE QueueInv(r)'
      <3>1. ncalls'[r] >= 1 /\ Op(r)' = "read"
        BY <2>2, OpCalled DEF CallRead
      <3>2. pc'[r] \in {"app", "pending", "search"}
        BY <2>2 DEF CallRead, Goto
      <3>3. QED
        BY <2>2, <3>1, <3>2 DEF CallRead, reqVars, fileVars, QueueInv, NoMerged
    <2>3. ASSUME NEW s \in Selections, CallBufferedRead(r, s) PROVE QueueInv(r)'
      <3>1. ncalls'[r] >= 1 /\ pc'[r] = "app"
        BY <2>3, OpCalled DEF CallBufferedRead, Joins
      <3>2. QED
        BY <2>3, <3>1 DEF CallBufferedRead, reqVars, fileVars, QueueInv, NoMerged
    <2>4. CASE CallClose(r)
      <3>1. ncalls'[r] >= 1 /\ Op(r)' = "close"
        BY <2>4, OpCalled DEF CallClose
      <3>2. CASE mode = "ro"
        <4>1. pc'[r] = "closing" /\ wreqs[r] = <<>> /\ NoMerged(r)
          BY <2>4, <3>2 DEF CallClose, Goto, QueueInv
        <4>2. QED
          BY <2>4, <3>1, <4>1 DEF CallClose, QueueInv, NoMerged, fileVars
      <3>3. CASE mode # "ro"
        <4>1. pc'[r] = "push" /\ cur'[r] = 0 /\ cont'[r] = "gather"
          BY <2>4, <3>3 DEF CallClose, Goto
        <4>2. QED
          BY <2>4, <3>1, <3>3, <4>1 DEF CallClose, QueueInv, fileVars
      <3>4. QED
        BY <3>2, <3>3
    <2>5. QED
      BY <1>2, <2>1, <2>2, <2>3, <2>4 DEF Call
  <1>3. CASE PushMerged(r)
    <2>1. mode' = mode /\ ncalls' = ncalls /\ Op(r)' = Op(r) /\ cont' = cont /\ pc[r] = "push"
      BY <1>3 DEF PushMerged, appVars, fileVars, Op
    <2>2. CASE ~NoMerged(r)
      BY <1>3, <2>1, <2>2 DEF PushMerged, QueueInv, NoMerged
    <2>3. CASE NoMerged(r)
      <3>1. pc'[r] = "pack" /\ wreqs' = wreqs /\ mreqs' = mreqs
        BY <1>3, <2>3 DEF PushMerged, Goto, NoMerged
      <3>2. QED
        BY <2>1, <2>3, <3>1 DEF QueueInv, NoMerged
    <2>4. QED
      BY <2>2, <2>3
  <1>4. CASE Pack(r)
    <2>1. mode' = mode /\ ncalls' = ncalls /\ Op(r)' = Op(r) /\ cont' = cont /\ mreqs' = mreqs
          /\ pc[r] = "pack" /\ pc'[r] \in {"pack", "scan"}
      BY <1>4 DEF Pack, Goto, appVars, fileVars, Op
    <2>2. wreqs[r] = <<>> => wreqs'[r] = <<>>
      BY <1>4, EmptySeq DEF Pack
    <2>3. QED
      BY <2>1, <2>2 DEF QueueInv, NoMerged
  <1>5. CASE WriteData(r)
    <2>1. mode' = mode /\ ncalls' = ncalls /\ Op(r)' = Op(r) /\ cont' = cont /\ mreqs' = mreqs
          /\ pc[r] = "write" /\ pc'[r] = cont[r]
      BY <1>5 DEF WriteData, Goto, appVars, Op
    <2>2. wreqs[r] = <<>> => wreqs'[r] = <<>>
      <3>1. ASSUME wreqs[r] = <<>>
            PROVE  wreqs'[r] = [k \in 1 .. 0 |-> IF k \in {j \in 1 .. 0 : j > nflushed[r]}
                         THEN [id |-> wreqs[r][k].id, foff |-> wreqs[r][k].foff + foff[r]]
                         ELSE wreqs[r][k]]
        BY <1>5, <3>1, EmptySeq DEF WriteData
      <3>2. QED
        BY <3>1
    <2>3. QED
      BY <2>1, <2>2 DEF QueueInv, NoMerged
  <1>6. CASE WriteSection(r)
    BY <1>6 DEF WriteSection, Goto, appVars, reqVars, Op, QueueInv, NoMerged
  <1>7. CASE MetaClean(r)
    <2>1. mode' = mode /\ ncalls' = ncalls /\ Op(r)' = Op(r) /\ cont' = cont /\ mreqs' = mreqs
          /\ pc[r] = "clean" /\ wreqs'[r] = <<>>
          /\ pc'[r] = IF Op(r) = "close" THEN "closing" ELSE "search"
      BY <1>7 DEF MetaClean, Goto, appVars, fileVars, Op
    <2>2. QED
      BY <2>1 DEF QueueInv, NoMerged
  <1>8. CASE Search(r)
    <2>1. mode' = mode /\ ncalls' = ncalls /\ Op(r)' = Op(r) /\ mreqs' = mreqs /\ wreqs' = wreqs
          /\ pc[r] = "search" /\ pc'[r] \in {"gather", "view", "readall"}
      BY <1>8 DEF Search, Goto, appVars, reqVars, fileVars, Op
    <2>2. QED
      BY <2>1 DEF QueueInv, NoMerged
  <1>9. CASE Return(r)
    BY <1>9 DEF Return, Goto, appVars, reqVars, fileVars, Op, QueueInv, NoMerged
  <1>10. QED
    BY <1>1, <1>2, <1>3, <1>4, <1>5, <1>6, <1>7, <1>8, <1>9 DEF LocalStep

\* QueueInv over the collectives and the reopening of the file.
LEMMA QueueCollective ==
  ASSUME TypeInv, NEW r \in Ranks, QueueInv(r), Collective
  PROVE  QueueInv(r)'
  <1> USE DEF TypeInv, TypeOK, StepType, ReqType
  <1>1. UNCHANGED <<ncalls, prog, mreqs, wreqs, mode>> /\ Op(r)' = Op(r)
    BY DEF Collective, AllreducePending, ScanAndCreate, GatherAndCreate, MetaBarrier, SetView,
       ReadAll, RestoreView, CloseFile, appVars, reqVars, fileVars, Op
  <1>2. CASE AllreducePending
    <2>1. pc[r] = "pending" /\ cur'[r] = 0 /\ cont'[r] \in {"search", "app"}
          /\ pc'[r] \in {"push", "search", "app"}
      BY <1>2 DEF AllreducePending, At, AfterWrites
    <2>2. QED
      BY <1>1, <2>1 DEF QueueInv, NoMerged
  <1>3. CASE ScanAndCreate
    <2>1. pc[r] = "scan" /\ cont'[r] = cont[r] /\ (pc'[r] = cont[r] \/ pc'[r] = "write")
      BY <1>3 DEF ScanAndCreate, At
    <2>2. QED
      BY <1>1, <2>1 DEF QueueInv, NoMerged
  <1>4. CASE GatherAndCreate
    <2>1. pc[r] = "gather" /\ pc'[r] \in {"clean", "section"}
      BY <1>4 DEF GatherAndCreate, At
    <2>2. QED
      BY <1>1, <2>1 DEF QueueInv, NoMerged
  <1>5. CASE MetaBarrier
    <2>1. pc[r] = "barrier" /\ pc'[r] = "clean"
      BY <1>5 DEF MetaBarrier, At
    <2>2. QED
      BY <1>1, <2>1 DEF QueueInv, NoMerged
  <1>6. CASE SetView \/ ReadAll \/ RestoreView
    <2>1. pc[r] \in {"view", "readall", "unview"} /\ pc'[r] \in {"readall", "unview", "return"}
      BY <1>6 DEF SetView, ReadAll, RestoreView, At
    <2>2. QED
      BY <1>1, <2>1 DEF QueueInv, NoMerged
  <1>7. CASE CloseFile
    <2>1. pc[r] = "closing" /\ pc'[r] = "closed"
      BY <1>7 DEF CloseFile, At
    <2>2. QED
      BY <1>1, <2>1 DEF QueueInv, NoMerged
  <1>8. QED
    BY <1>2, <1>3, <1>4, <1>5, <1>6, <1>7 DEF Collective

LEMMA QueueOpen ==
  ASSUME TypeInv, NEW r \in Ranks, NEW m \in {"rw", "ro"}, OpenFile(m)
  PROVE  QueueInv(r)'
  BY DEF OpenFile, QueueInv, NoMerged
-----------------------------------------------------------------------------
\* The only steps that change the history, the log data, the metadata sections
\* and what a close leaves.
LEMMA FileSteps ==
  ASSUME [Next]_vars
  PROVE  /\ UNCHANGED hist \/ \E r \in Ranks, b \in Blocks : Write(r, b)
         /\ UNCHANGED disk \/ \E r \in Ranks : WriteData(r)
         /\ UNCHANGED mdsets \/ GatherAndCreate \/ \E r \in Ranks : WriteSection(r)
         /\ UNCHANGED <<attr, durable>> \/ CloseFile
  <1> USE DEF appVars, fileVars
  <1>1. ASSUME NEW r \in Ranks, Call(r) PROVE UNCHANGED <<hist, disk, mdsets, attr, durable>>
    <2>1. CASE CallFlush(r)
      BY <2>1 DEF CallFlush, Joins
    <2>2. ASSUME NEW s \in Selections, CallRead(r, s)
          PROVE  UNCHANGED <<hist, disk, mdsets, attr, durable>>
      BY <2>2 DEF CallRead, Joins
    <2>3. ASSUME NEW s \in Selections, CallBufferedRead(r, s)
          PROVE  UNCHANGED <<hist, disk, mdsets, attr, durable>>
      BY <2>3 DEF CallBufferedRead, Joins
    <2>4. CASE CallClose(r)
      BY <2>4 DEF CallClose, Joins
    <2>5. QED
      BY <1>1, <2>1, <2>2, <2>3, <2>4 DEF Call
  <1>2. ASSUME NEW r \in Ranks, LocalStep(r), ~WriteData(r), ~WriteSection(r)
        PROVE  UNCHANGED <<hist, disk, mdsets, attr, durable>>
    <2>1. CASE PushMerged(r)
      BY <2>1 DEF PushMerged
    <2>2. CASE Pack(r)
      BY <2>2 DEF Pack
    <2>3. CASE MetaClean(r)
      BY <2>3 DEF MetaClean
    <2>4. CASE Search(r)
      BY <2>4 DEF Search
    <2>5. CASE Return(r)
      BY <2>5 DEF Return
    <2>6. QED
      BY <1>2, <2>1, <2>2, <2>3, <2>4, <2>5 DEF LocalStep
  <1>3. CASE Collective
    <2>1. CASE AllreducePending
      BY <2>1 DEF AllreducePending
    <2>2. CASE ScanAndCreate
      BY <2>2 DEF ScanAndCreate
    <2>3. CASE GatherAndCreate
      BY <2>3 DEF GatherAndCreate
    <2>4. CASE MetaBarrier
      BY <2>4 DEF MetaBarrier
    <2>5. CASE SetView
      BY <2>5 DEF SetView
    <2>6. CASE ReadAll
      BY <2>6 DEF ReadAll
    <2>7. CASE RestoreView
      BY <2>7 DEF RestoreView
    <2>8. CASE CloseFile
      BY <2>8 DEF CloseFile
    <2>9. QED
      BY <1>3, <2>1, <2>2, <2>3, <2>4, <2>5, <2>6, <2>7, <2>8 DEF Collective
  <1>4. ASSUME NEW r \in Ranks, NEW b \in Blocks, Write(r, b)
        PROVE  UNCHANGED <<disk, mdsets, attr, durable>>
    BY <1>4 DEF Write
  <1>5. ASSUME NEW r \in Ranks, WriteData(r) PROVE UNCHANGED <<hist, mdsets, attr, durable>>
    BY <1>5 DEF WriteData
  <1>6. ASSUME NEW r \in Ranks, WriteSection(r) PROVE UNCHANGED <<hist, disk, attr, durable>>
    BY <1>6 DEF WriteSection
  <1>7. ASSUME NEW m \in {"rw", "ro"}, OpenFile(m)
        PROVE  UNCHANGED <<hist, disk, mdsets, attr, durable>>
    BY <1>7 DEF OpenFile
  <1>8. CASE Finished \/ UNCHANGED vars
    BY <1>8 DEF Finished, vars
  <1>9. QED
    BY <1>1, <1>2, <1>3, <1>4, <1>5, <1>6, <1>7, <1>8 DEF Next

\* The sections of the file only gain entries, provided each is written once.
LEMMA SectionsGrow ==
  ASSUME TypeInv, \A r \in Ranks : RecordInv(r), [Next]_vars,
         NEW k \in 1 .. Len(mdsets), NEW p \in Ranks
  PROVE  k \in 1 .. Len(mdsets') /\ mdsets[k][p] \subseteq mdsets'[k][p]
  <1>1. mdsets \in Seq([Ranks -> SUBSET Request]) /\ Len(mdsets) \in Nat
    BY LenProperties DEF TypeInv, TypeOK, FileType
  <1>2. CASE UNCHANGED mdsets
    BY <1>2
  <1>3. CASE GatherAndCreate
    <2>1. UNCHANGED mdsets \/ mdsets' = Append(mdsets, [r \in Ranks |-> {}])
      BY <1>3 DEF GatherAndCreate
    <2>2. ASSUME NEW x, mdsets' = Append(mdsets, x)
          PROVE  Len(mdsets') = Len(mdsets) + 1 /\ mdsets'[k] = mdsets[k]
      BY <1>1, <2>2
    <2>3. QED
      BY <1>1, <1>2, <2>1, <2>2
  <1>4. ASSUME NEW r \in Ranks, WriteSection(r)
        PROVE  k \in 1 .. Len(mdsets') /\ mdsets[k][p] \subseteq mdsets'[k][p]
    <2>1. nmdset[r] = Len(mdsets) /\ mdsets # <<>> /\ mdsets[Len(mdsets)][r] = {}
      BY <1>4 DEF WriteSection, RecordInv
    <2>2. Len(mdsets) \in 1 .. Len(mdsets)
      BY <1>1, <2>1, EmptySeq
    <2>3. QED
      BY <1>1, <1>4, <2>1, <2>2 DEF WriteSection
  <1>5. UNCHANGED mdsets \/ GatherAndCreate \/ \E r \in Ranks : WriteSection(r)
    BY FileSteps
  <1>6. QED
    BY <1>2, <1>3, <1>4, <1>5

LEMMA EntriesGrow ==
  ASSUME TypeInv, \A r \in Ranks : RecordInv(r), [Next]_vars
  PROVE  EntriesIn(Len(mdsets)) \subseteq EntriesIn(Len(mdsets))'
  BY SectionsGrow DEF EntriesIn

\* RecordInv(r) where neither r's queue and step nor the metadata datasets change.
LEMMA RecordKept ==
  ASSUME NEW r \in Ranks, RecordInv(r), pc'[r] = pc[r], wreqs'[r] = wreqs[r],
         nmdset'[r] = nmdset[r], UNCHANGED mdsets
  PROVE  RecordInv(r)'
  BY DEF RecordInv, Recorded, EntriesIn

\* RecordInv over the writing of a section, by r and by another rank.
LEMMA RecordSection ==
  ASSUME TypeInv, \A p \in Ranks : RecordInv(p), NEW q \in Ranks, NEW r \in Ranks, WriteSection(q)
  PROVE  RecordInv(r)'
  <1>1. mdsets \in Seq([Ranks -> SUBSET Request]) /\ Len(mdsets) \in Nat
    BY LenProperties DEF TypeInv, TypeOK, FileType
  <1>2. nmdset[q] = Len(mdsets) /\ mdsets # <<>> /\ Len(mdsets) \in 1 .. Len(mdsets)
    BY <1>1, EmptySeq DEF WriteSection, RecordInv
  <1>3. Len(mdsets') = Len(mdsets) /\ mdsets' \in Seq([Ranks -> SUBSET Request]) /\ mdsets' # <<>>
    <2>1. TypeInv'
      BY TypeWriteSection
    <2>2. DOMAIN mdsets' = DOMAIN mdsets
      BY DEF WriteSection
    <2>3. mdsets' \in Seq([Ranks -> SUBSET Request])
      BY <2>1 DEF TypeInv, TypeOK, FileType
    <2>4. Len(mdsets') = Len(mdsets)
      BY <1>1, <2>2, <2>3, LenProperties
    <2>5. QED
      BY <1>2, <2>3, <2>4, EmptySeq
  <1>4. /\ mdsets'[Len(mdsets)][q] = MetaEntries(q)
        /\ q # r => mdsets'[Len(mdsets)][r] = mdsets[Len(mdsets)][r]
    BY <1>1, <1>2 DEF WriteSection
  <1>5. wreqs' = wreqs /\ nmdset' = nmdset /\ pc' = [pc EXCEPT ![q] = "barrier"]
    BY DEF WriteSection, Goto, reqVars, numVars
  <1>6. CASE r = q
    <2>1. pc'[r] = "barrier"
      BY <1>5, <1>6 DEF TypeInv, TypeOK, StepType
    <2>2. ASSUME NEW k \in 1 .. Len(wreqs'[r])
          PROVE  Recorded(wreqs[r][k].id, Len(mdsets))'
      <3>1. wreqs[r] \in Seq(Request) /\ k \in 1 .. Len(wreqs[r])
        BY <1>5 DEF TypeInv, TypeOK, ReqType
      <3>2. wreqs[r][k] \in MetaEntries(q)
        BY <1>6, <3>1, LenProperties DEF MetaEntries, Range
      <3>3. wreqs[r][k] \in EntriesIn(Len(mdsets))'
        BY <1>2, <1>3, <1>4, <3>2 DEF EntriesIn
      <3>4. QED
        BY <1>5, <3>3 DEF Recorded
    <2>3. QED
      BY <1>5, <2>1, <2>2 DEF RecordInv
  <1>7. CASE r # q
    <2>1. pc'[r] = pc[r]
      BY <1>5, <1>7 DEF TypeInv, TypeOK, StepType
    <2>2. EntriesIn(Len(mdsets)) \subseteq EntriesIn(Len(mdsets))'
      BY EntriesGrow DEF Next, LocalStep
    <2>3. QED
      BY <1>3, <1>4, <1>5, <1>7, <2>1, <2>2 DEF RecordInv, Recorded
  <1>8. QED
    BY <1>6, <1>7

LEMMA RecordStep ==
  ASSUME TypeInv, \A q \in Ranks : QueueInv(q) /\ RecordInv(q), [Next]_vars, NEW r \in Ranks
  PROVE  RecordInv(r)'
  <1> USE DEF TypeInv, TypeOK, StepType, ReqType, NumType
  <1>1. ASSUME NEW q \in Ranks,
               \/ \E b \in Blocks : Write(q, b)
               \/ Call(q)
               \/ LocalStep(q) /\ ~WriteSection(q)
        PROVE  RecordInv(r)'
    <2>1. UNCHANGED mdsets /\ nmdset' = nmdset
      <3> USE DEF fileVars, numVars
      <3>1. CASE \E b \in Blocks : Write(q, b)
        BY <3>1 DEF Write
      <3>2. CASE Call(q)
        <4>1. CASE CallFlush(q) \/ CallClose(q)
          BY <4>1 DEF CallFlush, CallClose
        <4>2. CASE \E s \in Selections : CallRead(q, s)
          BY <4>2 DEF CallRead
        <4>3. CASE \E s \in Selections \ {{}} : CallBufferedRead(q, s)
          BY <4>3 DEF CallBufferedRead
        <4>4. QED
          BY <3>2, <4>1, <4>2, <4>3 DEF Call
      <3>3. CASE PushMerged(q) \/ Pack(q)
        BY <3>3 DEF PushMerged, Pack
      <3>4. CASE WriteData(q)
        BY <3>4 DEF WriteData
      <3>5. CASE MetaClean(q) \/ Search(q) \/ Return(q)
        BY <3>5 DEF MetaClean, Search, Return
      <3>6. QED
        BY <1>1, <3>1, <3>2, <3>3, <3>4, <3>5 DEF LocalStep
    <2>2. CASE q # r
      <3>1. Kept(r)
        BY <1>1, <2>2, OthersKept
      <3>2. QED
        BY <2>1, <3>1, RecordKept DEF Kept
    <2>3. CASE q = r
      <3>1. pc'[r] \in Steps \ {"section", "barrier", "clean"}
        <4>1. CASE (\E b \in Blocks : Write(q, b)) \/ Call(q)
          <5>1. CASE \E b \in Blocks : Write(q, b)
            BY <2>3, <5>1 DEF Write, Steps
          <5>2. CASE CallFlush(q) \/ CallClose(q)
            BY <2>3, <5>2 DEF CallFlush, CallClose, Goto, Steps
          <5>3. CASE \E s \in Selections : CallRead(q, s)
            BY <2>3, <5>3 DEF CallRead, Goto, Steps
          <5>4. CASE \E s \in Selections \ {{}} : CallBufferedRead(q, s)
            BY <2>3, <5>4 DEF CallBufferedRead, Joins, Steps
          <5>5. QED
            BY <4>1, <5>1, <5>2, <5>3, <5>4 DEF Call
        <4>2. CASE PushMerged(q) \/ Pack(q)
          BY <2>3, <4>2 DEF PushMerged, Pack, Goto, Steps
        <4>3. CASE MetaClean(q) \/ Search(q) \/ Return(q)
          BY <2>3, <4>3 DEF MetaClean, Search, Return, Goto, Steps
        <4>4. CASE WriteData(q)
          <5>1. pc[q] = "write" /\ pc'[q] = cont[q]
            BY <4>4 DEF WriteData, Goto
          <5>2. QED
            BY <2>3, <5>1 DEF QueueInv, Steps
        <4>5. QED
          BY <1>1, <4>1, <4>2, <4>3, <4>4 DEF LocalStep
      <3>2. QED
        BY <3>1 DEF RecordInv
    <2>4. QED
      BY <2>2, <2>3
  <1>2. ASSUME NEW q \in Ranks, WriteSection(q) PROVE RecordInv(r)'
    BY <1>2, RecordSection
  <1>3. CASE GatherAndCreate
    <2>1. CASE \A q \in Ranks : wreqs[q] = <<>>
      BY <1>3, <2>1, EmptySeq DEF GatherAndCreate, reqVars, RecordInv
    <2>2. CASE ~ \A q \in Ranks : wreqs[q] = <<>>
      <3>1. /\ mdsets' = Append(mdsets, [q \in Ranks |-> {}]) /\ pc'[r] = "section"
            /\ nmdset'[r] = Len(mdsets) + 1
        BY <1>3, <2>2 DEF GatherAndCreate
      <3>2. mdsets \in Seq([Ranks -> SUBSET Request]) /\ [q \in Ranks |-> {}] \in [Ranks -> SUBSET Request]
        BY DEF FileType
      <3>3. Len(mdsets') = Len(mdsets) + 1 /\ Len(mdsets) \in Nat
            /\ mdsets'[Len(mdsets) + 1] = [q \in Ranks |-> {}]
        BY <3>1, <3>2, AppendProperties, LenProperties
      <3>4. mdsets' # <<>>
        BY <3>3, EmptySeq
      <3>5. QED
        BY <3>1, <3>3, <3>4 DEF RecordInv
    <2>3. QED
      BY <2>1, <2>2
  <1>4. CASE MetaBarrier
    <2>1. pc[r] = "barrier" /\ pc'[r] = "clean" /\ UNCHANGED <<wreqs, mdsets>>
      BY <1>4 DEF MetaBarrier, At, reqVars, fileVars
    <2>2. \A k \in 1 .. Len(wreqs[r]) : Recorded(wreqs[r][k].id, Len(mdsets))
      BY <2>1 DEF RecordInv
    <2>3. \A id : Recorded(id, Len(mdsets)) => Recorded(id, Len(mdsets))'
      BY <2>1 DEF Recorded, EntriesIn
    <2>4. QED
      BY <2>1, <2>2, <2>3 DEF RecordInv
  <1>5. CASE Collective /\ ~GatherAndCreate /\ ~MetaBarrier
    <2>1. pc'[r] \notin {"section", "barrier", "clean"}
      <3>1. CASE ScanAndCreate
        <4>1. pc[r] = "scan" /\ pc'[r] \in {cont[r], "write"}
          BY <3>1 DEF ScanAndCreate, At
        <4>2. QED
          BY <4>1 DEF QueueInv
      <3>2. CASE AllreducePending
        BY <3>2 DEF AllreducePending, AfterWrites
      <3>3. CASE SetView \/ ReadAll \/ RestoreView \/ CloseFile
        BY <3>3 DEF SetView, ReadAll, RestoreView, CloseFile
      <3>4. QED
        BY <1>5, <3>1, <3>2, <3>3 DEF Collective
    <2>2. QED
      BY <2>1 DEF RecordInv
  <1>6. ASSUME NEW m \in {"rw", "ro"}, OpenFile(m) PROVE RecordInv(r)'
    BY <1>6 DEF OpenFile, RecordInv
  <1>7. CASE UNCHANGED vars
    BY <1>7, RecordKept DEF vars, reqVars, numVars, fileVars
  <1>8. QED
    BY <1>1, <1>2, <1>3, <1>4, <1>5, <1>6, <1>7 DEF Next, Finished, LocalStep
-----------------------------------------------------------------------------
\* Queueing the merged requests after those already queued.
LEMMA ConcatRequests ==
  ASSUME NEW s \in Seq(Request), NEW t \in Seq(Request)
  PROVE  /\ Len(s \o t) = Len(s) + Len(t)
         /\ \A k \in 1 .. Len(s) + Len(t) : (s \o t)[k] =
              IF k <= Len(s) THEN s[k] ELSE t[k - Len(s)]
  BY ConcatProperties

\* A queued request stays queued by its rank, or has been recorded when the
\* rank deletes its requests.
LEMMA QueuedStep ==
  ASSUME TypeInv, \A q \in Ranks : QueueInv(q) /\ RecordInv(q), [Next]_vars,
         NEW r \in Ranks, NEW i, QueuedAt(r, i)
  PROVE  QueuedAt(r, i)' \/ Recorded(i, Len(mdsets))
  <1> USE DEF TypeInv, TypeOK, ReqType
  <1>1. ASSUME wreqs'[r] = wreqs[r], mreqs'[r] = mreqs[r]
        PROVE  QueuedAt(r, i)'
    BY <1>1 DEF QueuedAt
  <1>2. ASSUME NEW q \in Ranks, q # r,
               (\E b \in Blocks : Write(q, b)) \/ Call(q) \/ LocalStep(q)
        PROVE  QueuedAt(r, i)'
    BY <1>1, <1>2, OthersKept DEF Kept
  <1>3. ASSUME NEW b \in Blocks, Write(r, b) PROVE QueuedAt(r, i)'
    <2>1. CASE Merge
      <3>1. /\ wreqs' = wreqs
            /\ mreqs' = [mreqs EXCEPT ![r][Dset[b]] = Append(@, Len(hist'))]
        BY <1>3, <2>1 DEF Write
      <3>2. ASSUME NEW d \in 0 .. NDset - 1, i \in Range(mreqs[r][d])
            PROVE  i \in Range(mreqs'[r][d])
        <4>1. mreqs[r][d] \in Seq(Nat)
          OBVIOUS
        <4>2. mreqs'[r][d] = mreqs[r][d] \/ mreqs'[r][d] = Append(mreqs[r][d], Len(hist'))
          BY <3>1
        <4>3. PICK k \in 1 .. Len(mreqs[r][d]) : mreqs[r][d][k] = i
          BY <3>2, <4>1, LenProperties DEF Range
        <4>4. ASSUME NEW w PROVE i \in Range(Append(mreqs[r][d], w))
          <5>1. Append(mreqs[r][d], w)[k] = i /\ k \in DOMAIN Append(mreqs[r][d], w)
            BY <4>1, <4>3
          <5>2. QED
            BY <5>1 DEF Range
        <4>5. QED
          BY <3>2, <4>2, <4>4
      <3>3. QED
        BY <3>1, <3>2 DEF QueuedAt
    <2>2. CASE ~Merge
      <3>1. mreqs' = mreqs /\ wreqs' = [wreqs EXCEPT ![r] = Append(@, [id |-> Len(hist'), foff |-> 0])]
        BY <1>3, <2>2 DEF Write
      <3>2. ASSUME NEW k \in 1 .. Len(wreqs[r])
            PROVE  k \in 1 .. Len(wreqs'[r]) /\ wreqs'[r][k] = wreqs[r][k]
        <4>1. ASSUME NEW w, wreqs'[r] = Append(wreqs[r], w)
              PROVE  k \in 1 .. Len(wreqs'[r]) /\ wreqs'[r][k] = wreqs[r][k]
          BY <4>1
        <4>2. QED
          BY <3>1, <4>1
      <3>3. QED
        BY <3>1, <3>2 DEF QueuedAt
    <2>3. QED
      BY <2>1, <2>2
  <1>4. CASE Call(r)
    BY <1>1, <1>4 DEF Call, CallFlush, CallRead, CallBufferedRead, CallClose, reqVars
  <1>5. CASE PushMerged(r)
    <2>1. CASE ~NoMerged(r)
      <3>11. PICK e \in 0 .. NDset - 1 :
               /\ wreqs' = [wreqs EXCEPT ![r] =
                    @ \o [k \in 1 .. Len(mreqs[r][e]) |-> [id |-> mreqs[r][e][k], foff |-> 0]]]
               /\ mreqs' = [mreqs EXCEPT ![r][e] = <<>>]
        BY <1>5, <2>1 DEF PushMerged, NoMerged
      <3> DEFINE m == mreqs[r][e]
                 new == [k \in 1 .. Len(m) |-> [id |-> m[k], foff |-> 0]]
      <3>12. m \in Seq(Nat) /\ wreqs[r] \in Seq(Request)
        BY <3>11
      <3>2. m \in Seq(Nat) /\ Len(m) \in Nat /\ wreqs[r] \in Seq(Request) /\ Len(wreqs[r]) \in Nat
        BY <3>12, LenProperties
      <3>1. wreqs'[r] = wreqs[r] \o new /\ mreqs'[r] = [mreqs[r] EXCEPT ![e] = <<>>]
        BY <3>11
      <3>3. \A k \in 1 .. Len(m) : m[k] \in Nat
        BY <3>2, ElementOfSeq
      <3>4. new \in [1 .. Len(m) -> Request]
        BY <3>3 DEF Request
      <3>5. \A k \in 1 .. Len(m) : new[k].id = m[k]
        OBVIOUS
      <3> HIDE DEF new, m
      <3>6. new \in Seq(Request) /\ Len(new) = Len(m)
        BY <3>2, <3>4, SeqOfFunction
      <3> DEFINE old == wreqs[r]
      <3>13. old \in Seq(Request) /\ Len(old) \in Nat /\ wreqs'[r] = old \o new
        BY <3>1, <3>2
      <3> HIDE DEF old
      <3>14. /\ Len(old \o new) = Len(old) + Len(new)
             /\ \A k \in 1 .. Len(old) + Len(new) : (old \o new)[k] =
                  IF k <= Len(old) THEN old[k] ELSE new[k - Len(old)]
        BY <3>6, <3>13, ConcatRequests
      <3>7. /\ Len(wreqs'[r]) = Len(old) + Len(m)
            /\ \A k \in 1 .. Len(old) + Len(m) : wreqs'[r][k] =
                 IF k <= Len(old) THEN old[k] ELSE new[k - Len(old)]
        BY <3>6, <3>13, <3>14
      <3>8. ASSUME NEW k \in 1 .. Len(wreqs[r]), wreqs[r][k].id = i
            PROVE  QueuedAt(r, i)'
        <4>1. k \in 1 .. Len(old)
          BY <3>8 DEF old
        <4>2. k \in 1 .. Len(wreqs'[r]) /\ wreqs'[r][k] = old[k]
          BY <3>2, <3>7, <3>13, <4>1
        <4>3. wreqs'[r][k].id = i
          BY <3>8, <4>2 DEF old
        <4>4. QED
          BY <4>2, <4>3 DEF QueuedAt
      <3>9. ASSUME NEW d \in 0 .. NDset - 1, i \in Range(mreqs[r][d])
            PROVE  QueuedAt(r, i)'
        <4>1. CASE d = e
          <5>1. PICK k \in 1 .. Len(m) : m[k] = i
            BY <3>2, <3>9, <4>1, LenProperties DEF Range, m
          <5>2. Len(old) + k \in 1 .. Len(wreqs'[r]) /\ wreqs'[r][Len(old) + k] = new[k]
            BY <3>2, <3>7, <3>13, <5>1
          <5>3. wreqs'[r][Len(old) + k].id = i
            BY <3>5, <5>1, <5>2
          <5>4. QED
            BY <5>2, <5>3 DEF QueuedAt
        <4>2. CASE d # e
          <5>1. mreqs'[r][d] = mreqs[r][d]
            BY <3>1, <3>11, <4>2
          <5>2. QED
            BY <3>9, <5>1 DEF QueuedAt
        <4>3. QED
          BY <4>1, <4>2
      <3>10. QED
        BY <3>8, <3>9 DEF QueuedAt
    <2>2. CASE NoMerged(r)
      BY <1>1, <1>5, <2>2 DEF PushMerged, NoMerged
    <2>3. QED
      BY <2>1, <2>2
  <1>6. CASE Pack(r) \/ WriteData(r)
    <2>1. mreqs' = mreqs
      BY <1>6 DEF Pack, WriteData
    <2>2. Len(wreqs'[r]) = Len(wreqs[r]) /\ \A k \in 1 .. Len(wreqs[r]) : wreqs'[r][k].id = wreqs[r][k].id
      <3>1. CASE Pack(r)
        <4>1. CASE cur[r] < Len(wreqs[r])
          <5> DEFINE k == cur[r] + 1
                     w == [wreqs[r][k] EXCEPT !.foff = fsize[r]]
          <5>1. wreqs[r] \in Seq(Request) /\ k \in 1 .. Len(wreqs[r])
            BY <4>1, LenProperties
          <5>2. wreqs[r][k] \in Request /\ fsize[r] \in Nat
            BY <5>1, ElementOfSeq
          <5>3. w \in Request /\ w.id = wreqs[r][k].id
            BY <5>2 DEF Request
          <5>4. wreqs'[r] = [wreqs[r] EXCEPT ![k] = w]
            BY <3>1, <4>1 DEF Pack
          <5> HIDE DEF k, w
          <5>5. QED
            BY <5>1, <5>3, <5>4, ExceptSeq
        <4>2. CASE ~(cur[r] < Len(wreqs[r]))
          BY <3>1, <4>2 DEF Pack
        <4>3. QED
          BY <4>1, <4>2
      <3>2. CASE WriteData(r)
        BY <3>2 DEF WriteData
      <3>3. QED
        BY <1>6, <3>1, <3>2
    <2>3. QED
      BY <2>1, <2>2 DEF QueuedAt
  <1>7. CASE WriteSection(r) \/ Search(r) \/ Return(r)
    BY <1>1, <1>7 DEF WriteSection, Search, Return, reqVars
  <1>8. CASE MetaClean(r)
    <2>1. mreqs' = mreqs /\ pc[r] = "clean"
      BY <1>8 DEF MetaClean
    <2>2. QED
      BY <2>1 DEF QueuedAt, RecordInv
  <1>9. CASE Collective
    BY <1>1, <1>9 DEF Collective, AllreducePending, ScanAndCreate, GatherAndCreate, MetaBarrier,
       SetView, ReadAll, RestoreView, CloseFile, reqVars
  <1>10. ASSUME NEW m \in {"rw", "ro"}, OpenFile(m) PROVE FALSE
    <2>1. wreqs[r] = <<>> /\ NoMerged(r)
      BY <1>10 DEF OpenFile, At, QueueInv
    <2>2. QED
      BY <2>1, EmptySeq DEF QueuedAt, NoMerged, Range
  <1>11. CASE UNCHANGED vars
    BY <1>1, <1>11 DEF vars, reqVars
  <1>12. QED
    BY <1>2, <1>3, <1>4, <1>5, <1>6, <1>7, <1>8, <1>9, <1>10, <1>11 DEF Next, LocalStep, Finished
-----------------------------------------------------------------------------
\* The write that a step accepts is queued by its rank.
LEMMA NewWriteQueued ==
  ASSUME TypeInv, NEW r \in Ranks, NEW b \in Blocks, Write(r, b), NEW i, i = Len(hist) + 1
  PROVE  QueuedAt(r, i)'
  <1> USE DEF TypeInv, TypeOK, ReqType
  <1>1. hist \in Seq(WriteRecord) /\ hist' = Append(hist, [rank |-> r, blk |-> b, ep |-> epoch])
    BY DEF Write, AppType
  <1>2. Len(hist') = i
    BY <1>1
  <1>3. CASE Merge
    <2>1. mreqs' = [mreqs EXCEPT ![r][Dset[b]] = Append(@, i)] /\ Dset[b] \in 0 .. NDset - 1
      BY <1>2, <1>3, DsetAssumption DEF Write
    <2>2. mreqs[r][Dset[b]] \in Seq(Nat)
      BY <2>1
    <2> DEFINE old == mreqs[r][Dset[b]]
    <2>3. mreqs'[r][Dset[b]] = Append(old, i)
      BY <2>1
    <2> HIDE DEF old
    <2>4. Len(old) + 1 \in DOMAIN Append(old, i) /\ Append(old, i)[Len(old) + 1] = i
      BY <2>2 DEF old
    <2>5. i \in Range(mreqs'[r][Dset[b]])
      BY <2>3, <2>4 DEF Range
    <2>6. QED
      BY <2>1, <2>5, <1>2 DEF QueuedAt
  <1>4. CASE ~Merge
    <2>1. wreqs' = [wreqs EXCEPT ![r] = Append(@, [id |-> i, foff |-> 0])]
      BY <1>2, <1>4 DEF Write
    <2> DEFINE old == wreqs[r]
    <2>2. old \in Seq(Request) /\ wreqs'[r] = Append(old, [id |-> i, foff |-> 0])
      BY <2>1
    <2> HIDE DEF old
    <2>3. Len(old) + 1 \in 1 .. Len(wreqs'[r]) /\ wreqs'[r][Len(old) + 1].id = i
      BY <2>2
    <2>4. QED
      BY <2>3, <1>2 DEF QueuedAt
  <1>5. QED
    BY <1>3, <1>4

LEMMA NoWriteLostStep == Inv /\ [Next]_vars => NoWriteLost'
  <1> SUFFICES ASSUME Inv, [Next]_vars, NEW i \in Ids'
               PROVE  Queued(i)' \/ Recorded(i, Len(mdsets))'
    BY DEF NoWriteLost
  <1>1. EntriesIn(Len(mdsets)) \subseteq EntriesIn(Len(mdsets))'
    BY EntriesGrow DEF Inv
  <1>2. ASSUME NEW j, Recorded(j, Len(mdsets)) PROVE Recorded(j, Len(mdsets))'
    BY <1>1, <1>2 DEF Recorded
  <1>3. hist \in Seq(WriteRecord) /\ Len(hist) \in Nat
    BY LenProperties DEF Inv, TypeInv, TypeOK, AppType
  <1>4. ASSUME NEW j \in Ids, hist'[j] = hist[j]
        PROVE  Queued(j)' \/ Recorded(j, Len(mdsets))'
    <2>1. Queued(j) \/ Recorded(j, Len(mdsets))
      BY DEF Inv, NoWriteLost
    <2>2. hist[j].rank \in Ranks
      <3>1. hist[j] \in WriteRecord
        BY <1>3, ElementOfSeq DEF Ids
      <3>2. QED
        BY <3>1 DEF WriteRecord
    <2>3. CASE Queued(j)
      <3>1. QueuedAt(hist[j].rank, j)
        BY <2>3 DEF Queued, QueuedAt
      <3>2. QueuedAt(hist[j].rank, j)' \/ Recorded(j, Len(mdsets))
        <4>1. PICK q \in Ranks : q = hist[j].rank /\ QueuedAt(q, j)
          BY <2>2, <3>1
        <4>2. QueuedAt(q, j)' \/ Recorded(j, Len(mdsets))
          <5>1. TypeInv /\ \A p \in Ranks : QueueInv(p) /\ RecordInv(p)
            BY DEF Inv
          <5>2. QED
            BY <4>1, <5>1, QueuedStep
        <4>3. QED
          BY <1>4, <4>1, <4>2 DEF QueuedAt
      <3>3. QED
        BY <1>2, <1>4, <3>2 DEF Queued, QueuedAt
    <2>4. QED
      BY <1>2, <2>1, <2>3
  <1>5. CASE UNCHANGED hist
    BY <1>4, <1>5 DEF Ids
  <1>6. ASSUME NEW r \in Ranks, NEW b \in Blocks, Write(r, b)
        PROVE  Queued(i)' \/ Recorded(i, Len(mdsets))'
    <2> DEFINE w == [rank |-> r, blk |-> b, ep |-> epoch]
    <2>1. hist' = Append(hist, w)
      BY <1>6 DEF Write
    <2>2. i \in Ids \/ i = Len(hist) + 1
      BY <1>3, <2>1 DEF Ids
    <2>3. CASE i \in Ids
      BY <1>3, <1>4, <2>1, <2>3 DEF Ids
    <2>4. CASE i = Len(hist) + 1
      <3>1. QueuedAt(r, i)'
        BY <1>6, <2>4, NewWriteQueued DEF Inv
      <3>2. hist'[i].rank = r /\ Len(hist') = i
        BY <1>3, <2>1, <2>4
      <3>3. QED
        BY <3>1, <3>2 DEF Queued, QueuedAt
    <2>5. QED
      BY <2>2, <2>3, <2>4
  <1>7. UNCHANGED hist \/ \E r \in Ranks, b \in Blocks : Write(r, b)
    BY FileSteps
  <1>8. QED
    BY <1>5, <1>6, <1>7

LEMMA InvInit == Init => Inv
  <1> SUFFICES ASSUME Init PROVE Inv
    OBVIOUS
  <1>1. TypeInv
    BY TypeInit
  <1>2. \A r \in Ranks : QueueInv(r) /\ RecordInv(r)
    BY DEF Init, QueueInv, RecordInv
  <1>3. NoWriteLost
    BY EmptySeq DEF Init, NoWriteLost, Ids
  <1>4. QED
    BY <1>1, <1>2, <1>3 DEF Inv

LEMMA QueueStep ==
  ASSUME TypeInv, \A q \in Ranks : QueueInv(q), [Next]_vars, NEW r \in Ranks
  PROVE  QueueInv(r)'
  <1>1. ASSUME NEW q \in Ranks, (\E b \in Blocks : Write(q, b)) \/ Call(q) \/ LocalStep(q)
        PROVE  QueueInv(r)'
    BY <1>1, QueueLocal, OthersKept, QueueKept
  <1>2. CASE UNCHANGED vars
    BY <1>2, QueueKept DEF vars, appVars, reqVars, fileVars, Kept, Op
  <1>3. QED
    BY <1>1, <1>2, QueueCollective, QueueOpen DEF Next, Finished

LEMMA InvStep == Inv /\ [Next]_vars => Inv'
  <1> SUFFICES ASSUME Inv, [Next]_vars PROVE Inv'
    OBVIOUS
  <1>1. TypeInv'
    BY TypeStep DEF Inv
  <1>2. \A r \in Ranks : QueueInv(r)'
    BY QueueStep DEF Inv
  <1>3. \A r \in Ranks : RecordInv(r)'
    BY RecordStep DEF Inv
  <1>4. NoWriteLost'
    BY NoWriteLostStep
  <1>5. QED
    BY <1>1, <1>2, <1>3, <1>4 DEF Inv

\* No flush, read, metadata flush, close or reopen drops the request of an
\* accepted write before its metadata is in the file.
THEOREM WritesAccounted == Spec => []NoWriteLost
  <1>1. Spec => []Inv
    BY InvInit, InvStep, PTL DEF Spec
  <1>2. Inv => NoWriteLost
    BY DEF Inv
  <1>3. QED
    BY <1>1, <1>2, PTL

-----------------------------------------------------------------------------
\* The steps of a rank that has the file open for reading.
ReadOnlySteps ==
    {"app", "pending", "search", "view", "readall", "unview", "return", "closing", "closed"}

\* The counters of every rank follow the file, and so does the attribute when
\* no rank can change the file any more.
NumberInv ==
    /\ \A r \in Ranks : nmdset[r] = Len(mdsets)
    /\ \A r \in Ranks : Len(ldsets) = IF pc[r] = "write" THEN nldset[r] + 1 ELSE nldset[r]
    /\ \A r, q \in Ranks : pc[r] = "closed" => pc[q] = "closed"
    /\ mode = "ro" => \A r \in Ranks : pc[r] \in ReadOnlySteps /\ ~metadirty[r]
    /\ mode = "ro" \/ (\E r \in Ranks : pc[r] = "closed") =>
         attr = [nldset |-> Len(ldsets), nmdset |-> Len(mdsets)]

\* A step that leaves the counters and the datasets alone.
LEMMA NumberKept ==
  ASSUME NumberInv, UNCHANGED <<numVars, mode, attr, ldsets, mdsets>>,
         \A r \in Ranks : (pc'[r] = "write") = (pc[r] = "write"),
         \A r \in Ranks : (pc'[r] = "closed") = (pc[r] = "closed"),
         mode = "ro" => \A r \in Ranks : pc'[r] \in ReadOnlySteps /\ ~metadirty'[r]
  PROVE  NumberInv'
  <1> USE DEF NumberInv, numVars
  <1>1. \A r \in Ranks : nmdset'[r] = Len(mdsets)'
    OBVIOUS
  <1>2. \A r \in Ranks : Len(ldsets)' = IF pc'[r] = "write" THEN nldset'[r] + 1 ELSE nldset'[r]
    OBVIOUS
  <1>3. \A r, q \in Ranks : pc'[r] = "closed" => pc'[q] = "closed"
    OBVIOUS
  <1>4. mode' = "ro" \/ (\E r \in Ranks : pc'[r] = "closed") =>
         attr' = [nldset |-> Len(ldsets), nmdset |-> Len(mdsets)]'
    OBVIOUS
  <1>5. QED
    BY <1>1, <1>2, <1>3, <1>4

\* Nothing is pending in a file open for reading.
LEMMA ReadOnlyIdle ==
  ASSUME TypeInv, NEW r \in Ranks, QueueInv(r), mode = "ro"
  PROVE  ~Pending(r)
  <1>1. NoMerged(r) /\ wreqs[r] = <<>> /\ nflushed[r] \in Nat
    BY DEF QueueInv, TypeInv, TypeOK, ReqType
  <1>2. QED
    BY <1>1, EmptySeq DEF Pending, NoMerged
-----------------------------------------------------------------------------
\* A step of one rank keeps the numbers.
LEMMA NumberLocal ==
  ASSUME TypeInv, NumberInv, \A q \in Ranks : QueueInv(q), NEW r \in Ranks,
         (\E b \in Blocks : Write(r, b)) \/ Call(r) \/ LocalStep(r)
  PROVE  NumberInv'
  <1> USE DEF TypeInv, TypeOK, StepType
  <1>1. ASSUME NEW b \in Blocks, Write(r, b) PROVE NumberInv'
    BY <1>1, NumberKept DEF Write, NumberInv, metaVars, fileVars
  <1>2. CASE Call(r)
    <2>1. pc[r] = "app" /\ UNCHANGED <<metaVars, numVars, fileVars>>
      BY <1>2 DEF Call, CallFlush, CallRead, CallBufferedRead, CallClose, Joins
    <2>2. \E s \in {"app", "pending", "search", "closing", "push"} :
            Goto(r, s) /\ (mode = "ro" => s \in ReadOnlySteps)
      BY <1>2, <2>1
         DEF Call, CallFlush, CallRead, CallBufferedRead, CallClose, Goto, ReadOnlySteps
    <2>3. QED
      BY <2>1, <2>2, NumberKept DEF NumberInv, Goto, metaVars, fileVars
  <1>3. CASE WriteData(r)
    <2>1. /\ pc[r] = "write" /\ mode # "ro" /\ UNCHANGED <<nmdset, mode, attr, ldsets, mdsets>>
          /\ nldset' = [nldset EXCEPT ![r] = @ + 1] /\ Goto(r, cont[r])
      BY <1>3 DEF WriteData, NumberInv, ReadOnlySteps
    <2>2. cont[r] \in {"gather", "search", "app"}
      BY <2>1 DEF QueueInv
    <2>3. \A q \in Ranks : pc[q] # "closed"
      BY <2>1 DEF NumberInv
    <2>4. \A q \in Ranks : pc'[q] # "closed"
      BY <2>1, <2>2, <2>3 DEF Goto
    <2>5. \A q \in Ranks : Len(ldsets)' = IF pc'[q] = "write" THEN nldset'[q] + 1 ELSE nldset'[q]
      BY <2>1, <2>2 DEF Goto, NumberInv, NumType
    <2>6. QED
      BY <2>1, <2>4, <2>5 DEF NumberInv
  <1>4. CASE WriteSection(r)
    <2>1. /\ pc[r] = "section" /\ UNCHANGED <<numVars, mode, attr, ldsets>>
          /\ Goto(r, "barrier")
          /\ mdsets' = [mdsets EXCEPT ![nmdset[r]][r] = MetaEntries(r)]
      BY <1>4 DEF WriteSection
    <2>2. mode # "ro" /\ \A q \in Ranks : pc[q] # "closed"
      BY <2>1 DEF NumberInv, ReadOnlySteps
    <2>3. Len(mdsets') = Len(mdsets)
      BY <2>1, ExceptSeq, LenProperties DEF FileType
    <2>4. QED
      BY <2>1, <2>2, <2>3 DEF NumberInv, numVars, Goto
  <1>5. CASE PushMerged(r) \/ Pack(r)
    <2>1. /\ pc[r] \in {"push", "pack"} /\ UNCHANGED <<metaVars, numVars, fileVars>>
          /\ UNCHANGED pc \/ Goto(r, "pack") \/ Goto(r, "scan")
      BY <1>5 DEF PushMerged, Pack
    <2>2. mode # "ro"
      BY <2>1 DEF NumberInv, ReadOnlySteps
    <2>3. QED
      BY <2>1, <2>2, NumberKept DEF Goto, fileVars
  <1>6. CASE MetaClean(r)
    <2>1. pc[r] = "clean" /\ UNCHANGED <<numVars, fileVars>>
          /\ (Goto(r, "closing") \/ Goto(r, "search"))
      BY <1>6 DEF MetaClean
    <2>2. mode # "ro"
      BY <2>1 DEF NumberInv, ReadOnlySteps
    <2>3. QED
      BY <2>1, <2>2, NumberKept DEF Goto, fileVars
  <1>7. CASE Search(r) \/ Return(r)
    <2>1. /\ pc[r] \in {"search", "return"} /\ UNCHANGED <<metadirty, numVars, fileVars>>
          /\ \E s \in {"gather", "view", "readall", "app"} :
               Goto(r, s) /\ (~metadirty[r] => s # "gather")
      BY <1>7 DEF Search, Return, metaVars
    <2>2. QED
      BY <2>1, NumberKept DEF Goto, fileVars, NumberInv, ReadOnlySteps
  <1>8. QED
    BY <1>1, <1>2, <1>3, <1>4, <1>5, <1>6, <1>7 DEF LocalStep

\* A collective keeps the numbers: the log dataset is counted by each rank
\* once it has written to it, the metadata dataset at once.
LEMMA NumberCollective ==
  ASSUME TypeInv, NumberInv, \A q \in Ranks : QueueInv(q), Collective
  PROVE  NumberInv'
  <1> USE DEF TypeInv, TypeOK, StepType, Ranks
  <1>0. 0 \in Ranks
    BY NPAssumption
  <1>1. CASE AllreducePending
    <2>1. At("pending") /\ UNCHANGED <<metaVars, numVars, fileVars>>
      BY <1>1 DEF AllreducePending
    <2>2. \A r \in Ranks : pc'[r] \in {"push", "search", "app"}
      BY <1>1 DEF AllreducePending, AfterWrites
    <2>3. mode = "ro" => \A r \in Ranks : pc'[r] \in ReadOnlySteps
      BY <1>1, ReadOnlyIdle DEF AllreducePending, AnyWrites, AfterWrites, ReadOnlySteps
    <2>4. QED
      BY <2>1, <2>2, <2>3, NumberKept DEF At, metaVars, fileVars, NumberInv
  <1>2. CASE ScanAndCreate
    <2>1. At("scan") /\ UNCHANGED <<metaVars, numVars, mode, attr, mdsets>>
      BY <1>2 DEF ScanAndCreate
    <2>2. mode # "ro" /\ \A r \in Ranks : Len(ldsets) = nldset[r] /\ nldset[r] \in Nat
      BY <1>0, <2>1 DEF At, NumberInv, ReadOnlySteps, NumType
    <2>3. CASE pc' = cont /\ UNCHANGED ldsets
      <3>1. \A r \in Ranks : pc'[r] \in {"gather", "search", "app"}
        BY <2>1, <2>3 DEF At, QueueInv
      <3>2. QED
        BY <2>1, <2>2, <2>3, <3>1 DEF NumberInv, numVars
    <2>4. ASSUME NEW d, ldsets' = Append(ldsets, d), pc' = [r \in Ranks |-> "write"]
          PROVE  NumberInv'
      <3>1. ldsets \in Seq([addr : Nat, len : Nat]) /\ Len(ldsets') = Len(ldsets) + 1
        BY <2>4 DEF FileType
      <3>2. QED
        BY <2>1, <2>2, <2>4, <3>1 DEF NumberInv, numVars
    <2>5. QED
      BY <1>2, <2>3, <2>4 DEF ScanAndCreate
  <1>3. CASE GatherAndCreate
    <2>1. At("gather") /\ UNCHANGED <<metaVars, nldset, mode, attr, ldsets>>
      BY <1>3 DEF GatherAndCreate
    <2>2. mode # "ro" /\ \A r \in Ranks : Len(mdsets) = nmdset[r] /\ nmdset[r] \in Nat
      BY <1>0, <2>1 DEF At, NumberInv, ReadOnlySteps, NumType
    <2>3. CASE pc' = [r \in Ranks |-> "clean"] /\ UNCHANGED <<mdsets, nmdset>>
      BY <2>1, <2>2, <2>3 DEF NumberInv, At
    <2>4. ASSUME NEW d, mdsets' = Append(mdsets, d), pc' = [r \in Ranks |-> "section"],
                 nmdset' = [r \in Ranks |-> nmdset[r] + 1]
          PROVE  NumberInv'
      <3>1. mdsets \in Seq([Ranks -> SUBSET Request]) /\ Len(mdsets') = Len(mdsets) + 1
        BY <2>4 DEF FileType
      <3>2. QED
        BY <2>1, <2>2, <2>4, <3>1 DEF NumberInv, At
    <2>5. QED
      BY <1>3, <2>3, <2>4 DEF GatherAndCreate
  <1>4. CASE MetaBarrier
    <2>1. mode # "ro"
      BY <1>0, <1>4 DEF MetaBarrier, At, NumberInv, ReadOnlySteps
    <2>2. QED
      BY <1>4, <2>1, NumberKept DEF MetaBarrier, At, fileVars
  <1>5. CASE SetView \/ ReadAll \/ RestoreView
    <2>1. \A r \in Ranks : pc[r] \in {"view", "readall", "unview"}
      BY <1>5 DEF SetView, ReadAll, RestoreView, At
    <2>2. \A r \in Ranks : pc'[r] \in {"readall", "unview", "return"}
      BY <1>5 DEF SetView, ReadAll, RestoreView
    <2>3. UNCHANGED <<metaVars, numVars, fileVars>>
      BY <1>5 DEF SetView, ReadAll, RestoreView
    <2>4. QED
      BY <2>1, <2>2, <2>3, NumberKept DEF fileVars, metaVars, NumberInv, ReadOnlySteps
  <1>6. CASE CloseFile
    <2>1. At("closing") /\ UNCHANGED <<metaVars, numVars, mode, ldsets, mdsets>>
          /\ pc' = [r \in Ranks |-> "closed"]
      BY <1>6 DEF CloseFile
    <2>2. \A r \in Ranks : Len(mdsets) = nmdset[r] /\ Len(ldsets) = nldset[r]
      BY <2>1 DEF At, NumberInv
    <2>3. attr' = [nldset |-> Len(ldsets), nmdset |-> Len(mdsets)]
      BY <1>0, <1>6, <2>2 DEF CloseFile, AttrAtClose, NumberInv, FileType
    <2>4. QED
      BY <2>1, <2>2, <2>3 DEF NumberInv, numVars, metaVars, ReadOnlySteps
  <1>7. QED
    BY <1>1, <1>2, <1>3, <1>4, <1>5, <1>6 DEF Collective

LEMMA NumberOpen ==
  ASSUME TypeInv, NumberInv, NEW m \in {"rw", "ro"}, OpenFile(m)
  PROVE  NumberInv'
  <1>1. At("closed") /\ 0 \in Ranks
    BY NPAssumption DEF OpenFile, Ranks
  <1>2. attr = [nldset |-> Len(ldsets), nmdset |-> Len(mdsets)]
    BY <1>1 DEF At, NumberInv
  <1>3. /\ pc' = [r \in Ranks |-> "app"] /\ metadirty' = [r \in Ranks |-> FALSE]
        /\ nldset' = [r \in Ranks |-> Len(ldsets)] /\ nmdset' = [r \in Ranks |-> Len(mdsets)]
        /\ UNCHANGED <<attr, ldsets, mdsets>>
    BY <1>2 DEF OpenFile
  <1>4. QED
    BY <1>2, <1>3 DEF NumberInv, ReadOnlySteps

LEMMA NumberStep ==
  ASSUME TypeInv, NumberInv, \A q \in Ranks : QueueInv(q), [Next]_vars
  PROVE  NumberInv'
  <1>1. CASE UNCHANGED vars
    BY <1>1, NumberKept DEF vars, fileVars, metaVars, NumberInv
  <1>2. QED
    BY <1>1, NumberLocal, NumberCollective, NumberOpen DEF Next, Finished

LEMMA NumberInit == Init => NumberInv
  BY EmptySeq DEF Init, NumberInv, Ranks

\* The invariant of the queues and the numbers.
LEMMA NumberAlways == Spec => [](Inv /\ NumberInv)
  <1>1. Init => Inv /\ NumberInv
    BY InvInit, NumberInit
  <1>2. Inv /\ NumberInv /\ [Next]_vars => Inv' /\ NumberInv'
    BY InvStep, NumberStep DEF Inv
  <1>3. QED
    BY <1>1, <1>2, PTL DEF Spec

\* When the ranks create a log or metadata dataset, they all give it the same
\* name and the file has none of that name, over any sequence of sessions,
\* also when the application never flushes and the ranks read apart.
THEOREM NamesNew == Spec => []NamesAreNew
  <1>1. Inv /\ NumberInv => NamesAreNew
    BY DEF NamesAreNew, NumberInv, At
  <1>2. QED
    BY <1>1, NumberAlways, PTL
-----------------------------------------------------------------------------
(***************************************************************************)
(* Sums over the ranks.  The library's induction theorems take a predicate *)
(* as a parameter; over a set of numbers, induction is the existence of a  *)
(* least element.                                                          *)
(***************************************************************************)
LEMMA LeastElement ==
  ASSUME NEW T \in SUBSET Nat, T # {}
  PROVE  \E m \in T : \A n \in T : m <= n
  <1> DEFINE R == OpToRel(<, Nat)
  <1>1. IsWellFoundedOn(R, Nat)
    BY NatLessThanWellFounded
  <1>2. \A x, y \in Nat : <<y, x>> \in R <=> y < x
    BY DEF OpToRel
  <1> HIDE DEF R
  <1>3. PICK m \in T : \A n \in T : ~ (<<n, m>> \in R)
    BY <1>1, WFMin
  <1>4. ASSUME NEW n \in T PROVE m <= n
    <2>1. m \in Nat /\ n \in Nat /\ ~ (n < m)
      BY <1>2, <1>3
    <2>2. QED
      BY <2>1
  <1>5. QED
    BY <1>4

\* The sums over the ranks below r grow with r (MPI_Exscan).
LEMMA PrefixSumsGrow ==
  ASSUME NEW offs \in [0 .. NP -> Nat], NEW len \in [Ranks -> Nat], IsPrefixSum(offs, len),
         NEW r \in 0 .. NP, NEW q \in 0 .. NP, r <= q
  PROVE  offs[r] <= offs[q]
  <1> DEFINE T == {n \in 0 .. NP : r <= n /\ offs[n] < offs[r]}
  <1> SUFFICES ASSUME T # {} PROVE FALSE
    OBVIOUS
  <1>0. T \in SUBSET Nat
    BY NPAssumption
  <1>1. PICK m \in T : \A n \in T : m <= n
    <2> HIDE DEF T
    <2>1. QED
      BY <1>0, LeastElement
  <1>2. m \in 0 .. NP /\ r < m /\ m - 1 \in Ranks /\ m - 1 \notin T /\ offs[m] < offs[r]
    BY <1>1, NPAssumption DEF Ranks
  <1>3. m - 1 \in 0 .. NP /\ r <= m - 1 /\ (m - 1) + 1 = m
    BY <1>2, NPAssumption
  <1>4. offs[m] = offs[m - 1] + len[m - 1]
    BY <1>2, <1>3 DEF IsPrefixSum
  <1>5. offs[m] \in Nat /\ offs[m - 1] \in Nat /\ len[m - 1] \in Nat /\ offs[r] \in Nat
    BY <1>2, <1>3
  <1>6. ~ (offs[m - 1] < offs[r])
    BY <1>2, <1>3
  <1>7. QED
    BY <1>2, <1>4, <1>5, <1>6

\* The ranks' parts of a flush lie one after the other within the total.
LEMMA PrefixSumsApart ==
  ASSUME NEW offs \in [0 .. NP -> Nat], NEW len \in [Ranks -> Nat], IsPrefixSum(offs, len),
         NEW r \in Ranks
  PROVE  /\ offs[r] + len[r] <= offs[NP]
         /\ \A q \in Ranks : r # q => Apart(offs[r], len[r], offs[q], len[q])
  <1>1. \A q \in Ranks : q \in 0 .. NP /\ q + 1 \in 0 .. NP /\ offs[q + 1] = offs[q] + len[q]
    BY NPAssumption DEF IsPrefixSum, Ranks
  <1>2. offs[r + 1] <= offs[NP]
    <2>1. NP \in 0 .. NP /\ r + 1 <= NP
      BY NPAssumption DEF Ranks
    <2>2. QED
      BY <1>1, <2>1, PrefixSumsGrow
  <1>3. ASSUME NEW q \in Ranks, r # q PROVE Apart(offs[r], len[r], offs[q], len[q])
    <2>1. r + 1 <= q \/ q + 1 <= r
      BY <1>3, NPAssumption DEF Ranks
    <2>2. offs[r + 1] <= offs[q] \/ offs[q + 1] <= offs[r]
      BY <1>1, <2>1, PrefixSumsGrow
    <2>3. QED
      BY <1>1, <2>2 DEF Apart
  <1>4. QED
    BY <1>1, <1>2, <1>3

\* An accepted write keeps its place in the history, and its size.
LEMMA SizeType ==
  ASSUME TypeInv, NEW i \in Ids
  PROVE  SizeOf(i) \in Nat /\ SizeOf(i) > 0
  <1>1. hist[i] \in WriteRecord
    BY ElementOfSeq DEF TypeInv, TypeOK, AppType, Ids
  <1>2. QED
    BY <1>1, SizeAssumption DEF SizeOf, BlkOf, WriteRecord

LEMMA HistStep ==
  ASSUME [Next]_vars
  PROVE  \/ UNCHANGED hist
         \/ \E r \in Ranks, b \in Blocks :
              Write(r, b) /\ hist' = Append(hist, [rank |-> r, blk |-> b, ep |-> epoch])
  <1>1. ASSUME NEW r \in Ranks, NEW b \in Blocks, Write(r, b)
        PROVE  hist' = Append(hist, [rank |-> r, blk |-> b, ep |-> epoch])
    BY <1>1 DEF Write
  <1>2. QED
    BY <1>1, FileSteps

LEMMA SizeKept ==
  ASSUME TypeInv, [Next]_vars, NEW i \in Ids
  PROVE  i \in Ids' /\ hist'[i] = hist[i] /\ SizeOf(i)' = SizeOf(i)
  <1>1. hist \in Seq(WriteRecord) /\ Len(hist) \in Nat
    BY LenProperties DEF TypeInv, TypeOK, AppType
  <1>2. i \in Ids' /\ hist'[i] = hist[i]
    <2>1. CASE UNCHANGED hist
      BY <2>1 DEF Ids
    <2>2. ASSUME NEW w, hist' = Append(hist, w) PROVE i \in Ids' /\ hist'[i] = hist[i]
      BY <1>1, <2>2 DEF Ids
    <2>3. QED
      BY <2>1, <2>2, HistStep
  <1>3. QED
    BY <1>2 DEF SizeOf, BlkOf
-----------------------------------------------------------------------------
\* While a rank lays out its unflushed requests and until they are written,
\* those laid out follow each other in the first fsize bytes.
LayoutInv(r) ==
    pc[r] \in {"pack", "scan", "write"} =>
        /\ nflushed[r] <= cur[r] /\ cur[r] <= Len(wreqs[r])
        /\ pc[r] # "pack" => cur[r] = Len(wreqs[r])
        /\ \A k \in nflushed[r] + 1 .. cur[r] :
             wreqs[r][k].foff + SizeOf(wreqs[r][k].id) <= fsize[r]
        /\ \A j, k \in nflushed[r] + 1 .. cur[r] :
             j < k => wreqs[r][j].foff + SizeOf(wreqs[r][j].id) <= wreqs[r][k].foff

LEMMA LayoutKept ==
  ASSUME TypeInv, [Next]_vars, NEW r \in Ranks, LayoutInv(r),
         pc'[r] \in {"pack", "scan", "write"} => pc[r] \in {"pack", "scan", "write"},
         pc'[r] = "pack" \/ cur[r] = Len(wreqs[r]) \/ pc'[r] = pc[r],
         wreqs'[r] = wreqs[r], nflushed'[r] = nflushed[r], cur'[r] = cur[r], fsize'[r] = fsize[r]
  PROVE  LayoutInv(r)'
  <1> SUFFICES ASSUME pc'[r] \in {"pack", "scan", "write"}
               PROVE  LayoutInv(r)'
    BY DEF LayoutInv
  <1>1. pc[r] \in {"pack", "scan", "write"}
    OBVIOUS
  <1>2. \A k \in nflushed[r] + 1 .. cur[r] :
          k \in 1 .. Len(wreqs[r]) /\ SizeOf(wreqs[r][k].id)' = SizeOf(wreqs[r][k].id)
    BY <1>1, SizeKept, LenProperties DEF LayoutInv, TypeInv, TypeOK, ReqType, IdsOK
  <1>3. QED
    BY <1>1, <1>2 DEF LayoutInv

\* A step of another rank leaves a rank's counters of the flush alone.
LEMMA OthersLayout ==
  ASSUME TypeInv, NEW r \in Ranks, NEW q \in Ranks, r # q,
         (\E b \in Blocks : Write(r, b)) \/ Call(r) \/ LocalStep(r)
  PROVE  nflushed'[q] = nflushed[q] /\ fsize'[q] = fsize[q] /\ foff'[q] = foff[q]
  BY DEF Call, LocalStep, Write, CallFlush, CallRead, CallBufferedRead, CallClose, PushMerged, Pack,
     WriteData, WriteSection, MetaClean, Search, Return, reqVars, TypeInv, TypeOK, ReqType

\* One iteration of the loop of the layout.
LEMMA PackEffect ==
  ASSUME TypeInv, NEW r \in Ranks, Pack(r), cur[r] < Len(wreqs[r])
  PROVE  LET k == cur[r] + 1 IN
         /\ k \in 1 .. Len(wreqs[r])
         /\ Len(wreqs'[r]) = Len(wreqs[r])
         /\ wreqs'[r][k].id = wreqs[r][k].id /\ wreqs'[r][k].foff = fsize[r]
         /\ \A j \in 1 .. Len(wreqs[r]) : j # k => wreqs'[r][j] = wreqs[r][j]
         /\ cur'[r] = k /\ fsize'[r] = fsize[r] + SizeOf(wreqs[r][k].id)
         /\ pc'[r] = "pack" /\ nflushed'[r] = nflushed[r] /\ UNCHANGED hist
  <1> DEFINE k == cur[r] + 1
             w == [wreqs[r][k] EXCEPT !.foff = fsize[r]]
  <1> USE DEF TypeInv, TypeOK, ReqType
  <1>1. wreqs[r] \in Seq(Request) /\ k \in 1 .. Len(wreqs[r]) /\ Len(wreqs[r]) \in Nat
    BY LenProperties
  <1>2. wreqs[r][k] \in Request /\ fsize[r] \in Nat
    BY <1>1, ElementOfSeq
  <1>3. w.id = wreqs[r][k].id /\ w.foff = fsize[r] /\ w \in Request
    <2>1. ASSUME NEW e \in Request, NEW n \in Nat
          PROVE  /\ [e EXCEPT !.foff = n].id = e.id /\ [e EXCEPT !.foff = n].foff = n
                 /\ [e EXCEPT !.foff = n] \in Request
      BY DEF Request
    <2>2. QED
      BY <1>2, <2>1
  <1>4. /\ wreqs'[r] = [wreqs[r] EXCEPT ![k] = w]
        /\ cur'[r] = k /\ fsize'[r] = fsize[r] + SizeOf(wreqs[r][k].id)
        /\ pc'[r] = "pack" /\ nflushed'[r] = nflushed[r] /\ UNCHANGED hist
    BY DEF Pack, appVars
  <1> HIDE DEF k, w
  <1>5. Len(wreqs'[r]) = Len(wreqs[r]) /\ wreqs'[r][k] = w
        /\ \A j \in 1 .. Len(wreqs[r]) : j # k => wreqs'[r][j] = wreqs[r][j]
    BY <1>1, <1>3, <1>4, ExceptSeq
  <1>6. QED
    BY <1>1, <1>3, <1>4, <1>5 DEF k

LEMMA LayoutPack ==
  ASSUME TypeInv, [Next]_vars, NEW r \in Ranks, LayoutInv(r), Pack(r)
  PROVE  LayoutInv(r)'
  <1>1. pc[r] = "pack" /\ cur[r] \in Nat /\ Len(wreqs[r]) \in Nat /\ cur[r] <= Len(wreqs[r])
        /\ nflushed[r] \in Nat /\ nflushed[r] <= cur[r]
    BY LenProperties DEF Pack, LayoutInv, TypeInv, TypeOK, ReqType
  <1>2. CASE ~(cur[r] < Len(wreqs[r]))
    <2>1. cur[r] = Len(wreqs[r]) /\ UNCHANGED <<wreqs, nflushed, cur, fsize>>
      BY <1>1, <1>2 DEF Pack
    <2>2. QED
      BY <1>1, <2>1, LayoutKept
  <1>3. CASE cur[r] < Len(wreqs[r])
    <2>0. PICK k \in Nat : k = cur[r] + 1
      BY <1>1
    <2>1. /\ k \in 1 .. Len(wreqs[r])
          /\ Len(wreqs'[r]) = Len(wreqs[r])
          /\ wreqs'[r][k].id = wreqs[r][k].id /\ wreqs'[r][k].foff = fsize[r]
          /\ \A j \in 1 .. Len(wreqs[r]) : j # k => wreqs'[r][j] = wreqs[r][j]
          /\ cur'[r] = k /\ fsize'[r] = fsize[r] + SizeOf(wreqs[r][k].id)
          /\ pc'[r] = "pack" /\ nflushed'[r] = nflushed[r] /\ UNCHANGED hist
      BY <1>3, <2>0, PackEffect
    <2>2. \A j \in 1 .. k : /\ SizeOf(wreqs[r][j].id) \in Nat
                            /\ SizeOf(wreqs[r][j].id)' = SizeOf(wreqs[r][j].id)
                            /\ wreqs[r][j].foff \in Nat
      <3>1. ASSUME NEW j \in 1 .. k
            PROVE  /\ wreqs[r][j].id \in Ids /\ wreqs[r][j].foff \in Nat
                   /\ wreqs'[r][j].id = wreqs[r][j].id
        <4>1. j \in 1 .. Len(wreqs[r]) /\ wreqs[r] \in Seq(Request)
          BY <1>1, <2>0, <2>1 DEF TypeInv, TypeOK, ReqType
        <4>2. wreqs[r][j] \in Request
          BY <4>1, ElementOfSeq
        <4>3. wreqs[r][j].id \in Ids
          BY <4>1 DEF TypeInv, IdsOK
        <4>4. wreqs'[r][j].id = wreqs[r][j].id
          BY <2>1, <4>1
        <4>5. QED
          BY <4>2, <4>3, <4>4 DEF Request
      <3>2. hist' = hist
        BY <2>1
      <3>3. QED
        BY <3>1, <3>2, SizeType DEF SizeOf, BlkOf
    <2>3. fsize[r] \in Nat
      BY DEF TypeInv, TypeOK, ReqType
    <2>4. ASSUME NEW j \in nflushed[r] + 1 .. k
          PROVE  wreqs'[r][j].foff + SizeOf(wreqs[r][j].id)' <= fsize'[r]
      <3>1. CASE j = k
        <4>1. k \in 1 .. k
          BY <2>1
        <4>2. SizeOf(wreqs[r][k].id)' = SizeOf(wreqs[r][k].id) /\ SizeOf(wreqs[r][k].id) \in Nat
          BY <2>2, <4>1
        <4>3. QED
          BY <2>1, <2>3, <3>1, <4>2
      <3>2. CASE j # k
        <4>1. j \in nflushed[r] + 1 .. cur[r] /\ j \in 1 .. k /\ j \in 1 .. Len(wreqs[r])
          BY <1>1, <2>0, <2>1, <3>2
        <4>2. wreqs[r][j].foff + SizeOf(wreqs[r][j].id) <= fsize[r] /\ wreqs'[r][j] = wreqs[r][j]
          BY <1>1, <2>0, <2>1, <3>2, <4>1 DEF LayoutInv
        <4>3. SizeOf(wreqs[r][k].id) \in Nat
          <5>1. k \in 1 .. k
            BY <1>1, <2>1
          <5>2. QED
            BY <2>2, <5>1
        <4>4. SizeOf(wreqs[r][j].id)' = SizeOf(wreqs[r][j].id) /\ wreqs[r][j].foff \in Nat
              /\ SizeOf(wreqs[r][j].id) \in Nat
          BY <2>2, <4>1
        <4>5. fsize'[r] >= fsize[r]
          BY <2>1, <2>3, <4>3
        <4>6. wreqs'[r][j].foff = wreqs[r][j].foff
          BY <4>2
        <4>7. QED
          BY <2>1, <2>3, <4>2, <4>3, <4>4, <4>5, <4>6
      <3>3. QED
        BY <3>1, <3>2
    <2>5. ASSUME NEW i \in nflushed[r] + 1 .. k, NEW j \in nflushed[r] + 1 .. k, i < j
          PROVE  wreqs'[r][i].foff + SizeOf(wreqs[r][i].id)' <= wreqs'[r][j].foff
      <3>1. i \in nflushed[r] + 1 .. cur[r] /\ i \in 1 .. k /\ i \in 1 .. Len(wreqs[r]) /\ i # k
        BY <1>1, <2>0, <2>1, <2>5
      <3>2. wreqs'[r][i].foff + SizeOf(wreqs[r][i].id)'
              = wreqs[r][i].foff + SizeOf(wreqs[r][i].id)
        BY <2>1, <2>2, <3>1
      <3>3. CASE j = k
        BY <1>1, <2>0, <2>1, <3>1, <3>2, <3>3 DEF LayoutInv
      <3>4. CASE j # k
        <4>1. j \in nflushed[r] + 1 .. cur[r] /\ j \in 1 .. Len(wreqs[r])
          BY <1>1, <2>0, <2>1, <3>4
        <4>2. QED
          BY <1>1, <2>0, <2>1, <2>5, <3>1, <3>2, <3>4, <4>1 DEF LayoutInv
      <3>5. QED
        BY <3>3, <3>4
    <2>6. nflushed'[r] = nflushed[r] /\ cur'[r] = k /\ k <= Len(wreqs'[r]) /\ nflushed[r] <= k
      BY <1>1, <2>0, <2>1
    <2>7. QED
      BY <2>1, <2>4, <2>5, <2>6 DEF LayoutInv
  <1>4. QED
    BY <1>2, <1>3

LEMMA LayoutStep ==
  ASSUME TypeInv, \A q \in Ranks : QueueInv(q), [Next]_vars, NEW r \in Ranks, LayoutInv(r)
  PROVE  LayoutInv(r)'
  <1> DEFINE Packing == {"pack", "scan", "write"}
  <1> USE DEF TypeInv, TypeOK, StepType, ReqType
  <1>1. ASSUME pc'[r] \notin Packing PROVE LayoutInv(r)'
    BY <1>1 DEF LayoutInv
  <1>2. ASSUME pc'[r] = pc[r], wreqs'[r] = wreqs[r], nflushed'[r] = nflushed[r],
               cur'[r] = cur[r], fsize'[r] = fsize[r]
        PROVE  LayoutInv(r)'
    BY <1>2, LayoutKept
  <1>3. ASSUME NEW q \in Ranks, q # r,
               (\E b \in Blocks : Write(q, b)) \/ Call(q) \/ LocalStep(q)
        PROVE  LayoutInv(r)'
    BY <1>2, <1>3, OthersKept, OthersLayout DEF Kept
  <1>4. ASSUME NEW b \in Blocks, Write(r, b) PROVE LayoutInv(r)'
    BY <1>1, <1>4 DEF Write
  <1>5. CASE Call(r)
    BY <1>1, <1>5 DEF Call, CallFlush, CallRead, CallBufferedRead, CallClose, Joins, Goto
  <1>6. CASE PushMerged(r)
    <2>1. CASE pc'[r] \in Packing
      <3>1. /\ pc'[r] = "pack" /\ cur'[r] = nflushed[r] /\ nflushed'[r] = nflushed[r]
            /\ wreqs'[r] = wreqs[r]
        BY <1>6, <2>1 DEF PushMerged, Goto, FirstUnflushed
      <3>2. nflushed[r] \in Nat /\ nflushed[r] <= Len(wreqs[r])
        OBVIOUS
      <3>3. QED
        BY <3>1, <3>2 DEF LayoutInv
    <2>2. QED
      BY <1>1, <2>1
  <1>7. CASE WriteData(r)
    BY <1>1, <1>7 DEF WriteData, Goto, QueueInv
  <1>8. CASE WriteSection(r) \/ MetaClean(r) \/ Search(r) \/ Return(r)
    BY <1>1, <1>8 DEF WriteSection, MetaClean, Search, Return, Goto
  <1>9. CASE ScanAndCreate
    <2>1. /\ pc[r] = "scan" /\ wreqs'[r] = wreqs[r] /\ nflushed'[r] = nflushed[r]
          /\ cur'[r] = cur[r] /\ fsize'[r] = fsize[r]
      BY <1>9 DEF ScanAndCreate, At
    <2>2. cur[r] = Len(wreqs[r])
      BY <2>1 DEF LayoutInv
    <2>3. QED
      BY <2>1, <2>2, LayoutKept
  <1>10. CASE Collective /\ ~ScanAndCreate
    BY <1>1, <1>10 DEF Collective, AllreducePending, AfterWrites, GatherAndCreate, MetaBarrier,
       SetView, ReadAll, RestoreView, CloseFile
  <1>11. ASSUME NEW m \in {"rw", "ro"}, OpenFile(m) PROVE LayoutInv(r)'
    BY <1>1, <1>11 DEF OpenFile
  <1>12. CASE UNCHANGED vars
    BY <1>2, <1>12 DEF vars, reqVars
  <1>13. QED
    BY <1>3, <1>4, <1>5, <1>6, <1>7, <1>8, <1>9, <1>10, <1>11, <1>12, LayoutPack
       DEF Next, LocalStep, Finished
-----------------------------------------------------------------------------
(***************************************************************************)
(* What is recorded has been written, provided the application flushes     *)
(* before it reads (FlushFirst) or the code does (one rank).               *)
(***************************************************************************)
NextIsRead(r) == ncalls[r] < Len(prog) /\ prog[ncalls[r] + 1].op = "read"

\* A rank that deletes or reads has nothing pending, and neither has one
\* whose next call is a read, unless the flush before it still goes on.
ReadyInv(r) ==
    /\ pc[r] \in {"gather", "section", "barrier", "clean", "search"} => ~Pending(r)
    /\ FlushFirst /\ NextIsRead(r) /\ pc[r] \notin {"pending", "push", "pack", "scan", "write"} =>
         ~Pending(r)

\* In the program a read follows a call that leaves nothing pending.
ProgInv ==
    FlushFirst => \A n \in 1 .. Len(prog) - 1 :
        prog[n + 1].op = "read" => prog[n].op \in {"flush", "read", "close"}

\* One rank joins a call: the program stays or gains the call.
LEMMA JoinsProg ==
  ASSUME TypeInv, NEW r \in Ranks, NEW op, NEW sel, Joins(r, op, sel)
  PROVE  /\ pc[r] = "app" /\ ncalls'[r] = ncalls[r] + 1 /\ ncalls[r] \in Nat
         /\ \/ /\ ncalls[r] < Len(prog) /\ UNCHANGED prog /\ prog[ncalls[r] + 1].op = op
            \/ /\ ncalls[r] = Len(prog) /\ MayCall(op) /\ Len(prog') = Len(prog) + 1
               /\ \A n \in 1 .. Len(prog) : prog'[n] = prog[n]
               /\ prog'[Len(prog) + 1].op = op
  <1>1. ncalls[r] \in Nat /\ Len(prog) \in Nat /\ prog \in Seq(CallRecord) /\ ncalls[r] <= Len(prog)
    BY LenProperties DEF TypeInv, TypeOK, AppType
  <1>2. ncalls'[r] = ncalls[r] + 1 /\ pc[r] = "app"
    BY DEF Joins, TypeInv, TypeOK, AppType
  <1>3. ASSUME NEW c, prog' = Append(prog, c)
        PROVE  /\ Len(prog') = Len(prog) + 1 /\ prog'[Len(prog) + 1] = c
               /\ \A n \in 1 .. Len(prog) : prog'[n] = prog[n]
    BY <1>1, <1>3
  <1>4. QED
    BY <1>1, <1>2, <1>3 DEF Joins

\* The program over any step.
LEMMA ProgSteps ==
  ASSUME [Next]_vars
  PROVE  \/ UNCHANGED <<prog, ncalls>>
         \/ \E r \in Ranks, op \in {"flush", "read", "bread", "close"}, sel \in SUBSET Blocks :
              Joins(r, op, sel) /\ Call(r)
  <1>1. ASSUME NEW r \in Ranks, Call(r)
        PROVE  \E op \in {"flush", "read", "bread", "close"}, sel \in SUBSET Blocks :
                  Joins(r, op, sel)
    BY <1>1 DEF Call, Selections, CallFlush, CallRead, CallBufferedRead, CallClose
  <1>2. ASSUME ~ \E r \in Ranks : Call(r) PROVE UNCHANGED <<prog, ncalls>>
    BY <1>2 DEF Next, LocalStep, Collective, Finished, vars, appVars, Write, PushMerged, Pack,
       WriteData, WriteSection, MetaClean, Search, Return, AllreducePending, ScanAndCreate,
       GatherAndCreate, MetaBarrier, SetView, ReadAll, RestoreView, CloseFile, OpenFile
  <1>3. QED
    BY <1>1, <1>2

LEMMA ProgStep ==
  ASSUME TypeInv, ProgInv, [Next]_vars
  PROVE  ProgInv'
  <1>1. CASE UNCHANGED <<prog, ncalls>>
    BY <1>1 DEF ProgInv
  <1>2. ASSUME NEW r \in Ranks, NEW op, NEW sel, Joins(r, op, sel) PROVE ProgInv'
    <2>1. Len(prog) \in Nat
      BY LenProperties DEF TypeInv, TypeOK, AppType
    <2>2. CASE UNCHANGED prog
      BY <2>2 DEF ProgInv
    <2>3. CASE /\ MayCall(op) /\ Len(prog') = Len(prog) + 1
               /\ \A n \in 1 .. Len(prog) : prog'[n] = prog[n]
               /\ prog'[Len(prog) + 1].op = op
      <3> SUFFICES ASSUME FlushFirst, NEW n \in 1 .. Len(prog), prog'[n + 1].op = "read"
                   PROVE  prog'[n].op \in {"flush", "read", "close"}
        BY <2>3 DEF ProgInv
      <3>1. CASE n = Len(prog)
        <4>1. op = "read" /\ prog # <<>>
          BY <2>1, <2>3, <3>1, EmptySeq
        <4>2. prog[Len(prog)].op \in {"flush", "read", "close"}
          BY <2>3, <4>1 DEF MayCall, FlushedBefore
        <4>3. QED
          BY <2>3, <3>1, <4>2
      <3>2. CASE n # Len(prog)
        BY <2>1, <2>3, <3>2 DEF ProgInv
      <3>3. QED
        BY <3>1, <3>2
    <2>4. QED
      BY <1>2, <2>2, <2>3, JoinsProg
  <1>3. QED
    BY <1>1, <1>2, ProgSteps

LEMMA PendingKept ==
  ASSUME NEW r, wreqs'[r] = wreqs[r], mreqs'[r] = mreqs[r], nflushed'[r] = nflushed[r]
  PROVE  Pending(r)' = Pending(r)
  BY DEF Pending

\* The rank that makes a call.
LEMMA ReadyCall ==
  ASSUME TypeInv, FlushFirst \/ NP = 1, ProgInv, NEW r \in Ranks, QueueInv(r), ReadyInv(r), Call(r)
  PROVE  ReadyInv(r)'
  <1>1. pc[r] = "app" /\ Pending(r)' = Pending(r)
    BY PendingKept DEF Call, CallFlush, CallRead, CallBufferedRead, CallClose, Joins, reqVars
  <1>2. ncalls[r] \in Nat /\ Len(prog) \in Nat /\ prog \in Seq(CallRecord)
    BY LenProperties DEF TypeInv, TypeOK, AppType
  \* The call is one that leaves nothing pending, if the next one is a read.
  <1>3. ASSUME NEW op, NEW sel, Joins(r, op, sel), FlushFirst, NextIsRead(r)'
        PROVE  op \in {"flush", "read", "close"} /\ (op = "read" => ~Pending(r))
    <2>1. ncalls[r] + 1 \in 1 .. Len(prog) - 1 /\ UNCHANGED prog /\ prog[ncalls[r] + 1].op = op
      BY <1>2, <1>3, JoinsProg DEF NextIsRead
    <2>2. prog[(ncalls[r] + 1) + 1].op = "read"
      BY <1>2, <1>3, <2>1, JoinsProg DEF NextIsRead
    <2>3. op \in {"flush", "read", "close"}
      BY <1>3, <2>1, <2>2 DEF ProgInv
    <2>4. op = "read" => NextIsRead(r)
      BY <1>2, <2>1 DEF NextIsRead
    <2>5. QED
      BY <1>1, <1>3, <2>3, <2>4 DEF ReadyInv
  \* A rank enters a read with nothing pending.
  <1>4. ASSUME NEW sel, Joins(r, "read", sel), FlushFirst PROVE ~Pending(r)
    <2>1. CASE ncalls[r] < Len(prog) /\ prog[ncalls[r] + 1].op = "read"
      BY <1>1, <1>4, <2>1 DEF ReadyInv, NextIsRead
    <2>2. CASE ncalls[r] = Len(prog) /\ MayCall("read")
      BY <1>4, <2>2 DEF MayCall, FlushedBefore
    <2>3. QED
      BY <1>4, <2>1, <2>2, JoinsProg
  <1> USE DEF TypeInv, TypeOK, StepType
  <1>5. CASE CallFlush(r)
    BY <1>5 DEF CallFlush, Goto, ReadyInv
  <1>6. ASSUME NEW s \in Selections, CallRead(r, s) PROVE ReadyInv(r)'
    <2>1. Joins(r, "read", s) /\ pc'[r] \in {"app", "pending", "search"}
          /\ (pc'[r] = "search" => ~ NP = 1)
      BY <1>6 DEF CallRead, Goto, FlushesBeforeRead
    <2>2. QED
      BY <1>1, <1>3, <1>4, <2>1 DEF ReadyInv
  <1>7. ASSUME NEW s, CallBufferedRead(r, s) PROVE ReadyInv(r)'
    <2>1. Joins(r, "bread", s) /\ pc'[r] = "app"
      BY <1>1, <1>7 DEF CallBufferedRead
    <2>2. QED
      BY <1>3, <2>1 DEF ReadyInv
  <1>8. CASE CallClose(r)
    <2>1. CASE mode = "ro"
      <3>1. ~Pending(r)
        BY <2>1, ReadOnlyIdle
      <3>2. QED
        BY <1>1, <3>1 DEF ReadyInv
    <2>2. CASE mode # "ro"
      BY <1>8, <2>2 DEF CallClose, Goto, ReadyInv
    <2>3. QED
      BY <2>1, <2>2
  <1>9. QED
    BY <1>5, <1>6, <1>7, <1>8 DEF Call

\* The other ranks, when a rank takes a step of its own.
LEMMA ReadyOthers ==
  ASSUME TypeInv, NEW r \in Ranks, NEW q \in Ranks, r # q, ReadyInv(q), [Next]_vars,
         (\E b \in Blocks : Write(r, b)) \/ Call(r) \/ LocalStep(r)
  PROVE  ReadyInv(q)'
  <1>1. Pending(q)' = Pending(q) /\ pc'[q] = pc[q] /\ ncalls'[q] = ncalls[q]
    BY PendingKept, OthersKept, OthersLayout DEF Kept
  <1>2. ASSUME FlushFirst, NextIsRead(q)', ~NextIsRead(q) PROVE ~Pending(q)
    <2>1. ~UNCHANGED prog
      BY <1>1, <1>2 DEF NextIsRead
    <2>2. PICK p \in Ranks, op \in {"flush", "read", "bread", "close"}, sel \in SUBSET Blocks :
            Joins(p, op, sel)
      BY <2>1, ProgSteps
    <2>3. /\ MayCall(op) /\ Len(prog') = Len(prog) + 1
          /\ \A n \in 1 .. Len(prog) : prog'[n] = prog[n]
          /\ prog'[Len(prog) + 1].op = op
      BY <2>1, <2>2, JoinsProg
    <2>4. ncalls[q] \in Nat /\ Len(prog) \in Nat /\ ncalls[q] <= Len(prog)
      BY LenProperties DEF TypeInv, TypeOK, AppType
    <2>5. ncalls[q] = Len(prog) /\ op = "read"
      BY <1>1, <1>2, <2>3, <2>4 DEF NextIsRead
    <2>6. QED
      BY <1>2, <2>3, <2>5 DEF MayCall, FlushedBefore
  <1>3. QED
    BY <1>1, <1>2 DEF ReadyInv

\* A rank with nothing pending has flushed all its requests.
LEMMA NotPending ==
  ASSUME TypeInv, NEW r \in Ranks
  PROVE  ~Pending(r) <=> NoMerged(r) /\ nflushed[r] = Len(wreqs[r])
  BY LenProperties DEF Pending, NoMerged, TypeInv, TypeOK, ReqType

LEMMA ReadyLocal ==
  ASSUME TypeInv, NEW r \in Ranks, QueueInv(r), ReadyInv(r), LocalStep(r)
  PROVE  ReadyInv(r)'
  <1> USE DEF TypeInv, TypeOK, StepType, ReqType
  <1>1. UNCHANGED <<prog, ncalls>>
    BY DEF LocalStep, PushMerged, Pack, WriteData, WriteSection, MetaClean, Search, Return, appVars
  <1>2. CASE PushMerged(r) \/ Pack(r)
    BY <1>2 DEF PushMerged, Pack, Goto, ReadyInv
  <1>3. CASE WriteData(r)
    <2>1. NoMerged(r) /\ mreqs' = mreqs /\ nflushed'[r] = Len(wreqs[r])
      BY <1>3 DEF WriteData, QueueInv
    <2>2. Len(wreqs'[r]) = Len(wreqs[r])
      <3>1. wreqs'[r] = [k \in 1 .. Len(wreqs[r]) |->
                              IF k \in {j \in 1 .. Len(wreqs[r]) : j > nflushed[r]}
                              THEN [id |-> wreqs[r][k].id, foff |-> wreqs[r][k].foff + foff[r]]
                              ELSE wreqs[r][k]]
        BY <1>3 DEF WriteData
      <3>2. DOMAIN wreqs'[r] = 1 .. Len(wreqs[r]) /\ Len(wreqs[r]) \in Nat
        BY <3>1, LenProperties
      <3>3. QED
        BY <3>2
    <2>3. ~Pending(r)'
      <3>1. NoMerged(r)'
        BY <2>1 DEF NoMerged
      <3>2. Len(wreqs[r]) \in Nat
        BY LenProperties
      <3>3. QED
        BY <2>1, <2>2, <3>1, <3>2 DEF Pending, NoMerged
    <2>4. QED
      BY <2>3 DEF ReadyInv
  <1>4. CASE WriteSection(r) \/ Search(r) \/ Return(r)
    <2>1. Pending(r)' = Pending(r)
      BY <1>4, PendingKept DEF WriteSection, Search, Return, reqVars
    <2>2. /\ pc[r] \in {"section", "search", "return"}
          /\ pc'[r] \in {"barrier", "gather", "view", "readall", "app"}
          /\ pc'[r] \in {"barrier", "gather"} => pc[r] \in {"section", "search"}
      BY <1>4 DEF WriteSection, Search, Return, Goto
    <2>3. QED
      BY <1>1, <2>1, <2>2 DEF ReadyInv, NextIsRead
  <1>5. CASE MetaClean(r)
    <2>1. NoMerged(r) /\ mreqs' = mreqs /\ nflushed'[r] = 0 /\ wreqs'[r] = <<>>
      BY <1>5, NotPending DEF MetaClean, ReadyInv
    <2>2. ~Pending(r)'
      BY <2>1, EmptySeq DEF Pending, NoMerged
    <2>3. QED
      BY <2>2 DEF ReadyInv
  <1>6. QED
    BY <1>2, <1>3, <1>4, <1>5 DEF LocalStep

\* A flush with no bytes to write finds nothing pending.
LEMMA NothingToWrite ==
  ASSUME TypeInv, \A q \in Ranks : QueueInv(q) /\ LayoutInv(q), At("scan"),
         NEW offs \in [0 .. NP -> 0 .. MaxBytes], IsPrefixSum(offs, fsize), offs[NP] = 0,
         NEW r \in Ranks
  PROVE  ~Pending(r)
  <1> USE DEF TypeInv, TypeOK, ReqType
  <1>1. offs \in [0 .. NP -> Nat] /\ fsize \in [Ranks -> Nat]
    BY BoundAssumption
  <1>2. offs[r] + fsize[r] <= 0
    BY <1>1, PrefixSumsApart
  <1>3. offs[r] \in Nat /\ fsize[r] \in Nat
    BY <1>1, NPAssumption DEF Ranks
  <1>4. fsize[r] = 0
    BY <1>2, <1>3
  <1>5. NoMerged(r) /\ cur[r] = Len(wreqs[r]) /\ nflushed[r] <= cur[r]
    BY DEF At, QueueInv, LayoutInv
  <1>6. nflushed[r] \in Nat /\ wreqs[r] \in Seq(Request) /\ Len(wreqs[r]) \in Nat
    BY LenProperties
  <1>7. ASSUME nflushed[r] < Len(wreqs[r]) PROVE FALSE
    <2> DEFINE k == Len(wreqs[r])
    <2>1. k \in nflushed[r] + 1 .. cur[r] /\ k \in 1 .. Len(wreqs[r])
      BY <1>5, <1>6, <1>7
    <2>2. wreqs[r][k] \in Request /\ wreqs[r][k].id \in Ids
      BY <1>6, <2>1, ElementOfSeq DEF IdsOK
    <2>3. wreqs[r][k].foff \in Nat /\ SizeOf(wreqs[r][k].id) \in Nat /\ SizeOf(wreqs[r][k].id) > 0
      BY <2>2, SizeType DEF Request
    <2>4. wreqs[r][k].foff + SizeOf(wreqs[r][k].id) <= fsize[r]
      BY <2>1 DEF At, LayoutInv
    <2>5. QED
      BY <1>4, <2>3, <2>4
  <1>8. QED
    BY <1>5, <1>6, <1>7, NotPending

LEMMA ReadyCollective ==
  ASSUME TypeInv, \A q \in Ranks : QueueInv(q) /\ LayoutInv(q), Collective,
         NEW r \in Ranks, ReadyInv(r)
  PROVE  ReadyInv(r)'
  <1> USE DEF TypeInv, TypeOK, StepType
  <1>1. Pending(r)' = Pending(r) /\ UNCHANGED <<prog, ncalls>>
    <2>1. /\ wreqs' = wreqs /\ mreqs' = mreqs /\ nflushed' = nflushed
          /\ UNCHANGED <<prog, ncalls>>
      BY DEF Collective, AllreducePending, ScanAndCreate, GatherAndCreate, MetaBarrier, SetView,
         ReadAll, RestoreView, CloseFile, reqVars, appVars
    <2>2. QED
      BY <2>1, PendingKept
  <1>2. CASE AllreducePending
    <2>1. CASE AnyWrites(r)
      BY <1>2, <2>1 DEF AllreducePending, AnyWrites, ReadyInv
    <2>2. CASE ~AnyWrites(r)
      BY <1>1, <2>2 DEF AnyWrites, ReadyInv
    <2>3. QED
      BY <2>1, <2>2
  <1>3. CASE ScanAndCreate
    <2>1. PICK offs \in [0 .. NP -> 0 .. MaxBytes] :
            /\ IsPrefixSum(offs, fsize)
            /\ offs[NP] = 0 \/ pc' = [q \in Ranks |-> "write"]
      BY <1>3 DEF ScanAndCreate
    <2>2. At("scan")
      BY <1>3 DEF ScanAndCreate
    <2>3. CASE offs[NP] = 0
      BY <1>1, <2>1, <2>2, <2>3, NothingToWrite DEF ReadyInv
    <2>4. CASE pc' = [q \in Ranks |-> "write"]
      BY <2>4 DEF ReadyInv
    <2>5. QED
      BY <2>1, <2>3, <2>4
  <1>4. CASE GatherAndCreate \/ MetaBarrier
    <2>1. pc[r] \in {"gather", "barrier"}
      BY <1>4 DEF GatherAndCreate, MetaBarrier, At
    <2>2. QED
      BY <1>1, <2>1 DEF ReadyInv
  <1>5. CASE SetView \/ ReadAll \/ RestoreView \/ CloseFile
    <2>1. /\ pc[r] \in {"view", "readall", "unview", "closing"}
          /\ pc'[r] \in {"readall", "unview", "return", "closed"}
      BY <1>5 DEF SetView, ReadAll, RestoreView, CloseFile, At
    <2>2. QED
      BY <1>1, <2>1 DEF ReadyInv, NextIsRead
  <1>6. QED
    BY <1>2, <1>3, <1>4, <1>5 DEF Collective

LEMMA ReadyStep ==
  ASSUME TypeInv, FlushFirst \/ NP = 1, ProgInv, [Next]_vars,
         \A q \in Ranks : QueueInv(q) /\ LayoutInv(q) /\ ReadyInv(q), NEW r \in Ranks
  PROVE  ReadyInv(r)'
  <1>1. ASSUME NEW q \in Ranks, q # r,
               (\E b \in Blocks : Write(q, b)) \/ Call(q) \/ LocalStep(q)
        PROVE  ReadyInv(r)'
    BY <1>1, ReadyOthers
  <1>2. ASSUME NEW b \in Blocks, Write(r, b) PROVE ReadyInv(r)'
    <2>1. pc'[r] = "app" /\ UNCHANGED <<prog, ncalls>> /\ ~ (FlushFirst /\ NextIsRead(r))
      BY <1>2 DEF Write, MayWrite, NextIsRead
    <2>2. QED
      BY <2>1 DEF ReadyInv, NextIsRead
  <1>3. ASSUME NEW m \in {"rw", "ro"}, OpenFile(m) PROVE ReadyInv(r)'
    <2>1. NoMerged(r)' /\ nflushed'[r] = 0 /\ wreqs'[r] = <<>>
      BY <1>3 DEF OpenFile, NoMerged
    <2>2. ~Pending(r)'
      BY <2>1, EmptySeq DEF Pending, NoMerged
    <2>3. QED
      BY <2>2 DEF ReadyInv
  <1>4. CASE UNCHANGED vars
    <2>1. Pending(r)' = Pending(r)
      BY <1>4, PendingKept DEF vars, reqVars
    <2>2. QED
      BY <1>4, <2>1 DEF vars, appVars, ReadyInv, NextIsRead
  <1>5. QED
    BY <1>1, <1>2, <1>3, <1>4, ReadyCall, ReadyLocal, ReadyCollective DEF Next, Finished
-----------------------------------------------------------------------------
(***************************************************************************)
(* Where the bytes are.  From the creation of a log dataset until a rank   *)
(* has written its part, the part is reserved: within the dataset and      *)
(* apart from what is written and from the other ranks' parts.             *)
(***************************************************************************)
Within(off, len, d) == d.addr <= off /\ off + len <= d.addr + d.len

Last == ldsets[Len(ldsets)]

OwnedInv ==
    \A x \in disk :
        /\ x.id \in Ids
        /\ \E n \in 1 .. Len(ldsets) : ldsets[n].addr > 0 /\ Within(x.off, SizeOf(x.id), ldsets[n])

ReservedInv(r) ==
    pc[r] = "write" =>
        /\ ldsets # <<>> /\ Last.addr > 0 /\ Within(foff[r], fsize[r], Last)
        /\ \A x \in disk : Apart(x.off, SizeOf(x.id), foff[r], fsize[r])
        /\ \A q \in Ranks : r # q /\ pc[q] = "write" => Apart(foff[r], fsize[r], foff[q], fsize[q])

SpaceInv == OwnedInv /\ \A r \in Ranks : ReservedInv(r)

LEMMA SpaceKept ==
  ASSUME TypeInv, [Next]_vars, SpaceInv, UNCHANGED <<disk, ldsets>>,
         \A r \in Ranks : pc'[r] = "write" =>
            pc[r] = "write" /\ foff'[r] = foff[r] /\ fsize'[r] = fsize[r]
  PROVE  SpaceInv'
  <1>1. \A x \in disk : x.id \in Ids' /\ SizeOf(x.id)' = SizeOf(x.id)
    BY SizeKept DEF SpaceInv, OwnedInv
  <1>2. OwnedInv'
    BY <1>1 DEF SpaceInv, OwnedInv
  <1>3. ASSUME NEW r \in Ranks PROVE ReservedInv(r)'
    BY <1>1 DEF SpaceInv, ReservedInv, Last
  <1>4. QED
    BY <1>2, <1>3 DEF SpaceInv

\* A part of a range is apart from what the range is apart from.
LEMMA ApartWithin ==
  ASSUME NEW o1 \in Nat, NEW l1 \in Nat, NEW o2 \in Nat, NEW l2 \in Nat,
         NEW o3 \in Nat, NEW l3 \in Nat,
         Apart(o1, l1, o2, l2), o2 <= o3, o3 + l3 <= o2 + l2
  PROVE  Apart(o1, l1, o3, l3) /\ Apart(o3, l3, o1, l1)
  BY DEF Apart

\* Ranges that are apart stay apart when both are moved.
LEMMA ApartShifted ==
  ASSUME NEW o1 \in Nat, NEW l1 \in Nat, NEW o2 \in Nat, NEW l2 \in Nat, NEW d \in Nat,
         Apart(o1, l1, o2, l2)
  PROVE  Apart(o1 + d, l1, o2 + d, l2) /\ Apart(d + o1, l1, d + o2, l2)
  BY DEF Apart

\* The flush from the ranks' sums on: nothing to write, or a log dataset at
\* address doff.
Created(offs, doff) ==
    /\ MayAllocate(doff, offs[NP])
    /\ ldsets' = Append(ldsets, [addr |-> doff, len |-> offs[NP]])
    /\ eof' = IF doff + offs[NP] > eof THEN doff + offs[NP] ELSE eof
    /\ foff' = [r \in Ranks |-> offs[r] + doff]
    /\ pc' = [r \in Ranks |-> "write"] /\ epoch' = epoch + 1

Scanned(offs) ==
    /\ IsPrefixSum(offs, fsize)
    /\ \/ pc' = cont /\ UNCHANGED <<foff, ldsets, eof, epoch>>
       \/ \E doff \in Addrs \cup {0, eof} : Created(offs, doff)

LEMMA ScanEffect ==
  ASSUME ScanAndCreate
  PROVE  /\ At("scan") /\ UNCHANGED <<hist, wreqs, mreqs, nflushed, fsize, disk, mdsets>>
         /\ \E offs \in [0 .. NP -> 0 .. MaxBytes] : Scanned(offs)
  <1>1. PICK offs \in [0 .. NP -> 0 .. MaxBytes] :
          /\ IsPrefixSum(offs, fsize)
          /\ IF offs[NP] = 0
             THEN pc' = cont /\ UNCHANGED <<foff, ldsets, eof, epoch>>
             ELSE \E doff \in Addrs \cup {0, eof} : Created(offs, doff)
    BY Zenon DEF ScanAndCreate, Created
  <1>2. At("scan") /\ UNCHANGED <<hist, wreqs, mreqs, nflushed, fsize, disk, mdsets>>
    BY DEF ScanAndCreate
  <1>3. QED
    BY <1>1, <1>2 DEF Scanned

\* The new log dataset shares no byte with the earlier ones, and its parts
\* none with each other.
LEMMA SpaceScan ==
  ASSUME TypeInv, [Next]_vars, ~AllocFails, SpaceInv, ScanAndCreate,
         \A q \in Ranks : QueueInv(q)
  PROVE  SpaceInv'
  <1>1. PICK offs \in [0 .. NP -> 0 .. MaxBytes] : Scanned(offs)
    BY ScanEffect
  <1>2. UNCHANGED <<disk, fsize, hist>> /\ At("scan")
    BY ScanEffect
  <1>0. IsPrefixSum(offs, fsize)
    BY <1>1 DEF Scanned
  <1>3. offs \in [0 .. NP -> Nat] /\ fsize \in [Ranks -> Nat] /\ \A r \in Ranks : offs[r] \in Nat
    <2>1. 0 .. MaxBytes \subseteq Nat
      BY BoundAssumption
    <2>2. offs \in [0 .. NP -> Nat]
      BY <2>1
    <2>3. \A r \in Ranks : r \in 0 .. NP
      BY NPAssumption DEF Ranks
    <2>4. fsize \in [Ranks -> Nat]
      BY DEF TypeInv, TypeOK, ReqType
    <2>5. QED
      BY <2>2, <2>3, <2>4
  <1> USE DEF TypeInv, TypeOK, ReqType, FileType
  <1>4. offs[NP] \in Nat
    BY <1>3, NPAssumption
  <1>5. CASE pc' = cont /\ UNCHANGED <<foff, ldsets>>
    <2>1. \A r \in Ranks : pc'[r] # "write"
      BY <1>2, <1>5 DEF At, QueueInv
    <2>2. QED
      BY <1>2, <1>5, <2>1, SpaceKept
  <1>6. ASSUME NEW doff \in Addrs \cup {0, eof}, MayAllocate(doff, offs[NP]),
               ldsets' = Append(ldsets, [addr |-> doff, len |-> offs[NP]]),
               foff' = [r \in Ranks |-> offs[r] + doff]
        PROVE  SpaceInv'
    <2>1. doff \in Nat /\ doff > 0
          /\ \A n \in 1 .. Len(ldsets) :
               ldsets[n].addr > 0 => Apart(doff, offs[NP], ldsets[n].addr, ldsets[n].len)
      BY <1>6, BoundAssumption DEF MayAllocate
    <2>2. /\ Len(ldsets') = Len(ldsets) + 1 /\ Len(ldsets) \in Nat
          /\ ldsets'[Len(ldsets) + 1] = [addr |-> doff, len |-> offs[NP]]
          /\ \A n \in 1 .. Len(ldsets) : ldsets'[n] = ldsets[n]
          /\ ldsets' # <<>>
      <3> DEFINE d == [addr |-> doff, len |-> offs[NP]]
      <3>1. ldsets \in Seq([addr : Nat, len : Nat]) /\ d \in [addr : Nat, len : Nat]
        BY <1>4, <2>1
      <3>2. ldsets' = Append(ldsets, d)
        BY <1>6
      <3> HIDE DEF d
      <3>3. /\ Len(Append(ldsets, d)) = Len(ldsets) + 1
            /\ Append(ldsets, d)[Len(ldsets) + 1] = d
            /\ \A n \in 1 .. Len(ldsets) : Append(ldsets, d)[n] = ldsets[n]
        BY <3>1
      <3>4. Len(ldsets) \in Nat /\ Append(ldsets, d) # <<>>
        <4>1. Len(ldsets) \in Nat
          BY <3>1, LenProperties
        <4>2. Len(<<>>) = 0 /\ Len(Append(ldsets, d)) # 0
          BY <3>3, <4>1, EmptySeq
        <4>3. QED
          BY <4>1, <4>2
      <3>5. QED
        BY <3>2, <3>3, <3>4 DEF d
    <2>3. \A x \in disk : SizeOf(x.id)' = SizeOf(x.id) /\ x.id \in Ids'
      BY <1>2 DEF SizeOf, BlkOf, SpaceInv, OwnedInv, Ids
    <2>4. OwnedInv'
      <3>1. ASSUME NEW x \in disk
            PROVE  \E n \in 1 .. Len(ldsets') :
                     ldsets'[n].addr > 0 /\ Within(x.off, SizeOf(x.id), ldsets'[n])
        <4>1. PICK n \in 1 .. Len(ldsets) :
                ldsets[n].addr > 0 /\ Within(x.off, SizeOf(x.id), ldsets[n])
          BY DEF SpaceInv, OwnedInv
        <4>2. n \in 1 .. Len(ldsets') /\ ldsets'[n] = ldsets[n]
          BY <2>2
        <4>3. QED
          BY <4>1, <4>2
      <3>2. QED
        BY <1>2, <2>3, <3>1 DEF OwnedInv
    <2>5. ASSUME NEW x \in disk
          PROVE  /\ x.off \in Nat /\ SizeOf(x.id) \in Nat
                 /\ Apart(x.off, SizeOf(x.id), doff, offs[NP])
      <3>1. x.off \in Nat /\ SizeOf(x.id) \in Nat
        BY SizeType DEF SpaceInv, OwnedInv
      <3>2. PICK n \in 1 .. Len(ldsets) :
              ldsets[n].addr > 0 /\ Within(x.off, SizeOf(x.id), ldsets[n])
        BY DEF SpaceInv, OwnedInv
      <3>3. ldsets[n].addr \in Nat /\ ldsets[n].len \in Nat
        <4>1. ldsets \in Seq([addr : Nat, len : Nat])
          OBVIOUS
        <4>2. ldsets[n] \in [addr : Nat, len : Nat]
          BY <4>1, ElementOfSeq
        <4>3. QED
          BY <4>2
      <3>4. Apart(doff, offs[NP], ldsets[n].addr, ldsets[n].len)
        BY <2>1, <3>2
      <3>5. ldsets[n].addr <= x.off
            /\ x.off + SizeOf(x.id) <= ldsets[n].addr + ldsets[n].len
        BY <3>2 DEF Within
      <3>6. QED
        BY <1>4, <2>1, <3>1, <3>3, <3>4, <3>5, ApartWithin
    <2>6. ASSUME NEW r \in Ranks PROVE ReservedInv(r)'
      <3>1. offs[r] + fsize[r] <= offs[NP] /\ offs[r] \in Nat /\ fsize[r] \in Nat
        BY <1>0, <1>3, PrefixSumsApart
      <3>2. foff'[r] = offs[r] + doff
        BY <1>6
      <3>4. doff <= offs[r] + doff /\ (offs[r] + doff) + fsize[r] <= doff + offs[NP]
            /\ offs[r] + doff \in Nat
        <4>1. ASSUME NEW o \in Nat, NEW l \in Nat, NEW n \in Nat, NEW a \in Nat, o + l <= n
              PROVE  a <= o + a /\ (o + a) + l <= a + n /\ o + a \in Nat
          BY <4>1
        <4>2. QED
          BY <1>4, <2>1, <3>1, <4>1
      <3>3. Within(foff'[r], fsize[r], Last') /\ Last'.addr > 0
        <4>1. Last'.addr = doff /\ Last'.len = offs[NP]
          BY <2>2 DEF Last
        <4>2. QED
          BY <2>1, <3>2, <3>4, <4>1 DEF Within
      <3>5. ASSUME NEW x \in disk PROVE Apart(x.off, SizeOf(x.id)', foff'[r], fsize'[r])
        <4>1. Apart(x.off, SizeOf(x.id), doff, offs[NP]) /\ x.off \in Nat /\ SizeOf(x.id) \in Nat
          BY <2>5
        <4>2. Apart(x.off, SizeOf(x.id), offs[r] + doff, fsize[r])
          BY <1>4, <2>1, <3>1, <3>4, <4>1, ApartWithin
        <4>3. QED
          BY <1>2, <2>3, <3>2, <4>2
      <3>6. ASSUME NEW q \in Ranks, r # q PROVE Apart(foff'[r], fsize'[r], foff'[q], fsize'[q])
        <4>1. Apart(offs[r], fsize[r], offs[q], fsize[q]) /\ offs[q] \in Nat /\ fsize[q] \in Nat
          BY <1>0, <1>3, <3>6, PrefixSumsApart
        <4>2. foff'[q] = offs[q] + doff
          BY <1>6
        <4>3. Apart(offs[r] + doff, fsize[r], offs[q] + doff, fsize[q])
          BY <2>1, <3>1, <4>1, ApartShifted
        <4>4. QED
          BY <1>2, <3>2, <4>2, <4>3
      <3>7. QED
        BY <1>2, <2>2, <3>3, <3>5, <3>6 DEF ReservedInv
    <2>7. QED
      BY <2>4, <2>6 DEF SpaceInv
  <1>7. QED
    BY <1>1, <1>5, <1>6 DEF Scanned, Created

\* What rank r adds to the file: the unflushed requests, in its part.
LEMMA WriteEffect ==
  ASSUME TypeInv, ~AllocFails, SpaceInv, NEW r \in Ranks, QueueInv(r), LayoutInv(r), WriteData(r)
  PROVE  /\ Len(wreqs'[r]) = Len(wreqs[r]) /\ nflushed'[r] = Len(wreqs[r])
         /\ \A k \in 1 .. Len(wreqs[r]) : wreqs'[r][k].id = wreqs[r][k].id
         /\ \A k \in 1 .. nflushed[r] : wreqs'[r][k] = wreqs[r][k]
         /\ \A k \in nflushed[r] + 1 .. Len(wreqs[r]) : wreqs'[r][k].foff = foff[r] + wreqs[r][k].foff
         /\ disk' = disk \cup {[off |-> foff[r] + wreqs[r][k].foff, id |-> wreqs[r][k].id] :
                                 k \in nflushed[r] + 1 .. Len(wreqs[r])}
  <1> USE DEF TypeInv, TypeOK, ReqType
  <1> DEFINE Flushed == {k \in 1 .. Len(wreqs[r]) : k > nflushed[r]}
  <1>1. /\ wreqs'[r] = [k \in 1 .. Len(wreqs[r]) |->
                          IF k \in Flushed
                          THEN [id |-> wreqs[r][k].id, foff |-> wreqs[r][k].foff + foff[r]]
                          ELSE wreqs[r][k]]
        /\ nflushed'[r] = Len(wreqs[r])
        /\ disk' = disk \cup {[off |-> foff[r] + wreqs[r][k].foff, id |-> wreqs[r][k].id] :
                                k \in Flushed}
    BY DEF WriteData, SpaceInv, ReservedInv, Last
  <1>2. Len(wreqs[r]) \in Nat /\ nflushed[r] \in Nat /\ nflushed[r] <= Len(wreqs[r])
    BY LenProperties
  <1>3. Flushed = nflushed[r] + 1 .. Len(wreqs[r])
    BY <1>2
  <1> HIDE DEF Flushed
  <1>4. Len(wreqs'[r]) = Len(wreqs[r])
    <2>1. DOMAIN wreqs'[r] = 1 .. Len(wreqs[r])
      BY <1>1
    <2>2. QED
      BY <1>2, <2>1
  <1>5. \A k \in 1 .. Len(wreqs[r]) : wreqs'[r][k].id = wreqs[r][k].id
    BY <1>1
  <1>6. \A k \in 1 .. nflushed[r] : wreqs'[r][k] = wreqs[r][k]
    BY <1>1, <1>2, <1>3
  <1>7. \A k \in nflushed[r] + 1 .. Len(wreqs[r]) : wreqs'[r][k].foff = foff[r] + wreqs[r][k].foff
    <2>1. ASSUME NEW k \in nflushed[r] + 1 .. Len(wreqs[r])
          PROVE  wreqs'[r][k].foff = foff[r] + wreqs[r][k].foff
      <3>1. k \in 1 .. Len(wreqs[r]) /\ k \in Flushed
        BY <1>2, <1>3
      <3>2. wreqs'[r][k].foff = wreqs[r][k].foff + foff[r]
        BY <1>1, <3>1
      <3>3. wreqs[r][k] \in Request /\ foff[r] \in Nat
        BY <3>1, ElementOfSeq
      <3>4. QED
        BY <3>2, <3>3 DEF Request
    <2>2. QED
      BY <2>1
  <1>8. QED
    BY <1>1, <1>3, <1>4, <1>5, <1>6, <1>7

\* The place of each request that a rank writes.
LEMMA WritePlaces ==
  ASSUME TypeInv, SpaceInv, NEW r \in Ranks, LayoutInv(r), pc[r] = "write",
         NEW k \in nflushed[r] + 1 .. Len(wreqs[r])
  PROVE  /\ k \in 1 .. Len(wreqs[r]) /\ wreqs[r][k].id \in Ids
         /\ wreqs[r][k].foff \in Nat /\ foff[r] \in Nat /\ fsize[r] \in Nat
         /\ SizeOf(wreqs[r][k].id) \in Nat /\ SizeOf(wreqs[r][k].id) > 0
         /\ wreqs[r][k].foff + SizeOf(wreqs[r][k].id) <= fsize[r]
         /\ \A j \in nflushed[r] + 1 .. Len(wreqs[r]) : j # k =>
              Apart(foff[r] + wreqs[r][k].foff, SizeOf(wreqs[r][k].id),
                    foff[r] + wreqs[r][j].foff, SizeOf(wreqs[r][j].id))
  <1> USE DEF TypeInv, TypeOK, ReqType
  <1>1. nflushed[r] \in Nat /\ Len(wreqs[r]) \in Nat /\ cur[r] = Len(wreqs[r])
    BY LenProperties DEF LayoutInv
  <1>2. ASSUME NEW j \in nflushed[r] + 1 .. Len(wreqs[r])
        PROVE  /\ j \in 1 .. Len(wreqs[r]) /\ wreqs[r][j].id \in Ids /\ wreqs[r][j].foff \in Nat
               /\ SizeOf(wreqs[r][j].id) \in Nat /\ SizeOf(wreqs[r][j].id) > 0
    <2>1. j \in 1 .. Len(wreqs[r])
      BY <1>1
    <2>2. wreqs[r][j] \in Request /\ wreqs[r][j].id \in Ids
      BY <2>1, ElementOfSeq DEF IdsOK
    <2>3. QED
      BY <2>1, <2>2, SizeType DEF Request
  <1>3. wreqs[r][k].foff + SizeOf(wreqs[r][k].id) <= fsize[r]
    BY <1>1 DEF LayoutInv
  <1>4. foff[r] \in Nat /\ fsize[r] \in Nat
    OBVIOUS
  <1>5. ASSUME NEW j \in nflushed[r] + 1 .. Len(wreqs[r]), j # k
        PROVE  Apart(foff[r] + wreqs[r][k].foff, SizeOf(wreqs[r][k].id),
                     foff[r] + wreqs[r][j].foff, SizeOf(wreqs[r][j].id))
    <2>1. j < k \/ k < j
      BY <1>1, <1>5
    <2>2. \/ wreqs[r][j].foff + SizeOf(wreqs[r][j].id) <= wreqs[r][k].foff
          \/ wreqs[r][k].foff + SizeOf(wreqs[r][k].id) <= wreqs[r][j].foff
      BY <1>1, <2>1 DEF LayoutInv
    <2>3. Apart(wreqs[r][k].foff, SizeOf(wreqs[r][k].id),
                wreqs[r][j].foff, SizeOf(wreqs[r][j].id))
      BY <2>2 DEF Apart
    <2>4. QED
      BY <1>2, <1>4, <2>3, ApartShifted
  <1>6. QED
    BY <1>2, <1>3, <1>4, <1>5

LEMMA SpaceWrite ==
  ASSUME TypeInv, [Next]_vars, ~AllocFails, SpaceInv, NEW r \in Ranks, QueueInv(r), LayoutInv(r),
         WriteData(r)
  PROVE  SpaceInv'
  <1> DEFINE New == {[off |-> foff[r] + wreqs[r][k].foff, id |-> wreqs[r][k].id] :
                       k \in nflushed[r] + 1 .. Len(wreqs[r])}
  <1>1. /\ pc[r] = "write" /\ UNCHANGED <<hist, foff, fsize, ldsets>>
        /\ pc' = [pc EXCEPT ![r] = cont[r]] /\ disk' = disk \cup New
    BY WriteEffect DEF WriteData, Goto, appVars
  <1>2. pc'[r] # "write" /\ \A q \in Ranks : q # r => pc'[q] = pc[q]
    BY <1>1 DEF QueueInv, TypeInv, TypeOK, StepType
  <1>3. \A i \in Ids : i \in Ids' /\ SizeOf(i)' = SizeOf(i)
    BY SizeKept
  <1>4. foff[r] \in Nat /\ fsize[r] \in Nat /\ ldsets \in Seq([addr : Nat, len : Nat])
    BY DEF TypeInv, TypeOK, ReqType, FileType
  <1>5. Len(ldsets) \in 1 .. Len(ldsets) /\ Last \in [addr : Nat, len : Nat] /\ Last.addr > 0
        /\ Within(foff[r], fsize[r], Last)
    <2>1. ldsets # <<>> /\ Last.addr > 0 /\ Within(foff[r], fsize[r], Last)
      BY <1>1 DEF SpaceInv, ReservedInv
    <2>2. Len(ldsets) \in 1 .. Len(ldsets)
      BY <1>4, <2>1, EmptySeq
    <2>3. QED
      BY <1>4, <2>1, <2>2, ElementOfSeq DEF Last
  <1>6. ASSUME NEW x \in New
        PROVE  /\ x.id \in Ids /\ x.off \in Nat /\ SizeOf(x.id) \in Nat
               /\ foff[r] <= x.off /\ x.off + SizeOf(x.id) <= foff[r] + fsize[r]
    <2>1. PICK k \in nflushed[r] + 1 .. Len(wreqs[r]) :
            x = [off |-> foff[r] + wreqs[r][k].foff, id |-> wreqs[r][k].id]
      OBVIOUS
    <2>2. /\ wreqs[r][k].id \in Ids /\ wreqs[r][k].foff \in Nat
          /\ SizeOf(wreqs[r][k].id) \in Nat
          /\ wreqs[r][k].foff + SizeOf(wreqs[r][k].id) <= fsize[r]
      BY <1>1, WritePlaces
    <2>3. x.off = foff[r] + wreqs[r][k].foff /\ x.id = wreqs[r][k].id
      BY <2>1
    <2>4. ASSUME NEW f \in Nat, NEW w \in Nat, NEW l \in Nat, NEW n \in Nat, w + l <= n
          PROVE  f + w \in Nat /\ f <= f + w /\ (f + w) + l <= f + n
      BY <2>4
    <2>5. QED
      BY <1>4, <2>2, <2>3, <2>4
  <1> HIDE DEF New
  <1>7. ASSUME NEW x \in disk'
        PROVE  /\ x.id \in Ids
               /\ \E n \in 1 .. Len(ldsets) :
                    ldsets[n].addr > 0 /\ Within(x.off, SizeOf(x.id), ldsets[n])
    <2>1. CASE x \in disk
      BY <2>1 DEF SpaceInv, OwnedInv
    <2>2. CASE x \in New
      <3>1. Within(x.off, SizeOf(x.id), Last)
        BY <1>4, <1>5, <1>6, <2>2 DEF Within
      <3>2. QED
        BY <1>5, <1>6, <2>2, <3>1 DEF Last
    <2>3. QED
      BY <1>1, <2>1, <2>2
  <1>8. OwnedInv'
    BY <1>1, <1>3, <1>7 DEF OwnedInv
  <1>9. ASSUME NEW q \in Ranks, pc'[q] = "write" PROVE ReservedInv(q)'
    <2>1. q # r /\ pc[q] = "write" /\ foff[q] \in Nat /\ fsize[q] \in Nat
      BY <1>2, <1>9 DEF TypeInv, TypeOK, ReqType
    <2>2. Apart(foff[q], fsize[q], foff[r], fsize[r])
      BY <1>1, <2>1 DEF SpaceInv, ReservedInv
    <2>3. ASSUME NEW x \in disk' PROVE Apart(x.off, SizeOf(x.id)', foff[q], fsize[q])
      <3>1. x.id \in Ids /\ SizeOf(x.id)' = SizeOf(x.id)
        BY <1>3, <1>7
      <3>2. CASE x \in disk
        BY <2>1, <3>1, <3>2 DEF SpaceInv, ReservedInv
      <3>3. CASE x \in New
        BY <1>4, <1>6, <2>1, <2>2, <3>1, <3>3, ApartWithin
      <3>4. QED
        BY <1>1, <3>2, <3>3
    <2>4. ASSUME NEW p \in Ranks, p # q, pc'[p] = "write"
          PROVE  Apart(foff[q], fsize[q], foff[p], fsize[p])
      BY <1>2, <2>1, <2>4 DEF SpaceInv, ReservedInv
    <2>5. ldsets # <<>> /\ Last.addr > 0 /\ Within(foff[q], fsize[q], Last)
      BY <2>1 DEF SpaceInv, ReservedInv
    <2>6. QED
      BY <1>1, <2>3, <2>4, <2>5 DEF ReservedInv, Last
  <1>10. QED
    BY <1>8, <1>9 DEF SpaceInv, ReservedInv

\* The space of the file over every step.
LEMMA SpaceStep ==
  ASSUME TypeInv, [Next]_vars, ~AllocFails, SpaceInv, \A q \in Ranks : QueueInv(q) /\ LayoutInv(q)
  PROVE  SpaceInv'
  <1> USE DEF TypeInv, TypeOK, StepType, ReqType
  <1>1. ASSUME NEW r \in Ranks, (\E b \in Blocks : Write(r, b)) \/ Call(r) \/ LocalStep(r),
               ~WriteData(r)
        PROVE  SpaceInv'
    <2>1. UNCHANGED <<disk, ldsets>>
      BY <1>1 DEF Call, LocalStep, Write, CallFlush, CallRead, CallBufferedRead, CallClose,
         PushMerged, Pack, WriteSection, MetaClean, Search, Return, fileVars
    <2>2. \A q \in Ranks : q # r => pc'[q] = pc[q] /\ fsize'[q] = fsize[q] /\ foff'[q] = foff[q]
      BY <1>1, OthersKept, OthersLayout DEF Kept
    <2>3. pc'[r] # "write"
      <3>1. CASE (\E b \in Blocks : Write(r, b)) \/ Call(r)
        BY <3>1 DEF Write, Call, CallFlush, CallRead, CallBufferedRead, CallClose, Goto, Joins
      <3>2. CASE LocalStep(r)
        BY <1>1, <3>2 DEF LocalStep, PushMerged, Pack, WriteSection, MetaClean, Search, Return, Goto
      <3>3. QED
        BY <1>1, <3>1, <3>2
    <2>4. QED
      BY <2>1, <2>2, <2>3, SpaceKept
  <1>2. CASE Collective /\ ~ScanAndCreate
    <2>1. UNCHANGED <<disk, ldsets>> /\ \A r \in Ranks : pc'[r] # "write"
      BY <1>2 DEF Collective, AllreducePending, AfterWrites, GatherAndCreate, MetaBarrier, SetView,
         ReadAll, RestoreView, CloseFile, fileVars
    <2>2. QED
      BY <2>1, SpaceKept
  <1>3. ASSUME NEW m \in {"rw", "ro"}, OpenFile(m) PROVE SpaceInv'
    BY <1>3, SpaceKept DEF OpenFile
  <1>4. CASE UNCHANGED vars
    BY <1>4, SpaceKept DEF vars, reqVars, fileVars
  <1>5. QED
    BY <1>1, <1>2, <1>3, <1>4, SpaceScan, SpaceWrite DEF Next, Finished, LocalStep
-----------------------------------------------------------------------------
\* Data once written stays where it is, and nothing is written over it.
LEMMA HasDataKept ==
  ASSUME TypeInv, [Next]_vars, ~AllocFails, SpaceInv, \A q \in Ranks : QueueInv(q) /\ LayoutInv(q),
         NEW i, NEW off, HasData(i, off)
  PROVE  HasData(i, off)'
  <1>1. [off |-> off, id |-> i] \in disk /\ i \in Ids /\ off \in Nat /\ SizeOf(i) \in Nat
    <2>1. [off |-> off, id |-> i] \in disk
      BY DEF HasData
    <2>2. i \in Ids
      BY <2>1 DEF SpaceInv, OwnedInv
    <2>3. [off |-> off, id |-> i] \in [off : Nat, id : Nat]
      BY <2>1 DEF TypeInv, TypeOK, FileType
    <2>4. QED
      BY <2>1, <2>2, <2>3, SizeType
  <1>2. \A x \in disk : x.id \in Ids /\ SizeOf(x.id)' = SizeOf(x.id)
    BY SizeKept DEF SpaceInv, OwnedInv
  <1>3. SizeOf(i)' = SizeOf(i)
    BY <1>1, SizeKept
  <1>4. CASE UNCHANGED disk
    BY <1>2, <1>3, <1>4 DEF HasData
  <1>5. ASSUME NEW r \in Ranks, WriteData(r) PROVE HasData(i, off)'
    <2> DEFINE New == {[off |-> foff[r] + wreqs[r][k].foff, id |-> wreqs[r][k].id] :
                         k \in nflushed[r] + 1 .. Len(wreqs[r])}
    <2>1. pc[r] = "write" /\ disk' = disk \cup New
      BY <1>5, WriteEffect DEF WriteData
    <2>2. foff[r] \in Nat /\ fsize[r] \in Nat
      BY DEF TypeInv, TypeOK, ReqType
    <2>3. Apart(off, SizeOf(i), foff[r], fsize[r])
      BY <1>1, <2>1 DEF SpaceInv, ReservedInv
    <2>4. ASSUME NEW x \in New
          PROVE  x.id = i \/ Apart(off, SizeOf(i), x.off, SizeOf(x.id)')
      <3>1. PICK k \in nflushed[r] + 1 .. Len(wreqs[r]) :
              x = [off |-> foff[r] + wreqs[r][k].foff, id |-> wreqs[r][k].id]
        OBVIOUS
      <3>2. /\ wreqs[r][k].id \in Ids /\ wreqs[r][k].foff \in Nat
            /\ SizeOf(wreqs[r][k].id) \in Nat
            /\ wreqs[r][k].foff + SizeOf(wreqs[r][k].id) <= fsize[r]
        BY <2>1, WritePlaces
      <3>3. x.off = foff[r] + wreqs[r][k].foff /\ x.id = wreqs[r][k].id
        BY <3>1
      <3>4. ASSUME NEW f \in Nat, NEW w \in Nat, NEW l \in Nat, NEW n \in Nat, w + l <= n
            PROVE  f + w \in Nat /\ f <= f + w /\ (f + w) + l <= f + n
        BY <3>4
      <3>5. /\ x.off \in Nat /\ SizeOf(x.id) \in Nat /\ foff[r] <= x.off
            /\ x.off + SizeOf(x.id) <= foff[r] + fsize[r]
        BY <2>2, <3>2, <3>3, <3>4
      <3>6. Apart(off, SizeOf(i), x.off, SizeOf(x.id))
        BY <1>1, <2>2, <2>3, <3>5, ApartWithin
      <3>7. SizeOf(x.id)' = SizeOf(x.id)
        BY <3>2, <3>3, SizeKept
      <3>8. QED
        BY <3>6, <3>7
    <2> HIDE DEF New
    <2>5. \A x \in disk : x.id = i \/ Apart(off, SizeOf(i), x.off, SizeOf(x.id)')
      BY <1>2 DEF HasData
    <2>6. QED
      BY <1>1, <1>3, <2>1, <2>4, <2>5 DEF HasData
  <1>6. UNCHANGED disk \/ \E r \in Ranks : WriteData(r)
    BY FileSteps
  <1>7. QED
    BY <1>4, <1>5, <1>6

\* What a rank writes is at the offsets its requests get.
WrittenAt(r, k, i, off) == i = wreqs[r][k].id /\ off = foff[r] + wreqs[r][k].foff

LEMMA WrittenIntact ==
  ASSUME TypeInv, [Next]_vars, ~AllocFails, SpaceInv, NEW r \in Ranks, QueueInv(r), LayoutInv(r),
         WriteData(r), NEW k \in nflushed[r] + 1 .. Len(wreqs[r]),
         NEW i, NEW off, WrittenAt(r, k, i, off)
  PROVE  HasData(i, off)'
  <1> DEFINE N == nflushed[r] + 1 .. Len(wreqs[r])
             New == {[off |-> foff[r] + wreqs[r][j].foff, id |-> wreqs[r][j].id] : j \in N}
  <1>1. pc[r] = "write" /\ disk' = disk \cup New /\ [off |-> off, id |-> i] \in New
    BY WriteEffect DEF WriteData, WrittenAt
  <1>2. /\ i \in Ids /\ wreqs[r][k].foff \in Nat /\ foff[r] \in Nat
        /\ fsize[r] \in Nat /\ SizeOf(i) \in Nat /\ wreqs[r][k].foff + SizeOf(i) <= fsize[r]
        /\ \A j \in N : j # k =>
             Apart(off, SizeOf(i), foff[r] + wreqs[r][j].foff, SizeOf(wreqs[r][j].id))
    BY <1>1, WritePlaces DEF WrittenAt
  <1>3. off \in Nat /\ foff[r] <= off /\ off + SizeOf(i) <= foff[r] + fsize[r]
    <2>1. ASSUME NEW f \in Nat, NEW w \in Nat, NEW l \in Nat, NEW n \in Nat, w + l <= n
          PROVE  f + w \in Nat /\ f <= f + w /\ (f + w) + l <= f + n
      BY <2>1
    <2>2. QED
      BY <1>2, <2>1 DEF WrittenAt
  <1>4. ASSUME NEW x \in disk
        PROVE  x.id \in Ids /\ Apart(off, SizeOf(i), x.off, SizeOf(x.id))
    <2>1. x.id \in Ids /\ x.off \in Nat /\ SizeOf(x.id) \in Nat
      <3>1. x \in [off : Nat, id : Nat] /\ x.id \in Ids
        BY DEF SpaceInv, OwnedInv, TypeInv, TypeOK, FileType
      <3>2. QED
        BY <3>1, SizeType
    <2>2. Apart(x.off, SizeOf(x.id), foff[r], fsize[r])
      BY <1>1 DEF SpaceInv, ReservedInv
    <2>3. foff[r] \in Nat /\ fsize[r] \in Nat /\ SizeOf(i) \in Nat
      BY <1>2
    <2>4. Apart(off, SizeOf(i), x.off, SizeOf(x.id))
      BY <1>3, <2>1, <2>2, <2>3, ApartWithin
    <2>5. QED
      BY <2>1, <2>4
  <1>5. ASSUME NEW x \in New
        PROVE  x.id \in Ids /\ (x.id = i \/ Apart(off, SizeOf(i), x.off, SizeOf(x.id)))
    <2>1. PICK j \in N : x = [off |-> foff[r] + wreqs[r][j].foff, id |-> wreqs[r][j].id]
      OBVIOUS
    <2>2. wreqs[r][j].id \in Ids
      BY <1>1, WritePlaces
    <2>3. QED
      BY <1>2, <2>1, <2>2 DEF WrittenAt
  <1> HIDE DEF N, New
  <1>6. \A j \in Ids : SizeOf(j)' = SizeOf(j)
    BY SizeKept
  <1>7. QED
    BY <1>1, <1>2, <1>4, <1>5, <1>6 DEF HasData
-----------------------------------------------------------------------------
\* An entry of the file was there, or a rank has just written it.
LEMMA EntriesFrom ==
  ASSUME TypeInv, \A r \in Ranks : RecordInv(r), [Next]_vars, NEW e \in EntriesIn(Len(mdsets))'
  PROVE  \/ e \in EntriesIn(Len(mdsets))
         \/ \E r \in Ranks : WriteSection(r) /\ e \in Range(wreqs[r])
  <1>1. mdsets \in Seq([Ranks -> SUBSET Request]) /\ Len(mdsets) \in Nat
    BY LenProperties DEF TypeInv, TypeOK, FileType
  <1>2. PICK k \in 1 .. Len(mdsets'), q \in Ranks : e \in mdsets'[k][q]
    BY DEF EntriesIn
  <1>3. CASE UNCHANGED mdsets
    BY <1>2, <1>3 DEF EntriesIn
  <1>4. CASE GatherAndCreate
    <2>1. UNCHANGED mdsets \/ mdsets' = Append(mdsets, [r \in Ranks |-> {}])
      BY <1>4 DEF GatherAndCreate
    <2>2. ASSUME NEW x, x = [r \in Ranks |-> {}], mdsets' = Append(mdsets, x)
          PROVE  k \in 1 .. Len(mdsets) /\ mdsets'[k] = mdsets[k]
      <3>1. Len(mdsets') = Len(mdsets) + 1 /\ mdsets'[Len(mdsets) + 1] = x
            /\ \A n \in 1 .. Len(mdsets) : mdsets'[n] = mdsets[n]
        BY <1>1, <2>2
      <3>2. k # Len(mdsets) + 1
        BY <1>2, <2>2, <3>1
      <3>3. QED
        BY <1>1, <3>1, <3>2
    <2>3. QED
      BY <1>2, <1>3, <2>1, <2>2 DEF EntriesIn
  <1>5. ASSUME NEW r \in Ranks, WriteSection(r)
        PROVE  e \in EntriesIn(Len(mdsets)) \/ e \in Range(wreqs[r])
    <2>1. mdsets' = [mdsets EXCEPT ![nmdset[r]][r] = Range(wreqs[r])]
      BY <1>5 DEF WriteSection, MetaEntries
    <2>2. Len(mdsets') = Len(mdsets)
      BY <1>1, <2>1, ExceptSeq, LenProperties
    <2>3. k \in 1 .. Len(mdsets) /\ (mdsets'[k][q] = mdsets[k][q] \/ mdsets'[k][q] = Range(wreqs[r]))
      BY <1>1, <1>2, <2>1, <2>2
    <2>4. QED
      BY <1>2, <2>3 DEF EntriesIn
  <1>6. UNCHANGED mdsets \/ GatherAndCreate \/ \E r \in Ranks : WriteSection(r)
    BY FileSteps
  <1>7. QED
    BY <1>3, <1>4, <1>5, <1>6

\* Requests already flushed are left alone, or deleted, by every step.
LEMMA FlushedKept ==
  ASSUME TypeInv, [Next]_vars, NEW r \in Ranks, QueueInv(r), LayoutInv(r), ~WriteData(r),
         NEW k \in 1 .. nflushed'[r]
  PROVE  k \in 1 .. nflushed[r] /\ wreqs'[r][k] = wreqs[r][k]
  <1> USE DEF TypeInv, TypeOK, ReqType
  <1>1. nflushed[r] \in Nat /\ nflushed[r] <= Len(wreqs[r]) /\ Len(wreqs[r]) \in Nat
        /\ wreqs[r] \in Seq(Request)
    BY LenProperties
  <1>2. CASE wreqs'[r] = wreqs[r] /\ nflushed'[r] = nflushed[r]
    BY <1>2
  <1>3. ASSUME NEW q \in Ranks, q # r,
               (\E b \in Blocks : Write(q, b)) \/ Call(q) \/ LocalStep(q)
        PROVE  wreqs'[r] = wreqs[r] /\ nflushed'[r] = nflushed[r]
    BY <1>3, OthersKept, OthersLayout DEF Kept
  <1>4. ASSUME NEW b \in Blocks, Write(r, b) PROVE k \in 1 .. nflushed[r] /\ wreqs'[r][k] = wreqs[r][k]
    <2>1. nflushed' = nflushed /\ (wreqs' = wreqs \/ \E w : wreqs'[r] = Append(wreqs[r], w))
      BY <1>4 DEF Write
    <2>2. ASSUME NEW w, wreqs'[r] = Append(wreqs[r], w) PROVE wreqs'[r][k] = wreqs[r][k]
      BY <1>1, <2>1, <2>2
    <2>3. QED
      BY <2>1, <2>2
  <1>5. CASE Call(r)
    BY <1>2, <1>5 DEF Call, CallFlush, CallRead, CallBufferedRead, CallClose, reqVars
  <1>6. CASE PushMerged(r)
    <2>1. nflushed' = nflushed
      BY <1>6 DEF PushMerged
    <2>2. CASE UNCHANGED wreqs
      BY <1>2, <2>1, <2>2
    <2>3. ASSUME NEW d \in 0 .. NDset - 1,
                 wreqs' = [wreqs EXCEPT ![r] = @ \o [j \in 1 .. Len(mreqs[r][d]) |->
                             [id |-> mreqs[r][d][j], foff |-> 0]]]
          PROVE  k \in 1 .. nflushed[r] /\ wreqs'[r][k] = wreqs[r][k]
      <3> DEFINE t == [j \in 1 .. Len(mreqs[r][d]) |-> [id |-> mreqs[r][d][j], foff |-> 0]]
      <3>1. t \in Seq(Request)
        <4>1. mreqs[r][d] \in Seq(Nat) /\ Len(mreqs[r][d]) \in Nat
          <5>1. mreqs[r] \in [0 .. NDset - 1 -> Seq(Nat)]
            OBVIOUS
          <5>2. QED
            BY <5>1, LenProperties
        <4>2. t \in [1 .. Len(mreqs[r][d]) -> Request]
          BY <4>1, ElementOfSeq DEF Request
        <4>3. QED
          BY <4>1, <4>2, SeqOfFunction
      <3>2. wreqs'[r] = wreqs[r] \o t
        BY <2>3
      <3> HIDE DEF t
      <3>3. Len(t) \in Nat
        BY <3>1, LenProperties
      <3>4. k \in 1 .. Len(wreqs[r]) + Len(t) /\ k <= Len(wreqs[r]) /\ k \in 1 .. nflushed[r]
        BY <1>1, <2>1, <3>3
      <3>5. QED
        BY <1>1, <3>1, <3>2, <3>4, ConcatRequests
    <2>4. QED
      BY <1>6, <2>2, <2>3 DEF PushMerged
  <1>7. CASE Pack(r)
    <2>1. nflushed' = nflushed /\ pc[r] = "pack"
      BY <1>7 DEF Pack
    <2>2. CASE cur[r] < Len(wreqs[r])
      <3>1. k # cur[r] + 1 /\ k \in 1 .. Len(wreqs[r])
        BY <1>1, <2>1 DEF LayoutInv
      <3>2. QED
        BY <1>7, <2>1, <2>2, <3>1, PackEffect
    <2>3. CASE ~(cur[r] < Len(wreqs[r]))
      BY <1>2, <1>7, <2>1, <2>3 DEF Pack
    <2>4. QED
      BY <2>2, <2>3
  <1>8. CASE MetaClean(r)
    BY <1>8 DEF MetaClean
  <1>9. CASE WriteSection(r) \/ Search(r) \/ Return(r)
    BY <1>2, <1>9 DEF WriteSection, Search, Return, reqVars
  <1>10. CASE Collective
    <2>1. wreqs' = wreqs /\ nflushed' = nflushed
      BY <1>10 DEF Collective, AllreducePending, ScanAndCreate, GatherAndCreate, MetaBarrier,
         SetView, ReadAll, RestoreView, CloseFile, reqVars
    <2>2. QED
      BY <1>2, <2>1
  <1>11. ASSUME NEW m \in {"rw", "ro"}, OpenFile(m) PROVE FALSE
    BY <1>11 DEF OpenFile
  <1>12. CASE UNCHANGED vars
    BY <1>2, <1>12 DEF vars, reqVars
  <1>13. QED
    BY <1>2, <1>3, <1>4, <1>5, <1>6, <1>7, <1>8, <1>9, <1>10, <1>11, <1>12
       DEF Next, LocalStep, Finished

LEMMA LogIntactStep ==
  ASSUME TypeInv, [Next]_vars, ~AllocFails, SpaceInv, LogIntact,
         \A q \in Ranks : QueueInv(q) /\ LayoutInv(q) /\ RecordInv(q) /\ ReadyInv(q)
  PROVE  LogIntact'
  <1>1. ASSUME NEW i, NEW off, HasData(i, off) PROVE HasData(i, off)'
    BY <1>1, HasDataKept
  <1>2. ASSUME NEW r \in Ranks, NEW k \in 1 .. nflushed'[r]
        PROVE  HasData(wreqs[r][k].id, wreqs[r][k].foff)'
    <2>1. CASE WriteData(r)
      <3>1. nflushed'[r] = Len(wreqs[r]) /\ nflushed[r] \in Nat /\ Len(wreqs[r]) \in Nat
        BY <2>1, WriteEffect, LenProperties DEF TypeInv, TypeOK, ReqType
      <3>2. CASE k \in 1 .. nflushed[r]
        <4>1. wreqs'[r][k] = wreqs[r][k]
          BY <2>1, <3>2, WriteEffect
        <4>2. PICK i, off : i = wreqs[r][k].id /\ off = wreqs[r][k].foff /\ HasData(i, off)
          BY <3>2 DEF LogIntact
        <4>3. QED
          BY <1>1, <4>1, <4>2
      <3>3. CASE k \in nflushed[r] + 1 .. Len(wreqs[r])
        <4>1. PICK i, off : i = wreqs[r][k].id /\ off = foff[r] + wreqs[r][k].foff
          OBVIOUS
        <4>2. HasData(i, off)'
          BY <2>1, <3>3, <4>1, WrittenIntact DEF WrittenAt
        <4>3. wreqs'[r][k].id = i /\ wreqs'[r][k].foff = off
          BY <2>1, <3>1, <3>3, <4>1, WriteEffect
        <4>4. QED
          BY <4>2, <4>3
      <3>4. QED
        BY <3>1, <3>2, <3>3
    <2>2. CASE ~WriteData(r)
      <3>1. k \in 1 .. nflushed[r] /\ wreqs'[r][k] = wreqs[r][k]
        BY <2>2, FlushedKept
      <3>2. PICK i, off : i = wreqs[r][k].id /\ off = wreqs[r][k].foff /\ HasData(i, off)
        BY <3>1 DEF LogIntact
      <3>3. QED
        BY <1>1, <3>1, <3>2
    <2>3. QED
      BY <2>1, <2>2
  <1>3. ASSUME NEW e \in EntriesIn(Len(mdsets))' PROVE HasData(e.id, e.foff)'
    <2>1. HasData(e.id, e.foff)
      <3>1. CASE e \in EntriesIn(Len(mdsets))
        BY <3>1 DEF LogIntact
      <3>2. ASSUME NEW r \in Ranks, WriteSection(r), e \in Range(wreqs[r])
            PROVE  HasData(e.id, e.foff)
        <4>1. PICK k \in 1 .. Len(wreqs[r]) : e = wreqs[r][k]
          BY <3>2, LenProperties DEF Range, TypeInv, TypeOK, ReqType
        <4>2. nflushed[r] = Len(wreqs[r])
          BY <3>2, NotPending DEF WriteSection, ReadyInv
        <4>3. QED
          BY <4>1, <4>2 DEF LogIntact
      <3>3. QED
        BY <3>1, <3>2, EntriesFrom
    <2>2. QED
      BY <1>1, <2>1
  <1>4. QED
    BY <1>2, <1>3 DEF LogIntact

\* The invariant of the log: numbers, layout, space and what is written.
LogInv ==
    /\ Inv /\ NumberInv /\ ProgInv /\ SpaceInv /\ LogIntact
    /\ \A r \in Ranks : LayoutInv(r) /\ ReadyInv(r)

LEMMA LogInit == Init => LogInv
  <1> SUFFICES ASSUME Init PROVE LogInv
    OBVIOUS
  <1>1. Inv /\ NumberInv
    BY InvInit, NumberInit
  <1>2. ProgInv
    BY EmptySeq DEF Init, ProgInv
  <1>3. SpaceInv
    BY DEF Init, SpaceInv, OwnedInv, ReservedInv
  <1>4. LogIntact
    BY EmptySeq DEF Init, LogIntact, EntriesIn
  <1>5. \A r \in Ranks : LayoutInv(r) /\ ReadyInv(r)
    BY EmptySeq DEF Init, LayoutInv, ReadyInv, NextIsRead
  <1>6. QED
    BY <1>1, <1>2, <1>3, <1>4, <1>5 DEF LogInv

LEMMA LogStep ==
  ASSUME LogInv, [Next]_vars, ~AllocFails, FlushFirst \/ NP = 1
  PROVE  LogInv'
  <1> USE DEF LogInv, Inv
  <1>1. Inv'
    BY InvStep
  <1>2. NumberInv' /\ ProgInv' /\ SpaceInv'
    BY NumberStep, ProgStep, SpaceStep
  <1>3. LogIntact'
    BY LogIntactStep
  <1>4. ASSUME NEW r \in Ranks PROVE LayoutInv(r)' /\ ReadyInv(r)'
    BY LayoutStep, ReadyStep
  <1>5. QED
    BY <1>1, <1>2, <1>3, <1>4

\* Every request marked flushed and every entry in the file leads to the
\* write's own bytes, over any sequence of sessions, for any number of ranks
\* and any sizes.  The library below has to allocate the log datasets
\* (H5VL_log_nb_flush_write_reqs discards the data of one it did not), and the
\* application to flush before it reads, unless there is one rank.
THEOREM DataIntact ==
  ASSUME ~AllocFails, FlushFirst \/ NP = 1
  PROVE  Spec => []LogIntact
  <1>1. LogInv /\ [Next]_vars => LogInv'
    BY LogStep
  <1>2. LogInv => LogIntact
    BY DEF LogInv
  <1>3. QED
    BY <1>1, <1>2, LogInit, PTL DEF Spec
-----------------------------------------------------------------------------
\* What was accepted before a completed close has an entry that the attribute
\* on disk leads to.
DurableInv == \A i \in 1 .. durable : Recorded(i, attr.nmdset)

LEMMA DurableStep ==
  ASSUME Inv, NumberInv, DurableInv, [Next]_vars
  PROVE  DurableInv'
  <1> USE DEF Inv, TypeInv, TypeOK, FileType
  <1>1. attr.nmdset \in Nat /\ attr.nmdset <= Len(mdsets) /\ Len(mdsets) \in Nat
    BY LenProperties DEF NumOK
  <1>2. CASE UNCHANGED <<attr, durable>>
    <2>1. EntriesIn(attr.nmdset) \subseteq EntriesIn(attr.nmdset)'
      <3> SUFFICES ASSUME NEW e \in EntriesIn(attr.nmdset) PROVE e \in EntriesIn(attr.nmdset)'
        OBVIOUS
      <3>1. PICK k \in 1 .. attr.nmdset, q \in Ranks : e \in mdsets[k][q]
        BY DEF EntriesIn
      <3>2. k \in 1 .. Len(mdsets)
        BY <1>1
      <3>3. e \in mdsets'[k][q]
        BY <3>1, <3>2, SectionsGrow
      <3>4. QED
        BY <1>2, <3>3 DEF EntriesIn
    <2>2. QED
      BY <1>2, <2>1 DEF DurableInv, Recorded
  <1>3. ASSUME CloseFile, ~UNCHANGED <<attr, durable>> PROVE DurableInv'
    <2>1. /\ At("closing") /\ attr'.nmdset = Len(mdsets) /\ durable' = Len(hist)
          /\ UNCHANGED mdsets
      <3>1. 0 \in Ranks
        BY NPAssumption DEF Ranks
      <3>2. QED
        BY <1>3, <3>1 DEF CloseFile, AttrAtClose, NumberInv
    <2>2. ASSUME NEW i \in Ids PROVE Recorded(i, Len(mdsets))
      <3>1. hist[i].rank \in Ranks
        <4>1. hist[i] \in WriteRecord
          BY ElementOfSeq DEF AppType, Ids
        <4>2. QED
          BY <4>1 DEF WriteRecord
      <3>2. NoMerged(hist[i].rank) /\ wreqs[hist[i].rank] = <<>>
        BY <2>1, <3>1 DEF At, QueueInv
      <3>3. ~Queued(i)
        BY <3>2, EmptySeq DEF Queued, NoMerged, Range
      <3>4. QED
        BY <3>3 DEF NoWriteLost
    <2>3. ASSUME NEW i \in Ids PROVE Recorded(i, attr.nmdset)'
      BY <2>1, <2>2 DEF Recorded, EntriesIn
    <2>4. QED
      BY <2>1, <2>3 DEF DurableInv, Ids
  <1>4. CloseFile \/ UNCHANGED <<attr, durable>>
    BY FileSteps
  <1>5. QED
    BY <1>2, <1>3, <1>4

LEMMA DurableReadable ==
  ASSUME LogInv, DurableInv
  PROVE  ClosedStaysReadable
  <1> SUFFICES ASSUME NEW i \in 1 .. durable
               PROVE  \E e \in EntriesIn(attr.nmdset) : e.id = i /\ HasData(i, e.foff)
    BY DEF ClosedStaysReadable
  <1>1. PICK e \in EntriesIn(attr.nmdset) : e.id = i
    BY DEF DurableInv, Recorded
  <1>2. attr.nmdset \in Nat /\ attr.nmdset <= Len(mdsets) /\ Len(mdsets) \in Nat
    BY LenProperties DEF LogInv, Inv, TypeInv, TypeOK, FileType, NumOK
  <1>3. e \in EntriesIn(Len(mdsets))
    BY <1>2 DEF EntriesIn
  <1>4. QED
    BY <1>1, <1>3 DEF LogInv, LogIntact

\* Everything accepted before a completed close stays readable through the
\* attribute on disk: the close leaves no request behind (H5VL_log_filei_close
\* flushes the data, then the metadata), and a later session only adds datasets
\* beyond those the attribute counts and writes data apart from the old.
THEOREM ClosesDurable ==
  ASSUME ~AllocFails, FlushFirst \/ NP = 1
  PROVE  Spec => []ClosedStaysReadable
  <1>1. Init => LogInv /\ DurableInv
    BY LogInit DEF Init, DurableInv
  <1>2. LogInv /\ DurableInv /\ [Next]_vars => LogInv' /\ DurableInv'
    BY LogStep, DurableStep DEF LogInv
  <1>3. LogInv /\ DurableInv => ClosedStaysReadable
    BY DurableReadable
  <1>4. QED
    BY <1>1, <1>2, <1>3, PTL DEF Spec
=============================================================================
