---------------------------- MODULE MCMetaIndex ----------------------------
(* Instances of MetaIndex for TLC. *)
EXTENDS MetaIndex

Block(start, count) == [start |-> start, count |-> count]
Slabs(list) == [type |-> "hyperslabs", list |-> list]
Points(cells) ==
    [type |-> "points", list |-> [n \in DOMAIN cells |-> Block(cells[n], [i \in DOMAIN cells[n] |-> 1])]]
Given(list) == [type |-> "blocks", list |-> list]
All == [type |-> "all", list |-> <<>>]

\* A write from a buffer as large as what it writes, and one from a part of memory.
Of(d, sel, n) == [did |-> d, sel |-> sel, mem |-> All, mdims |-> <<n>>]
From(d, sel, mem, mdims) == [did |-> d, sel |-> sel, mem |-> mem, mdims |-> mdims]
Query(d, start, count) == [did |-> d, start |-> start, count |-> count]
Read(d, sel) == [did |-> d, sel |-> sel]

\* Two matrices, a dataset of records that are such matrices, and a matrix
\* that cannot be written.
MCDims == 0 :> <<3, 3>> @@ 1 :> <<2, 3, 3>> @@ 2 :> <<3, 3>> @@ 3 :> <<3, 3>>
MCMaxDims == 0 :> <<3, 3>> @@ 1 :> <<2, 3, 3>> @@ 2 :> <<3, 4>> @@ 3 :> <<3, 3>>
MCESize == [d \in 0 .. 3 |-> 2]

TwoBlocks == Slabs(<<Block(<<0, 0>>, <<1, 2>>), Block(<<2, 1>>, <<1, 1>>)>>)
TwoRows == Block(<<1, 0>>, <<2, 3>>)
InRecord(n) == Slabs(<<Block(<<n, 0, 0>>, <<1, 1, 2>>), Block(<<n, 2, 1>>, <<1, 1, 1>>)>>)

\* Two blocks that lie beside each other in both records.
Beside == Slabs(<<Block(<<0, 1, 0>>, <<2, 2, 1>>), Block(<<0, 1, 2>>, <<2, 2, 1>>)>>)

\* Two columns of a buffer of 3 x 4.
TwoColumns == Slabs(<<Block(<<0, 0>>, <<3, 1>>), Block(<<0, 3>>, <<3, 1>>)>>)

\* The same two blocks of any matrix, as hyperslabs or points, and of either
\* record; two rows, written from columns of memory; and blocks that
\* interleave.
MCRequests ==
    {Of(0, TwoBlocks, 3), Of(2, Points(<<<<0, 0>>, <<0, 1>>, <<2, 1>>>>), 3), Of(3, TwoBlocks, 3),
     From(0, Slabs(<<TwoRows>>), TwoColumns, <<3, 4>>),
     Of(2, Slabs(<<Block(<<0, 3>>, <<1, 1>>), Block(<<2, 1>>, <<1, 2>>)>>), 3),
     Of(1, InRecord(0), 3), Of(1, InRecord(1), 3), Of(1, Beside, 8)}

\* The last matrix grows by a column, but not by a row.
MCExtents == {[did |-> 2, size |-> <<3, 4>>], [did |-> 2, size |-> <<4, 4>>]}
MCQueries ==
    {Query(0, <<0, 0>>, <<3, 3>>), Query(0, <<0, 1>>, <<3, 1>>), Query(2, <<0, 0>>, <<3, 4>>),
     Query(1, <<0, 0, 0>>, <<2, 3, 3>>), Query(1, <<1, 0, 1>>, <<1, 3, 2>>)}

\* Reads that share rows up to the end of the row, the columns of a matrix
\* last one first, and reads of two datasets.
MCQueues ==
    {<<Read(0, All), Read(0, Slabs(<<Block(<<1, 2>>, <<1, 1>>)>>)),
       Read(0, Slabs(<<Block(<<2, 2>>, <<1, 1>>)>>))>>,
     <<Read(0, Given(<<Block(<<0, 2>>, <<3, 1>>), Block(<<0, 0>>, <<3, 2>>)>>))>>,
     <<Read(1, Beside), Read(2, Slabs(<<Block(<<0, 0>>, <<3, 4>>)>>)), Read(1, Slabs(<<Block(<<0, 1, 1>>, <<2, 2, 1>>)>>))>>}

\* Two whole rows of a matrix.
MCRowDims == 0 :> <<3, 2>>
MCRowRequests == {Of(0, Slabs(<<Block(<<0, 0>>, <<1, 2>>), Block(<<2, 0>>, <<1, 2>>)>>), 4)}
MCRowQueries == {Query(0, <<0, 0>>, <<3, 2>>)}

\* Two matrices, one of which cannot be written, or is unlinked.
MCPairDims == 0 :> <<3, 3>> @@ 1 :> <<3, 3>>
MCPairESize == [d \in 0 .. 1 |-> 1]
MCPairRequests == {Of(0, TwoBlocks, 3), Of(1, TwoBlocks, 3), Of(0, Slabs(<<TwoRows>>), 6)}
MCPairQueries == {Query(0, <<0, 0>>, <<3, 3>>)}

\* Parts of a dataset of one dimension.
MCLineDims == 0 :> <<4>>
MCLineRequests == {Of(0, Slabs(<<Block(<<0>>, <<1>>)>>), 1), Of(0, Slabs(<<Block(<<2>>, <<2>>)>>), 2)}
MCLineQueries == {Query(0, <<0>>, <<4>>)}

MCOneESize == 0 :> 1

\* Two blocks within a record.
MCRecordDims == 0 :> <<2, 3, 3>>
MCRecordRequests == {Of(0, InRecord(0), 3), Of(0, InRecord(1), 3)}
MCRecordQueries == {Query(0, <<0, 0, 0>>, <<2, 3, 3>>)}

\* Reads of a whole matrix: of a cell in the middle of a row that another read
\* covers, of three parts of which the second ends beyond the first in one
\* dimension only, and of points that are not in increasing order.
MCWholeDims == 0 :> <<3, 3>>
MCWholeRequests == {Of(0, All, 9)}
MCContained == {<<Read(0, All), Read(0, Points(<<<<1, 1>>>>))>>}
MCThreeParts ==
    {<<Read(0, Given(<<Block(<<0, 0>>, <<3, 1>>), Block(<<0, 1>>, <<1, 1>>), Block(<<1, 1>>, <<1, 1>>)>>))>>}
MCUnsorted == {<<Read(0, Points(<<<<2, 0>>, <<0, 1>>>>))>>}

\* A dataset of records, and a call that is refused after it has grown.
MCGrownDims == 0 :> <<2, 2, 2>>
MCGrownMaxDims == 0 :> <<2, 3, 2>>
MCGrownExtents == {[did |-> 0, size |-> <<2, 3, 3>>]}
MCGrownRequests ==
    {Of(0, Slabs(<<Block(<<0, 1, 0>>, <<1, 1, 1>>), Block(<<1, 2, 1>>, <<1, 1, 1>>)>>), 2)}
MCGrownQueries == {Query(0, <<0, 0, 0>>, <<2, 3, 2>>)}

\* How HDF5 lists the blocks of a set of cells that is no regular selection:
\* runs of equal slices along the first dimension, each slice the same way.
RECURSIVE SpanBlocks(_)
SpanBlocks(cells) ==
    LET firsts   == {c[1] : c \in cells}
        Slice(x) == {Tail(c) : c \in {d \in cells : d[1] = x}}
        Goes(x)  == x \in firsts /\ x - 1 \in firsts /\ Slice(x) = Slice(x - 1)
        Until(x) == CHOOSE y \in firsts : y >= x /\ ~Goes(y + 1) /\ \A z \in x + 1 .. y : Goes(z)
        Under(x) == IF Slice(x) = {<<>>} THEN <<Block(<<>>, <<>>)>> ELSE SpanBlocks(Slice(x))
        Prefix(x, b) == Block(<<x>> \o b.start, <<Until(x) - x + 1>> \o b.count)
    IN  FlattenSeq([n \in 1 .. 1 + Max(firsts) |->
            IF n - 1 \notin firsts \/ Goes(n - 1) THEN <<>>
            ELSE [k \in DOMAIN Under(n - 1) |-> Prefix(n - 1, Under(n - 1)[k])]])

\* Every selection of a small space is converted to blocks whose cells, block
\* by block, are the cells selected in the order in which HDF5 takes them.
InOrder(space) ==
    \A cells \in SUBSET Range(Cells(Whole(space))) \ {{}} :
        CellsOf(HyperslabBlocks(SpanBlocks(cells), Len(space)))
            = SelectSeq(Cells(Whole(space)), LAMBDA c : c \in cells)

ASSUME ConversionsKeepOrder == InOrder(<<5>>) /\ InOrder(<<3, 3>>) /\ InOrder(<<2, 2, 3>>)

\* The same of regular selections in two dimensions, whose blocks HDF5 lists as
\* the application gave them: n of them at every stride, adjacent or not.
Regular == {r \in [start : {0, 1}, stride : 1 .. 3, n : 1 .. 2, block : 1 .. 2] : r.block <= r.stride}
RegularBlocks(r, s) ==
    [k \in 1 .. r.n * s.n |->
        Block(<<r.start + r.stride * ((k - 1) \div s.n), s.start + s.stride * ((k - 1) % s.n)>>,
              <<r.block, s.block>>)]

ASSUME RegularKeepsOrder ==
    \A r, s \in Regular :
        LET sel == [type |-> "hyperslabs", list |-> RegularBlocks(r, s)]
        IN  CellsOf(Selected(sel, <<7, 7>>)) = SelectionOrder(sel, <<7, 7>>)

\* In some row, a starts at b or later and ends before b.
EndsInside(a, b) ==
    /\ a.start[1] <= End(b)[1] /\ b.start[1] <= End(a)[1]
    /\ b.start[2] <= a.start[2] /\ End(a)[2] < End(b)[2]

\* Any two parts of an entry of 3 x 3 read together are read right, unless a
\* row of the one starts and ends inside a row of the other.
PairRead(a, b) ==
    LET HitOf(p, xbuf) == [foff |-> 0, doff |-> 0, esize |-> 1, dstart |-> p.start, dsize |-> <<3, 3>>,
                           mstart |-> <<0, 0>>, msize |-> p.count, count |-> p.count, xbuf |-> xbuf]
        plan   == ReadPlan(<<HitOf(a, 0), HitOf(b, 9)>>)
        memory == Fetched(plan, [x \in 0 .. 17 |-> <<>>], Cells(Whole(<<3, 3>>)))
        Right(p, xbuf) == \A n \in DOMAIN Cells(p) : memory[xbuf + n - 1] = Cells(p)[n]
    IN  InFileOrder(plan.pieces) /\ Right(a, 0) /\ Right(b, 9)
Parts == {p \in [start : {<<x, y>> : x \in 0 .. 2, y \in 0 .. 2},
                 count : {<<x, y>> : x \in 1 .. 3, y \in 1 .. 3}] :
             End(p)[1] < 3 /\ End(p)[2] < 3}

ASSUME PairsAreRead ==
    \A a, b \in Parts : EndsInside(a, b) \/ EndsInside(b, a) \/ PairRead(a, b)
=============================================================================
