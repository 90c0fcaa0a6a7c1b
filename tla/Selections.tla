----------------------------- MODULE Selections -----------------------------
(***************************************************************************)
(* How an HDF5 selection becomes the list of blocks that a request keeps   *)
(* (H5VL_log_selections), and the coordinates the connector calculates     *)
(* with.                                                                   *)
(*                                                                         *)
(* A coordinate is a sequence of numbers; a block has a start and a count. *)
(* A selection has a type and, except for "all" and "none", the list of    *)
(* its blocks: "hyperslabs" in the order in which the library lists them,  *)
(* "points" as blocks of one cell in the order of the application, and     *)
(* "blocks" as the caller of H5Dwrite_n or H5Dread_n gives them, taken as  *)
(* they are.  The ends of hyperslab blocks, which the code keeps instead   *)
(* of their counts while it sorts and merges, are End here.                *)
(***************************************************************************)
EXTENDS Integers, SequencesExt

Plus(u, v) == [i \in DOMAIN u |-> u[i] + v[i]]
Minus(u, v) == [i \in DOMAIN u |-> u[i] - v[i]]

\* Elements of a box of these dimensions.
NumElems(dims) == FoldFunction(LAMBDA x, y : x * y, 1, dims)

\* dsteps: how many elements a step along each dimension skips.
DSteps(dims) == [i \in DOMAIN dims |-> NumElems(SubSeq(dims, i + 1, Len(dims)))]

SelEncode(steps, cord) == SumFunction([i \in DOMAIN cord |-> cord[i] * steps[i]])

\* Divide by the first step, go on with the remainder.
SelDecode(steps, off) ==
    [i \in DOMAIN steps |->
        FoldLeft(LAMBDA rest, s : rest % s, off, SubSeq(steps, 1, i - 1)) \div steps[i]]

\* The cells of a block in row-major order, in which its data is packed.
Cells(block) ==
    [n \in 1 .. NumElems(block.count) |->
        Plus(block.start, SelDecode(DSteps(block.count), n - 1))]

\* The cells of a list of blocks, one block after the other.
CellsOf(blocks) == FlattenSeq([k \in DOMAIN blocks |-> Cells(blocks[k])])

End(block) == [i \in DOMAIN block.start |-> block.start[i] + block.count[i] - 1]

\* lessthan: the first dimension in which they differ decides.
Less(u, v) == \E d \in DOMAIN u : u[d] < v[d] /\ \A i \in 1 .. d - 1 : u[i] = v[i]
-----------------------------------------------------------------------------
SortBlocks(blocks) == SortSeq(blocks, LAMBDA a, b : Less(a.start, b.start))

\* The second of two blocks goes on where the first ends along dimension d,
\* and lies like it in all others.
Adjoins(a, b, d) ==
    /\ a.start[d] + a.count[d] = b.start[d]
    /\ \A i \in DOMAIN a.start \ {d} : a.start[i] = b.start[i] /\ a.count[i] = b.count[i]

Joined(a, b, d) ==
    [start |-> a.start,
     count |-> [i \in DOMAIN a.count |-> a.count[i] + (IF i = d THEN b.count[i] ELSE 0)]]

\* One sweep of merge_blocks: each block is joined to the last one kept, or kept.
MergeAlong(blocks, d) ==
    FoldLeft(LAMBDA kept, b : IF kept # <<>> /\ Adjoins(Last(kept), b, d)
                              THEN Append(Front(kept), Joined(Last(kept), b, d))
                              ELSE Append(kept, b),
             <<>>, blocks)

\* From the last dimension to the first.
MergeBlocks(blocks, ndim) == FoldLeft(MergeAlong, blocks, Reverse([d \in 1 .. ndim |-> d]))

\* A sequence cut behind these positions.
CutAt(seq, cuts) ==
    FoldLeft(LAMBDA runs, k : IF k = 1 \/ k - 1 \in cuts THEN Append(runs, <<seq[k]>>)
                              ELSE Append(Front(runs), Append(Last(runs), seq[k])),
             <<>>, [k \in DOMAIN seq |-> k])

\* The rows of a block, each a block itself.
Rows(block) ==
    LET last == Len(block.start)
        Only(i, c) == [d \in DOMAIN block.start |-> IF d = last THEN i ELSE c[d]]
        heads == Cells([start |-> block.start, count |-> Only(1, block.count)])
        ones  == [d \in DOMAIN block.start |-> 1]
    IN  [n \in DOMAIN heads |-> [start |-> heads[n], count |-> Only(block.count[last], ones)]]

\* Blocks that interleave are broken down into rows, sorted and merged.
Untangled(blocks, ndim) ==
    IF Len(blocks) = 1 THEN blocks
    ELSE MergeBlocks(SortBlocks(FlattenSeq([k \in DOMAIN blocks |-> Rows(blocks[k])])), ndim)

\* Two neighbours do not interleave if the first ends before the second starts.
\* (A regular selection of one block is taken from its parameters without
\* this: the result is the same.)
HyperslabBlocks(list, ndim) ==
    LET blocks == MergeBlocks(SortBlocks(MergeBlocks(list, ndim)), ndim)
        apart  == {k \in 1 .. Len(blocks) - 1 : Less(End(blocks[k]), blocks[k + 1].start)}
        groups == CutAt(blocks, apart)
    IN  FlattenSeq([g \in DOMAIN groups |-> Untangled(groups[g], ndim)])

PointBlocks(list, ndim) == MergeBlocks(SortBlocks(list), ndim)

Whole(dims) == [start |-> [i \in DOMAIN dims |-> 0], count |-> dims]

\* The blocks of a selection within dimensions dims.
Selected(sel, dims) ==
    CASE sel.type = "hyperslabs" -> HyperslabBlocks(sel.list, Len(dims))
      [] sel.type = "points"     -> PointBlocks(sel.list, Len(dims))
      [] sel.type = "blocks"     -> sel.list
      [] sel.type = "all"        -> IF NumElems(dims) = 0 THEN <<>> ELSE <<Whole(dims)>>
      [] sel.type = "none"       -> <<>>

\* The order in which HDF5 takes the cells of a selection: row-major for
\* hyperslabs, the order of the application otherwise.
SelectionOrder(sel, dims) ==
    IF sel.type \in {"points", "blocks"} THEN CellsOf(sel.list)
    ELSE SelectSeq(Cells(Whole(dims)),
                   LAMBDA c : sel.type = "all" \/ c \in Range(CellsOf(sel.list)))
=============================================================================
