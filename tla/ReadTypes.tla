----------------------------- MODULE ReadTypes ------------------------------
(***************************************************************************)
(* How the hits of a search become one read of the file                    *)
(* (H5VL_log_dataset_readi_gen_rtypes): the pieces of the file type and of *)
(* the memory type, in the order of the file, and copies for what several  *)
(* reads of one flush want of the same piece.                              *)
(*                                                                         *)
(* A hit is the part of one block of an entry that a block read wants: it  *)
(* starts at dstart of a block of dsize at bytes foff + doff of the file,  *)
(* and goes to mstart of a block of msize at address xbuf.  Filtered data  *)
(* is not modelled.                                                        *)
(***************************************************************************)
EXTENDS Selections

\* operator<: by place in the file, then by first element.
HitBefore(h, g) ==
    \/ h.foff + h.doff < g.foff + g.doff
    \/ h.foff + h.doff = g.foff + g.doff /\ Less(h.dstart, g.dstart)

LastOf(h) == [i \in DOMAIN h.dstart |-> h.dstart[i] + h.count[i] - 1]

\* Parts of one block of which the first does not end before the second starts.
Interleaves(h, g) ==
    h.foff = g.foff /\ h.doff = g.doff /\ ~Less(LastOf(h), g.dstart)

\* operator>: beyond the other's end in some dimension.  (It means the first
\* dimension in which the ends differ, but repeats one comparison.)
EndsLater(g, h) == \E i \in DOMAIN g.dstart : LastOf(g)[i] > LastOf(h)[i]

\* Wrong variant: each hit is compared with its predecessor.
Predecessor(h, g) == g

\* Of a group, the hit that the next one is compared with.
Furthest(h, g) == IF EndsLater(g, h) THEN g ELSE h

\* Sorted hits in groups that interleave.
HitGroups(hits) ==
    FoldLeft(LAMBDA acc, h :
                 IF acc.groups # <<>> /\ Interleaves(acc.far, h)
                 THEN [groups |-> Append(Front(acc.groups), Append(Last(acc.groups), h)),
                       far |-> Furthest(acc.far, h)]
                 ELSE [groups |-> Append(acc.groups, <<h>>), far |-> h],
             [groups |-> <<>>, far |-> <<>>], hits).groups

\* The rows of a hit: from where in the file to where in memory, in bytes.
Pieces(h) ==
    LET rows == Rows([start |-> [i \in DOMAIN h.count |-> 0], count |-> h.count])
        At(start, size, row) == h.esize * SelEncode(DSteps(size), Plus(start, row.start))
    IN  [n \in DOMAIN rows |->
            [foff |-> h.foff + h.doff + At(h.dstart, h.dsize, rows[n]),
             moff |-> h.xbuf + At(h.mstart, h.msize, rows[n]),
             len  |-> h.esize * Last(h.count)]]

\* If piece k reaches into piece l: what l wants of it is copied from the end
\* of k, and l starts behind it.
Trim(plan, k, l) ==
    LET former == plan.pieces[k]
        later  == plan.pieces[l]
        reach  == former.foff - later.foff + former.len
        size   == IF later.len < reach THEN later.len ELSE reach
    IN  IF reach <= 0 THEN plan
        ELSE [pieces |-> [plan.pieces EXCEPT
                              ![l] = [foff |-> @.foff + size, moff |-> @.moff + size,
                                      len |-> @.len - size]],
              copies |-> Append(plan.copies, [dst |-> later.moff, size |-> size,
                                              src |-> former.moff - size + former.len])]

\* The pieces of a group; those of several hits are sorted and trimmed.
GroupPlan(group) ==
    LET rows   == FlattenSeq([k \in DOMAIN group |-> Pieces(group[k])])
        sorted == SortSeq(rows, LAMBDA p, q : p.foff < q.foff)
        pairs  == FlattenSeq([k \in DOMAIN rows |-> [i \in 1 .. Len(rows) - k |-> <<k, k + i>>]])
    IN  IF Len(group) = 1 THEN [pieces |-> rows, copies |-> <<>>]
        ELSE FoldLeft(LAMBDA plan, p : Trim(plan, p[1], p[2]),
                      [pieces |-> sorted, copies |-> <<>>], pairs)

ReadPlan(hits) ==
    LET groups == HitGroups(SortSeq(hits, HitBefore))
        plans  == [g \in DOMAIN groups |-> GroupPlan(groups[g])]
    IN  [pieces |-> FlattenSeq([g \in DOMAIN plans |-> plans[g].pieces]),
         copies |-> FlattenSeq([g \in DOMAIN plans |-> plans[g].copies])]

\* What MPI asks of a file type: its pieces follow each other in the file.
\* (It does not look at empty ones.)
InFileOrder(pieces) ==
    LET full == SelectSeq(pieces, LAMBDA p : p.len > 0)
    IN  \A k \in 1 .. Len(full) - 1 : full[k].foff + full[k].len <= full[k + 1].foff

\* Memory after the read and then the copies (H5VL_log_nb_perform_read).
\* Addresses count from 0, file is the sequence of bytes of the file.
Fetched(plan, memory, file) ==
    LET Load(mem, p) == [x \in p.moff .. p.moff + p.len - 1 |-> file[p.foff + (x - p.moff) + 1]] @@ mem
        Copy(mem, c) == [x \in c.dst .. c.dst + c.size - 1 |-> mem[c.src + (x - c.dst)]] @@ mem
    IN  FoldLeft(Copy, FoldLeft(Load, memory, plan.pieces), plan.copies)
=============================================================================
