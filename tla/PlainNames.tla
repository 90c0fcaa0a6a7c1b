------------------------------ MODULE PlainNames ------------------------------
(***************************************************************************)
(* The names in a file as an application sees them through the library     *)
(* alone: the attributes of every object, in the order they were created,  *)
(* and the links of every group.  This is what the connector promises for  *)
(* the calls it passes on; module Names says how it keeps the promise      *)
(* although it stores attributes and links of its own in the same file.    *)
(*                                                                         *)
(* A name is its number of leading underscores and the rest; the rest      *)
(* matters only as starting with an upper-case letter or not.              *)
(***************************************************************************)
EXTENDS Integers, Sequences, FiniteSets, SequencesExt

CONSTANTS
    Objects,     \* objects that may have attributes
    Groups,      \* the objects that are groups
    Names,       \* names the application uses
    Upper        \* rests of names that start with an upper-case letter

VARIABLES
    attrs,       \* attributes of an object: name and creation index
    made,        \* attributes created on an object so far
    links,       \* links of a group: name and object
    nobj,        \* objects created so far
    res          \* result of the last call

vars == <<attrs, made, links, nobj, res>>

Failed == -1
-----------------------------------------------------------------------------
\* Alphabetic order: an underscore comes after the upper-case letters and
\* before the lower-case ones.
Before(m, n) ==
    \/ m.us = n.us /\ m.b \in Upper /\ n.b \notin Upper
    \/ m.us < n.us /\ m.b \in Upper
    \/ m.us > n.us /\ n.b \notin Upper

\* Attributes before the x-th one alphabetically; of two that compare equal the
\* older one.
Earlier(as, x) ==
    {y \in 1 .. Len(as) : \/ Before(as[y].name, as[x].name)
                          \/ y < x /\ ~Before(as[x].name, as[y].name)}

\* The k-th attribute, from 0, in an order and a direction.
NthAttr(as, order, dir, k) ==
    LET j == IF dir = "inc" THEN k ELSE Len(as) - 1 - k
    IN  IF order = "crt" THEN as[j + 1]
        ELSE as[CHOOSE x \in 1 .. Len(as) : Cardinality(Earlier(as, x)) = j]

Named(as, n) == {x \in 1 .. Len(as) : as[x].name = n}
Without(as, n) ==
    IF Named(as, n) = {} THEN as ELSE RemoveAt(as, CHOOSE x \in Named(as, n) : TRUE)
IdOf(as, n) == IF Named(as, n) = {} THEN Failed ELSE as[CHOOSE x \in Named(as, n) : TRUE].corder
LinkTo(ls, n) ==
    IF \E l \in ls : l.name = n THEN (CHOOSE l \in ls : l.name = n).id ELSE Failed

Init ==
    /\ attrs = [o \in Objects |-> <<>>] /\ made = [o \in Objects |-> 0]
    /\ links = [g \in Groups |-> {}] /\ nobj = 0 /\ res = [id |-> Failed]

NoChange == UNCHANGED <<attrs, made, links, nobj>>
-----------------------------------------------------------------------------
AttrCreate(o, n) ==
    /\ IF Named(attrs[o], n) # {}
       THEN res' = [id |-> Failed] /\ UNCHANGED <<attrs, made>>
       ELSE /\ attrs' = [attrs EXCEPT ![o] = Append(@, [name |-> n, corder |-> made[o]])]
            /\ made' = [made EXCEPT ![o] = @ + 1]
            /\ res' = [id |-> made[o]]
    /\ UNCHANGED <<links, nobj>>

AttrOpen(o, n) == res' = [id |-> IdOf(attrs[o], n)] /\ NoChange

AttrOpenAt(o, order, dir, k) ==
    /\ res' = [id |-> IF k < Len(attrs[o]) THEN NthAttr(attrs[o], order, dir, k).corder
                       ELSE Failed]
    /\ NoChange

\* H5Aget_info_by_idx, as its creation index.
AttrInfoAt(o, order, dir, k) == AttrOpenAt(o, order, dir, k)

\* H5Aget_name_by_idx
AttrNameAt(o, order, dir, k) ==
    /\ res' = IF k < Len(attrs[o]) THEN [name |-> NthAttr(attrs[o], order, dir, k).name]
              ELSE [id |-> Failed]
    /\ NoChange

AttrExists(o, n) == res' = [ok |-> Named(attrs[o], n) # {}] /\ NoChange

AttrDelete(o, n) ==
    /\ res' = [ok |-> Named(attrs[o], n) # {}]
    /\ attrs' = [attrs EXCEPT ![o] = Without(@, n)]
    /\ UNCHANGED <<made, links, nobj>>

\* H5Adelete_by_idx
AttrDeleteAt(o, order, dir, k) ==
    /\ res' = [ok |-> k < Len(attrs[o])]
    /\ attrs' = IF k < Len(attrs[o])
                THEN [attrs EXCEPT ![o] = Without(@, NthAttr(@, order, dir, k).name)]
                ELSE attrs
    /\ UNCHANGED <<made, links, nobj>>

AttrRename(o, n, m) ==
    /\ IF Named(attrs[o], n) # {} /\ Named(attrs[o], m) = {}
       THEN /\ attrs' = [attrs EXCEPT ![o] =
                           [x \in 1 .. Len(@) |-> IF @[x].name = n THEN [@[x] EXCEPT !.name = m]
                                                  ELSE @[x]]]
            /\ res' = [ok |-> TRUE]
       ELSE res' = [ok |-> FALSE] /\ UNCHANGED attrs
    /\ UNCHANGED <<made, links, nobj>>

\* H5Aiterate2 from the k-th attribute on; refused when there is none, but for
\* an iteration from the start.
AttrIterate(o, k) ==
    /\ res' = IF k = 0 \/ k < Len(attrs[o])
              THEN [list |-> [x \in 1 .. Len(attrs[o]) - k |-> attrs[o][x + k].name]]
              ELSE [id |-> Failed]
    /\ NoChange

AttrCount(o) == res' = [count |-> Len(attrs[o])] /\ NoChange
-----------------------------------------------------------------------------
\* H5Gcreate, H5Dcreate, H5Tcommit.
LinkCreate(g, n) ==
    /\ IF LinkTo(links[g], n) # Failed
       THEN res' = [id |-> Failed] /\ UNCHANGED <<links, nobj>>
       ELSE /\ links' = [links EXCEPT ![g] = @ \cup {[name |-> n, id |-> nobj]}]
            /\ nobj' = nobj + 1
            /\ res' = [id |-> nobj]
    /\ UNCHANGED <<attrs, made>>

\* H5Gopen, H5Dopen, H5Topen, H5Oopen.
LinkOpen(g, n) == res' = [id |-> LinkTo(links[g], n)] /\ NoChange

LinkExists(g, n) == res' = [ok |-> LinkTo(links[g], n) # Failed] /\ NoChange

LinkDelete(g, n) ==
    /\ res' = [ok |-> LinkTo(links[g], n) # Failed]
    /\ links' = [links EXCEPT ![g] = {l \in @ : l.name # n}]
    /\ UNCHANGED <<attrs, made, nobj>>

LinkMove(g, n, h, m) ==
    /\ IF LinkTo(links[g], n) # Failed /\ LinkTo(links[h], m) = Failed
       THEN /\ links' = LET l == [name |-> m, id |-> LinkTo(links[g], n)]
                            cut == [links EXCEPT ![g] = {k \in @ : k.name # n}]
                        IN  [cut EXCEPT ![h] = @ \cup {l}]
            /\ res' = [ok |-> TRUE]
       ELSE res' = [ok |-> FALSE] /\ UNCHANGED links
    /\ UNCHANGED <<attrs, made, nobj>>

\* H5Lcreate_hard and H5Lcopy: a second name of the same object.
LinkAgain(g, n, h, m) ==
    /\ IF LinkTo(links[g], n) # Failed /\ LinkTo(links[h], m) = Failed
       THEN /\ links' = [links EXCEPT ![h] = @ \cup {[name |-> m, id |-> LinkTo(links[g], n)]}]
            /\ res' = [ok |-> TRUE]
       ELSE res' = [ok |-> FALSE] /\ UNCHANGED links
    /\ UNCHANGED <<attrs, made, nobj>>

\* H5Ocopy: a new object under the second name.
ObjectCopy(g, n, h, m) ==
    /\ IF LinkTo(links[g], n) # Failed /\ LinkTo(links[h], m) = Failed
       THEN /\ links' = [links EXCEPT ![h] = @ \cup {[name |-> m, id |-> nobj]}]
            /\ nobj' = nobj + 1
            /\ res' = [ok |-> TRUE]
       ELSE res' = [ok |-> FALSE] /\ UNCHANGED <<links, nobj>>
    /\ UNCHANGED <<attrs, made>>

LinkIterate(g) == res' = [set |-> {l.name : l \in links[g]}] /\ NoChange

LinkCount(g) == res' = [count |-> Cardinality(links[g])] /\ NoChange
-----------------------------------------------------------------------------
Next ==
    \/ \E o \in Objects :
         \/ \E n \in Names :
              \/ AttrCreate(o, n) \/ AttrOpen(o, n) \/ AttrExists(o, n) \/ AttrDelete(o, n)
              \/ \E m \in Names : AttrRename(o, n, m)
         \/ \E order \in {"crt", "name"}, dir \in {"inc", "dec"}, k \in 0 .. 2 :
              \/ AttrOpenAt(o, order, dir, k) \/ AttrNameAt(o, order, dir, k)
              \/ AttrDeleteAt(o, order, dir, k) \/ AttrIterate(o, k)
         \/ AttrCount(o)
    \/ \E g \in Groups :
         \/ \E n \in Names :
              \/ LinkCreate(g, n) \/ LinkOpen(g, n) \/ LinkExists(g, n) \/ LinkDelete(g, n)
              \/ \E h \in Groups, m \in Names :
                   LinkMove(g, n, h, m) \/ LinkAgain(g, n, h, m) \/ ObjectCopy(g, n, h, m)
         \/ LinkIterate(g) \/ LinkCount(g)

Spec == Init /\ [][Next]_vars
=============================================================================
