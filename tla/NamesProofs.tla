----------------------------- MODULE NamesProofs -----------------------------
(***************************************************************************)
(* Proofs about Names: the stored names are well formed, the connector's   *)
(* own attributes and group stay where they are, and a file shared with    *)
(* the connector looks to the application like a file of the library       *)
(* alone, as a refinement and call by call.                                *)
(***************************************************************************)
EXTENDS Names, FiniteSetTheorems, SequenceTheorems, WellFoundedInduction, TLAPS
-----------------------------------------------------------------------------
(***************************************************************************)
(* The library's operators                                                 *)
(***************************************************************************)
Attr == [name : StoredName, corder : Nat]
Link == [name : StoredName, id : Nat \cup {-2}]

\* Deleting an attribute that exists closes the gap at one position of that
\* name.
LEMMA WithoutOne ==
    ASSUME NEW S, NEW ats \in Seq(S), NEW n, Under!Named(ats, n) # {}
    PROVE  \E i \in 1 .. Len(ats) :
              /\ ats[i].name = n
              /\ Under!Without(ats, n) =
                   [x \in 1 .. Len(ats) - 1 |-> IF x < i THEN ats[x] ELSE ats[x + 1]]
<1> DEFINE i == CHOOSE x \in Under!Named(ats, n) : TRUE
           s == SubSeq(ats, 1, i - 1)
           t == SubSeq(ats, i + 1, Len(ats))
           r == [x \in 1 .. Len(ats) - 1 |-> IF x < i THEN ats[x] ELSE ats[x + 1]]
<1>1. i \in 1 .. Len(ats) /\ ats[i].name = n
  BY DEF Under!Named
<1>2. Under!Without(ats, n) = s \o t
  BY DEF Under!Without, Under!RemoveAt
<1> HIDE DEF i
<1>3. s \in Seq(S) /\ Len(s) = i - 1 /\ \A x \in 1 .. i - 1 : s[x] = ats[x]
  <2>1. 1 \in Int /\ i - 1 \in Int /\ \A x \in 1 .. i - 1 : ats[x] \in S
    BY <1>1
  <2> QED BY <2>1, <1>1, SubSeqProperties
<1>4. t \in Seq(S) /\ Len(t) = Len(ats) - i /\ \A x \in 1 .. Len(ats) - i : t[x] = ats[x + i]
  <2>1. i + 1 \in Int /\ Len(ats) \in Int /\ \A x \in i + 1 .. Len(ats) : ats[x] \in S
    BY <1>1
  <2>2. /\ t \in Seq(S) /\ Len(t) = IF i + 1 <= Len(ats) THEN Len(ats) - (i + 1) + 1 ELSE 0
        /\ \A x \in 1 .. Len(ats) - (i + 1) + 1 : t[x] = ats[i + 1 + x - 1]
    BY <2>1, SubSeqProperties
  <2> QED BY <2>2, <1>1
<1> HIDE DEF s, t
<1>5. /\ s \o t \in Seq(S) /\ Len(s \o t) = Len(s) + Len(t)
      /\ \A x \in 1 .. Len(s) + Len(t) :
           (s \o t)[x] = IF x <= Len(s) THEN s[x] ELSE t[x - Len(s)]
  BY <1>3, <1>4, ConcatProperties
<1>6. Len(s \o t) = Len(ats) - 1
  BY <1>1, <1>3, <1>4, <1>5
<1>7. ASSUME NEW x \in 1 .. Len(ats) - 1 PROVE (s \o t)[x] = r[x]
  <2>1. CASE x < i
    BY <1>1, <1>3, <1>4, <1>5, <2>1
  <2>2. CASE ~(x < i)
    <3>1. x \in 1 .. Len(s) + Len(t) /\ x - Len(s) \in 1 .. Len(ats) - i /\ ~(x <= Len(s))
      BY <1>1, <1>3, <1>4, <2>2
    <3>2. (s \o t)[x] = t[x - Len(s)]
      BY <3>1, <1>5
    <3>3. t[x - Len(s)] = ats[x - Len(s) + i]
      BY <3>1, <1>4
    <3>4. x - Len(s) + i = x + 1
      BY <1>1, <1>3
    <3> QED BY <3>2, <3>3, <3>4, <2>2
  <2> QED BY <2>1, <2>2
<1>8. s \o t = r
  <2> DEFINE p == s \o t
  <2>1. p \in Seq(S) /\ Len(p) = Len(ats) - 1
    BY <1>5, <1>6
  <2>2. ASSUME NEW x \in 1 .. Len(ats) - 1 PROVE p[x] = r[x]
    BY <1>7
  <2> HIDE DEF p
  <2>3. p = [x \in 1 .. Len(ats) - 1 |-> p[x]]
    BY <2>1
  <2>4. p = r
    BY <2>2, <2>3
  <2> QED BY <2>4 DEF p
<1> QED BY <1>1, <1>2, <1>8

LEMMA WithoutTypes ==
    ASSUME NEW S, NEW ats \in Seq(S), NEW n
    PROVE  Under!Without(ats, n) \in Seq(S)
<1>1. CASE Under!Named(ats, n) = {}
  BY <1>1 DEF Under!Without
<1>2. CASE Under!Named(ats, n) # {}
  <2>1. PICK i \in 1 .. Len(ats) :
          /\ ats[i].name = n
          /\ Under!Without(ats, n) =
               [x \in 1 .. Len(ats) - 1 |-> IF x < i THEN ats[x] ELSE ats[x + 1]]
    BY <1>2, WithoutOne
  <2>2. Len(ats) - 1 \in Nat
    BY <2>1
  <2>3. ASSUME NEW x \in 1 .. Len(ats) - 1 PROVE (IF x < i THEN ats[x] ELSE ats[x + 1]) \in S
    BY <2>3
  <2> QED BY <2>1, <2>2, <2>3
<1> QED BY <1>1, <1>2

\* No name occurs twice after a deletion, and all that are left were there.
LEMMA WithoutKeeps ==
    ASSUME NEW S, NEW ats \in Seq(S), NEW n,
           \A x, y \in 1 .. Len(ats) : x # y => ats[x].name # ats[y].name
    PROVE  \A x, y \in 1 .. Len(Under!Without(ats, n)) :
              x # y => Under!Without(ats, n)[x].name # Under!Without(ats, n)[y].name
<1>1. CASE Under!Named(ats, n) = {}
  BY <1>1 DEF Under!Without
<1>2. CASE Under!Named(ats, n) # {}
  <2>1. PICK i \in 1 .. Len(ats) :
          /\ ats[i].name = n
          /\ Under!Without(ats, n) =
               [x \in 1 .. Len(ats) - 1 |-> IF x < i THEN ats[x] ELSE ats[x + 1]]
    BY <1>2, WithoutOne
  <2>2. Len(ats) - 1 \in Nat
    BY <2>1
  <2> DEFINE w == Under!Without(ats, n)
             old(x) == IF x < i THEN x ELSE x + 1
  <2>3. Len(w) = Len(ats) - 1
    BY <2>1, <2>2
  <2>4. ASSUME NEW x \in 1 .. Len(ats) - 1 PROVE w[x] = ats[old(x)] /\ old(x) \in 1 .. Len(ats)
    BY <2>1
  <2>5. ASSUME NEW x \in 1 .. Len(ats) - 1, NEW y \in 1 .. Len(ats) - 1, x # y
        PROVE  old(x) # old(y)
    BY <2>5
  <2> HIDE DEF w, old
  <2>6. ASSUME NEW x \in 1 .. Len(ats) - 1, NEW y \in 1 .. Len(ats) - 1, x # y
        PROVE  w[x].name # w[y].name
    BY <2>4, <2>5, <2>6
  <2> QED BY <2>3, <2>6 DEF w
<1> QED BY <1>1, <1>2
-----------------------------------------------------------------------------
(***************************************************************************)
(* Calls and what they do to the file                                      *)
(***************************************************************************)
\* What may be passed down for the name of a link.
Below(n) == {Stored(n, path) : path \in use.byPath}

Effects ==
    \/ UNCHANGED <<attrs, made, links, nobj>>
    \/ \E h \in use.handles, n \in use.names :
         \/ Under!AttrCreate(h.obj, Remap(n)) \/ Under!AttrDelete(h.obj, Remap(n))
         \/ "rename" \in use.calls /\ \E m \in use.names : Under!AttrRename(h.obj, n, m)
    \/ "deleteat" \in use.calls /\ \E h \in use.handles, p \in Positions :
         Under!AttrDeleteAt(h.obj, p[1], p[2], p[3])
    \/ \E g, h \in {Root, Group}, n, m \in use.names :
         \/ \E s \in Below(n) : Under!LinkCreate(g, s) \/ Under!LinkDelete(g, s)
         \/ \E s \in Below(n), t \in Below(m) : Under!LinkMove(g, s, h, t)
         \/ "again" \in use.calls /\ Under!LinkAgain(g, n, h, m)
         \/ "again" \in use.calls /\ ~use.logBased /\ Under!ObjectCopy(g, n, h, m)

LEMMA CallEffects == Next => Effects /\ use' = use
<1> SUFFICES ASSUME Next PROVE Effects
  BY DEF Next
<1>1. ASSUME NEW h \in use.handles, AttrCall(h) PROVE Effects
  <2>1. ASSUME NEW n \in use.names,
               \/ AttrCreate(h, n) \/ AttrOpen(h, n) \/ AttrExists(h, n) \/ AttrDelete(h, n)
               \/ AttrInfo(h, n)
        PROVE  Effects
    BY <2>1 DEF Effects, AttrCreate, AttrOpen, AttrExists, AttrDelete, AttrInfo,
      Under!AttrOpen, Under!AttrExists, Under!NoChange
  <2>2. ASSUME NEW n \in use.names, NEW m \in use.names, "rename" \in use.calls,
               AttrRename(h, n, m)
        PROVE  Effects
    BY <2>2 DEF Effects, AttrRename
  <2>3. ASSUME NEW p \in Positions,
               \/ AttrOpenAt(h, p[1], p[2], p[3]) \/ AttrInfoAt(h, p[1], p[2], p[3])
               \/ AttrNameAt(h, p[1], p[2], p[3])
        PROVE  Effects
    BY <2>3 DEF Effects, AttrOpenAt, AttrInfoAt, AttrNameAt, AtPosition, Under!AttrOpenAt,
      Under!AttrInfoAt, Under!AttrNameAt, Under!NoChange
  <2>4. ASSUME NEW p \in Positions, "deleteat" \in use.calls,
               AttrDeleteAt(h, p[1], p[2], p[3])
        PROVE  Effects
    BY <2>4 DEF Effects, AttrDeleteAt
  <2>5. CASE (\E k : AttrIterate(h, k)) \/ AttrCount(h)
    BY <2>5 DEF Effects, AttrIterate, AttrCount, Under!AttrIterate, Under!AttrCount,
      Under!NoChange
  <2> QED BY <1>1, <2>1, <2>2, <2>3, <2>4, <2>5 DEF AttrCall
<1>2. ASSUME NEW g \in {Root, Group}, LinkCall(g) PROVE Effects
  <2>1. ASSUME NEW n \in use.names, NEW path \in use.byPath,
               \/ GroupCreate(g, n, path) \/ DatatypeCommit(g, n, path)
               \/ LinkDelete(g, n, path)
        PROVE  Effects
    <3>1. Stored(n, path) \in Below(n)
      BY DEF Below
    <3>2. Under!LinkCreate(g, Stored(n, path)) \/ Under!LinkDelete(g, Stored(n, path))
      BY <2>1 DEF GroupCreate, DatatypeCommit, LinkDelete
    <3> QED BY <3>1, <3>2 DEF Effects
  <2>2. ASSUME NEW n \in use.names, NEW path \in use.byPath,
               \/ GroupOpen(g, n, path) \/ DatatypeOpen(g, n, path)
               \/ ObjectOpen(g, n, path) \/ ObjectExists(g, n, path)
               \/ LinkExists(g, n, path) \/ LinkGet(g, n, path)
        PROVE  Effects
    BY <2>2 DEF Effects, GroupOpen, DatatypeOpen, ObjectOpen, ObjectExists, LinkExists,
      LinkGet, Under!LinkExists, Under!LinkOpen, Under!NoChange
  <2>3. ASSUME NEW n \in use.names, NEW path \in use.byPath, NEW h \in {Root, Group},
               NEW m \in use.names, NEW pathTo \in use.byPath,
               LinkMove(g, n, path, h, m, pathTo)
        PROVE  Effects
    <3>1. Stored(n, path) \in Below(n) /\ Stored(m, pathTo) \in Below(m)
      BY DEF Below
    <3>2. Under!LinkMove(g, Stored(n, path), h, Stored(m, pathTo))
      BY <2>3 DEF LinkMove
    <3> QED BY <3>1, <3>2 DEF Effects
  <2>4. ASSUME NEW n \in use.names, NEW h \in {Root, Group}, NEW m \in use.names,
               "again" \in use.calls,
               LinkCreate(g, n, h, m) \/ LinkCopy(g, n, h, m) \/ ObjectCopy(g, n, h, m)
        PROVE  Effects
    BY <2>4 DEF Effects, LinkCreate, LinkCopy, ObjectCopy
  <2>5. CASE LinkIterate(g) \/ LinkCount(g)
    BY <2>5 DEF Effects, LinkIterate, LinkCount, Under!LinkIterate, Under!LinkCount,
      Under!NoChange
  <2> QED BY <1>2, <2>1, <2>2, <2>3, <2>4, <2>5 DEF LinkCall
<1> QED BY <1>1, <1>2 DEF Next
-----------------------------------------------------------------------------
(***************************************************************************)
(* The stored names                                                        *)
(***************************************************************************)
TypeInv == use \in Uses /\ TypeOK

Distinct(ats) == \A x, y \in 1 .. Len(ats) : x # y => ats[x].name # ats[y].name
DistinctLinks(ls) == \A k, l \in ls : k.name = l.name => k = l

LEMMA NamesStored ==
    ASSUME use \in Uses, NEW n \in use.names
    PROVE  n \in Names /\ n \in StoredName /\ Remap(n) \in StoredName
  BY UsesAssumption DEF Remap, StoredName

LEMMA BelowIs ==
    ASSUME use \in Uses, NEW n \in use.names, NEW s \in Below(n)
    PROVE  /\ s = Remap(n) \/ (s = n /\ TRUE \in use.byPath)
           /\ s \in StoredName
<1>1. PICK path \in use.byPath : s = Stored(n, path)
  BY DEF Below
<1>2. path \in BOOLEAN
  BY UsesAssumption
<1>3. CASE path = TRUE
  BY <1>1, <1>3, NamesStored DEF Stored
<1>4. CASE path = FALSE
  BY <1>1, <1>4, NamesStored DEF Stored
<1> QED BY <1>2, <1>3, <1>4

LEMMA HandlesObject ==
    ASSUME use \in Uses, NEW h \in use.handles
    PROVE  h \in Handle /\ h.obj \in Objects
  BY UsesAssumption DEF Handle, Objects

LEMMA OwnNames ==
    ASSUME use \in Uses, NEW o \in Objects
    PROVE  /\ OwnAttrs(o) \in Seq(StoredName)
           /\ Own1(o) \in Nat
           /\ ~use.logBased => Own1(o) = 0
           /\ use.logBased =>
                Own1(o) = IF o = Root THEN 1 ELSE IF o = Dataset THEN 3 ELSE 0
           /\ \A x \in 1 .. Own1(o) : use.logBased /\ OwnAttrs(o)[x].us = 1
           /\ \A x, y \in 1 .. Own1(o) : x # y => OwnAttrs(o)[x] # OwnAttrs(o)[y]
<1>1. \A b \in {"int_att", "dims", "mdims", "ID", "LOG"} : Own(b) \in StoredName
  BY DEF StoredName
<1>2. CASE ~use.logBased
  <2>1. OwnAttrs(o) = <<>>
    BY <1>2 DEF OwnAttrs
  <2> QED BY <1>2, <2>1 DEF Own1
<1>3. CASE use.logBased /\ o = Root
  <2>1. OwnAttrs(o) = <<Own("int_att")>>
    BY <1>3, ObjectsAssumption DEF OwnAttrs
  <2>2. Len(OwnAttrs(o)) = 1 /\ OwnAttrs(o) \in Seq(StoredName) /\ OwnAttrs(o)[1] = Own("int_att")
    BY <1>1, <2>1
  <2> QED BY <1>3, <2>2 DEF Own1, Own
<1>4. CASE use.logBased /\ o = Dataset
  <2>1. OwnAttrs(o) = <<Own("dims"), Own("mdims"), Own("ID")>>
    BY <1>4, ObjectsAssumption DEF OwnAttrs
  <2>2. Len(OwnAttrs(o)) = 3 /\ OwnAttrs(o) \in Seq(StoredName)
    BY <1>1, <2>1
  <2>3. /\ OwnAttrs(o)[1] = Own("dims") /\ OwnAttrs(o)[2] = Own("mdims")
        /\ OwnAttrs(o)[3] = Own("ID")
    BY <2>1
  <2>4. 1 .. 3 = {1, 2, 3}
    OBVIOUS
  <2> QED BY <1>4, <2>2, <2>3, <2>4, ObjectsAssumption DEF Own1, Own
<1>5. CASE use.logBased /\ o # Root /\ o # Dataset
  <2>1. OwnAttrs(o) = <<>>
    BY <1>5 DEF OwnAttrs
  <2> QED BY <1>5, <2>1 DEF Own1
<1> QED BY <1>2, <1>3, <1>4, <1>5

LEMMA InitTypes == Init => TypeInv
<1> SUFFICES ASSUME Init PROVE TypeInv
  OBVIOUS
<1>1. use \in Uses
  BY DEF Init
<1>2. ASSUME NEW o \in Objects
      PROVE  /\ attrs[o] \in Seq([name : StoredName, corder : Nat])
             /\ \A x, y \in 1 .. Len(attrs[o]) : x # y => attrs[o][x].name # attrs[o][y].name
  <2> DEFINE n == Own1(o)
  <2>1. attrs[o] = [x \in 1 .. n |-> [name |-> OwnAttrs(o)[x], corder |-> x - 1]]
    BY DEF Init, Own1
  <2>2. /\ n \in Nat /\ OwnAttrs(o) \in Seq(StoredName) /\ Len(OwnAttrs(o)) = n
        /\ \A x, y \in 1 .. n : x # y => OwnAttrs(o)[x] # OwnAttrs(o)[y]
    BY <1>1, OwnNames DEF Own1
  <2> HIDE DEF n
  <2>3. ASSUME NEW x \in 1 .. n
        PROVE  [name |-> OwnAttrs(o)[x], corder |-> x - 1] \in [name : StoredName, corder : Nat]
    BY <2>2
  <2> DEFINE S == [name : StoredName, corder : Nat]
             e(x) == [name |-> OwnAttrs(o)[x], corder |-> x - 1]
  <2>6. \A x \in 1 .. n : e(x) \in S
    BY <2>3
  <2>7. attrs[o] = [x \in 1 .. n |-> e(x)]
    BY <2>1
  <2> HIDE DEF S, e
  <2>8. attrs[o] \in Seq(S) /\ Len(attrs[o]) = n
    BY <2>2, <2>6, <2>7
  <2>4. attrs[o] \in Seq([name : StoredName, corder : Nat]) /\ Len(attrs[o]) = n
    BY <2>8 DEF S
  <2>5. ASSUME NEW x \in 1 .. n PROVE attrs[o][x].name = OwnAttrs(o)[x]
    BY <2>1
  <2> QED BY <2>2, <2>4, <2>5
<1>3. ASSUME NEW g \in {Root, Group}
      PROVE  /\ links[g] \subseteq [name : StoredName, id : Nat \cup {-2}]
             /\ \A k, l \in links[g] : k.name = l.name => k = l
  <2>1. Own("LOG") \in StoredName
    BY DEF StoredName
  <2> QED BY <2>1 DEF Init, OwnLinks
<1>4. made \in [Objects -> Nat] /\ nobj \in Nat
  BY <1>1, OwnNames DEF Init, Own1
<1>5. /\ attrs = [o \in Objects |-> attrs[o]]
      /\ links = [g \in {Root, Group} |-> links[g]]
  BY DEF Init
<1>6. attrs \in [Objects -> Seq([name : StoredName, corder : Nat])]
  BY <1>2, <1>5
<1>7. links \in [{Root, Group} -> SUBSET [name : StoredName, id : Nat \cup {-2}]]
  BY <1>3, <1>5
<1> QED BY <1>1, <1>2, <1>3, <1>4, <1>6, <1>7 DEF TypeInv, TypeOK

\* What the library does to the attributes of an object.
LEMMA AttrsGrow ==
    ASSUME NEW ats \in Seq(Attr), Distinct(ats), NEW n \in StoredName, NEW c \in Nat,
           Under!Named(ats, n) = {}
    PROVE  /\ Append(ats, [name |-> n, corder |-> c]) \in Seq(Attr)
           /\ Distinct(Append(ats, [name |-> n, corder |-> c]))
<1> DEFINE e == [name |-> n, corder |-> c]
           t == Append(ats, e)
<1>1. e \in Attr /\ e.name = n
  BY DEF Attr
<1> HIDE DEF e
<1>2. /\ t \in Seq(Attr) /\ Len(t) = Len(ats) + 1
      /\ \A x \in 1 .. Len(ats) : t[x] = ats[x]
      /\ t[Len(ats) + 1] = e
  BY <1>1, AppendProperties
<1>3. \A x \in 1 .. Len(ats) : ats[x].name # n
  BY DEF Under!Named
<1> HIDE DEF t
<1>4. ASSUME NEW x \in 1 .. Len(t), NEW y \in 1 .. Len(t), x # y PROVE t[x].name # t[y].name
  <2>1. CASE x = Len(ats) + 1
    BY <1>1, <1>2, <1>3, <1>4, <2>1
  <2>2. CASE y = Len(ats) + 1
    BY <1>1, <1>2, <1>3, <1>4, <2>2
  <2>3. CASE x \in 1 .. Len(ats) /\ y \in 1 .. Len(ats)
    BY <1>2, <1>4, <2>3 DEF Distinct
  <2> QED BY <1>2, <2>1, <2>2, <2>3
<1> QED BY <1>2, <1>4 DEF Distinct, e, t

Renamed(ats, n, m) ==
    [x \in 1 .. Len(ats) |->
       IF ats[x].name = n THEN [ats[x] EXCEPT !.name = m] ELSE ats[x]]

LEMMA AttrsRenamed ==
    ASSUME NEW ats \in Seq(Attr), Distinct(ats), NEW n, NEW m \in StoredName,
           Under!Named(ats, m) = {}
    PROVE  /\ Renamed(ats, n, m) \in Seq(Attr)
           /\ Distinct(Renamed(ats, n, m))
<1> DEFINE t == Renamed(ats, n, m)
<1>1. ASSUME NEW x \in 1 .. Len(ats)
      PROVE  /\ t[x] \in Attr
             /\ t[x].name = IF ats[x].name = n THEN m ELSE ats[x].name
  <2>1. ats[x] \in Attr
    OBVIOUS
  <2>2. t[x] = IF ats[x].name = n THEN [ats[x] EXCEPT !.name = m] ELSE ats[x]
    BY DEF Renamed
  <2> QED BY <2>1, <2>2 DEF Attr
<1>2. t = [x \in 1 .. Len(ats) |-> t[x]]
  BY DEF Renamed
<1>3. \A x \in 1 .. Len(ats) : ats[x].name # m
  BY DEF Under!Named
<1> HIDE DEF t
<1>4. t \in Seq(Attr) /\ Len(t) = Len(ats)
  BY <1>1, <1>2
<1>5. Distinct(t)
  BY <1>1, <1>3, <1>4 DEF Distinct
<1> QED BY <1>4, <1>5 DEF t

\* A name has a link exactly if the link's object is found under it.
LEMMA LinkFound ==
    ASSUME NEW ls \in SUBSET Link, NEW n
    PROVE  /\ Under!LinkTo(ls, n) # Failed <=> \E l \in ls : l.name = n
           /\ Under!LinkTo(ls, n) # Failed => Under!LinkTo(ls, n) \in Nat \cup {-2}
           /\ Under!LinkTo(ls, n) # Failed =>
                \E l \in ls : l.name = n /\ l.id = Under!LinkTo(ls, n)
<1>1. Failed = -1 /\ \A l \in ls : l.id \in Nat \cup {-2}
  BY DEF Failed, Under!Failed, Link
<1>2. CASE \E l \in ls : l.name = n
  <2>1. /\ (CHOOSE l \in ls : l.name = n) \in ls
        /\ (CHOOSE l \in ls : l.name = n).name = n
    BY <1>2
  <2>2. Under!LinkTo(ls, n) = (CHOOSE l \in ls : l.name = n).id
    BY <1>2 DEF Under!LinkTo
  <2>3. (CHOOSE l \in ls : l.name = n).id \in Nat \cup {-2}
    BY <1>1, <2>1
  <2> DEFINE c == CHOOSE l \in ls : l.name = n
  <2>4. c \in ls /\ c.name = n /\ c.id \in Nat \cup {-2} /\ Under!LinkTo(ls, n) = c.id
    BY <2>1, <2>2, <2>3
  <2> HIDE DEF c
  <2>5. c.id # Failed
    BY <1>1, <2>4
  <2> QED BY <1>2, <2>4, <2>5
<1>3. CASE ~\E l \in ls : l.name = n
  BY <1>3 DEF Under!LinkTo, Failed
<1> QED BY <1>2, <1>3

LEMMA LinksGrow ==
    ASSUME NEW ls \in SUBSET Link, DistinctLinks(ls), NEW n \in StoredName,
           NEW i \in Nat \cup {-2}, Under!LinkTo(ls, n) = Failed
    PROVE  /\ ls \cup {[name |-> n, id |-> i]} \in SUBSET Link
           /\ DistinctLinks(ls \cup {[name |-> n, id |-> i]})
<1>1. \A l \in ls : l.name # n
  BY LinkFound
<1>2. [name |-> n, id |-> i] \in Link
  BY DEF Link
<1> QED BY <1>1, <1>2 DEF DistinctLinks

LEMMA TypeParts ==
    TypeInv <=> /\ use \in Uses
                /\ attrs \in [Objects -> Seq(Attr)] /\ \A o \in Objects : Distinct(attrs[o])
                /\ links \in [{Root, Group} -> SUBSET Link]
                /\ \A g \in {Root, Group} : DistinctLinks(links[g])
                /\ made \in [Objects -> Nat] /\ nobj \in Nat
  BY DEF TypeInv, TypeOK, Distinct, DistinctLinks, Attr, Link

LEMMA LinksCut ==
    ASSUME NEW ls \in SUBSET Link, DistinctLinks(ls), NEW n
    PROVE  /\ {l \in ls : l.name # n} \in SUBSET Link
           /\ DistinctLinks({l \in ls : l.name # n})
           /\ Under!LinkTo({l \in ls : l.name # n}, n) = Failed
<1>1. \A l \in {k \in ls : k.name # n} : l \in ls
  OBVIOUS
<1>2. {l \in ls : l.name # n} \in SUBSET Link
  BY <1>1
<1>3. Under!LinkTo({l \in ls : l.name # n}, n) = Failed
  BY <1>2, LinkFound
<1> QED BY <1>1, <1>2, <1>3 DEF DistinctLinks

AttrsGood == attrs \in [Objects -> Seq(Attr)] /\ \A o \in Objects : Distinct(attrs[o])
LinksGood ==
    /\ links \in [{Root, Group} -> SUBSET Link]
    /\ \A g \in {Root, Group} : DistinctLinks(links[g])

\* One object's attributes, or one group's links, are replaced.
LEMMA AttrsReplaced ==
    ASSUME AttrsGood, NEW o \in Objects, NEW ats \in Seq(Attr), Distinct(ats),
           attrs' = [attrs EXCEPT ![o] = ats]
    PROVE  AttrsGood'
  BY DEF AttrsGood

LEMMA LinksReplaced ==
    ASSUME LinksGood, NEW g \in {Root, Group}, NEW ls \in SUBSET Link, DistinctLinks(ls),
           links' = [links EXCEPT ![g] = ls]
    PROVE  LinksGood'
  BY DEF LinksGood

LEMMA StepTypes == TypeInv /\ [Next]_vars => TypeInv'
<1> SUFFICES ASSUME TypeInv, Next PROVE TypeInv'
  <2>1. ASSUME TypeInv, UNCHANGED vars PROVE TypeInv'
    <3>1. use' = use /\ attrs' = attrs /\ links' = links /\ made' = made /\ nobj' = nobj
      BY <2>1 DEF vars
    <3>2. TypeInv
      BY <2>1
    <3>3. use' \in Uses
      BY <3>1, <3>2 DEF TypeInv
    <3>4. AttrsGood /\ LinksGood /\ made \in [Objects -> Nat] /\ nobj \in Nat
      BY <3>2, TypeParts DEF AttrsGood, LinksGood
    <3>5. AttrsGood'
      BY <3>1, <3>4 DEF AttrsGood
    <3>6. LinksGood'
      BY <3>1, <3>4 DEF LinksGood
    <3>7. made' \in [Objects -> Nat] /\ nobj' \in Nat
      BY <3>1, <3>4
    <3>8. TypeOK'
      BY <3>5, <3>6, <3>7 DEF TypeOK, AttrsGood, LinksGood, Distinct, DistinctLinks, Attr, Link
    <3> QED BY <3>3, <3>8 DEF TypeInv
  <2> QED BY <2>1
<1>1. /\ use \in Uses /\ use' = use /\ AttrsGood /\ LinksGood
      /\ made \in [Objects -> Nat] /\ nobj \in Nat
  BY CallEffects, TypeParts DEF AttrsGood, LinksGood
<1> SUFFICES /\ AttrsGood' /\ LinksGood'
             /\ made' \in [Objects -> Nat] /\ nobj' \in Nat
  BY <1>1 DEF TypeInv, TypeOK, AttrsGood, LinksGood, Distinct, DistinctLinks, Attr, Link
<1>2. CASE UNCHANGED <<attrs, made, links, nobj>>
  BY <1>1, <1>2 DEF AttrsGood, LinksGood
<1>3. ASSUME NEW o \in Objects, NEW n \in StoredName, Under!AttrCreate(o, n)
      PROVE  /\ AttrsGood' /\ LinksGood'
             /\ made' \in [Objects -> Nat] /\ nobj' \in Nat
  <2>1. UNCHANGED <<links, nobj>>
    BY <1>3 DEF Under!AttrCreate
  <2>2. CASE Under!Named(attrs[o], n) # {}
    <3>1. UNCHANGED <<attrs, made>>
      BY <1>3, <2>2 DEF Under!AttrCreate
    <3> QED BY <1>1, <2>1, <3>1 DEF AttrsGood, LinksGood
  <2>3. CASE Under!Named(attrs[o], n) = {}
    <3> DEFINE t == Append(attrs[o], [name |-> n, corder |-> made[o]])
    <3>1. attrs' = [attrs EXCEPT ![o] = t] /\ made' = [made EXCEPT ![o] = @ + 1]
      BY <1>3, <2>3 DEF Under!AttrCreate
    <3>2. attrs[o] \in Seq(Attr) /\ Distinct(attrs[o]) /\ made[o] \in Nat
      BY <1>1 DEF AttrsGood
    <3>3. t \in Seq(Attr) /\ Distinct(t)
      BY <2>3, <3>2, AttrsGrow
    <3>4. made' \in [Objects -> Nat]
      BY <1>1, <3>1, <3>2
    <3> HIDE DEF t
    <3> QED BY <1>1, <2>1, <3>1, <3>3, <3>4, AttrsReplaced DEF LinksGood
  <2> QED BY <2>2, <2>3
<1>4. ASSUME NEW o \in Objects, NEW n, attrs' = [attrs EXCEPT ![o] = Under!Without(@, n)],
             UNCHANGED <<made, links, nobj>>
      PROVE  /\ AttrsGood' /\ LinksGood'
             /\ made' \in [Objects -> Nat] /\ nobj' \in Nat
  <2> DEFINE t == Under!Without(attrs[o], n)
  <2>1. attrs[o] \in Seq(Attr) /\ Distinct(attrs[o])
    BY <1>1 DEF AttrsGood
  <2>2. t \in Seq(Attr) /\ Distinct(t)
    BY <2>1, WithoutTypes, WithoutKeeps DEF Distinct
  <2>3. attrs' = [attrs EXCEPT ![o] = t]
    BY <1>4
  <2> HIDE DEF t
  <2> QED BY <1>1, <1>4, <2>2, <2>3, AttrsReplaced DEF LinksGood
<1>5. ASSUME NEW o \in Objects, NEW n, NEW m \in StoredName, Under!AttrRename(o, n, m)
      PROVE  /\ AttrsGood' /\ LinksGood'
             /\ made' \in [Objects -> Nat] /\ nobj' \in Nat
  <2>1. UNCHANGED <<made, links, nobj>>
    BY <1>5 DEF Under!AttrRename
  <2>2. CASE Under!Named(attrs[o], n) # {} /\ Under!Named(attrs[o], m) = {}
    <3> DEFINE t == Renamed(attrs[o], n, m)
    <3>1. attrs' = [attrs EXCEPT ![o] = t]
      BY <1>5, <2>2 DEF Under!AttrRename, Renamed
    <3>2. attrs[o] \in Seq(Attr) /\ Distinct(attrs[o])
      BY <1>1 DEF AttrsGood
    <3>3. t \in Seq(Attr) /\ Distinct(t)
      BY <2>2, <3>2, AttrsRenamed
    <3> HIDE DEF t
    <3> QED BY <1>1, <2>1, <3>1, <3>3, AttrsReplaced DEF LinksGood
  <2>3. CASE ~(Under!Named(attrs[o], n) # {} /\ Under!Named(attrs[o], m) = {})
    <3>1. UNCHANGED attrs
      BY <1>5, <2>3 DEF Under!AttrRename
    <3> QED BY <1>1, <2>1, <3>1 DEF AttrsGood, LinksGood
  <2> QED BY <2>2, <2>3
<1>6. ASSUME NEW g \in {Root, Group}, NEW n \in StoredName, Under!LinkCreate(g, n)
      PROVE  /\ AttrsGood' /\ LinksGood'
             /\ made' \in [Objects -> Nat] /\ nobj' \in Nat
  <2>1. UNCHANGED <<attrs, made>>
    BY <1>6 DEF Under!LinkCreate
  <2>2. CASE Under!LinkTo(links[g], n) # Under!Failed
    <3>1. UNCHANGED <<links, nobj>>
      BY <1>6, <2>2 DEF Under!LinkCreate
    <3> QED BY <1>1, <2>1, <3>1 DEF AttrsGood, LinksGood
  <2>3. CASE Under!LinkTo(links[g], n) = Under!Failed
    <3> DEFINE ls == links[g] \cup {[name |-> n, id |-> nobj]}
    <3>1. links' = [links EXCEPT ![g] = ls] /\ nobj' = nobj + 1
      BY <1>6, <2>3 DEF Under!LinkCreate
    <3>2. links[g] \in SUBSET Link /\ DistinctLinks(links[g])
      BY <1>1 DEF LinksGood
    <3>3. ls \in SUBSET Link /\ DistinctLinks(ls)
      BY <1>1, <2>3, <3>2, LinksGrow DEF Failed
    <3> HIDE DEF ls
    <3>4. LinksGood'
      BY <1>1, <3>1, <3>3, LinksReplaced
    <3>5. nobj' \in Nat /\ made' \in [Objects -> Nat] /\ AttrsGood'
      BY <1>1, <2>1, <3>1 DEF AttrsGood
    <3> QED BY <3>4, <3>5
  <2> QED BY <2>2, <2>3
<1>7. ASSUME NEW g \in {Root, Group}, NEW n, Under!LinkDelete(g, n)
      PROVE  /\ AttrsGood' /\ LinksGood'
             /\ made' \in [Objects -> Nat] /\ nobj' \in Nat
  <2> DEFINE ls == {l \in links[g] : l.name # n}
  <2>1. UNCHANGED <<attrs, made, nobj>> /\ links' = [links EXCEPT ![g] = ls]
    BY <1>7 DEF Under!LinkDelete
  <2>2. links[g] \in SUBSET Link /\ DistinctLinks(links[g])
    BY <1>1 DEF LinksGood
  <2>3. ls \in SUBSET Link /\ DistinctLinks(ls)
    BY <2>2, LinksCut
  <2> HIDE DEF ls
  <2> QED BY <1>1, <2>1, <2>3, LinksReplaced DEF AttrsGood
<1>8. ASSUME NEW g \in {Root, Group}, NEW n, NEW h \in {Root, Group}, NEW m \in StoredName,
             Under!LinkMove(g, n, h, m)
      PROVE  /\ AttrsGood' /\ LinksGood'
             /\ made' \in [Objects -> Nat] /\ nobj' \in Nat
  <2>1. UNCHANGED <<attrs, made, nobj>>
    BY <1>8 DEF Under!LinkMove
  <2>2. CASE ~(Under!LinkTo(links[g], n) # Under!Failed /\ Under!LinkTo(links[h], m) = Under!Failed)
    <3>1. UNCHANGED links
      BY <1>8, <2>2 DEF Under!LinkMove
    <3> QED BY <1>1, <2>1, <3>1 DEF AttrsGood, LinksGood
  <2>3. CASE Under!LinkTo(links[g], n) # Under!Failed /\ Under!LinkTo(links[h], m) = Under!Failed
    <3> DEFINE i == Under!LinkTo(links[g], n)
               cut == [links EXCEPT ![g] = {k \in @ : k.name # n}]
               ls == cut[h] \cup {[name |-> m, id |-> i]}
    <3>1. links' = [cut EXCEPT ![h] = ls]
      BY <1>8, <2>3 DEF Under!LinkMove
    <3>2. /\ links[g] \in SUBSET Link /\ DistinctLinks(links[g])
          /\ links[h] \in SUBSET Link /\ DistinctLinks(links[h])
      BY <1>1 DEF LinksGood
    <3>3. i \in Nat \cup {-2}
      BY <2>3, <3>2, LinkFound DEF Failed
    <3>4. /\ {k \in links[g] : k.name # n} \in SUBSET Link
          /\ DistinctLinks({k \in links[g] : k.name # n})
      BY <3>2, LinksCut
    <3>5. /\ cut \in [{Root, Group} -> SUBSET Link]
          /\ \A k \in {Root, Group} : DistinctLinks(cut[k])
          /\ cut[h] \subseteq links[h]
      BY <1>1, <3>4 DEF LinksGood
    <3> HIDE DEF cut, i
    <3>6. \A l \in links[h] : l.name # m
      BY <2>3, <3>2, LinkFound DEF Failed
    <3>7. Under!LinkTo(cut[h], m) = Failed
      BY <3>5, <3>6, LinkFound
    <3>8. ls \in SUBSET Link /\ DistinctLinks(ls)
      BY <3>3, <3>5, <3>7, LinksGrow
    <3> HIDE DEF ls
    <3>9. LinksGood'
      BY <3>1, <3>5, <3>8 DEF LinksGood
    <3> QED BY <1>1, <2>1, <3>9 DEF AttrsGood
  <2> QED BY <2>2, <2>3
<1>9. ASSUME NEW h \in {Root, Group}, NEW m \in StoredName, NEW i \in Nat \cup {-2},
             Under!LinkTo(links[h], m) = Failed,
             links' = [links EXCEPT ![h] = @ \cup {[name |-> m, id |-> i]}],
             UNCHANGED <<attrs, made>>, nobj' \in Nat
      PROVE  /\ AttrsGood' /\ LinksGood'
             /\ made' \in [Objects -> Nat] /\ nobj' \in Nat
  <2> DEFINE ls == links[h] \cup {[name |-> m, id |-> i]}
  <2>1. links' = [links EXCEPT ![h] = ls]
    BY <1>9
  <2>2. links[h] \in SUBSET Link /\ DistinctLinks(links[h])
    BY <1>1 DEF LinksGood
  <2>3. ls \in SUBSET Link /\ DistinctLinks(ls)
    BY <1>9, <2>2, LinksGrow
  <2> HIDE DEF ls
  <2> QED BY <1>1, <1>9, <2>1, <2>3, LinksReplaced DEF AttrsGood
<1>10. Effects
  BY CallEffects
<1>11. ASSUME NEW h \in use.handles, NEW n \in use.names,
              \/ Under!AttrCreate(h.obj, Remap(n)) \/ Under!AttrDelete(h.obj, Remap(n))
              \/ \E m \in use.names : Under!AttrRename(h.obj, n, m)
       PROVE  /\ AttrsGood' /\ LinksGood'
              /\ made' \in [Objects -> Nat] /\ nobj' \in Nat
  <2>1. h.obj \in Objects /\ Remap(n) \in StoredName /\ \A m \in use.names : m \in StoredName
    BY <1>1, HandlesObject, NamesStored
  <2>2. CASE Under!AttrCreate(h.obj, Remap(n))
    BY <1>3, <2>1, <2>2
  <2>3. CASE Under!AttrDelete(h.obj, Remap(n))
    <3>1. /\ attrs' = [attrs EXCEPT ![h.obj] = Under!Without(@, Remap(n))]
          /\ UNCHANGED <<made, links, nobj>>
      BY <2>3 DEF Under!AttrDelete
    <3> QED BY <1>4, <2>1, <3>1
  <2>4. CASE \E m \in use.names : Under!AttrRename(h.obj, n, m)
    BY <1>5, <2>1, <2>4
  <2> QED BY <1>11, <2>2, <2>3, <2>4
<1>12. ASSUME NEW h \in use.handles, NEW p \in Positions,
              Under!AttrDeleteAt(h.obj, p[1], p[2], p[3])
       PROVE  /\ AttrsGood' /\ LinksGood'
              /\ made' \in [Objects -> Nat] /\ nobj' \in Nat
  <2>1. h.obj \in Objects
    BY <1>1, HandlesObject
  <2>2. UNCHANGED <<made, links, nobj>>
    BY <1>12 DEF Under!AttrDeleteAt
  <2>3. \/ UNCHANGED attrs
        \/ \E n : attrs' = [attrs EXCEPT ![h.obj] = Under!Without(@, n)]
    BY <1>12 DEF Under!AttrDeleteAt
  <2> QED BY <1>2, <1>4, <2>1, <2>2, <2>3
<1>13. ASSUME NEW g \in {Root, Group}, NEW h \in {Root, Group},
              NEW n \in use.names, NEW m \in use.names,
              \/ \E s \in Below(n) : Under!LinkCreate(g, s) \/ Under!LinkDelete(g, s)
              \/ \E s \in Below(n), t \in Below(m) : Under!LinkMove(g, s, h, t)
              \/ Under!LinkAgain(g, n, h, m) \/ Under!ObjectCopy(g, n, h, m)
       PROVE  /\ AttrsGood' /\ LinksGood'
              /\ made' \in [Objects -> Nat] /\ nobj' \in Nat
  <2>1. n \in StoredName /\ m \in StoredName
    BY <1>1, NamesStored
  <2>2. ASSUME NEW s \in Below(n), Under!LinkCreate(g, s)
        PROVE  /\ AttrsGood' /\ LinksGood'
               /\ made' \in [Objects -> Nat] /\ nobj' \in Nat
    <3>1. s \in StoredName
      BY <1>1, BelowIs
    <3> QED BY <1>6, <2>2, <3>1
  <2>3. ASSUME NEW s \in Below(n), Under!LinkDelete(g, s)
        PROVE  /\ AttrsGood' /\ LinksGood'
               /\ made' \in [Objects -> Nat] /\ nobj' \in Nat
    BY <1>7, <2>3
  <2>4. ASSUME NEW s \in Below(n), NEW t \in Below(m), Under!LinkMove(g, s, h, t)
        PROVE  /\ AttrsGood' /\ LinksGood'
               /\ made' \in [Objects -> Nat] /\ nobj' \in Nat
    <3>1. s \in StoredName /\ t \in StoredName
      BY <1>1, BelowIs
    <3> QED BY <1>8, <2>4, <3>1
  <2>5. CASE Under!LinkAgain(g, n, h, m) \/ Under!ObjectCopy(g, n, h, m)
    <3>1. UNCHANGED <<attrs, made>>
      BY <2>5 DEF Under!LinkAgain, Under!ObjectCopy
    <3>2. \/ UNCHANGED <<links, nobj>>
          \/ /\ Under!LinkTo(links[g], n) # Failed /\ Under!LinkTo(links[h], m) = Failed
             /\ \/ /\ links' = [links EXCEPT ![h] =
                                   @ \cup {[name |-> m, id |-> Under!LinkTo(links[g], n)]}]
                   /\ nobj' = nobj
                \/ /\ links' = [links EXCEPT ![h] = @ \cup {[name |-> m, id |-> nobj]}]
                   /\ nobj' = nobj + 1
      BY <2>5 DEF Under!LinkAgain, Under!ObjectCopy, Failed
    <3>3. links[g] \in SUBSET Link
      BY <1>1 DEF LinksGood
    <3>4. Under!LinkTo(links[g], n) # Failed => Under!LinkTo(links[g], n) \in Nat \cup {-2}
      BY <3>3, LinkFound
    <3>5. nobj \in Nat /\ nobj + 1 \in Nat
      BY <1>1
    <3> QED BY <1>2, <1>9, <2>1, <3>1, <3>2, <3>4, <3>5
  <2> QED BY <1>13, <2>2, <2>3, <2>4, <2>5
<1> QED BY <1>2, <1>10, <1>11, <1>12, <1>13 DEF Effects

\* The attributes and links the library stores are well formed, and no name
\* occurs twice on an object or in a group, whatever calls the connector passes
\* down and however it changes their names.
THEOREM NamesTypes == Spec => []TypeOK
<1>1. Init => TypeInv
  BY InitTypes
<1>2. TypeInv /\ [Next]_vars => TypeInv'
  BY StepTypes
<1>3. TypeInv => TypeOK
  BY DEF TypeInv
<1> QED BY <1>1, <1>2, <1>3, PTL DEF Spec
-----------------------------------------------------------------------------
(***************************************************************************)
(* The connector's own attributes and links                                *)
(***************************************************************************)
LEMMA RemapLeavesOwn ==
    ASSUME use \in Uses, NEW n \in use.names
    PROVE  /\ use.logBased => Remap(n).us # 1
           /\ use.logBased => (n.us = 0 => Remap(n) = n)
           /\ ~use.logBased => Remap(n) = n
           /\ Shown(Remap(n)) = n /\ ~Hidden(Remap(n))
<1>1. n \in Names /\ n.us \in Nat /\ n = [us |-> n.us, b |-> n.b]
  BY NamesStored, NamesAssumption
<1>2. CASE ~(use.logBased /\ n.us > 0)
  <2>1. Remap(n) = n
    BY <1>2 DEF Remap
  <2>2. use.logBased => n.us = 0
    BY <1>1, <1>2
  <2> QED BY <2>1, <2>2 DEF Shown, Hidden
<1>3. CASE use.logBased /\ n.us > 0
  <2>1. Remap(n) = [us |-> n.us + 1, b |-> n.b]
    BY <1>1, <1>3 DEF Remap
  <2>2. Remap(n).us = n.us + 1 /\ n.us + 1 > 1
    BY <1>1, <1>3, <2>1
  <2>3. Shown(Remap(n)) = [Remap(n) EXCEPT !.us = @ - 1]
    BY <1>3, <2>2 DEF Shown
  <2>4. [Remap(n) EXCEPT !.us = @ - 1] = [us |-> n.us + 1 - 1, b |-> n.b]
    <3> DEFINE r == Remap(n)
               t == [r EXCEPT !.us = @ - 1]
    <3>1. r = [us |-> r.us, b |-> r.b] /\ r.us = n.us + 1 /\ r.b = n.b
      BY <2>1
    <3> HIDE DEF r
    <3>2. DOMAIN t = {"us", "b"} /\ t.us = r.us - 1 /\ t.b = r.b
      BY <3>1
    <3>3. t = [us |-> r.us - 1, b |-> r.b]
      BY <3>2
    <3>4. r.us - 1 = n.us + 1 - 1
      BY <1>1, <3>1
    <3>5. t = [us |-> n.us + 1 - 1, b |-> n.b]
      BY <3>1, <3>3, <3>4, Zenon
    <3> QED BY <3>5 DEF r
  <2>5. n.us + 1 - 1 = n.us /\ n.us + 1 # 1
    BY <1>1, <1>3
  <2> QED BY <1>1, <1>3, <2>2, <2>3, <2>4, <2>5 DEF Hidden
<1> QED BY <1>2, <1>3

OwnFirst(o, ats) ==
    \A x \in 1 .. Own1(o) :
      Len(ats) >= x /\ ats[x] = [name |-> OwnAttrs(o)[x], corder |-> x - 1]

LEMMA OwnParts ==
    /\ OwnIntact <=> /\ \A o \in Objects : OwnFirst(o, attrs[o])
                     /\ \A g \in {Root, Group} : OwnLinks(g) \subseteq links[g]
    /\ use' = use =>
         (OwnIntact' <=> /\ \A o \in Objects : OwnFirst(o, attrs'[o])
                         /\ \A g \in {Root, Group} : OwnLinks(g) \subseteq links'[g])
  BY DEF OwnIntact, OwnFirst, Own1, OwnAttrs, OwnLinks

LEMMA OwnFirstNames ==
    ASSUME use \in Uses, NEW o \in Objects, NEW ats \in Seq(Attr), OwnFirst(o, ats)
    PROVE  /\ \A x \in 1 .. Own1(o) : use.logBased /\ ats[x].name.us = 1
           /\ Own1(o) \in Nat /\ Len(ats) >= Own1(o)
<1>1. Own1(o) \in Nat /\ \A x \in 1 .. Own1(o) : use.logBased /\ OwnAttrs(o)[x].us = 1
  BY OwnNames
<1>2. ASSUME NEW x \in 1 .. Own1(o) PROVE use.logBased /\ ats[x].name.us = 1 /\ Len(ats) >= x
  <2>1. Len(ats) >= x /\ ats[x] = [name |-> OwnAttrs(o)[x], corder |-> x - 1]
    BY DEF OwnFirst
  <2>2. ats[x].name = OwnAttrs(o)[x]
    BY <2>1
  <2> QED BY <1>1, <2>1, <2>2
<1>3. Own1(o) = 0 \/ Own1(o) \in 1 .. Own1(o)
  BY <1>1
<1>4. Len(ats) >= Own1(o)
  <2>1. CASE Own1(o) = 0
    <3>1. Len(ats) \in Nat
      OBVIOUS
    <3> QED BY <2>1, <3>1
  <2>2. CASE Own1(o) \in 1 .. Own1(o)
    BY <1>2, <2>2
  <2> QED BY <1>3, <2>1, <2>2
<1> QED BY <1>1, <1>2, <1>4

\* Changes that keep the first attributes of an object.
LEMMA OwnFirstKept ==
    ASSUME use \in Uses, NEW o \in Objects, NEW ats \in Seq(Attr), OwnFirst(o, ats)
    PROVE  /\ \A e \in Attr : OwnFirst(o, Append(ats, e))
           /\ \A n : (use.logBased => n.us # 1) => OwnFirst(o, Under!Without(ats, n))
           /\ \A n, m : (use.logBased => n.us # 1) => OwnFirst(o, Renamed(ats, n, m))
<1>1. /\ \A x \in 1 .. Own1(o) : use.logBased /\ ats[x].name.us = 1
      /\ Own1(o) \in Nat /\ Len(ats) >= Own1(o)
  BY OwnFirstNames
<1>2. ASSUME NEW e \in Attr PROVE OwnFirst(o, Append(ats, e))
  <2>1. /\ Len(Append(ats, e)) = Len(ats) + 1
        /\ \A x \in 1 .. Len(ats) : Append(ats, e)[x] = ats[x]
    BY AppendProperties
  <2>2. ASSUME NEW x \in 1 .. Own1(o)
        PROVE  Len(Append(ats, e)) >= x /\ Append(ats, e)[x] = ats[x]
    BY <1>1, <2>1
  <2> QED BY <2>2 DEF OwnFirst
<1>3. ASSUME NEW n, use.logBased => n.us # 1 PROVE OwnFirst(o, Under!Without(ats, n))
  <2>1. CASE Under!Named(ats, n) = {}
    BY <2>1 DEF Under!Without
  <2>2. CASE Under!Named(ats, n) # {}
    <3> DEFINE w == Under!Without(ats, n)
    <3>1. PICK i \in 1 .. Len(ats) :
            /\ ats[i].name = n
            /\ w = [x \in 1 .. Len(ats) - 1 |-> IF x < i THEN ats[x] ELSE ats[x + 1]]
      BY <2>2, WithoutOne
    <3>2. i > Own1(o)
      BY <1>1, <1>3, <3>1
    <3>3. Len(w) = Len(ats) - 1
      BY <3>1
    <3>4. ASSUME NEW x \in 1 .. Own1(o) PROVE Len(w) >= x /\ w[x] = ats[x]
      <4>1. x < i /\ x \in 1 .. Len(ats) - 1
        BY <1>1, <3>1, <3>2
      <4> QED BY <3>1, <3>3, <4>1
    <3> HIDE DEF w
    <3>5. OwnFirst(o, w)
      BY <3>4 DEF OwnFirst
    <3> QED BY <3>5 DEF w
  <2> QED BY <2>1, <2>2
<1>4. ASSUME NEW n, NEW m, use.logBased => n.us # 1 PROVE OwnFirst(o, Renamed(ats, n, m))
  <2>1. Len(Renamed(ats, n, m)) = Len(ats)
    BY DEF Renamed
  <2>2. ASSUME NEW x \in 1 .. Own1(o) PROVE Renamed(ats, n, m)[x] = ats[x]
    <3>1. x \in 1 .. Len(ats) /\ ats[x].name # n
      BY <1>1, <1>4
    <3> QED BY <3>1 DEF Renamed
  <2> QED BY <2>1, <2>2 DEF OwnFirst
<1> QED BY <1>2, <1>3, <1>4

LEMMA InitOwn == Init => OwnIntact
<1> SUFFICES ASSUME Init PROVE OwnIntact
  OBVIOUS
<1>1. ASSUME NEW o \in Objects, NEW x \in 1 .. Own1(o)
      PROVE  Len(attrs[o]) >= x /\ attrs[o][x] = [name |-> OwnAttrs(o)[x], corder |-> x - 1]
  <2>1. attrs[o] = [y \in 1 .. Own1(o) |-> [name |-> OwnAttrs(o)[y], corder |-> y - 1]]
    BY DEF Init, Own1
  <2>2. Own1(o) \in Nat
    BY OwnNames DEF Init
  <2>3. Len(attrs[o]) = Own1(o)
    BY <2>1, <2>2
  <2> QED BY <2>1, <2>2, <2>3
<1>2. \A g \in {Root, Group} : OwnLinks(g) \subseteq links[g]
  BY DEF Init
<1> QED BY <1>1, <1>2 DEF OwnIntact

LEMMA StepOwn ==
    ASSUME \A u \in Uses : Careful(u)
    PROVE  TypeInv /\ OwnIntact /\ [Next]_vars => OwnIntact'
<1> SUFFICES ASSUME TypeInv, OwnIntact, Next PROVE OwnIntact'
  <2>1. ASSUME TypeInv, OwnIntact, UNCHANGED vars PROVE OwnIntact'
    BY <2>1 DEF vars, OwnIntact, Own1, OwnAttrs, OwnLinks
  <2> QED BY <2>1
<1>1. /\ use \in Uses /\ use' = use /\ attrs \in [Objects -> Seq(Attr)]
      /\ links \in [{Root, Group} -> SUBSET Link]
  BY CallEffects, TypeParts
<1>2. /\ \A o \in Objects : OwnFirst(o, attrs[o])
      /\ \A g \in {Root, Group} : OwnLinks(g) \subseteq links[g]
  BY OwnParts
<1> SUFFICES /\ \A o \in Objects : OwnFirst(o, attrs'[o])
             /\ \A g \in {Root, Group} : OwnLinks(g) \subseteq links'[g]
  BY <1>1, OwnParts
<1>3. Careful(use) /\ Effects
  BY <1>1, CallEffects
<1>4. ASSUME NEW o \in Objects, NEW ats, attrs' = [attrs EXCEPT ![o] = ats],
             UNCHANGED links, OwnFirst(o, ats)
      PROVE  /\ \A p \in Objects : OwnFirst(p, attrs'[p])
             /\ \A g \in {Root, Group} : OwnLinks(g) \subseteq links'[g]
  BY <1>1, <1>2, <1>4
<1>5. ASSUME NEW h \in use.handles, NEW n \in use.names,
             \/ Under!AttrCreate(h.obj, Remap(n)) \/ Under!AttrDelete(h.obj, Remap(n))
             \/ "rename" \in use.calls /\ \E m \in use.names : Under!AttrRename(h.obj, n, m)
      PROVE  /\ \A p \in Objects : OwnFirst(p, attrs'[p])
             /\ \A g \in {Root, Group} : OwnLinks(g) \subseteq links'[g]
  <2> DEFINE o == h.obj
  <2>1. /\ o \in Objects /\ attrs[o] \in Seq(Attr) /\ OwnFirst(o, attrs[o])
        /\ made[o] \in Nat /\ Remap(n) \in StoredName
        /\ use.logBased => Remap(n).us # 1
    BY <1>1, <1>2, HandlesObject, NamesStored, RemapLeavesOwn, TypeParts
  <2>2. CASE UNCHANGED <<attrs, links>>
    BY <1>2, <2>2
  <2>3. CASE Under!AttrCreate(o, Remap(n))
    <3> DEFINE e == [name |-> Remap(n), corder |-> made[o]]
    <3>1. \/ UNCHANGED <<attrs, links>>
          \/ attrs' = [attrs EXCEPT ![o] = Append(attrs[o], e)] /\ UNCHANGED links
      BY <2>3 DEF Under!AttrCreate
    <3>2. e \in Attr
      BY <2>1 DEF Attr
    <3>3. OwnFirst(o, Append(attrs[o], e))
      BY <1>1, <2>1, <3>2, OwnFirstKept
    <3> HIDE DEF e
    <3> QED BY <1>4, <2>1, <2>2, <3>1, <3>3
  <2>4. CASE Under!AttrDelete(o, Remap(n))
    <3>1. attrs' = [attrs EXCEPT ![o] = Under!Without(attrs[o], Remap(n))] /\ UNCHANGED links
      BY <2>4 DEF Under!AttrDelete
    <3>2. OwnFirst(o, Under!Without(attrs[o], Remap(n)))
      BY <1>1, <2>1, OwnFirstKept
    <3> QED BY <1>4, <2>1, <3>1, <3>2
  <2>5. ASSUME NEW m \in use.names, "rename" \in use.calls, Under!AttrRename(o, n, m)
        PROVE  /\ \A p \in Objects : OwnFirst(p, attrs'[p])
               /\ \A g \in {Root, Group} : OwnLinks(g) \subseteq links'[g]
    <3>1. \/ UNCHANGED <<attrs, links>>
          \/ attrs' = [attrs EXCEPT ![o] = Renamed(attrs[o], n, m)] /\ UNCHANGED links
      BY <2>5 DEF Under!AttrRename, Renamed
    <3>2. use.logBased => n.us # 1
      BY <1>3, <2>5 DEF Careful
    <3>3. OwnFirst(o, Renamed(attrs[o], n, m))
      BY <1>1, <2>1, <3>2, OwnFirstKept
    <3> QED BY <1>4, <2>1, <2>2, <3>1, <3>3
  <2> QED BY <1>5, <2>3, <2>4, <2>5
<1>6. ASSUME NEW h \in use.handles, NEW p \in Positions, "deleteat" \in use.calls,
             Under!AttrDeleteAt(h.obj, p[1], p[2], p[3])
      PROVE  /\ \A q \in Objects : OwnFirst(q, attrs'[q])
             /\ \A g \in {Root, Group} : OwnLinks(g) \subseteq links'[g]
  <2>1. ~use.logBased /\ UNCHANGED links
    BY <1>3, <1>6 DEF Careful, Under!AttrDeleteAt
  <2>2. \A o \in Objects : Own1(o) = 0
    BY <1>1, <2>1, OwnNames
  <2> QED BY <1>2, <2>1, <2>2 DEF OwnFirst
<1>7. ASSUME NEW g \in {Root, Group}, NEW h \in {Root, Group},
             NEW n \in use.names, NEW m \in use.names,
             \/ \E s \in Below(n) : Under!LinkCreate(g, s) \/ Under!LinkDelete(g, s)
             \/ \E s \in Below(n), t \in Below(m) : Under!LinkMove(g, s, h, t)
             \/ Under!LinkAgain(g, n, h, m) \/ Under!ObjectCopy(g, n, h, m)
      PROVE  /\ \A p \in Objects : OwnFirst(p, attrs'[p])
             /\ \A k \in {Root, Group} : OwnLinks(k) \subseteq links'[k]
  <2>1. UNCHANGED attrs
    BY <1>7 DEF Under!LinkCreate, Under!LinkDelete, Under!LinkMove, Under!LinkAgain,
      Under!ObjectCopy
  <2>2. ASSUME NEW k \in {Root, Group}, NEW l \in OwnLinks(k) PROVE l \in links'[k]
    <3>1. l \in links[k] /\ use.logBased /\ l.name.us = 1
      BY <1>2, <2>2 DEF OwnLinks, Own
    <3>2. ASSUME NEW s \in Below(n) PROVE l.name # s
      <4>1. s = Remap(n) \/ (s = n /\ TRUE \in use.byPath)
        BY <1>1, BelowIs
      <4>2. Remap(n).us # 1
        BY <1>1, <3>1, RemapLeavesOwn
      <4>3. TRUE \in use.byPath => n.us # 1
        BY <1>3, <3>1 DEF Careful
      <4> QED BY <3>1, <4>1, <4>2, <4>3
    <3>3. ASSUME NEW s \in Below(n), Under!LinkCreate(g, s) PROVE l \in links'[k]
      BY <1>1, <3>1, <3>3 DEF Under!LinkCreate
    <3>4. ASSUME NEW s \in Below(n), Under!LinkDelete(g, s) PROVE l \in links'[k]
      BY <1>1, <3>1, <3>2, <3>4 DEF Under!LinkDelete
    <3>5. ASSUME NEW s \in Below(n), NEW t \in Below(m), Under!LinkMove(g, s, h, t)
          PROVE  l \in links'[k]
      <4> DEFINE cut == [links EXCEPT ![g] = {j \in @ : j.name # s}]
      <4>1. \/ UNCHANGED links
            \/ \E e : links' = [cut EXCEPT ![h] = @ \cup {e}]
        BY <3>5 DEF Under!LinkMove
      <4>2. l \in cut[k] /\ DOMAIN cut = {Root, Group}
        BY <1>1, <3>1, <3>2
      <4> HIDE DEF cut
      <4> QED BY <3>1, <4>1, <4>2
    <3>6. CASE Under!LinkAgain(g, n, h, m) \/ Under!ObjectCopy(g, n, h, m)
      BY <1>1, <3>1, <3>6 DEF Under!LinkAgain, Under!ObjectCopy
    <3> QED BY <1>7, <3>3, <3>4, <3>5, <3>6
  <2> QED BY <1>2, <2>1, <2>2
<1> QED BY <1>2, <1>3, <1>5, <1>6, <1>7 DEF Effects

\* While an application does not delete attributes by position and, if it
\* renames attributes or names links by their path, uses no name with exactly
\* one leading underscore, no call under any name reaches the connector's
\* attributes or its group.
THEOREM OwnStays ==
    ASSUME \A u \in Uses : Careful(u)
    PROVE  Spec => []OwnIntact
<1>1. Init => TypeInv /\ OwnIntact
  BY InitTypes, InitOwn
<1>2. TypeInv /\ OwnIntact /\ [Next]_vars => TypeInv' /\ OwnIntact'
  BY StepTypes, StepOwn
<1> QED BY <1>1, <1>2, PTL DEF Spec
-----------------------------------------------------------------------------
(***************************************************************************)
(* The application's names: everything that is not the connector's own is  *)
(* stored under a name the application uses, as Remap leaves it.           *)
(***************************************************************************)
SharedAttrs(o, ats) ==
    \A x \in Own1(o) + 1 .. Len(ats) : \E n \in use.names : ats[x].name = Remap(n)
SharedLinks(g, ls) ==
    \A l \in ls : l \in OwnLinks(g) \/ \E n \in use.names : l.name = Remap(n)

NamesShared ==
    /\ \A o \in Objects : SharedAttrs(o, attrs[o])
    /\ \A g \in {Root, Group} : SharedLinks(g, links[g])

LEMMA SharedParts ==
    use' = use =>
      (NamesShared' <=> /\ \A o \in Objects : SharedAttrs(o, attrs'[o])
                        /\ \A g \in {Root, Group} : SharedLinks(g, links'[g]))
  BY DEF NamesShared, SharedAttrs, SharedLinks, Own1, OwnAttrs, OwnLinks, Remap

\* Where a call passes a name down as it is, Remap would leave it.
LEMMA RawNames ==
    ASSUME use \in Uses, Unseen(use), NEW n \in use.names,
           \/ "rename" \in use.calls \/ "info" \in use.calls \/ "nameat" \in use.calls
           \/ TRUE \in use.byPath \/ ~use.logBased
    PROVE  Remap(n) = n
<1>1. CASE ~use.logBased
  BY <1>1 DEF Remap
<1>2. CASE use.logBased
  <2>1. use.calls \cap {"nameat", "info", "rename"} # {} \/ TRUE \in use.byPath
    BY <1>2
  <2>2. n.us = 0
    BY <1>2, <2>1 DEF Unseen
  <2> QED BY <2>2 DEF Remap
<1> QED BY <1>1, <1>2

LEMMA BelowSeen ==
    ASSUME use \in Uses, Unseen(use), NEW n \in use.names, NEW s \in Below(n)
    PROVE  s = Remap(n)
<1>1. s = Remap(n) \/ (s = n /\ TRUE \in use.byPath)
  BY BelowIs
<1>2. TRUE \in use.byPath => Remap(n) = n
  BY RawNames
<1> QED BY <1>1, <1>2

LEMMA LoglessOnly ==
    ASSUME Unseen(use), \/ "deleteat" \in use.calls \/ "again" \in use.calls
                        \/ "opendec" \in use.calls \/ "linkcount" \in use.calls
                        \/ "iterfrom" \in use.calls
    PROVE  ~use.logBased
  BY DEF Unseen

LEMMA SharedKept ==
    ASSUME use \in Uses, NEW o \in Objects, NEW ats \in Seq(Attr), SharedAttrs(o, ats)
    PROVE  /\ \A n \in use.names, c \in Nat :
                SharedAttrs(o, Append(ats, [name |-> Remap(n), corder |-> c]))
           /\ \A n : SharedAttrs(o, Under!Without(ats, n))
           /\ \A n, m \in use.names : Remap(m) = m => SharedAttrs(o, Renamed(ats, n, m))
<1>1. Own1(o) \in Nat /\ Len(ats) \in Nat
  BY OwnNames
<1>2. ASSUME NEW n \in use.names, NEW c \in Nat
      PROVE  SharedAttrs(o, Append(ats, [name |-> Remap(n), corder |-> c]))
  <2> DEFINE e == [name |-> Remap(n), corder |-> c]
             t == Append(ats, e)
  <2>1. e \in Attr /\ e.name = Remap(n)
    BY NamesStored DEF Attr
  <2> HIDE DEF e
  <2>2. /\ Len(t) = Len(ats) + 1 /\ t[Len(ats) + 1] = e
        /\ \A x \in 1 .. Len(ats) : t[x] = ats[x]
    BY <2>1, AppendProperties
  <2> HIDE DEF t
  <2>3. ASSUME NEW x \in Own1(o) + 1 .. Len(t) PROVE \E m \in use.names : t[x].name = Remap(m)
    <3>1. CASE x = Len(ats) + 1
      BY <2>1, <2>2, <3>1
    <3>2. CASE x # Len(ats) + 1
      <4>1. x \in 1 .. Len(ats) /\ x \in Own1(o) + 1 .. Len(ats)
        BY <1>1, <2>2, <3>2
      <4> QED BY <2>2, <4>1 DEF SharedAttrs
    <3> QED BY <3>1, <3>2
  <2> QED BY <2>3 DEF SharedAttrs, e, t
<1>3. ASSUME NEW n PROVE SharedAttrs(o, Under!Without(ats, n))
  <2>1. CASE Under!Named(ats, n) = {}
    BY <2>1 DEF Under!Without
  <2>2. CASE Under!Named(ats, n) # {}
    <3> DEFINE w == Under!Without(ats, n)
    <3>1. PICK i \in 1 .. Len(ats) :
            /\ ats[i].name = n
            /\ w = [x \in 1 .. Len(ats) - 1 |-> IF x < i THEN ats[x] ELSE ats[x + 1]]
      BY <2>2, WithoutOne
    <3>2. Len(w) = Len(ats) - 1
      BY <3>1
    <3>3. ASSUME NEW x \in Own1(o) + 1 .. Len(w) PROVE \E m \in use.names : w[x].name = Remap(m)
      <4>1. x \in Own1(o) + 1 .. Len(ats) /\ x + 1 \in Own1(o) + 1 .. Len(ats)
            /\ x \in 1 .. Len(ats) - 1
        BY <1>1, <3>2
      <4>2. w[x] = ats[x] \/ w[x] = ats[x + 1]
        BY <3>1, <4>1
      <4> HIDE DEF w
      <4> QED BY <4>1, <4>2 DEF SharedAttrs
    <3> QED BY <3>3 DEF SharedAttrs
  <2> QED BY <2>1, <2>2
<1>4. ASSUME NEW n \in use.names, NEW m \in use.names, Remap(m) = m
      PROVE  SharedAttrs(o, Renamed(ats, n, m))
  <2> DEFINE t == Renamed(ats, n, m)
  <2>1. Len(t) = Len(ats)
    BY DEF Renamed
  <2>2. ASSUME NEW x \in Own1(o) + 1 .. Len(t) PROVE \E k \in use.names : t[x].name = Remap(k)
    <3>1. x \in 1 .. Len(ats) /\ x \in Own1(o) + 1 .. Len(ats)
      BY <1>1, <2>1
    <3>2. t[x] = IF ats[x].name = n THEN [ats[x] EXCEPT !.name = m] ELSE ats[x]
      BY <3>1 DEF Renamed
    <3>3. ats[x] \in Attr
      BY <3>1
    <3>4. t[x].name = m \/ t[x] = ats[x]
      BY <3>2, <3>3 DEF Attr
    <3> HIDE DEF t
    <3> QED BY <1>4, <3>1, <3>4 DEF SharedAttrs
  <2> QED BY <2>2 DEF SharedAttrs
<1> QED BY <1>2, <1>3, <1>4

LEMMA InitShared == Init => NamesShared
<1> SUFFICES ASSUME Init PROVE NamesShared
  OBVIOUS
<1>1. ASSUME NEW o \in Objects PROVE SharedAttrs(o, attrs[o])
  <2>1. attrs[o] = [x \in 1 .. Own1(o) |-> [name |-> OwnAttrs(o)[x], corder |-> x - 1]]
    BY DEF Init, Own1
  <2>2. Own1(o) \in Nat
    BY OwnNames DEF Init
  <2>3. Len(attrs[o]) = Own1(o)
    BY <2>1, <2>2
  <2> QED BY <2>2, <2>3 DEF SharedAttrs
<1>2. ASSUME NEW g \in {Root, Group} PROVE SharedLinks(g, links[g])
  BY DEF Init, SharedLinks
<1> QED BY <1>1, <1>2 DEF NamesShared

LEMMA StepShared ==
    ASSUME \A u \in Uses : Unseen(u)
    PROVE  TypeInv /\ NamesShared /\ [Next]_vars => NamesShared'
<1> SUFFICES ASSUME TypeInv, NamesShared, Next PROVE NamesShared'
  <2>1. ASSUME NamesShared, UNCHANGED vars PROVE NamesShared'
    <3>1. use' = use /\ attrs' = attrs /\ links' = links
      BY <2>1 DEF vars
    <3>2. /\ \A o \in Objects : SharedAttrs(o, attrs[o])
          /\ \A g \in {Root, Group} : SharedLinks(g, links[g])
      BY <2>1 DEF NamesShared
    <3>3. /\ \A o \in Objects : SharedAttrs(o, attrs'[o])
          /\ \A g \in {Root, Group} : SharedLinks(g, links'[g])
      BY <3>1, <3>2
    <3> QED BY <3>1, <3>3, SharedParts
  <2> QED BY <2>1
<1>1. /\ use \in Uses /\ use' = use /\ attrs \in [Objects -> Seq(Attr)]
      /\ links \in [{Root, Group} -> SUBSET Link] /\ made \in [Objects -> Nat]
  BY CallEffects, TypeParts
<1>2. /\ \A o \in Objects : SharedAttrs(o, attrs[o])
      /\ \A g \in {Root, Group} : SharedLinks(g, links[g])
  BY DEF NamesShared
<1> SUFFICES /\ \A o \in Objects : SharedAttrs(o, attrs'[o])
             /\ \A g \in {Root, Group} : SharedLinks(g, links'[g])
  BY <1>1, SharedParts
<1>3. Unseen(use) /\ Effects
  BY <1>1, CallEffects
<1>4. ASSUME NEW o \in Objects, NEW ats, attrs' = [attrs EXCEPT ![o] = ats],
             UNCHANGED links, SharedAttrs(o, ats)
      PROVE  /\ \A p \in Objects : SharedAttrs(p, attrs'[p])
             /\ \A g \in {Root, Group} : SharedLinks(g, links'[g])
  BY <1>1, <1>2, <1>4
<1>5. ASSUME NEW h \in use.handles, NEW n \in use.names,
             \/ Under!AttrCreate(h.obj, Remap(n)) \/ Under!AttrDelete(h.obj, Remap(n))
             \/ "rename" \in use.calls /\ \E m \in use.names : Under!AttrRename(h.obj, n, m)
      PROVE  /\ \A p \in Objects : SharedAttrs(p, attrs'[p])
             /\ \A g \in {Root, Group} : SharedLinks(g, links'[g])
  <2> DEFINE o == h.obj
  <2>1. o \in Objects /\ attrs[o] \in Seq(Attr) /\ SharedAttrs(o, attrs[o]) /\ made[o] \in Nat
    BY <1>1, <1>2, HandlesObject
  <2>2. CASE UNCHANGED <<attrs, links>>
    BY <1>2, <2>2
  <2>3. CASE Under!AttrCreate(o, Remap(n))
    <3> DEFINE t == Append(attrs[o], [name |-> Remap(n), corder |-> made[o]])
    <3>1. \/ UNCHANGED <<attrs, links>>
          \/ attrs' = [attrs EXCEPT ![o] = t] /\ UNCHANGED links
      BY <2>3 DEF Under!AttrCreate
    <3>2. SharedAttrs(o, t)
      BY <1>1, <2>1, SharedKept
    <3> HIDE DEF t
    <3> QED BY <1>4, <2>1, <2>2, <3>1, <3>2
  <2>4. CASE Under!AttrDelete(o, Remap(n))
    <3>1. attrs' = [attrs EXCEPT ![o] = Under!Without(attrs[o], Remap(n))] /\ UNCHANGED links
      BY <2>4 DEF Under!AttrDelete
    <3>2. SharedAttrs(o, Under!Without(attrs[o], Remap(n)))
      BY <1>1, <2>1, SharedKept
    <3> QED BY <1>4, <2>1, <3>1, <3>2
  <2>5. ASSUME NEW m \in use.names, "rename" \in use.calls, Under!AttrRename(o, n, m)
        PROVE  /\ \A p \in Objects : SharedAttrs(p, attrs'[p])
               /\ \A g \in {Root, Group} : SharedLinks(g, links'[g])
    <3>1. \/ UNCHANGED <<attrs, links>>
          \/ attrs' = [attrs EXCEPT ![o] = Renamed(attrs[o], n, m)] /\ UNCHANGED links
      BY <2>5 DEF Under!AttrRename, Renamed
    <3>2. Remap(m) = m
      BY <1>1, <1>3, <2>5, RawNames
    <3>3. SharedAttrs(o, Renamed(attrs[o], n, m))
      BY <1>1, <2>1, <3>2, SharedKept
    <3> QED BY <1>4, <2>1, <2>2, <3>1, <3>3
  <2> QED BY <1>5, <2>3, <2>4, <2>5
<1>6. ASSUME NEW h \in use.handles, NEW p \in Positions,
             Under!AttrDeleteAt(h.obj, p[1], p[2], p[3])
      PROVE  /\ \A q \in Objects : SharedAttrs(q, attrs'[q])
             /\ \A g \in {Root, Group} : SharedLinks(g, links'[g])
  <2> DEFINE o == h.obj
  <2>1. o \in Objects /\ attrs[o] \in Seq(Attr) /\ SharedAttrs(o, attrs[o])
    BY <1>1, <1>2, HandlesObject
  <2>2. /\ UNCHANGED links
        /\ \/ UNCHANGED attrs
           \/ \E n : attrs' = [attrs EXCEPT ![o] = Under!Without(attrs[o], n)]
    BY <1>6 DEF Under!AttrDeleteAt
  <2>3. ASSUME NEW n, attrs' = [attrs EXCEPT ![o] = Under!Without(attrs[o], n)]
        PROVE  /\ \A q \in Objects : SharedAttrs(q, attrs'[q])
               /\ \A g \in {Root, Group} : SharedLinks(g, links'[g])
    <3>1. SharedAttrs(o, Under!Without(attrs[o], n))
      BY <1>1, <2>1, SharedKept
    <3> QED BY <1>4, <2>1, <2>2, <2>3, <3>1
  <2> QED BY <1>2, <2>2, <2>3
<1>7. ASSUME NEW g \in {Root, Group}, NEW h \in {Root, Group},
             NEW n \in use.names, NEW m \in use.names,
             \/ \E s \in Below(n) : Under!LinkCreate(g, s) \/ Under!LinkDelete(g, s)
             \/ \E s \in Below(n), t \in Below(m) : Under!LinkMove(g, s, h, t)
             \/ "again" \in use.calls
                /\ (Under!LinkAgain(g, n, h, m) \/ Under!ObjectCopy(g, n, h, m))
      PROVE  /\ \A p \in Objects : SharedAttrs(p, attrs'[p])
             /\ \A k \in {Root, Group} : SharedLinks(k, links'[k])
  <2>1. UNCHANGED attrs
    BY <1>7 DEF Under!LinkCreate, Under!LinkDelete, Under!LinkMove, Under!LinkAgain,
      Under!ObjectCopy
  <2>2. \A k \in {Root, Group} : \A l \in links[k] :
          l \in OwnLinks(k) \/ \E j \in use.names : l.name = Remap(j)
    BY <1>2 DEF SharedLinks
  <2>3. ASSUME NEW k \in {Root, Group}, NEW l \in links'[k]
        PROVE  l \in OwnLinks(k) \/ \E j \in use.names : l.name = Remap(j)
    <3>1. ASSUME NEW s \in Below(n), Under!LinkCreate(g, s)
          PROVE  l \in OwnLinks(k) \/ \E j \in use.names : l.name = Remap(j)
      <4>1. l \in links[k] \/ l.name = s
        BY <1>1, <2>3, <3>1 DEF Under!LinkCreate
      <4>2. s = Remap(n)
        BY <1>1, <1>3, BelowSeen
      <4> QED BY <2>2, <4>1, <4>2
    <3>3. ASSUME NEW s \in Below(n), Under!LinkDelete(g, s)
          PROVE  l \in OwnLinks(k) \/ \E j \in use.names : l.name = Remap(j)
      <4>1. l \in links[k]
        BY <1>1, <2>3, <3>3 DEF Under!LinkDelete
      <4> QED BY <2>2, <4>1
    <3>4. ASSUME NEW s \in Below(n), NEW t \in Below(m), Under!LinkMove(g, s, h, t)
          PROVE  l \in OwnLinks(k) \/ \E j \in use.names : l.name = Remap(j)
      <4> DEFINE cut == [links EXCEPT ![g] = {j \in @ : j.name # s}]
                 e == [name |-> t, id |-> Under!LinkTo(links[g], s)]
      <4>1. \/ UNCHANGED links
            \/ links' = [cut EXCEPT ![h] = @ \cup {e}]
        BY <3>4 DEF Under!LinkMove
      <4>2. \A j \in {Root, Group} : cut[j] \subseteq links[j]
        BY <1>1
      <4>3. DOMAIN cut = {Root, Group} /\ e.name = t
        BY <1>1
      <4> HIDE DEF cut, e
      <4>4. l \in links[k] \/ l = e
        BY <2>3, <4>1, <4>2, <4>3
      <4>5. t = Remap(m)
        BY <1>1, <1>3, BelowSeen
      <4> QED BY <2>2, <4>3, <4>4, <4>5
    <3>5. CASE "again" \in use.calls
               /\ (Under!LinkAgain(g, n, h, m) \/ Under!ObjectCopy(g, n, h, m))
      <4>1. Remap(m) = m
        BY <1>1, <1>3, <3>5, LoglessOnly, RawNames
      <4>2. l \in links[k] \/ l.name = m
        BY <1>1, <2>3, <3>5 DEF Under!LinkAgain, Under!ObjectCopy
      <4> QED BY <2>2, <4>1, <4>2
    <3> QED BY <1>7, <3>1, <3>3, <3>4, <3>5
  <2> QED BY <1>2, <2>1, <2>3 DEF SharedLinks
<1> QED BY <1>2, <1>3, <1>5, <1>6, <1>7 DEF Effects
-----------------------------------------------------------------------------
(***************************************************************************)
(* What the application sees of the attributes of one object and of the    *)
(* links of one group, and how the library's operators act on it.          *)
(***************************************************************************)
View(o, ats) ==
    [x \in 1 .. Len(ats) - Own1(o) |->
       [name |-> Shown(ats[x + Own1(o)].name), corder |-> ats[x + Own1(o)].corder - Own1(o)]]
ViewLinks(ls) ==
    {[name |-> Shown(l.name), id |-> l.id] : l \in {k \in ls : ~Hidden(k.name)}}

GoodAttrs(o, ats) ==
    ats \in Seq(Attr) /\ Distinct(ats) /\ OwnFirst(o, ats) /\ SharedAttrs(o, ats)
GoodLinks(g, ls) ==
    ls \in SUBSET Link /\ DistinctLinks(ls) /\ OwnLinks(g) \subseteq ls /\ SharedLinks(g, ls)

LEMMA ViewBasics ==
    ASSUME use \in Uses, NEW o \in Objects, NEW ats, GoodAttrs(o, ats)
    PROVE  /\ Own1(o) \in Nat /\ Len(ats) \in Nat /\ Len(ats) >= Own1(o)
           /\ Len(View(o, ats)) = Len(ats) - Own1(o)
           /\ DOMAIN View(o, ats) = 1 .. Len(ats) - Own1(o)
           /\ \A x \in 1 .. Len(ats) - Own1(o) :
                /\ x + Own1(o) \in 1 .. Len(ats) /\ ats[x + Own1(o)] \in Attr
                /\ View(o, ats)[x] = [name |-> Shown(ats[x + Own1(o)].name),
                                      corder |-> ats[x + Own1(o)].corder - Own1(o)]
                /\ \E n \in use.names : ats[x + Own1(o)].name = Remap(n) /\ View(o, ats)[x].name = n
<1>1. Own1(o) \in Nat /\ Len(ats) >= Own1(o) /\ ats \in Seq(Attr) /\ Len(ats) \in Nat
  BY OwnFirstNames DEF GoodAttrs
<1>2. Len(View(o, ats)) = Len(ats) - Own1(o) /\ DOMAIN View(o, ats) = 1 .. Len(ats) - Own1(o)
  BY <1>1 DEF View
<1>3. ASSUME NEW x \in 1 .. Len(ats) - Own1(o)
      PROVE  /\ x + Own1(o) \in 1 .. Len(ats) /\ ats[x + Own1(o)] \in Attr
             /\ View(o, ats)[x] = [name |-> Shown(ats[x + Own1(o)].name),
                                   corder |-> ats[x + Own1(o)].corder - Own1(o)]
             /\ \E n \in use.names : ats[x + Own1(o)].name = Remap(n) /\ View(o, ats)[x].name = n
  <2>1. x + Own1(o) \in 1 .. Len(ats) /\ x + Own1(o) \in Own1(o) + 1 .. Len(ats)
    BY <1>1
  <2>2. ats[x + Own1(o)] \in Attr
    BY <1>1, <2>1
  <2>3. View(o, ats)[x] = [name |-> Shown(ats[x + Own1(o)].name),
                           corder |-> ats[x + Own1(o)].corder - Own1(o)]
    BY DEF View
  <2>4. PICK n \in use.names : ats[x + Own1(o)].name = Remap(n)
    BY <2>1 DEF GoodAttrs, SharedAttrs
  <2>5. View(o, ats)[x].name = n
    BY <2>3, <2>4, RemapLeavesOwn
  <2> QED BY <2>1, <2>2, <2>3, <2>4, <2>5
<1> QED BY <1>1, <1>2, <1>3

LEMMA ViewStored ==
    ASSUME use \in Uses, NEW o \in Objects, NEW ats, GoodAttrs(o, ats),
           NEW x \in 1 .. Len(ats) - Own1(o)
    PROVE  \E n \in use.names : ats[x + Own1(o)].name = Remap(n) /\ View(o, ats)[x].name = n
  BY ViewBasics

\* The application's name of an attribute is stored as Remap of it.
LEMMA ViewNames ==
    ASSUME use \in Uses, NEW o \in Objects, NEW ats, GoodAttrs(o, ats), NEW n \in use.names
    PROVE  /\ \A x \in 1 .. Len(ats) - Own1(o) :
                View(o, ats)[x].name = n <=> ats[x + Own1(o)].name = Remap(n)
           /\ \A y \in 1 .. Own1(o) : ats[y].name # Remap(n)
<1>1. ASSUME NEW x \in 1 .. Len(ats) - Own1(o)
      PROVE  View(o, ats)[x].name = n <=> ats[x + Own1(o)].name = Remap(n)
  <2>1. \E m \in use.names : ats[x + Own1(o)].name = Remap(m) /\ View(o, ats)[x].name = m
    BY ViewStored
  <2>2. PICK m \in use.names : ats[x + Own1(o)].name = Remap(m) /\ View(o, ats)[x].name = m
    BY <2>1
  <2>3. Remap(m) = Remap(n) <=> m = n
    BY RemapLeavesOwn
  <2> QED BY <2>2, <2>3
<1>2. ASSUME NEW y \in 1 .. Own1(o) PROVE ats[y].name # Remap(n)
  <2>1. use.logBased /\ ats[y].name.us = 1
    BY OwnFirstNames DEF GoodAttrs
  <2> QED BY <2>1, RemapLeavesOwn
<1> QED BY <1>1, <1>2

LEMMA ViewNamed ==
    ASSUME use \in Uses, NEW o \in Objects, NEW ats, GoodAttrs(o, ats), NEW n \in use.names
    PROVE  /\ \A x : x \in Plain!Named(View(o, ats), n) <=>
                       /\ x \in 1 .. Len(ats) - Own1(o)
                       /\ x + Own1(o) \in Under!Named(ats, Remap(n))
           /\ \A y \in Under!Named(ats, Remap(n)) :
                /\ y \in Own1(o) + 1 .. Len(ats)
                /\ y - Own1(o) \in Plain!Named(View(o, ats), n)
           /\ Plain!Named(View(o, ats), n) = {} <=> Under!Named(ats, Remap(n)) = {}
<1>1. /\ Own1(o) \in Nat /\ Len(ats) \in Nat /\ Len(ats) >= Own1(o)
      /\ Len(View(o, ats)) = Len(ats) - Own1(o)
      /\ \A x \in 1 .. Len(ats) - Own1(o) : x + Own1(o) \in 1 .. Len(ats)
  BY ViewBasics
<1>2. ASSUME NEW x
      PROVE  x \in Plain!Named(View(o, ats), n) <=>
               x \in 1 .. Len(ats) - Own1(o) /\ x + Own1(o) \in Under!Named(ats, Remap(n))
  BY <1>1, ViewNames DEF Plain!Named, Under!Named
<1>3. ASSUME NEW y \in Under!Named(ats, Remap(n))
      PROVE  y \in Own1(o) + 1 .. Len(ats) /\ y - Own1(o) \in Plain!Named(View(o, ats), n)
  <2>1. y \in 1 .. Len(ats) /\ ats[y].name = Remap(n)
    BY DEF Under!Named
  <2>2. y \notin 1 .. Own1(o)
    BY <2>1, ViewNames
  <2>3. y \in Own1(o) + 1 .. Len(ats) /\ y - Own1(o) \in 1 .. Len(ats) - Own1(o)
        /\ y - Own1(o) + Own1(o) = y
    BY <1>1, <2>1, <2>2
  <2> QED BY <1>2, <2>3
<1> QED BY <1>2, <1>3

\* A creation index, as the application sees it.
LEMMA ViewId ==
    ASSUME use \in Uses, NEW o \in Objects, NEW ats, GoodAttrs(o, ats), NEW n \in use.names
    PROVE  /\ Under!IdOf(ats, Remap(n)) \in Nat \cup {-1}
           /\ Plain!IdOf(View(o, ats), n) =
                IF Under!IdOf(ats, Remap(n)) = -1 THEN -1
                ELSE Under!IdOf(ats, Remap(n)) - Own1(o)
<1>1. CASE Under!Named(ats, Remap(n)) = {}
  <2>1. Plain!Named(View(o, ats), n) = {}
    BY <1>1, ViewNamed
  <2> QED BY <1>1, <2>1 DEF Under!IdOf, Plain!IdOf, Under!Failed, Plain!Failed
<1>2. CASE Under!Named(ats, Remap(n)) # {}
  <2> DEFINE y == CHOOSE x \in Under!Named(ats, Remap(n)) : TRUE
             x == CHOOSE x \in Plain!Named(View(o, ats), n) : TRUE
  <2>1. y \in Under!Named(ats, Remap(n)) /\ Under!IdOf(ats, Remap(n)) = ats[y].corder
    BY <1>2 DEF Under!IdOf
  <2>2. x \in Plain!Named(View(o, ats), n) /\ Plain!IdOf(View(o, ats), n) = View(o, ats)[x].corder
    <3>1. Plain!Named(View(o, ats), n) # {}
      BY <1>2, ViewNamed
    <3> QED BY <3>1 DEF Plain!IdOf
  <2> HIDE DEF x, y
  <2>3. x \in 1 .. Len(ats) - Own1(o) /\ x + Own1(o) \in Under!Named(ats, Remap(n))
    BY <2>2, ViewNamed
  <2>4. x + Own1(o) = y
    BY <2>1, <2>3 DEF Under!Named, GoodAttrs, Distinct
  <2>5. /\ ats[x + Own1(o)] \in Attr
        /\ View(o, ats)[x] = [name |-> Shown(ats[x + Own1(o)].name),
                              corder |-> ats[x + Own1(o)].corder - Own1(o)]
    BY <2>3, ViewBasics
  <2>6. View(o, ats)[x].corder = ats[y].corder - Own1(o) /\ ats[y].corder \in Nat
    BY <2>4, <2>5 DEF Attr
  <2> QED BY <2>1, <2>2, <2>6
<1> QED BY <1>1, <1>2

LEMMA ViewTypes ==
    ASSUME use \in Uses, NEW o \in Objects, NEW ats, GoodAttrs(o, ats)
    PROVE  View(o, ats) \in Seq([name : use.names, corder : Int])
<1>1. Own1(o) \in Nat /\ Len(ats) - Own1(o) \in Nat
  BY ViewBasics
<1>2. ASSUME NEW x \in 1 .. Len(ats) - Own1(o)
      PROVE  View(o, ats)[x] \in [name : use.names, corder : Int]
  <2>1. /\ ats[x + Own1(o)] \in Attr
        /\ View(o, ats)[x] = [name |-> Shown(ats[x + Own1(o)].name),
                              corder |-> ats[x + Own1(o)].corder - Own1(o)]
        /\ View(o, ats)[x].name \in use.names
    BY ViewBasics
  <2>2. ats[x + Own1(o)].corder - Own1(o) \in Int
    BY <1>1, <2>1 DEF Attr
  <2> QED BY <2>1, <2>2
<1>3. View(o, ats) = [x \in 1 .. Len(ats) - Own1(o) |-> View(o, ats)[x]]
  BY DEF View
<1> DEFINE v == View(o, ats)
           k == Len(ats) - Own1(o)
           S == [name : use.names, corder : Int]
<1>4. k \in Nat /\ v = [x \in 1 .. k |-> v[x]] /\ \A x \in 1 .. k : v[x] \in S
  BY <1>1, <1>2, <1>3
<1> HIDE DEF v, k, S
<1>5. v \in Seq(S)
  BY <1>4
<1> QED BY <1>5 DEF v, S

LEMMA ViewGrows ==
    ASSUME use \in Uses, NEW o \in Objects, NEW ats, GoodAttrs(o, ats), NEW n \in use.names,
           NEW c \in Nat
    PROVE  View(o, Append(ats, [name |-> Remap(n), corder |-> c])) =
             Append(View(o, ats), [name |-> n, corder |-> c - Own1(o)])
<1> DEFINE e == [name |-> Remap(n), corder |-> c]
           f == [name |-> n, corder |-> c - Own1(o)]
           t == Append(ats, e)
           v == View(o, ats)
           w == Append(v, f)
<1>1. /\ Own1(o) \in Nat /\ Len(ats) \in Nat /\ Len(ats) >= Own1(o) /\ ats \in Seq(Attr)
      /\ Len(v) = Len(ats) - Own1(o) /\ v \in Seq([name : use.names, corder : Int])
  BY ViewBasics, ViewTypes DEF GoodAttrs
<1>2. e \in Attr /\ f \in [name : use.names, corder : Int]
  BY <1>1, NamesStored DEF Attr
<1>3. Shown(e.name) = f.name /\ e.corder - Own1(o) = f.corder
      /\ f = [name |-> f.name, corder |-> f.corder]
  BY RemapLeavesOwn
<1>4. \A x \in 1 .. Len(ats) - Own1(o) :
        v[x] = [name |-> Shown(ats[x + Own1(o)].name), corder |-> ats[x + Own1(o)].corder - Own1(o)]
  BY ViewBasics
<1> HIDE DEF e, f, v
<1>5. /\ Len(t) = Len(ats) + 1 /\ t[Len(ats) + 1] = e
      /\ \A x \in 1 .. Len(ats) : t[x] = ats[x]
  BY <1>1, <1>2, AppendProperties
<1>6. /\ w \in Seq([name : use.names, corder : Int])
      /\ Len(w) = Len(v) + 1 /\ w[Len(v) + 1] = f
      /\ \A x \in 1 .. Len(v) : w[x] = v[x]
  BY <1>1, <1>2, AppendProperties
<1> HIDE DEF t, w
<1>7. ASSUME NEW x \in 1 .. Len(t) - Own1(o)
      PROVE  [name |-> Shown(t[x + Own1(o)].name), corder |-> t[x + Own1(o)].corder - Own1(o)] = w[x]
  <2>1. CASE x = Len(v) + 1
    <3>1. x + Own1(o) = Len(ats) + 1
      BY <1>1, <2>1
    <3> QED BY <1>3, <1>5, <1>6, <2>1, <3>1
  <2>2. CASE x # Len(v) + 1
    <3>1. x \in 1 .. Len(v) /\ x \in 1 .. Len(ats) - Own1(o) /\ x + Own1(o) \in 1 .. Len(ats)
      BY <1>1, <1>5, <2>2
    <3> QED BY <1>4, <1>5, <1>6, <3>1
  <2> QED BY <2>1, <2>2
<1>8. w = [x \in 1 .. Len(t) - Own1(o) |-> w[x]]
  <2>1. Len(w) = Len(t) - Own1(o)
    BY <1>1, <1>5, <1>6
  <2> QED BY <1>6, <2>1
<1>9. View(o, t) = w
  BY <1>7, <1>8 DEF View
<1> QED BY <1>9 DEF e, f, t, v, w

LEMMA SameWithout == \A ats, n : Plain!Without(ats, n) = Under!Without(ats, n)
  BY DEF Plain!Without, Under!Without, Plain!Named, Under!Named, Plain!RemoveAt, Under!RemoveAt

LEMMA ViewShrinks ==
    ASSUME use \in Uses, NEW o \in Objects, NEW ats, GoodAttrs(o, ats), NEW n \in use.names
    PROVE  View(o, Under!Without(ats, Remap(n))) = Plain!Without(View(o, ats), n)
<1> DEFINE v == View(o, ats)
           own == Own1(o)
<1>1. /\ own \in Nat /\ Len(ats) \in Nat /\ Len(ats) >= own /\ ats \in Seq(Attr)
      /\ Len(v) = Len(ats) - own /\ v \in Seq([name : use.names, corder : Int])
      /\ \A x \in 1 .. Len(ats) - own :
            v[x] = [name |-> Shown(ats[x + own].name), corder |-> ats[x + own].corder - own]
  BY ViewBasics, ViewTypes DEF GoodAttrs
<1>2. CASE Under!Named(ats, Remap(n)) = {}
  <2>1. Plain!Named(v, n) = {}
    BY <1>2, ViewNamed
  <2>2. Under!Without(ats, Remap(n)) = ats /\ Plain!Without(v, n) = v
    BY <1>2, <2>1 DEF Under!Without, Plain!Without
  <2> QED BY <2>2
<1>3. CASE Under!Named(ats, Remap(n)) # {}
  <2> DEFINE r == Remap(n)
             u == Under!Without(ats, r)
             w == Under!Without(v, n)
             S == [name : use.names, corder : Int]
  <2> HIDE DEF v, r, S
  <2>1. PICK i \in 1 .. Len(ats) :
          /\ ats[i].name = r
          /\ Under!Without(ats, r) =
               [x \in 1 .. Len(ats) - 1 |-> IF x < i THEN ats[x] ELSE ats[x + 1]]
    <3>1. Under!Named(ats, r) # {}
      BY <1>3 DEF r
    <3>2. ats \in Seq(Attr)
      BY <1>1
    <3> HIDE DEF v
    <3> QED BY <3>1, <3>2, WithoutOne
  <2>2. Under!Named(v, n) # {} /\ Under!Named(v, n) = Plain!Named(v, n)
    <3>1. Under!Named(v, n) = Plain!Named(v, n)
      BY DEF Under!Named, Plain!Named
    <3> QED BY <1>3, <3>1, ViewNamed DEF v
  <2>3. PICK j \in 1 .. Len(v) :
          /\ v[j].name = n
          /\ Under!Without(v, n) =
               [x \in 1 .. Len(v) - 1 |-> IF x < j THEN v[x] ELSE v[x + 1]]
    <3>1. v \in Seq(S)
      BY <1>1 DEF S
    <3> QED BY <3>1, <2>2, WithoutOne
  <2>4. j + own = i
    <3>1. j \in Plain!Named(v, n)
      BY <2>3 DEF Plain!Named
    <3>2. j + own \in Under!Named(ats, Remap(n))
      BY <3>1, ViewNamed DEF v
    <3> QED BY <2>1, <3>2 DEF Under!Named, GoodAttrs, Distinct, r
  <2>5. Len(u) = Len(ats) - 1
    BY <1>1, <2>1
  <2>6. ASSUME NEW x \in 1 .. Len(v) - 1
        PROVE  w[x] = [name |-> Shown(u[x + own].name), corder |-> u[x + own].corder - own]
    <3> HIDE DEF own
    <3>1. /\ x \in Nat /\ x \in 1 .. Len(ats) - own /\ x + 1 \in 1 .. Len(ats) - own
      <4>1. Len(v) = Len(ats) - own /\ Len(v) \in Nat
        BY <1>1
      <4>2. x \in 1 .. Len(v) /\ x + 1 \in 1 .. Len(v)
        BY <4>1
      <4> QED BY <4>1, <4>2
    <3>2. x + own \in 1 .. Len(ats) - 1 /\ x + own + 1 = x + 1 + own
      BY <1>1
    <3>3. x < j <=> x + own < i
      <4>1. own \in Nat /\ j \in Nat /\ x \in Nat
        BY <1>1, <3>1
      <4>2. x < j <=> x + own < j + own
        BY <4>1
      <4> QED BY <2>4, <4>2
    <3>4. CASE x < j
      <4>1. w[x] = v[x] /\ u[x + own] = ats[x + own]
        BY <2>1, <2>3, <3>2, <3>3, <3>4
      <4> QED BY <1>1, <3>1, <4>1
    <3>5. CASE ~(x < j)
      <4>1. w[x] = v[x + 1] /\ u[x + own] = ats[x + 1 + own]
        BY <2>1, <2>3, <3>2, <3>3, <3>5
      <4> QED BY <1>1, <3>1, <4>1
    <3> QED BY <3>4, <3>5
  <2>7. Len(u) - own = Len(v) - 1 /\ w = [x \in 1 .. Len(v) - 1 |-> w[x]]
    BY <1>1, <2>3, <2>5
  <2> HIDE DEF u, w
  <2>8. View(o, u) = w
    BY <2>6, <2>7 DEF View
  <2> QED BY <2>8, SameWithout DEF u, w, v, r
<1> QED BY <1>2, <1>3

LEMMA ViewRenamed ==
    ASSUME use \in Uses, NEW o \in Objects, NEW ats, GoodAttrs(o, ats), NEW n \in use.names,
           NEW m \in use.names, Remap(n) = n, Remap(m) = m
    PROVE  View(o, Renamed(ats, n, m)) = Renamed(View(o, ats), n, m)
<1> DEFINE v == View(o, ats)
           own == Own1(o)
           t == Renamed(ats, n, m)
           w == Renamed(v, n, m)
<1>1. /\ own \in Nat /\ Len(ats) \in Nat /\ Len(ats) >= own /\ ats \in Seq(Attr)
      /\ Len(v) = Len(ats) - own
      /\ \A x \in 1 .. Len(ats) - own :
            /\ x + own \in 1 .. Len(ats) /\ ats[x + own] \in Attr
            /\ v[x] = [name |-> Shown(ats[x + own].name), corder |-> ats[x + own].corder - own]
  BY ViewBasics DEF GoodAttrs
<1>2. \A x \in 1 .. Len(ats) - own : v[x].name = n <=> ats[x + own].name = n
  BY ViewNames
<1>3. Shown(m) = m
  BY RemapLeavesOwn
<1>4. /\ t = [x \in 1 .. Len(ats) |->
                IF ats[x].name = n THEN [ats[x] EXCEPT !.name = m] ELSE ats[x]]
      /\ w = [x \in 1 .. Len(v) |-> IF v[x].name = n THEN [v[x] EXCEPT !.name = m] ELSE v[x]]
  BY DEF Renamed
<1> HIDE DEF v, own, t, w
<1>5. Len(t) = Len(ats) /\ w = [x \in 1 .. Len(ats) - own |-> w[x]]
  BY <1>1, <1>4
<1>6. ASSUME NEW x \in 1 .. Len(ats) - own
      PROVE  [name |-> Shown(t[x + own].name), corder |-> t[x + own].corder - own] = w[x]
  <2>1. CASE ats[x + own].name = n
    <3>1. t[x + own] = [ats[x + own] EXCEPT !.name = m]
      BY <1>1, <1>4, <2>1
    <3>2. t[x + own].name = m /\ t[x + own].corder = ats[x + own].corder
      BY <1>1, <3>1 DEF Attr
    <3>3. w[x] = [v[x] EXCEPT !.name = m]
      BY <1>1, <1>2, <1>4, <2>1
    <3>4. w[x] = [name |-> m, corder |-> ats[x + own].corder - own]
      BY <1>1, <3>3
    <3> QED BY <1>3, <3>2, <3>4
  <2>2. CASE ats[x + own].name # n
    <3>1. t[x + own] = ats[x + own] /\ w[x] = v[x]
      BY <1>1, <1>2, <1>4, <2>2
    <3> QED BY <1>1, <3>1
  <2> QED BY <2>1, <2>2
<1>7. View(o, t) = w
  BY <1>5, <1>6 DEF View, own
<1> QED BY <1>7 DEF v, t, w
-----------------------------------------------------------------------------
(***************************************************************************)
(* Alphabetic order has one attribute at every position.                   *)
(***************************************************************************)
LEMMA EarlierOrders ==
    ASSUME NEW ats \in Seq(Attr)
    PROVE  /\ \A x, y \in 1 .. Len(ats) :
                x # y => x \in Under!Earlier(ats, y) \/ y \in Under!Earlier(ats, x)
           /\ \A x \in 1 .. Len(ats) : x \notin Under!Earlier(ats, x)
           /\ \A x, y \in 1 .. Len(ats) :
                x \in Under!Earlier(ats, y) => Under!Earlier(ats, x) \subseteq Under!Earlier(ats, y)
<1> DEFINE us(x) == ats[x].name.us
           up(x) == ats[x].name.b \in Upper
           bef(x, y) == \/ us(x) = us(y) /\ up(x) /\ ~up(y)
                        \/ us(x) < us(y) /\ up(x)
                        \/ us(x) > us(y) /\ ~up(y)
           earl(x, y) == bef(x, y) \/ (x < y /\ ~bef(y, x))
<1>1. ASSUME NEW x \in 1 .. Len(ats) PROVE us(x) \in Nat
  <2>1. ats[x] \in Attr
    OBVIOUS
  <2>2. ats[x].name \in StoredName
    BY <2>1 DEF Attr
  <2>3. \A n \in Names : [n EXCEPT !.us = @ + 1].us \in Nat /\ n.us \in Nat
    <3>1. ASSUME NEW n \in Names PROVE [n EXCEPT !.us = @ + 1].us \in Nat /\ n.us \in Nat
      <4>1. n.us \in Nat /\ n = [us |-> n.us, b |-> n.b]
        BY NamesAssumption
      <4>2. [n EXCEPT !.us = @ + 1].us = n.us + 1
        BY <4>1
      <4> QED BY <4>1, <4>2
    <3> QED BY <3>1
  <2>4. \A b : Own(b).us \in Nat
    BY DEF Own
  <2>5. \A n \in StoredName : n.us \in Nat
    BY <2>3, <2>4 DEF StoredName
  <2> QED BY <2>2, <2>5
<1>2. \A x, y \in 1 .. Len(ats) : x \in Under!Earlier(ats, y) <=> earl(x, y)
  BY DEF Under!Earlier, Under!Before
<1> DEFINE D == 1 .. Len(ats)
<1>3. D \subseteq Nat
  OBVIOUS
<1> HIDE DEF us, up, D
<1>4. \A x, y \in D : x # y => earl(x, y) \/ earl(y, x)
  BY <1>1, <1>3 DEF D
<1>5. \A x \in D : ~earl(x, x)
  BY <1>1, <1>3 DEF D
<1>6. ASSUME NEW x \in D, NEW y \in D, NEW z \in D, earl(x, y), earl(y, z) PROVE earl(x, z)
  <2>1. us(x) \in Nat /\ us(y) \in Nat /\ us(z) \in Nat /\ x \in Nat /\ y \in Nat /\ z \in Nat
    BY <1>1, <1>3 DEF D
  <2> QED BY <1>6, <2>1
<1> HIDE DEF earl
<1>7. \A y : Under!Earlier(ats, y) \subseteq D
  BY DEF Under!Earlier, D
<1> QED BY <1>2, <1>4, <1>5, <1>6, <1>7 DEF D

\* Exactly k attributes come before the one at position k.
LEMMA PositionExists ==
    ASSUME NEW ats \in Seq(Attr), NEW k \in 0 .. Len(ats) - 1
    PROVE  \E x \in 1 .. Len(ats) : Cardinality(Under!Earlier(ats, x)) = k
<1> DEFINE L == Len(ats)
           E(x) == Under!Earlier(ats, x)
           f == [x \in 1 .. L |-> Cardinality(E(x))]
<1>1. L \in Nat
  OBVIOUS
<1>2. /\ \A x, y \in 1 .. L : x # y => x \in E(y) \/ y \in E(x)
      /\ \A x \in 1 .. L : x \notin E(x)
      /\ \A x, y \in 1 .. L : x \in E(y) => E(x) \subseteq E(y)
  BY EarlierOrders
<1>3. \A x : E(x) \subseteq 1 .. L
  BY DEF Under!Earlier
<1> HIDE DEF L, E
<1>4. IsFiniteSet(1 .. L) /\ Cardinality(1 .. L) = L
  BY <1>1, FS_Interval
<1>5. ASSUME NEW x \in 1 .. L
      PROVE  IsFiniteSet(E(x)) /\ Cardinality(E(x)) \in 0 .. L - 1
  <2>1. E(x) \subseteq (1 .. L) \ {x}
    BY <1>2, <1>3
  <2>2. IsFiniteSet((1 .. L) \ {x}) /\ Cardinality((1 .. L) \ {x}) = L - 1
    BY <1>4, FS_RemoveElement
  <2>3. IsFiniteSet(E(x)) /\ Cardinality(E(x)) <= L - 1
    BY <2>1, <2>2, FS_Subset
  <2>4. Cardinality(E(x)) \in Nat
    BY <2>3, FS_CardinalityType
  <2> QED BY <1>1, <2>3, <2>4
<1>6. ASSUME NEW x \in 1 .. L, NEW y \in 1 .. L, x \in E(y)
      PROVE  Cardinality(E(x)) # Cardinality(E(y))
  <2>1. E(x) \subseteq E(y) /\ x \notin E(x) /\ IsFiniteSet(E(y))
    BY <1>2, <1>5, <1>6
  <2> QED BY <1>6, <2>1, FS_Subset
<1>7. f \in [1 .. L -> 0 .. L - 1]
  BY <1>5
<1>8. \A x, y \in 1 .. L : f[x] = f[y] => x = y
  BY <1>2, <1>6
<1>9. f \in Injection(1 .. L, 0 .. L - 1)
  <2> HIDE DEF f
  <2> QED BY <1>7, <1>8 DEF Injection, IsInjective
<1>10. IsFiniteSet(0 .. L - 1) /\ Cardinality(0 .. L - 1) = L
  <2>1. 0 \in Int /\ L - 1 \in Int
    BY <1>1
  <2>2. /\ IsFiniteSet(0 .. L - 1)
        /\ Cardinality(0 .. L - 1) = IF 0 > L - 1 THEN 0 ELSE L - 1 - 0 + 1
    BY <2>1, FS_Interval
  <2> QED BY <1>1, <2>2
<1>11. f \in Surjection(1 .. L, 0 .. L - 1)
  <2> HIDE DEF f
  <2> QED BY <1>4, <1>9, <1>10, FS_Injection
<1>12. k \in 0 .. L - 1
  BY DEF L
<1>13. PICK x \in 1 .. L : f[x] = k
  <2> HIDE DEF f
  <2> QED BY <1>11, <1>12 DEF Surjection
<1> QED BY <1>13 DEF L, E

\* The attribute at a position counted by age, below the connector and above.
LEMMA NthByAge ==
    ASSUME use \in Uses, NEW o \in Objects, NEW ats, GoodAttrs(o, ats), NEW dir \in {"inc", "dec"},
           NEW k \in Nat, k < Len(ats) - Own1(o)
    PROVE  LET j == IF dir = "inc" THEN k + Own1(o) ELSE k
               u == Under!NthAttr(ats, "crt", dir, j)
               p == Plain!NthAttr(View(o, ats), "crt", dir, k)
           IN  /\ j < Len(ats) /\ u.corder \in Nat
               /\ p = [name |-> Shown(u.name), corder |-> u.corder - Own1(o)]
               /\ \E n \in use.names : u.name = Remap(n) /\ p.name = n
<1> DEFINE own == Own1(o)
           j == IF dir = "inc" THEN k + own ELSE k
           x == (IF dir = "inc" THEN k ELSE Len(ats) - own - 1 - k) + 1
           v == View(o, ats)
<1>1. /\ own \in Nat /\ Len(ats) \in Nat /\ Len(v) = Len(ats) - own
      /\ \A y \in 1 .. Len(ats) - own :
           /\ ats[y + own] \in Attr
           /\ v[y] = [name |-> Shown(ats[y + own].name), corder |-> ats[y + own].corder - own]
           /\ \E n \in use.names : ats[y + own].name = Remap(n) /\ v[y].name = n
  BY ViewBasics
<1> HIDE DEF own, v
<1>2. k < Len(ats) - own
  BY DEF own
<1>3. x \in 1 .. Len(ats) - own /\ j < Len(ats) /\ j \in Nat
  BY <1>1, <1>2
<1>4. Plain!NthAttr(v, "crt", dir, k) = v[x]
  BY <1>1 DEF Plain!NthAttr
<1>5. Under!NthAttr(ats, "crt", dir, j) = ats[x + own]
  <2>1. x + own = (IF dir = "inc" THEN j ELSE Len(ats) - 1 - j) + 1
    BY <1>1
  <2> HIDE DEF x, j
  <2> QED BY <2>1 DEF Under!NthAttr
<1> HIDE DEF x, j
<1>6. ats[x + own].corder \in Nat
  BY <1>1, <1>3 DEF Attr
<1> QED BY <1>1, <1>3, <1>4, <1>5, <1>6 DEF v, j, own

\* In a file that is not log-based nothing is the connector's.
LEMMA ViewAll ==
    ASSUME use \in Uses, ~use.logBased, NEW o \in Objects, NEW ats \in Seq(Attr)
    PROVE  Own1(o) = 0 /\ View(o, ats) = ats
<1>1. OwnAttrs(o) = <<>>
  BY DEF OwnAttrs
<1>2. Own1(o) = 0
  BY <1>1 DEF Own1
<1>3. ASSUME NEW x \in 1 .. Len(ats)
      PROVE  [name |-> Shown(ats[x + 0].name), corder |-> ats[x + 0].corder - 0] = ats[x]
  <2>1. ats[x] \in Attr /\ x + 0 = x
    OBVIOUS
  <2>2. Shown(ats[x].name) = ats[x].name
    BY DEF Shown
  <2>3. ats[x].corder - 0 = ats[x].corder
    BY <2>1 DEF Attr
  <2> QED BY <2>1, <2>2, <2>3 DEF Attr
<1>4. View(o, ats) = [x \in 1 .. Len(ats) |->
                        [name |-> Shown(ats[x + 0].name), corder |-> ats[x + 0].corder - 0]]
  BY <1>2 DEF View
<1>5. View(o, ats) = [x \in 1 .. Len(ats) |-> ats[x]]
  BY <1>3, <1>4, Zenon
<1>6. ats = [x \in 1 .. Len(ats) |-> ats[x]]
  OBVIOUS
<1> QED BY <1>2, <1>5, <1>6, Zenon

LEMMA NthIsThere ==
    ASSUME NEW ats \in Seq(Attr), NEW order, NEW dir, NEW k \in Nat, k < Len(ats)
    PROVE  \E x \in 1 .. Len(ats) : Under!NthAttr(ats, order, dir, k) = ats[x]
<1> DEFINE j == IF dir = "inc" THEN k ELSE Len(ats) - 1 - k
           x == CHOOSE x \in 1 .. Len(ats) : Cardinality(Under!Earlier(ats, x)) = j
<1>1. j \in 0 .. Len(ats) - 1 /\ j + 1 \in 1 .. Len(ats)
  OBVIOUS
<1> HIDE DEF j
<1>2. x \in 1 .. Len(ats)
  BY <1>1, PositionExists
<1> HIDE DEF x
<1>3. Under!NthAttr(ats, order, dir, k) = IF order = "crt" THEN ats[j + 1] ELSE ats[x]
  BY Zenon DEF Under!NthAttr, j, x, Under!Cardinality, Cardinality
<1> QED BY <1>1, <1>2, <1>3

LEMMA NthExists ==
    ASSUME NEW ats \in Seq(Attr), NEW order, NEW dir, NEW k \in Nat, k < Len(ats)
    PROVE  /\ Under!NthAttr(ats, order, dir, k) \in Attr
           /\ Plain!NthAttr(ats, order, dir, k) = Under!NthAttr(ats, order, dir, k)
<1>1. Under!NthAttr(ats, order, dir, k) \in Attr
  BY NthIsThere
<1>2. Plain!NthAttr(ats, order, dir, k) = Under!NthAttr(ats, order, dir, k)
  BY Zenon DEF Plain!NthAttr, Under!NthAttr, Plain!Earlier, Under!Earlier, Plain!Before,
    Under!Before, Plain!Cardinality, Under!Cardinality
<1> QED BY <1>1, <1>2
-----------------------------------------------------------------------------
(***************************************************************************)
(* What an iteration over names tells the application                      *)
(***************************************************************************)
LEMMA LeastElement ==
    ASSUME NEW T \in SUBSET Nat, T # {}
    PROVE  \E m \in T : \A n \in T : m <= n
<1> DEFINE R == OpToRel(<, Nat)
<1>1. IsWellFoundedOn(R, Nat) /\ \A x, y \in Nat : <<y, x>> \in R <=> y < x
  BY NatLessThanWellFounded DEF OpToRel
<1> HIDE DEF R
<1>2. PICK m \in T : \A n \in T : ~(<<n, m>> \in R)
  BY <1>1, WFMin
<1>3. ASSUME NEW n \in T PROVE m <= n
  <2>1. m \in Nat /\ n \in Nat /\ ~(n < m)
    BY <1>1, <1>2
  <2> QED BY <2>1
<1> QED BY <1>3

\* The definition of Told, as an equation.
LEMMA ToldFunction ==
    ASSUME NEW names,
           \E f : f = [k \in 0 .. Len(names) |->
                        IF k = 0 THEN <<>>
                        ELSE IF Hidden(names[k]) THEN f[k - 1]
                        ELSE Append(f[k - 1], Shown(names[k]))]
    PROVE  \E f : /\ f = [k \in 0 .. Len(names) |->
                            IF k = 0 THEN <<>>
                            ELSE IF Hidden(names[k]) THEN f[k - 1]
                            ELSE Append(f[k - 1], Shown(names[k]))]
                  /\ Told(names) = f[Len(names)]
  BY DEF Told

\* Names of which the first are hidden and the others are not.
LEMMA ToldRest ==
    ASSUME NEW names, NEW own \in Nat, Len(names) \in Nat, own <= Len(names),
           \A x \in 1 .. own : Hidden(names[x]),
           \A x \in own + 1 .. Len(names) : ~Hidden(names[x])
    PROVE  Told(names) = [x \in 1 .. Len(names) - own |-> Shown(names[x + own])]
<1> DEFINE L == Len(names)
           rest(k) == [x \in 1 .. k - own |-> Shown(names[x + own])]
           g == [k \in 0 .. L |-> rest(k)]
<1>1. ASSUME NEW k \in 0 .. L, k <= own PROVE rest(k) = <<>>
  <2>1. 1 .. k - own = {}
    BY <1>1
  <2> QED BY <2>1
<1>2. ASSUME NEW k \in 1 .. L, k > own
      PROVE  rest(k) = Append(rest(k - 1), Shown(names[k]))
  <2> DEFINE S == {Shown(names[x]) : x \in own + 1 .. L}
             r == rest(k - 1)
             e == Shown(names[k])
             t == Append(r, e)
  <2>1. k - 1 - own \in Nat /\ k \in own + 1 .. L
    BY <1>2
  <2>2. \A x \in 1 .. k - 1 - own : x + own \in own + 1 .. L
    BY <1>2
  <2>3. r \in Seq(S) /\ Len(r) = k - 1 - own /\ e \in S
    <3>1. \A x \in 1 .. k - 1 - own : r[x] \in S
      BY <2>2
    <3>2. r = [x \in 1 .. k - 1 - own |-> r[x]]
      OBVIOUS
    <3> DEFINE i == k - 1 - own
    <3>3. i \in Nat /\ r = [x \in 1 .. i |-> r[x]] /\ \A x \in 1 .. i : r[x] \in S
      BY <2>1, <3>1, <3>2
    <3>4. e \in S
      BY <2>1
    <3> HIDE DEF r, i, S, e
    <3>5. r \in Seq(S) /\ Len(r) = i
      BY <3>3
    <3> QED BY <3>4, <3>5 DEF i
  <2>4. \A x \in 1 .. k - 1 - own : r[x] = Shown(names[x + own])
    OBVIOUS
  <2> HIDE DEF S, r, e
  <2>5. /\ t \in Seq(S) /\ Len(t) = k - own /\ t[k - own] = e
        /\ \A x \in 1 .. k - 1 - own : t[x] = r[x]
    <3>1. /\ t \in Seq(S) /\ Len(t) = Len(r) + 1 /\ t[Len(r) + 1] = e
          /\ \A x \in 1 .. Len(r) : t[x] = r[x]
      BY <2>3, AppendProperties
    <3>2. Len(r) + 1 = k - own
      BY <2>1, <2>3
    <3> QED BY <2>3, <3>1, <3>2
  <2> HIDE DEF t
  <2>6. ASSUME NEW x \in 1 .. k - own PROVE t[x] = Shown(names[x + own])
    <3>1. CASE x = k - own
      BY <1>2, <2>5, <3>1 DEF e
    <3>2. CASE x # k - own
      <4>1. x \in 1 .. k - 1 - own
        BY <1>2, <3>2
      <4> QED BY <2>4, <2>5, <4>1
    <3> QED BY <3>1, <3>2
  <2>7. t = [x \in 1 .. k - own |-> t[x]]
    BY <2>5
  <2>8. t = rest(k)
    BY <2>6, <2>7
  <2> QED BY <2>8 DEF t, r, e
<1>3. ASSUME NEW k \in 0 .. L
      PROVE  rest(k) = IF k = 0 THEN <<>>
                       ELSE IF Hidden(names[k]) THEN rest(k - 1)
                       ELSE Append(rest(k - 1), Shown(names[k]))
  <2>1. CASE k = 0
    BY <1>1, <2>1
  <2>2. CASE k # 0 /\ k <= own
    <3>1. k \in 1 .. own /\ k - 1 \in 0 .. L /\ k - 1 <= own
      BY <2>2
    <3>2. rest(k) = <<>> /\ rest(k - 1) = <<>>
      BY <1>1, <2>2, <3>1
    <3> HIDE DEF rest
    <3> QED BY <2>2, <3>1, <3>2
  <2>3. CASE k # 0 /\ k > own
    <3>1. k \in 1 .. L /\ k \in own + 1 .. L
      BY <2>3
    <3> HIDE DEF rest
    <3> QED BY <1>2, <2>3, <3>1
  <2> QED BY <2>1, <2>2, <2>3
<1> HIDE DEF rest
<1>4. \A k \in 1 .. L : k - 1 \in 0 .. L
  OBVIOUS
<1>5. g = [k \in 0 .. L |-> IF k = 0 THEN <<>>
                            ELSE IF Hidden(names[k]) THEN g[k - 1]
                            ELSE Append(g[k - 1], Shown(names[k]))]
  BY <1>3, <1>4
<1>6. PICK f : /\ f = [k \in 0 .. L |-> IF k = 0 THEN <<>>
                                        ELSE IF Hidden(names[k]) THEN f[k - 1]
                                        ELSE Append(f[k - 1], Shown(names[k]))]
               /\ Told(names) = f[L]
  BY <1>5, ToldFunction
<1>7. \A k \in 0 .. L : f[k] = rest(k)
  <2> DEFINE T == {k \in 0 .. L : f[k] # rest(k)}
  <2> SUFFICES ASSUME T # {} PROVE FALSE
    OBVIOUS
  <2>1. PICK m \in T : \A n \in T : m <= n
    <3>1. T \in SUBSET Nat
      OBVIOUS
    <3> HIDE DEF T
    <3> QED BY <3>1, LeastElement
  <2>2. m \in 0 .. L /\ f[m] # rest(m)
    OBVIOUS
  <2>3. m # 0 => m - 1 \in 0 .. L /\ f[m - 1] = rest(m - 1)
    BY <2>1, <2>2
  <2>4. f[m] = IF m = 0 THEN <<>>
               ELSE IF Hidden(names[m]) THEN f[m - 1]
               ELSE Append(f[m - 1], Shown(names[m]))
    BY <1>6, <2>2
  <2> QED BY <1>3, <2>2, <2>3, <2>4
<1>8. L \in 0 .. L
  OBVIOUS
<1> QED BY <1>6, <1>7, <1>8 DEF rest
-----------------------------------------------------------------------------
(***************************************************************************)
(* Links as the application sees them                                      *)
(***************************************************************************)
LEMMA LinkNames ==
    ASSUME use \in Uses, NEW g \in {Root, Group}, NEW ls, GoodLinks(g, ls)
    PROVE  \A l \in ls :
             \/ l \in OwnLinks(g) /\ Hidden(l.name)
             \/ ~Hidden(l.name) /\ \E n \in use.names : l.name = Remap(n) /\ Shown(l.name) = n
<1> SUFFICES ASSUME NEW l \in ls
             PROVE  \/ l \in OwnLinks(g) /\ Hidden(l.name)
                    \/ ~Hidden(l.name)
                       /\ \E n \in use.names : l.name = Remap(n) /\ Shown(l.name) = n
  OBVIOUS
<1>1. CASE l \in OwnLinks(g)
  <2>1. use.logBased /\ l.name = Own("LOG")
    BY <1>1 DEF OwnLinks
  <2> QED BY <1>1, <2>1 DEF Hidden, Own
<1>2. CASE l \notin OwnLinks(g)
  <2>1. PICK n \in use.names : l.name = Remap(n)
    BY <1>2 DEF GoodLinks, SharedLinks
  <2> QED BY <2>1, RemapLeavesOwn
<1> QED BY <1>1, <1>2

\* The application's name of a link is stored as Remap of it.
LEMMA LinkNamed ==
    ASSUME use \in Uses, NEW g \in {Root, Group}, NEW ls, GoodLinks(g, ls), NEW n \in use.names
    PROVE  \A l \in ls : l.name = Remap(n) <=> ~Hidden(l.name) /\ Shown(l.name) = n
<1> SUFFICES ASSUME NEW l \in ls
             PROVE  l.name = Remap(n) <=> ~Hidden(l.name) /\ Shown(l.name) = n
  OBVIOUS
<1>1. CASE l.name = Remap(n)
  BY <1>1, RemapLeavesOwn
<1>2. CASE ~Hidden(l.name) /\ Shown(l.name) = n
  BY <1>2, LinkNames
<1> QED BY <1>1, <1>2

LEMMA ViewLink ==
    ASSUME NEW ls
    PROVE  /\ \A l \in ls : ~Hidden(l.name) =>
                [name |-> Shown(l.name), id |-> l.id] \in ViewLinks(ls)
           /\ \A v \in ViewLinks(ls) : \E l \in ls :
                ~Hidden(l.name) /\ v = [name |-> Shown(l.name), id |-> l.id]
  BY DEF ViewLinks

LEMMA ViewLinkTo ==
    ASSUME use \in Uses, NEW g \in {Root, Group}, NEW ls, GoodLinks(g, ls), NEW n \in use.names
    PROVE  Plain!LinkTo(ViewLinks(ls), n) = Under!LinkTo(ls, Remap(n))
<1> DEFINE vs == ViewLinks(ls)
<1>1. \A l \in ls : l.name = Remap(n) <=> ~Hidden(l.name) /\ Shown(l.name) = n
  BY LinkNamed
<1>2. \A k, l \in ls : k.name = l.name => k = l
  BY DEF GoodLinks, DistinctLinks
<1>3. /\ \A l \in ls : ~Hidden(l.name) => [name |-> Shown(l.name), id |-> l.id] \in vs
      /\ \A v \in vs : \E l \in ls : ~Hidden(l.name) /\ v = [name |-> Shown(l.name), id |-> l.id]
  BY ViewLink
<1> HIDE DEF vs
<1>4. CASE \E l \in ls : l.name = Remap(n)
  <2> DEFINE l == CHOOSE l \in ls : l.name = Remap(n)
             v == CHOOSE v \in vs : v.name = n
  <2>1. l \in ls /\ l.name = Remap(n) /\ Under!LinkTo(ls, Remap(n)) = l.id
    BY <1>4 DEF Under!LinkTo
  <2> HIDE DEF l
  <2>2. [name |-> Shown(l.name), id |-> l.id] \in vs /\ Shown(l.name) = n
    BY <1>1, <1>3, <2>1
  <2>3. \E w \in vs : w.name = n
    BY <2>2
  <2>4. v \in vs /\ v.name = n /\ Plain!LinkTo(vs, n) = v.id
    BY <2>3 DEF Plain!LinkTo
  <2> HIDE DEF v
  <2>5. PICK k \in ls : ~Hidden(k.name) /\ v = [name |-> Shown(k.name), id |-> k.id]
    BY <1>3, <2>4
  <2>6. k.name = Remap(n)
    BY <1>1, <2>4, <2>5
  <2>7. k = l
    BY <1>2, <2>1, <2>6
  <2> QED BY <2>1, <2>4, <2>5, <2>7 DEF vs
<1>5. CASE ~\E l \in ls : l.name = Remap(n)
  <2>1. ~\E v \in vs : v.name = n
    <3> SUFFICES ASSUME NEW v \in vs, v.name = n PROVE FALSE
      OBVIOUS
    <3>1. PICK k \in ls : ~Hidden(k.name) /\ v = [name |-> Shown(k.name), id |-> k.id]
      BY <1>3
    <3> QED BY <1>1, <1>5, <3>1
  <2> QED BY <1>5, <2>1 DEF Plain!LinkTo, Under!LinkTo, Plain!Failed, Under!Failed, vs
<1> QED BY <1>4, <1>5

LEMMA ViewLinkAdded ==
    ASSUME use \in Uses, NEW n \in use.names, NEW ls, NEW i
    PROVE  ViewLinks(ls \cup {[name |-> Remap(n), id |-> i]}) =
             ViewLinks(ls) \cup {[name |-> n, id |-> i]}
<1> DEFINE e == [name |-> Remap(n), id |-> i]
<1>1. ~Hidden(e.name) /\ Shown(e.name) = n /\ e.id = i
  BY RemapLeavesOwn
<1> HIDE DEF e
<1>2. ViewLinks(ls \cup {e}) = ViewLinks(ls) \cup {[name |-> n, id |-> i]}
  BY <1>1 DEF ViewLinks
<1> QED BY <1>2 DEF e

LEMMA ViewLinkCut ==
    ASSUME use \in Uses, NEW g \in {Root, Group}, NEW ls, GoodLinks(g, ls), NEW n \in use.names
    PROVE  ViewLinks({l \in ls : l.name # Remap(n)}) = {v \in ViewLinks(ls) : v.name # n}
<1>1. \A l \in ls : ~Hidden(l.name) => (l.name = Remap(n) <=> Shown(l.name) = n)
  BY LinkNamed
<1> QED BY <1>1 DEF ViewLinks

\* The names of an iteration.
LEMMA ViewLinkSet ==
    ASSUME NEW ls
    PROVE  {Shown(n) : n \in {m \in {l.name : l \in ls} : ~Hidden(m)}} =
             {v.name : v \in ViewLinks(ls)}
<1> DEFINE S == {Shown(n) : n \in {m \in {l.name : l \in ls} : ~Hidden(m)}}
           T == {v.name : v \in ViewLinks(ls)}
<1>1. ASSUME NEW x \in S PROVE x \in T
  <2>1. PICK l \in ls : ~Hidden(l.name) /\ x = Shown(l.name)
    OBVIOUS
  <2>2. [name |-> Shown(l.name), id |-> l.id] \in ViewLinks(ls)
    BY <2>1, ViewLink
  <2>3. [name |-> Shown(l.name), id |-> l.id].name = x
    BY <2>1
  <2> QED BY <2>2, <2>3
<1>2. ASSUME NEW x \in T PROVE x \in S
  <2>1. PICK v \in ViewLinks(ls) : x = v.name
    OBVIOUS
  <2>2. PICK l \in ls : ~Hidden(l.name) /\ v = [name |-> Shown(l.name), id |-> l.id]
    BY ViewLink
  <2>3. x = Shown(l.name)
    BY <2>1, <2>2
  <2> QED BY <2>2, <2>3
<1> QED BY <1>1, <1>2

LEMMA ViewLinksAll ==
    ASSUME ~use.logBased, NEW ls \in SUBSET Link
    PROVE  ViewLinks(ls) = ls
<1>1. ASSUME NEW l \in ls
      PROVE  ~Hidden(l.name) /\ l = [name |-> Shown(l.name), id |-> l.id]
  BY DEF Hidden, Shown, Link
<1> QED BY <1>1 DEF ViewLinks
-----------------------------------------------------------------------------
(***************************************************************************)
(* The state the refinement is about                                       *)
(***************************************************************************)
Seen == TypeInv /\ OwnIntact /\ NamesShared /\ Unseen(use)

LEMMA SeenAttrs ==
    ASSUME Seen, NEW o \in Objects
    PROVE  /\ use \in Uses /\ GoodAttrs(o, attrs[o]) /\ attrs[o] \in Seq(Attr)
           /\ attrs \in [Objects -> Seq(Attr)] /\ made \in [Objects -> Nat]
           /\ UserAttrs[o] = View(o, attrs[o]) /\ UserMade[o] = made[o] - Own1(o)
           /\ Own1(o) \in Nat
<1>1. /\ use \in Uses /\ attrs \in [Objects -> Seq(Attr)] /\ made \in [Objects -> Nat]
      /\ Distinct(attrs[o])
  BY TypeParts DEF Seen
<1>2. OwnFirst(o, attrs[o]) /\ SharedAttrs(o, attrs[o])
  BY OwnParts DEF Seen, NamesShared
<1>3. Own1(o) \in Nat
  BY <1>1, OwnNames
<1> QED BY <1>1, <1>2, <1>3 DEF GoodAttrs, UserAttrs, UserMade, View

LEMMA SeenLinks ==
    ASSUME Seen, NEW g \in {Root, Group}
    PROVE  /\ use \in Uses /\ GoodLinks(g, links[g]) /\ links[g] \in SUBSET Link
           /\ links \in [{Root, Group} -> SUBSET Link]
           /\ UserLinks[g] = ViewLinks(links[g])
<1>1. /\ use \in Uses /\ links \in [{Root, Group} -> SUBSET Link] /\ DistinctLinks(links[g])
  BY TypeParts DEF Seen
<1>2. OwnLinks(g) \subseteq links[g] /\ SharedLinks(g, links[g])
  BY OwnParts DEF Seen, NamesShared
<1> QED BY <1>1, <1>2 DEF GoodLinks, UserLinks, ViewLinks

LEMMA UserPrimed ==
    use' = use =>
      /\ UserAttrs' = [o \in Objects |-> View(o, attrs'[o])]
      /\ UserLinks' = [g \in {Root, Group} |-> ViewLinks(links'[g])]
      /\ UserMade' = [o \in Objects |-> made'[o] - Own1(o)]
<1> SUFFICES ASSUME use' = use
             PROVE  /\ UserAttrs' = [o \in Objects |-> View(o, attrs'[o])]
                    /\ UserLinks' = [g \in {Root, Group} |-> ViewLinks(links'[g])]
                    /\ UserMade' = [o \in Objects |-> made'[o] - Own1(o)]
  OBVIOUS
<1>1. UserAttrs' = [o \in Objects |-> View(o, attrs'[o])]
  BY DEF UserAttrs, View, Own1, OwnAttrs, Shown
<1>2. UserLinks' = [g \in {Root, Group} |-> ViewLinks(links'[g])]
  BY DEF UserLinks, ViewLinks, Shown, Hidden
<1>3. UserMade' = [o \in Objects |-> made'[o] - Own1(o)]
  BY DEF UserMade, Own1, OwnAttrs
<1> QED BY <1>1, <1>2, <1>3

\* What a change of the file is to the application.
LEMMA UserKept ==
    ASSUME use' = use
    PROVE  /\ attrs' = attrs => UserAttrs' = UserAttrs
           /\ links' = links => UserLinks' = UserLinks
           /\ made' = made => UserMade' = UserMade
<1>1. attrs' = attrs => UserAttrs' = UserAttrs
  BY UserPrimed DEF UserAttrs, View
<1>2. links' = links => UserLinks' = UserLinks
  BY UserPrimed DEF UserLinks, ViewLinks
<1>3. made' = made => UserMade' = UserMade
  BY UserPrimed DEF UserMade
<1> QED BY <1>1, <1>2, <1>3

LEMMA UserChanged ==
    ASSUME Seen, use' = use
    PROVE  /\ \A o \in Objects : \A ats :
                attrs' = [attrs EXCEPT ![o] = ats] =>
                  UserAttrs' = [UserAttrs EXCEPT ![o] = View(o, ats)]
           /\ \A o \in Objects :
                made' = [made EXCEPT ![o] = @ + 1] => UserMade' = [UserMade EXCEPT ![o] = @ + 1]
           /\ \A g \in {Root, Group} : \A ls :
                links' = [links EXCEPT ![g] = ls] =>
                  UserLinks' = [UserLinks EXCEPT ![g] = ViewLinks(ls)]
<1>1. ASSUME NEW o \in Objects, NEW ats, attrs' = [attrs EXCEPT ![o] = ats]
      PROVE  UserAttrs' = [UserAttrs EXCEPT ![o] = View(o, ats)]
  <2>1. attrs \in [Objects -> Seq(Attr)]
    BY SeenAttrs
  <2>2. \A p \in Objects : attrs'[p] = IF p = o THEN ats ELSE attrs[p]
    BY <1>1, <2>1
  <2>3. UserAttrs = [p \in Objects |-> View(p, attrs[p])]
    BY DEF UserAttrs, View
  <2>4. UserAttrs' = [p \in Objects |-> View(p, attrs'[p])]
    BY UserPrimed
  <2> QED BY <2>2, <2>3, <2>4
<1>2. ASSUME NEW o \in Objects, made' = [made EXCEPT ![o] = @ + 1]
      PROVE  UserMade' = [UserMade EXCEPT ![o] = @ + 1]
  <2>1. made \in [Objects -> Nat] /\ \A p \in Objects : Own1(p) \in Nat
    BY SeenAttrs
  <2>2. \A p \in Objects : made'[p] = IF p = o THEN made[p] + 1 ELSE made[p]
    BY <1>2, <2>1
  <2>3. UserMade = [p \in Objects |-> made[p] - Own1(p)]
    BY DEF UserMade
  <2>4. UserMade' = [p \in Objects |-> made'[p] - Own1(p)]
    BY UserPrimed
  <2>5. (made[o] + 1) - Own1(o) = made[o] - Own1(o) + 1
    BY <2>1
  <2>6. UserMade[o] = made[o] - Own1(o)
    BY <2>3
  <2>7. \A p \in Objects : made'[p] - Own1(p) = IF p = o THEN UserMade[o] + 1 ELSE UserMade[p]
    <3> SUFFICES ASSUME NEW p \in Objects
                 PROVE  made'[p] - Own1(p) = IF p = o THEN UserMade[o] + 1 ELSE UserMade[p]
      OBVIOUS
    <3>1. CASE p = o
      <4>1. made'[p] = made[o] + 1
        BY <2>2, <3>1
      <4>2. made'[p] - Own1(p) = (made[o] + 1) - Own1(o)
        BY <3>1, <4>1, Zenon
      <4>3. UserMade[o] + 1 = made[o] - Own1(o) + 1
        BY <2>6, Zenon
      <4> QED BY <2>5, <3>1, <4>2, <4>3, Zenon
    <3>2. CASE p # o
      <4>1. made'[p] = made[p] /\ UserMade[p] = made[p] - Own1(p)
        BY <2>2, <2>3, <3>2
      <4> QED BY <3>2, <4>1
    <3> QED BY <3>1, <3>2
  <2> QED BY <2>3, <2>4, <2>7
<1>3. ASSUME NEW g \in {Root, Group}, NEW ls, links' = [links EXCEPT ![g] = ls]
      PROVE  UserLinks' = [UserLinks EXCEPT ![g] = ViewLinks(ls)]
  <2>1. links \in [{Root, Group} -> SUBSET Link]
    BY SeenLinks
  <2>2. \A k \in {Root, Group} : links'[k] = IF k = g THEN ls ELSE links[k]
    BY <1>3, <2>1
  <2>3. UserLinks = [k \in {Root, Group} |-> ViewLinks(links[k])]
    BY DEF UserLinks, ViewLinks
  <2>4. UserLinks' = [k \in {Root, Group} |-> ViewLinks(links'[k])]
    BY UserPrimed
  <2> QED BY <2>2, <2>3, <2>4
<1> QED BY <1>1, <1>2, <1>3

\* The positions skipped are those of the connector's attributes.
LEMMA SkipsOwn ==
    ASSUME use \in Uses, Unseen(use), NEW h \in use.handles
    PROVE  Skip(h) = Own1(h.obj)
<1>1. h \in Handle
  BY HandlesObject
<1>2. CASE ~use.logBased
  <2>1. h.type = "group" /\ OwnAttrs(h.obj) = <<>>
    BY <1>2 DEF Unseen, OwnAttrs
  <2>2. Skip(h) = 0 /\ Own1(h.obj) = 0
    BY <2>1 DEF Skip, Own1
  <2> QED BY <2>2
<1>3. CASE use.logBased
  <2>1. h # [obj |-> Root, type |-> "group"]
    BY <1>3 DEF Unseen
  <2>2. CASE h = [obj |-> Root, type |-> "file"]
    <3>1. h.type = "file" /\ OwnAttrs(h.obj) = <<Own("int_att")>>
      BY <1>3, <2>2, ObjectsAssumption DEF OwnAttrs
    <3>2. Skip(h) = 1 /\ Own1(h.obj) = 1
      BY <3>1 DEF Skip, Own1
    <3> QED BY <3>2
  <2>3. CASE h = [obj |-> Group, type |-> "group"]
    <3>1. h.type = "group" /\ OwnAttrs(h.obj) = <<>>
      BY <2>3, ObjectsAssumption DEF OwnAttrs
    <3>2. Skip(h) = 0 /\ Own1(h.obj) = 0
      BY <3>1 DEF Skip, Own1
    <3> QED BY <3>2
  <2>4. CASE h = [obj |-> Dataset, type |-> "dataset"]
    <3>1. h.type = "dataset" /\ OwnAttrs(h.obj) = <<Own("dims"), Own("mdims"), Own("ID")>>
      BY <1>3, <2>4, ObjectsAssumption DEF OwnAttrs
    <3>2. Skip(h) = 3 /\ Own1(h.obj) = 3
      BY <3>1 DEF Skip, Own1
    <3> QED BY <3>2
  <2> QED BY <1>1, <2>1, <2>2, <2>3, <2>4 DEF Handle
<1> QED BY <1>2, <1>3
-----------------------------------------------------------------------------
(***************************************************************************)
(* Each call on attributes is the library's, as the application sees it.   *)
(***************************************************************************)
LEMMA ReadsOnly ==
    ASSUME use' = use, UNCHANGED <<attrs, made, links, nobj>>
    PROVE  Plain!NoChange
  BY UserKept DEF Plain!NoChange

LEMMA PlainAttrCreate ==
    ASSUME Seen, use' = use, NEW h \in use.handles, NEW n \in use.names, AttrCreate(h, n)
    PROVE  Plain!AttrCreate(h.obj, n)
<1> DEFINE o == h.obj
           own == Own1(o)
<1>1. /\ o \in Objects /\ use \in Uses /\ own \in Nat /\ attrs[o] \in Seq(Attr)
      /\ GoodAttrs(o, attrs[o]) /\ made[o] \in Nat
      /\ UserAttrs[o] = View(o, attrs[o]) /\ UserMade[o] = made[o] - own
  BY SeenAttrs, HandlesObject DEF Seen, TypeInv
<1>2. Under!AttrCreate(o, Remap(n)) /\ res' = AsUser(o, ures')
  BY DEF AttrCreate
<1> HIDE DEF o, own
<1>3. UserLinks' = UserLinks /\ nobj' = nobj
  BY <1>2, UserKept DEF Under!AttrCreate
<1>4. Plain!Named(UserAttrs[o], n) = {} <=> Under!Named(attrs[o], Remap(n)) = {}
  BY <1>1, ViewNamed
<1>5. CASE Under!Named(attrs[o], Remap(n)) # {}
  <2>1. ures' = [id |-> -1] /\ attrs' = attrs /\ made' = made
    BY <1>2, <1>5 DEF Under!AttrCreate, Under!Failed
  <2>2. res' = [id |-> -1]
    BY <1>2, <2>1 DEF AsUser, Failed, Under!Failed
  <2>3. UserAttrs' = UserAttrs /\ UserMade' = UserMade
    BY <2>1, UserKept
  <2>4. Plain!AttrCreate(o, n)
    BY <1>3, <1>4, <1>5, <2>2, <2>3 DEF Plain!AttrCreate, Plain!Failed
  <2> QED BY <2>4 DEF o
<1>6. CASE Under!Named(attrs[o], Remap(n)) = {}
  <2> DEFINE t == Append(attrs[o], [name |-> Remap(n), corder |-> made[o]])
  <2>1. /\ attrs' = [attrs EXCEPT ![o] = t] /\ made' = [made EXCEPT ![o] = @ + 1]
        /\ ures' = [id |-> made[o]]
    BY <1>2, <1>6 DEF Under!AttrCreate
  <2>2. View(o, t) = Append(UserAttrs[o], [name |-> n, corder |-> UserMade[o]])
    BY <1>1, ViewGrows DEF own
  <2> HIDE DEF t
  <2>3. UserAttrs' = [UserAttrs EXCEPT ![o] = View(o, t)]
    BY <1>1, <2>1, UserChanged
  <2>4. UserMade' = [UserMade EXCEPT ![o] = @ + 1]
    BY <1>1, <2>1, UserChanged
  <2>5. res' = [id |-> UserMade[o]]
    BY <1>1, <1>2, <2>1 DEF AsUser, Failed, Under!Failed, own
  <2>6. UserAttrs' = [UserAttrs EXCEPT ![o] = Append(@, [name |-> n, corder |-> UserMade[o]])]
    BY <2>2, <2>3
  <2>7. Plain!AttrCreate(o, n)
    BY <1>3, <1>4, <1>6, <2>4, <2>5, <2>6 DEF Plain!AttrCreate
  <2> QED BY <2>7 DEF o
<1> QED BY <1>5, <1>6

\* Opening by name, with the index lowered by as much.
LEMMA PlainIdOf ==
    ASSUME Seen, NEW h \in use.handles, NEW n \in use.names
    PROVE  /\ Own1(h.obj) \in Nat
           /\ LET i == Under!IdOf(attrs[h.obj], Remap(n))
              IN  Plain!IdOf(UserAttrs[h.obj], n) = IF i = -1 THEN -1 ELSE i - Own1(h.obj)
  BY SeenAttrs, HandlesObject, ViewId DEF Seen, TypeInv

LEMMA PlainAttrOpen ==
    ASSUME Seen, use' = use, NEW h \in use.handles, NEW n \in use.names, AttrOpen(h, n)
    PROVE  Plain!AttrOpen(h.obj, n)
<1>1. /\ ures' = [id |-> Under!IdOf(attrs[h.obj], Remap(n))]
      /\ UNCHANGED <<attrs, made, links, nobj>> /\ res' = AsUser(h.obj, ures')
  BY DEF AttrOpen, Under!AttrOpen, Under!NoChange
<1>2. res' = [id |-> Plain!IdOf(UserAttrs[h.obj], n)]
  BY <1>1, PlainIdOf DEF AsUser, Failed, Under!Failed
<1> QED BY <1>1, <1>2, ReadsOnly DEF Plain!AttrOpen

LEMMA PlainAttrInfo ==
    ASSUME Seen, use' = use, NEW h \in use.handles, NEW n \in use.names, AttrInfo(h, n),
           "info" \in use.calls
    PROVE  Plain!AttrOpen(h.obj, n)
<1>1. use \in Uses /\ Unseen(use)
  BY DEF Seen, TypeInv
<1>2. Remap(n) = n /\ Skip(h) = Own1(h.obj)
  BY <1>1, RawNames, SkipsOwn
<1>3. /\ ures' = [id |-> Under!IdOf(attrs[h.obj], Remap(n))]
      /\ UNCHANGED <<attrs, made, links, nobj>> /\ res' = LowerIndex(h, ures')
  BY <1>2 DEF AttrInfo, Under!AttrOpen, Under!NoChange
<1>4. res' = [id |-> Plain!IdOf(UserAttrs[h.obj], n)]
  BY <1>2, <1>3, PlainIdOf DEF LowerIndex, Failed, Under!Failed
<1> QED BY <1>3, <1>4, ReadsOnly DEF Plain!AttrOpen

LEMMA PlainAttrExists ==
    ASSUME Seen, use' = use, NEW h \in use.handles, NEW n \in use.names, AttrExists(h, n)
    PROVE  Plain!AttrExists(h.obj, n)
<1>1. /\ res' = [ok |-> Under!Named(attrs[h.obj], Remap(n)) # {}]
      /\ UNCHANGED <<attrs, made, links, nobj>>
  BY DEF AttrExists, Under!AttrExists, Under!NoChange
<1>2. Plain!Named(UserAttrs[h.obj], n) = {} <=> Under!Named(attrs[h.obj], Remap(n)) = {}
  BY SeenAttrs, HandlesObject, ViewNamed DEF Seen, TypeInv
<1> QED BY <1>1, <1>2, ReadsOnly DEF Plain!AttrExists

LEMMA PlainAttrDelete ==
    ASSUME Seen, use' = use, NEW h \in use.handles, NEW n \in use.names, AttrDelete(h, n)
    PROVE  Plain!AttrDelete(h.obj, n)
<1> DEFINE o == h.obj
           t == Under!Without(attrs[o], Remap(n))
<1>1. /\ o \in Objects /\ use \in Uses /\ GoodAttrs(o, attrs[o])
      /\ UserAttrs[o] = View(o, attrs[o])
  BY SeenAttrs, HandlesObject DEF Seen, TypeInv
<1>2. /\ res' = [ok |-> Under!Named(attrs[o], Remap(n)) # {}]
      /\ attrs' = [attrs EXCEPT ![o] = t] /\ UNCHANGED <<made, links, nobj>>
  BY DEF AttrDelete, Under!AttrDelete
<1> HIDE DEF o
<1>3. Plain!Named(UserAttrs[o], n) = {} <=> Under!Named(attrs[o], Remap(n)) = {}
  BY <1>1, ViewNamed
<1>4. View(o, t) = Plain!Without(UserAttrs[o], n)
  BY <1>1, ViewShrinks
<1> HIDE DEF t
<1>5. UserAttrs' = [UserAttrs EXCEPT ![o] = View(o, t)]
  BY <1>1, <1>2, UserChanged
<1>6. UserMade' = UserMade /\ UserLinks' = UserLinks /\ nobj' = nobj
  BY <1>2, UserKept
<1>7. Plain!AttrDelete(o, n)
  BY <1>2, <1>3, <1>4, <1>5, <1>6 DEF Plain!AttrDelete
<1> QED BY <1>7 DEF o

LEMMA PlainAttrRename ==
    ASSUME Seen, use' = use, NEW h \in use.handles, NEW n \in use.names, NEW m \in use.names,
           "rename" \in use.calls, AttrRename(h, n, m)
    PROVE  Plain!AttrRename(h.obj, n, m)
<1> DEFINE o == h.obj
           t == Renamed(attrs[o], n, m)
<1>1. /\ o \in Objects /\ use \in Uses /\ GoodAttrs(o, attrs[o])
      /\ UserAttrs[o] = View(o, attrs[o])
  BY SeenAttrs, HandlesObject DEF Seen, TypeInv
<1>2. Remap(n) = n /\ Remap(m) = m
  BY <1>1, RawNames DEF Seen
<1>3. /\ UNCHANGED <<made, links, nobj>>
      /\ IF Under!Named(attrs[o], n) # {} /\ Under!Named(attrs[o], m) = {}
         THEN attrs' = [attrs EXCEPT ![o] = t] /\ res' = [ok |-> TRUE]
         ELSE attrs' = attrs /\ res' = [ok |-> FALSE]
  BY DEF AttrRename, Under!AttrRename, Renamed
<1> HIDE DEF o
<1>4. /\ Plain!Named(UserAttrs[o], n) = {} <=> Under!Named(attrs[o], n) = {}
      /\ Plain!Named(UserAttrs[o], m) = {} <=> Under!Named(attrs[o], m) = {}
  BY <1>1, <1>2, ViewNamed
<1>5. View(o, t) = Renamed(UserAttrs[o], n, m)
  BY <1>1, <1>2, ViewRenamed
<1> HIDE DEF t
<1>6. UserMade' = UserMade /\ UserLinks' = UserLinks /\ nobj' = nobj
  BY <1>3, UserKept
<1>7. CASE Under!Named(attrs[o], n) # {} /\ Under!Named(attrs[o], m) = {}
  <2>1. UserAttrs' = [UserAttrs EXCEPT ![o] = View(o, t)]
    BY <1>1, <1>3, <1>7, UserChanged
  <2>2. UserAttrs' = [UserAttrs EXCEPT ![o] = Renamed(@, n, m)]
    BY <1>5, <2>1
  <2>3. Plain!AttrRename(o, n, m)
    BY <1>3, <1>4, <1>6, <1>7, <2>2 DEF Plain!AttrRename, Renamed
  <2> QED BY <2>3 DEF o
<1>8. CASE ~(Under!Named(attrs[o], n) # {} /\ Under!Named(attrs[o], m) = {})
  <2>1. UserAttrs' = UserAttrs
    BY <1>3, <1>8, UserKept
  <2>2. Plain!AttrRename(o, n, m)
    BY <1>3, <1>4, <1>6, <1>8, <2>1 DEF Plain!AttrRename
  <2> QED BY <2>2 DEF o
<1> QED BY <1>7, <1>8

LEMMA PlainAttrIterate ==
    ASSUME Seen, use' = use, NEW h \in use.handles, NEW k \in Nat,
           AttrIterate(h, k), k = 0 \/ "iterfrom" \in use.calls
    PROVE  Plain!AttrIterate(h.obj, k)
<1> DEFINE o == h.obj
           own == Own1(o)
           names == [x \in 1 .. Len(attrs[o]) - k |-> attrs[o][x + k].name]
           v == UserAttrs[o]
<1>1. /\ o \in Objects /\ use \in Uses /\ GoodAttrs(o, attrs[o]) /\ attrs[o] \in Seq(Attr)
      /\ UserAttrs[o] = View(o, attrs[o])
  BY SeenAttrs, HandlesObject DEF Seen, TypeInv
<1>2. own \in Nat /\ Len(attrs[o]) \in Nat /\ (k = 0 \/ own = 0)
  <2>1. k = 0 \/ ~use.logBased
    BY LoglessOnly DEF Seen
  <2> QED BY <1>1, <2>1, OwnNames
<1>3. /\ ures' = IF k = 0 \/ k < Len(attrs[o]) THEN [list |-> names] ELSE [id |-> -1]
      /\ res' = IF ures' = [id |-> -1] THEN ures' ELSE [list |-> Told(ures'.list)]
      /\ UNCHANGED <<attrs, made, links, nobj>>
  BY DEF AttrIterate, Under!AttrIterate, Under!NoChange, Under!Failed, Failed
<1> HIDE DEF o, v
<1>4. /\ own <= Len(attrs[o])
      /\ Len(v) = Len(attrs[o]) - own
      /\ \A x \in 1 .. Len(attrs[o]) - own :
            /\ x + own \in 1 .. Len(attrs[o])
            /\ v[x] = [name |-> Shown(attrs[o][x + own].name), corder |-> attrs[o][x + own].corder - own]
            /\ \E n \in use.names : attrs[o][x + own].name = Remap(n) /\ v[x].name = n
  <2>1. v = View(o, attrs[o])
    BY <1>1 DEF v
  <2> HIDE DEF v
  <2> QED BY <1>1, <2>1, ViewBasics
<1>5. \A x \in 1 .. own : use.logBased /\ attrs[o][x].name.us = 1
  BY <1>1, OwnFirstNames DEF GoodAttrs
<1> HIDE DEF own
<1>6. CASE ~(k = 0 \/ k < Len(attrs[o]))
  <2>1. res' = [id |-> -1] /\ ~(k = 0 \/ k < Len(v))
    BY <1>2, <1>3, <1>4, <1>6
  <2> QED BY <1>3, <2>1, ReadsOnly DEF Plain!AttrIterate, Plain!Failed, o, v
<1>7. CASE k = 0 \/ k < Len(attrs[o])
  <2>1. /\ Len(names) = Len(attrs[o]) - k /\ Len(names) \in Nat /\ own <= Len(names)
        /\ \A x \in 1 .. Len(attrs[o]) - k : names[x] = attrs[o][x + k].name
    BY <1>1, <1>2, <1>4, <1>7
  <2> HIDE DEF names
  <2>2. res' = [list |-> Told(names)]
    <3>1. ures' = [list |-> names]
      BY <1>3, <1>7
    <3>2. ures' # [id |-> -1]
      <4>1. DOMAIN ures' = {"list"} /\ DOMAIN [id |-> -1] = {"id"}
        BY <3>1
      <4> QED BY <4>1
    <3>3. ures'.list = names
      BY <3>1
    <3> QED BY <1>3, <3>2, <3>3
  <2>3. \A x \in 1 .. own : Hidden(names[x])
    <3> SUFFICES ASSUME NEW x \in 1 .. own PROVE Hidden(names[x])
      OBVIOUS
    <3>1. k = 0 /\ x \in 1 .. Len(attrs[o]) - k /\ x + k = x
      BY <1>2, <1>4
    <3>2. names[x] = attrs[o][x].name
      BY <2>1, <3>1
    <3> QED BY <1>5, <3>2 DEF Hidden
  <2>4. \A x \in own + 1 .. Len(names) : ~Hidden(names[x])
    <3> SUFFICES ASSUME NEW x \in own + 1 .. Len(names) PROVE ~Hidden(names[x])
      OBVIOUS
    <3>1. /\ x + k - own \in 1 .. Len(attrs[o]) - own /\ x + k - own + own = x + k
          /\ x \in 1 .. Len(attrs[o]) - k
      BY <1>2, <1>4, <2>1
    <3>2. PICK n \in use.names : attrs[o][x + k].name = Remap(n)
      BY <1>4, <3>1
    <3>3. names[x] = Remap(n)
      BY <2>1, <3>1, <3>2
    <3>4. ~Hidden(Remap(n))
      BY <1>1, RemapLeavesOwn
    <3> QED BY <3>3, <3>4
  <2>5. Told(names) = [x \in 1 .. Len(names) - own |-> Shown(names[x + own])]
    <3>1. own \in Nat /\ Len(names) \in Nat /\ own <= Len(names)
      BY <1>2, <2>1
    <3> QED BY <2>3, <2>4, <3>1, ToldRest
  <2>6. \A x \in 1 .. Len(names) - own : Shown(names[x + own]) = v[x + k].name
    <3> SUFFICES ASSUME NEW x \in 1 .. Len(names) - own
                 PROVE  Shown(names[x + own]) = v[x + k].name
      OBVIOUS
    <3>0. x \in 1 .. Len(attrs[o]) - k - own /\ x + own \in Int /\ x + k \in Int
      BY <1>2, <2>1
    <3>1. /\ x + k \in 1 .. Len(attrs[o]) - own /\ x + own \in 1 .. Len(attrs[o]) - k
          /\ x + own + k = x + k + own
      BY <1>2, <3>0
    <3>2. names[x + own] = attrs[o][x + k + own].name
      BY <2>1, <3>1
    <3>3. v[x + k] = [name |-> Shown(attrs[o][x + k + own].name),
                      corder |-> attrs[o][x + k + own].corder - own]
      BY <1>4, <3>1
    <3> QED BY <3>2, <3>3
  <2>7. Len(names) - own = Len(v) - k /\ (k = 0 \/ k < Len(v))
    BY <1>2, <1>4, <1>7, <2>1
  <2>8. Told(names) = [x \in 1 .. Len(v) - k |-> v[x + k].name]
    BY <2>5, <2>6, <2>7
  <2> QED BY <1>3, <2>2, <2>7, <2>8, ReadsOnly DEF Plain!AttrIterate, o, v
<1> QED BY <1>6, <1>7

LEMMA PlainAttrCount ==
    ASSUME Seen, use' = use, NEW h \in use.handles, AttrCount(h)
    PROVE  Plain!AttrCount(h.obj)
<1>1. /\ h.obj \in Objects /\ use \in Uses /\ GoodAttrs(h.obj, attrs[h.obj])
      /\ UserAttrs[h.obj] = View(h.obj, attrs[h.obj])
  BY SeenAttrs, HandlesObject DEF Seen, TypeInv
<1>2. Skip(h) = Own1(h.obj)
  BY <1>1, SkipsOwn DEF Seen
<1>3. /\ ures' = [count |-> Len(attrs[h.obj])] /\ res' = [count |-> ures'.count - Skip(h)]
      /\ UNCHANGED <<attrs, made, links, nobj>>
  BY DEF AttrCount, Under!AttrCount, Under!NoChange
<1>4. Len(UserAttrs[h.obj]) = Len(attrs[h.obj]) - Own1(h.obj)
  BY <1>1, ViewBasics
<1> QED BY <1>2, <1>3, <1>4, ReadsOnly DEF Plain!AttrCount

\* Positions, in a log-based file: by age only.
LEMMA PlainNth ==
    ASSUME Seen, NEW h \in use.handles, NEW order \in {"crt", "name"}, NEW dir \in {"inc", "dec"},
           NEW k \in Nat, k < Len(attrs[h.obj]) - Own1(h.obj), use.logBased => order = "crt"
    PROVE  LET j == IF dir = "inc" THEN k + Own1(h.obj) ELSE k
               u == Under!NthAttr(attrs[h.obj], order, dir, j)
               p == Plain!NthAttr(UserAttrs[h.obj], order, dir, k)
           IN  /\ j < Len(attrs[h.obj]) /\ u.corder \in Nat
               /\ p.name = Shown(u.name) /\ p.corder = u.corder - Own1(h.obj)
               /\ \E n \in use.names : u.name = Remap(n) /\ p.name = n
<1> DEFINE o == h.obj
           own == Own1(o)
           j == IF dir = "inc" THEN k + own ELSE k
           u == Under!NthAttr(attrs[o], order, dir, j)
           p == Plain!NthAttr(UserAttrs[o], order, dir, k)
<1>1. /\ o \in Objects /\ use \in Uses /\ GoodAttrs(o, attrs[o]) /\ attrs[o] \in Seq(Attr)
      /\ UserAttrs[o] = View(o, attrs[o]) /\ own \in Nat /\ Len(attrs[o]) \in Nat
  BY SeenAttrs, HandlesObject DEF Seen, TypeInv
<1> SUFFICES /\ j < Len(attrs[o]) /\ u.corder \in Nat
             /\ p.name = Shown(u.name) /\ p.corder = u.corder - own
             /\ \E n \in use.names : u.name = Remap(n) /\ p.name = n
  OBVIOUS
<1>2. CASE order = "crt"
  <2>1. /\ j < Len(attrs[o]) /\ u.corder \in Nat
        /\ p = [name |-> Shown(u.name), corder |-> u.corder - own]
        /\ \E n \in use.names : u.name = Remap(n) /\ p.name = n
    BY <1>1, <1>2, NthByAge
  <2> HIDE DEF p, u, j, own
  <2> QED BY <2>1
<1>3. CASE order # "crt"
  <2>1. ~use.logBased
    BY <1>3
  <2>2. own = 0 /\ UserAttrs[o] = attrs[o]
    BY <1>1, <2>1, ViewAll
  <2>3. j = k /\ j < Len(attrs[o]) /\ j \in Nat
    BY <2>2
  <2>4. u \in Attr /\ p = u
    <3> HIDE DEF j
    <3> QED BY <1>1, <2>2, <2>3, NthExists
  <2>5. u.corder \in Nat /\ u.corder - own = u.corder
    <3> HIDE DEF u, own
    <3> QED BY <2>2, <2>4 DEF Attr
  <2>6. Shown(u.name) = u.name
    BY <2>1 DEF Shown
  <2>7. PICK x \in 1 .. Len(attrs[o]) : u = attrs[o][x]
    BY <1>1, <2>3, NthIsThere
  <2>8. x \in own + 1 .. Len(attrs[o])
    BY <2>2
  <2>9. \E n \in use.names : u.name = Remap(n)
    BY <1>1, <2>7, <2>8 DEF GoodAttrs, SharedAttrs
  <2>10. \E n \in use.names : u.name = Remap(n) /\ p.name = n
    <3>1. \A n \in use.names : Remap(n) = n
      BY <2>1 DEF Remap
    <3> HIDE DEF u, p
    <3> QED BY <2>4, <2>9, <3>1
  <2> HIDE DEF u, p, j, own
  <2> QED BY <2>3, <2>4, <2>5, <2>6, <2>10
<1> QED BY <1>2, <1>3

LEMMA PlainAttrOpenAt ==
    ASSUME Seen, use' = use, NEW h \in use.handles, NEW order \in use.orders,
           NEW dir \in {"inc", "dec"}, NEW k \in Nat, AttrOpenAt(h, order, dir, k),
           dir = "inc" \/ "opendec" \in use.calls
    PROVE  Plain!AttrOpenAt(h.obj, order, dir, k)
<1> DEFINE o == h.obj
           own == Own1(o)
           j == IF dir = "inc" THEN k + own ELSE k
           L == Len(attrs[o])
           u == Under!NthAttr(attrs[o], order, dir, j)
           p == Plain!NthAttr(UserAttrs[o], order, dir, k)
<1>1. /\ o \in Objects /\ use \in Uses /\ Unseen(use) /\ own \in Nat /\ L \in Nat
      /\ Len(UserAttrs[o]) = L - own
  BY SeenAttrs, HandlesObject, ViewBasics DEF Seen, TypeInv
<1>2. order \in {"crt", "name"} /\ (use.logBased => order = "crt")
  BY <1>1, UsesAssumption DEF Unseen
<1>3. Skip(h) = own
  BY <1>1, SkipsOwn
<1>4. ~use.logBased => own = 0
  BY <1>1, SeenAttrs, ViewAll
<1>5. use.logBased => dir = "inc"
  BY <1>1, LoglessOnly
<1>6. (IF use.logBased THEN k + Skip(h) ELSE k) = j
  <2> HIDE DEF own
  <2> QED BY <1>1, <1>3, <1>4, <1>5
<1>7. /\ ures' = [id |-> IF j < L THEN u.corder ELSE -1]
      /\ UNCHANGED <<attrs, made, links, nobj>> /\ res' = AsUser(o, ures')
  <2>1. Under!AttrOpenAt(o, order, dir, j) /\ res' = AsUser(o, ures')
    BY <1>6 DEF AttrOpenAt
  <2> QED BY <2>1 DEF Under!AttrOpenAt, Under!NoChange, Under!Failed
<1>8. j < L <=> k < L - own
  <2>1. CASE dir = "inc"
    BY <1>1, <2>1
  <2>2. CASE dir # "inc"
    <3>1. own = 0
      BY <1>4, <1>5, <2>2
    <3> QED BY <1>1, <2>2, <3>1
  <2> QED BY <2>1, <2>2
<1>9. k < L - own => u.corder \in Nat /\ p.corder = u.corder - own
  BY <1>2, PlainNth
<1> HIDE DEF j, L, u, p
<1>10. res' = [id |-> IF k < L - own THEN p.corder ELSE -1]
  <2>1. CASE k < L - own
    <3>1. ures' = [id |-> u.corder] /\ u.corder # -1
      BY <1>7, <1>8, <1>9, <2>1
    <3> QED BY <1>7, <1>9, <2>1, <3>1 DEF AsUser, Failed, Under!Failed
  <2>2. CASE ~(k < L - own)
    <3>1. ures' = [id |-> -1]
      BY <1>7, <1>8, <2>2
    <3> QED BY <1>7, <2>2, <3>1 DEF AsUser, Failed, Under!Failed
  <2> QED BY <2>1, <2>2
<1> QED BY <1>1, <1>7, <1>10, ReadsOnly DEF Plain!AttrOpenAt, Plain!Failed, p

\* Reading by position: the two passes come to one position.
LEMMA OnePosition ==
    ASSUME Seen, NEW h \in use.handles, NEW dir \in {"inc", "dec"}, NEW k \in Nat
    PROVE  LET own == Own1(h.obj)
               L == Len(attrs[h.obj])
               j == IF dir = "inc" THEN k + own ELSE k
           IN  /\ own \in Nat /\ L \in Nat /\ j \in Nat /\ Len(UserAttrs[h.obj]) = L - own
               /\ Skip(h) = own
               /\ dir = "inc" => (k < L - own <=> j < L)
               /\ dir = "dec" => (k < L - own <=> k + own < L)
               /\ k < L - own => j < L
               /\ ~(k < L - own) => ~(k + own < L)
<1> DEFINE own == Own1(h.obj)
           L == Len(attrs[h.obj])
<1>1. /\ h.obj \in Objects /\ use \in Uses /\ own \in Nat /\ L \in Nat
      /\ Len(UserAttrs[h.obj]) = L - own
  BY SeenAttrs, HandlesObject, ViewBasics DEF Seen, TypeInv
<1>2. Skip(h) = own
  BY <1>1, SkipsOwn DEF Seen
<1> HIDE DEF own, L
<1>3. LET j == IF dir = "inc" THEN k + own ELSE k
      IN  /\ j \in Nat
          /\ dir = "inc" => (k < L - own <=> j < L)
          /\ dir = "dec" => (k < L - own <=> k + own < L)
          /\ k < L - own => j < L
          /\ ~(k < L - own) => ~(k + own < L)
  BY <1>1
<1> QED BY <1>1, <1>2, <1>3 DEF own, L

LEMMA PlainAttrInfoAt ==
    ASSUME Seen, use' = use, NEW h \in use.handles, NEW order \in use.orders,
           NEW dir \in {"inc", "dec"}, NEW k \in Nat, AttrInfoAt(h, order, dir, k)
    PROVE  Plain!AttrInfoAt(h.obj, order, dir, k)
<1> DEFINE o == h.obj
           own == Own1(o)
           j == IF dir = "inc" THEN k + own ELSE k
           L == Len(attrs[o])
           u == Under!NthAttr(attrs[o], order, dir, j)
           p == Plain!NthAttr(UserAttrs[o], order, dir, k)
<1>1. /\ own \in Nat /\ L \in Nat /\ j \in Nat /\ Len(UserAttrs[o]) = L - own /\ Skip(h) = own
      /\ dir = "dec" => (k < L - own <=> k + own < L)
      /\ k < L - own => j < L
  BY OnePosition
<1>2. order \in {"crt", "name"} /\ (use.logBased => order = "crt")
  BY UsesAssumption DEF Unseen, Seen, TypeInv
<1>3. /\ res' = LowerIndex(h, ures')
      /\ \/ dir = "inc" /\ Under!AttrInfoAt(o, order, dir, k + Skip(h))
         \/ dir = "dec" /\ k + Skip(h) < L /\ Under!AttrInfoAt(o, order, dir, k)
         \/ dir = "dec" /\ k + Skip(h) >= L /\ Under!AttrInfoAt(o, order, dir, k + Skip(h))
  BY DEF AttrInfoAt, AtPosition
<1>4. k < L - own => u.corder \in Nat /\ p.corder = u.corder - own
  BY <1>2, PlainNth
<1>5. CASE k < L - own
  <2>1. Under!AttrInfoAt(o, order, dir, j) /\ j < L
    <3> HIDE DEF own, L
    <3> QED BY <1>1, <1>3, <1>5
  <2> HIDE DEF j
  <2>2. ures' = [id |-> u.corder] /\ UNCHANGED <<attrs, made, links, nobj>>
    BY <2>1 DEF Under!AttrInfoAt, Under!AttrOpenAt, Under!NoChange
  <2> HIDE DEF u, p
  <2>3. ures'.id = u.corder /\ u.corder # -1
    BY <1>4, <1>5, <2>2
  <2>4. res' = [id |-> p.corder]
    BY <1>1, <1>3, <1>4, <1>5, <2>3 DEF LowerIndex, Failed, Under!Failed
  <2> QED BY <1>1, <1>5, <2>2, <2>4, ReadsOnly DEF Plain!AttrInfoAt, Plain!AttrOpenAt, p
<1>6. CASE ~(k < L - own)
  <2>1. k + own \in Nat /\ ~(k + own < L)
    BY <1>1, <1>6
  <2>2. Under!AttrInfoAt(o, order, dir, k + own)
    <3> HIDE DEF own, L
    <3> QED BY <1>1, <1>3, <1>6
  <2>3. ures' = [id |-> -1] /\ UNCHANGED <<attrs, made, links, nobj>>
    BY <2>1, <2>2 DEF Under!AttrInfoAt, Under!AttrOpenAt, Under!NoChange, Under!Failed
  <2>4. res' = [id |-> -1]
    BY <1>3, <2>3 DEF LowerIndex, Failed, Under!Failed
  <2> QED BY <1>1, <1>6, <2>3, <2>4, ReadsOnly
        DEF Plain!AttrInfoAt, Plain!AttrOpenAt, Plain!Failed
<1> QED BY <1>5, <1>6

LEMMA PlainAttrNameAt ==
    ASSUME Seen, use' = use, NEW h \in use.handles, NEW order \in use.orders,
           NEW dir \in {"inc", "dec"}, NEW k \in Nat, AttrNameAt(h, order, dir, k),
           "nameat" \in use.calls
    PROVE  Plain!AttrNameAt(h.obj, order, dir, k)
<1> DEFINE o == h.obj
           own == Own1(o)
           j == IF dir = "inc" THEN k + own ELSE k
           L == Len(attrs[o])
           u == Under!NthAttr(attrs[o], order, dir, j)
           p == Plain!NthAttr(UserAttrs[o], order, dir, k)
<1>1. /\ own \in Nat /\ L \in Nat /\ j \in Nat /\ Len(UserAttrs[o]) = L - own /\ Skip(h) = own
      /\ dir = "dec" => (k < L - own <=> k + own < L)
      /\ k < L - own => j < L
  BY OnePosition
<1>2. /\ order \in {"crt", "name"} /\ (use.logBased => order = "crt")
      /\ use \in Uses /\ Unseen(use)
  BY UsesAssumption DEF Unseen, Seen, TypeInv
<1>3. /\ res' = ures'
      /\ \/ dir = "inc" /\ Under!AttrNameAt(o, order, dir, k + Skip(h))
         \/ dir = "dec" /\ k + Skip(h) < L /\ Under!AttrNameAt(o, order, dir, k)
         \/ dir = "dec" /\ k + Skip(h) >= L /\ Under!AttrNameAt(o, order, dir, k + Skip(h))
  BY DEF AttrNameAt, AtPosition
<1>4. k < L - own => \E n \in use.names : u.name = Remap(n) /\ p.name = n
  BY <1>2, PlainNth
<1>5. CASE k < L - own
  <2>1. Under!AttrNameAt(o, order, dir, j) /\ j < L
    <3> HIDE DEF own, L
    <3> QED BY <1>1, <1>3, <1>5
  <2> HIDE DEF j
  <2>2. ures' = [name |-> u.name] /\ UNCHANGED <<attrs, made, links, nobj>>
    BY <2>1 DEF Under!AttrNameAt, Under!NoChange
  <2> HIDE DEF u, p
  <2>3. u.name = p.name
    BY <1>2, <1>4, <1>5, RawNames
  <2>4. res' = [name |-> p.name]
    BY <1>3, <2>2, <2>3
  <2> QED BY <1>1, <1>5, <2>2, <2>4, ReadsOnly DEF Plain!AttrNameAt, p
<1>6. CASE ~(k < L - own)
  <2>1. k + own \in Nat /\ ~(k + own < L)
    BY <1>1, <1>6
  <2>2. Under!AttrNameAt(o, order, dir, k + own)
    <3> HIDE DEF own, L
    <3> QED BY <1>1, <1>3, <1>6
  <2>3. ures' = [id |-> -1] /\ UNCHANGED <<attrs, made, links, nobj>>
    BY <2>1, <2>2 DEF Under!AttrNameAt, Under!NoChange, Under!Failed
  <2> QED BY <1>1, <1>3, <1>6, <2>3, ReadsOnly DEF Plain!AttrNameAt, Plain!Failed
<1> QED BY <1>5, <1>6

LEMMA PlainAttrDeleteAt ==
    ASSUME Seen, use' = use, NEW h \in use.handles, NEW order \in use.orders,
           NEW dir \in {"inc", "dec"}, NEW k \in Nat, AttrDeleteAt(h, order, dir, k),
           "deleteat" \in use.calls
    PROVE  Plain!AttrDeleteAt(h.obj, order, dir, k)
<1> DEFINE o == h.obj
           u == Under!NthAttr(attrs[o], order, dir, k)
           t == Under!Without(attrs[o], u.name)
<1>1. /\ o \in Objects /\ use \in Uses /\ Unseen(use) /\ attrs[o] \in Seq(Attr)
      /\ attrs \in [Objects -> Seq(Attr)]
  BY SeenAttrs, HandlesObject DEF Seen, TypeInv
<1>2. ~use.logBased
  BY <1>1, LoglessOnly
<1>3. UserAttrs[o] = attrs[o]
  BY <1>1, <1>2, SeenAttrs, ViewAll
<1>4. /\ res' = [ok |-> k < Len(attrs[o])]
      /\ attrs' = IF k < Len(attrs[o]) THEN [attrs EXCEPT ![o] = t] ELSE attrs
      /\ UNCHANGED <<made, links, nobj>>
  BY DEF AttrDeleteAt, Under!AttrDeleteAt
<1>5. UserMade' = UserMade /\ UserLinks' = UserLinks /\ nobj' = nobj
  BY <1>4, UserKept
<1> HIDE DEF o
<1>6. k < Len(attrs[o]) => Plain!NthAttr(UserAttrs[o], order, dir, k) = u
  BY <1>1, <1>3, NthExists, Zenon
<1>7. CASE k < Len(attrs[o])
  <2>1. Plain!NthAttr(UserAttrs[o], order, dir, k) = u
    BY <1>7, <1>6
  <2>2. t \in Seq(Attr) /\ t = Plain!Without(UserAttrs[o], u.name)
    BY <1>1, <1>3, WithoutTypes, SameWithout
  <2> HIDE DEF t, u
  <2>3. View(o, t) = t
    BY <1>1, <1>2, <2>2, ViewAll
  <2>4. UserAttrs' = [UserAttrs EXCEPT ![o] = t]
    <3>1. attrs' = [attrs EXCEPT ![o] = t]
      BY <1>4, <1>7
    <3>2. UserAttrs' = [UserAttrs EXCEPT ![o] = View(o, t)]
      BY <1>1, <3>1, UserChanged
    <3> QED BY <2>3, <3>2
  <2>5. Plain!AttrDeleteAt(o, order, dir, k)
    BY <1>3, <1>4, <1>5, <1>7, <2>1, <2>2, <2>4 DEF Plain!AttrDeleteAt
  <2> QED BY <2>5 DEF o
<1>8. CASE ~(k < Len(attrs[o]))
  <2>1. UserAttrs' = UserAttrs
    BY <1>4, <1>8, UserKept
  <2>2. Plain!AttrDeleteAt(o, order, dir, k)
    BY <1>3, <1>4, <1>5, <1>8, <2>1 DEF Plain!AttrDeleteAt
  <2> QED BY <2>2 DEF o
<1> QED BY <1>7, <1>8
-----------------------------------------------------------------------------
(***************************************************************************)
(* Each call on links is the library's, as the application sees it.        *)
(***************************************************************************)
LEMMA StoredIs ==
    ASSUME Seen, NEW n \in use.names, NEW path \in use.byPath
    PROVE  Stored(n, path) = Remap(n)
<1>1. Stored(n, path) \in Below(n)
  BY DEF Below
<1> QED BY <1>1, BelowSeen DEF Seen, TypeInv

LEMMA SeenLinkTo ==
    ASSUME Seen, NEW g \in {Root, Group}, NEW n \in use.names
    PROVE  Plain!LinkTo(UserLinks[g], n) = Under!LinkTo(links[g], Remap(n))
  BY SeenLinks, ViewLinkTo

LEMMA PlainLinkCreate ==
    ASSUME Seen, use' = use, NEW g \in {Root, Group}, NEW n \in use.names,
           Under!LinkCreate(g, Remap(n)), res' = ures'
    PROVE  Plain!LinkCreate(g, n)
<1> DEFINE ls == links[g] \cup {[name |-> Remap(n), id |-> nobj]}
<1>1. use \in Uses /\ UserLinks[g] = ViewLinks(links[g])
  BY SeenLinks
<1>2. /\ UNCHANGED <<attrs, made>>
      /\ IF Under!LinkTo(links[g], Remap(n)) # -1
         THEN res' = [id |-> -1] /\ UNCHANGED <<links, nobj>>
         ELSE links' = [links EXCEPT ![g] = ls] /\ nobj' = nobj + 1 /\ res' = [id |-> nobj]
  BY DEF Under!LinkCreate, Under!Failed
<1>3. Plain!LinkTo(UserLinks[g], n) = Under!LinkTo(links[g], Remap(n))
  BY SeenLinkTo
<1>4. UserAttrs' = UserAttrs /\ UserMade' = UserMade
  BY <1>2, UserKept
<1>5. ViewLinks(ls) = UserLinks[g] \cup {[name |-> n, id |-> nobj]}
  <2>1. ViewLinks(links[g] \cup {[name |-> Remap(n), id |-> nobj]}) =
          ViewLinks(links[g]) \cup {[name |-> n, id |-> nobj]}
    BY <1>1, ViewLinkAdded, Zenon
  <2> QED BY <1>1, <2>1
<1> HIDE DEF ls
<1>6. links' = [links EXCEPT ![g] = ls] => UserLinks' = [UserLinks EXCEPT ![g] = ViewLinks(ls)]
  BY UserChanged
<1>7. links' = links => UserLinks' = UserLinks
  BY UserKept
<1> QED BY <1>2, <1>3, <1>4, <1>5, <1>6, <1>7 DEF Plain!LinkCreate, Plain!Failed

LEMMA PlainLinkOpen ==
    ASSUME Seen, use' = use, NEW g \in {Root, Group}, NEW n \in use.names,
           Under!LinkOpen(g, Remap(n)), res' = ures'
    PROVE  Plain!LinkOpen(g, n)
<1>1. UNCHANGED <<attrs, made, links, nobj>> /\ res' = [id |-> Under!LinkTo(links[g], Remap(n))]
  BY DEF Under!LinkOpen, Under!NoChange
<1> QED BY <1>1, SeenLinkTo, ReadsOnly DEF Plain!LinkOpen

LEMMA PlainLinkExists ==
    ASSUME Seen, use' = use, NEW g \in {Root, Group}, NEW n \in use.names,
           Under!LinkExists(g, Remap(n)), res' = ures'
    PROVE  Plain!LinkExists(g, n)
<1>1. /\ UNCHANGED <<attrs, made, links, nobj>>
      /\ res' = [ok |-> Under!LinkTo(links[g], Remap(n)) # -1]
  BY DEF Under!LinkExists, Under!NoChange, Under!Failed
<1> QED BY <1>1, SeenLinkTo, ReadsOnly DEF Plain!LinkExists, Plain!Failed

LEMMA PlainLinkDelete ==
    ASSUME Seen, use' = use, NEW g \in {Root, Group}, NEW n \in use.names,
           Under!LinkDelete(g, Remap(n)), res' = ures'
    PROVE  Plain!LinkDelete(g, n)
<1> DEFINE ls == {l \in links[g] : l.name # Remap(n)}
<1>1. use \in Uses /\ UserLinks[g] = ViewLinks(links[g]) /\ GoodLinks(g, links[g])
  BY SeenLinks
<1>2. /\ UNCHANGED <<attrs, made, nobj>> /\ links' = [links EXCEPT ![g] = ls]
      /\ res' = [ok |-> Under!LinkTo(links[g], Remap(n)) # -1]
  BY DEF Under!LinkDelete, Under!Failed
<1>3. ViewLinks(ls) = {v \in UserLinks[g] : v.name # n}
  BY <1>1, ViewLinkCut
<1> HIDE DEF ls
<1>4. UserLinks' = [UserLinks EXCEPT ![g] = ViewLinks(ls)]
  BY <1>2, UserChanged
<1>5. UserAttrs' = UserAttrs /\ UserMade' = UserMade
  BY <1>2, UserKept
<1> QED BY <1>2, <1>3, <1>4, <1>5, SeenLinkTo DEF Plain!LinkDelete, Plain!Failed

LEMMA PlainLinkMove ==
    ASSUME Seen, use' = use, NEW g \in {Root, Group}, NEW h \in {Root, Group},
           NEW n \in use.names, NEW m \in use.names,
           Under!LinkMove(g, Remap(n), h, Remap(m)), res' = ures'
    PROVE  Plain!LinkMove(g, n, h, m)
<1> DEFINE i == Under!LinkTo(links[g], Remap(n))
           cut == [links EXCEPT ![g] = {l \in @ : l.name # Remap(n)}]
           new == [cut EXCEPT ![h] = @ \cup {[name |-> Remap(m), id |-> i]}]
           ucut == [UserLinks EXCEPT ![g] = {l \in @ : l.name # n}]
           unew == [ucut EXCEPT ![h] = @ \cup {[name |-> m, id |-> i]}]
<1>1. /\ use \in Uses /\ links \in [{Root, Group} -> SUBSET Link]
      /\ \A k \in {Root, Group} : UserLinks[k] = ViewLinks(links[k]) /\ GoodLinks(k, links[k])
  BY SeenLinks
<1>2. /\ UNCHANGED <<attrs, made, nobj>>
      /\ IF i # -1 /\ Under!LinkTo(links[h], Remap(m)) = -1
         THEN links' = new /\ res' = [ok |-> TRUE]
         ELSE links' = links /\ res' = [ok |-> FALSE]
  BY DEF Under!LinkMove, Under!Failed
<1>3. /\ i = Plain!LinkTo(UserLinks[g], n)
      /\ Under!LinkTo(links[h], Remap(m)) = Plain!LinkTo(UserLinks[h], m)
  BY SeenLinkTo
<1>4. UserAttrs' = UserAttrs /\ UserMade' = UserMade
  BY <1>2, UserKept
<1>5. links' = links => UserLinks' = UserLinks
  BY UserKept
<1>6. DOMAIN UserLinks = {Root, Group}
  BY DEF UserLinks
<1>7. \A k \in {Root, Group} : ViewLinks(cut[k]) = ucut[k]
  <2> SUFFICES ASSUME NEW k \in {Root, Group} PROVE ViewLinks(cut[k]) = ucut[k]
    OBVIOUS
  <2>1. CASE k = g
    <3>1. cut[k] = {l \in links[g] : l.name # Remap(n)}
      BY <1>1, <2>1
    <3>2. ucut[k] = {l \in UserLinks[g] : l.name # n}
      BY <1>6, <2>1
    <3>3. ViewLinks({l \in links[g] : l.name # Remap(n)}) = {v \in ViewLinks(links[g]) : v.name # n}
      <4>1. use \in Uses /\ GoodLinks(g, links[g])
        BY <1>1
      <4> QED BY <4>1, ViewLinkCut
    <3> QED BY <1>1, <3>1, <3>2, <3>3
  <2>2. CASE k # g
    BY <1>1, <1>6, <2>2
  <2> QED BY <2>1, <2>2
<1>8. DOMAIN cut = {Root, Group} /\ DOMAIN ucut = {Root, Group}
  BY <1>1, <1>6
<1> HIDE DEF cut, ucut, i
<1>9. \A k \in {Root, Group} : ViewLinks(new[k]) = unew[k]
  <2> SUFFICES ASSUME NEW k \in {Root, Group} PROVE ViewLinks(new[k]) = unew[k]
    OBVIOUS
  <2>1. CASE k = h
    <3>1. new[k] = cut[k] \cup {[name |-> Remap(m), id |-> i]}
      BY <1>8, <2>1
    <3>2. unew[k] = ucut[k] \cup {[name |-> m, id |-> i]}
      BY <1>8, <2>1
    <3>3. ViewLinks(cut[k] \cup {[name |-> Remap(m), id |-> i]}) =
            ViewLinks(cut[k]) \cup {[name |-> m, id |-> i]}
      <4>1. use \in Uses
        BY <1>1
      <4> QED BY <4>1, ViewLinkAdded, Zenon
    <3> QED BY <1>7, <3>1, <3>2, <3>3
  <2>2. CASE k # h
    BY <1>7, <1>8, <2>2
  <2> QED BY <2>1, <2>2
<1>10. DOMAIN unew = {Root, Group} /\ unew = [k \in {Root, Group} |-> unew[k]]
  BY <1>8
<1> HIDE DEF new, unew
<1>11. links' = new => UserLinks' = unew
  <2> SUFFICES ASSUME links' = new PROVE UserLinks' = unew
    OBVIOUS
  <2>1. UserLinks' = [k \in {Root, Group} |-> ViewLinks(links'[k])]
    BY UserPrimed
  <2> QED BY <1>9, <1>10, <2>1
<1>12. \/ /\ i # -1 /\ Under!LinkTo(links[h], Remap(m)) = -1
          /\ UserLinks' = unew /\ res' = [ok |-> TRUE]
       \/ /\ ~(i # -1 /\ Under!LinkTo(links[h], Remap(m)) = -1)
          /\ UserLinks' = UserLinks /\ res' = [ok |-> FALSE]
  BY <1>2, <1>5, <1>11
<1> QED BY <1>2, <1>3, <1>4, <1>12 DEF Plain!LinkMove, Plain!Failed, unew, ucut

\* A second name of an object, in files that are not log-based.
LEMMA PlainLinkAgain ==
    ASSUME Seen, use' = use, NEW g \in {Root, Group}, NEW h \in {Root, Group},
           NEW n \in use.names, NEW m \in use.names, "again" \in use.calls,
           Under!LinkAgain(g, n, h, m), res' = ures'
    PROVE  Plain!LinkAgain(g, n, h, m)
<1> DEFINE i == Under!LinkTo(links[g], n)
           ls == links[h] \cup {[name |-> m, id |-> i]}
<1>1. use \in Uses /\ UserLinks[h] = ViewLinks(links[h])
  BY SeenLinks
<1>2. Remap(n) = n /\ Remap(m) = m
  BY <1>1, LoglessOnly, RawNames DEF Seen
<1>3. /\ i = Plain!LinkTo(UserLinks[g], n)
      /\ Under!LinkTo(links[h], m) = Plain!LinkTo(UserLinks[h], m)
  BY <1>2, SeenLinkTo
<1>4. /\ UNCHANGED <<attrs, made, nobj>>
      /\ IF i # -1 /\ Under!LinkTo(links[h], m) = -1
         THEN links' = [links EXCEPT ![h] = ls] /\ res' = [ok |-> TRUE]
         ELSE links' = links /\ res' = [ok |-> FALSE]
  BY DEF Under!LinkAgain, Under!Failed
<1> HIDE DEF i
<1>5. ViewLinks(ls) = UserLinks[h] \cup {[name |-> m, id |-> i]}
  <2>1. ViewLinks(links[h] \cup {[name |-> Remap(m), id |-> i]}) =
          ViewLinks(links[h]) \cup {[name |-> m, id |-> i]}
    <3>1. use \in Uses
      BY <1>1
    <3> QED BY <3>1, ViewLinkAdded, Zenon
  <2> QED BY <1>1, <1>2, <2>1
<1> HIDE DEF ls
<1>6. links' = [links EXCEPT ![h] = ls] => UserLinks' = [UserLinks EXCEPT ![h] = ViewLinks(ls)]
  BY UserChanged
<1>7. links' = links => UserLinks' = UserLinks
  BY UserKept
<1>8. UserAttrs' = UserAttrs /\ UserMade' = UserMade
  BY <1>4, UserKept
<1>9. \/ /\ i # -1 /\ Under!LinkTo(links[h], m) = -1 /\ res' = [ok |-> TRUE]
         /\ UserLinks' = [UserLinks EXCEPT ![h] = @ \cup {[name |-> m, id |-> i]}]
      \/ /\ ~(i # -1 /\ Under!LinkTo(links[h], m) = -1) /\ res' = [ok |-> FALSE]
         /\ UserLinks' = UserLinks
  BY <1>4, <1>5, <1>6, <1>7
<1> QED BY <1>3, <1>4, <1>8, <1>9 DEF Plain!LinkAgain, Plain!Failed

LEMMA PlainObjectCopy ==
    ASSUME Seen, use' = use, NEW g \in {Root, Group}, NEW h \in {Root, Group},
           NEW n \in use.names, NEW m \in use.names, "again" \in use.calls,
           ObjectCopy(g, n, h, m)
    PROVE  Plain!ObjectCopy(g, n, h, m)
<1> DEFINE ls == links[h] \cup {[name |-> m, id |-> nobj]}
<1>1. use \in Uses /\ UserLinks[h] = ViewLinks(links[h]) /\ ~use.logBased
  BY SeenLinks, LoglessOnly DEF Seen
<1>2. Remap(n) = n /\ Remap(m) = m
  BY <1>1, RawNames DEF Seen
<1>3. /\ Under!LinkTo(links[g], n) = Plain!LinkTo(UserLinks[g], n)
      /\ Under!LinkTo(links[h], m) = Plain!LinkTo(UserLinks[h], m)
  BY <1>2, SeenLinkTo
<1>4. /\ UNCHANGED <<attrs, made>>
      /\ IF Under!LinkTo(links[g], n) # -1 /\ Under!LinkTo(links[h], m) = -1
         THEN links' = [links EXCEPT ![h] = ls] /\ nobj' = nobj + 1 /\ res' = [ok |-> TRUE]
         ELSE UNCHANGED <<links, nobj>> /\ res' = [ok |-> FALSE]
  BY <1>1 DEF ObjectCopy, Under!ObjectCopy, Under!Failed
<1>5. ViewLinks(ls) = UserLinks[h] \cup {[name |-> m, id |-> nobj]}
  <2>1. ViewLinks(links[h] \cup {[name |-> Remap(m), id |-> nobj]}) =
          ViewLinks(links[h]) \cup {[name |-> m, id |-> nobj]}
    <3>1. use \in Uses
      BY <1>1
    <3> QED BY <3>1, ViewLinkAdded, Zenon
  <2> QED BY <1>1, <1>2, <2>1
<1> HIDE DEF ls
<1>6. links' = [links EXCEPT ![h] = ls] => UserLinks' = [UserLinks EXCEPT ![h] = ViewLinks(ls)]
  BY UserChanged
<1>7. links' = links => UserLinks' = UserLinks
  BY UserKept
<1>8. UserAttrs' = UserAttrs /\ UserMade' = UserMade
  BY <1>4, UserKept
<1>9. \/ /\ Under!LinkTo(links[g], n) # -1 /\ Under!LinkTo(links[h], m) = -1
         /\ res' = [ok |-> TRUE] /\ nobj' = nobj + 1
         /\ UserLinks' = [UserLinks EXCEPT ![h] = @ \cup {[name |-> m, id |-> nobj]}]
      \/ /\ ~(Under!LinkTo(links[g], n) # -1 /\ Under!LinkTo(links[h], m) = -1)
         /\ res' = [ok |-> FALSE] /\ nobj' = nobj /\ UserLinks' = UserLinks
  BY <1>4, <1>5, <1>6, <1>7
<1> QED BY <1>3, <1>8, <1>9 DEF Plain!ObjectCopy, Plain!Failed

LEMMA PlainLinkIterate ==
    ASSUME Seen, use' = use, NEW g \in {Root, Group}, LinkIterate(g)
    PROVE  Plain!LinkIterate(g)
<1> DEFINE names == {l.name : l \in links[g]}
<1>1. /\ ures' = [set |-> names] /\ UNCHANGED <<attrs, made, links, nobj>>
      /\ res' = [set |-> {Shown(n) : n \in {m \in ures'.set : ~Hidden(m)}}]
  BY DEF LinkIterate, Under!LinkIterate, Under!NoChange
<1>2. res' = [set |-> {Shown(n) : n \in {m \in names : ~Hidden(m)}}]
  <2> HIDE DEF names
  <2> QED BY <1>1
<1>3. {Shown(n) : n \in {m \in names : ~Hidden(m)}} = {v.name : v \in UserLinks[g]}
  BY SeenLinks, ViewLinkSet, Zenon
<1> QED BY <1>1, <1>2, <1>3, ReadsOnly DEF Plain!LinkIterate

LEMMA PlainLinkCount ==
    ASSUME Seen, use' = use, NEW g \in {Root, Group}, LinkCount(g), "linkcount" \in use.calls
    PROVE  Plain!LinkCount(g)
<1>1. UserLinks[g] = links[g]
  BY SeenLinks, LoglessOnly, ViewLinksAll DEF Seen
<1>2. res' = [count |-> Under!Cardinality(links[g])] /\ UNCHANGED <<attrs, made, links, nobj>>
  BY DEF LinkCount, Under!LinkCount, Under!NoChange
<1>3. Under!Cardinality(links[g]) = Plain!Cardinality(links[g])
  BY Zenon DEF Under!Cardinality, Plain!Cardinality
<1> QED BY <1>1, <1>2, <1>3, ReadsOnly DEF Plain!LinkCount
-----------------------------------------------------------------------------
(***************************************************************************)
(* The application sees a file without the connector.                      *)
(***************************************************************************)
LEMMA PositionParts ==
    ASSUME use \in Uses, NEW p \in Positions
    PROVE  /\ p[1] \in use.orders /\ p[1] \in {"crt", "name"}
           /\ p[2] \in {"inc", "dec"} /\ p[3] \in 0 .. 2 /\ p[3] \in Nat
  BY UsesAssumption DEF Positions

LEMMA SeenInit ==
    ASSUME \A u \in Uses : Unseen(u)
    PROVE  Init => Seen /\ Plain!Init
<1> SUFFICES ASSUME Init PROVE Seen /\ Plain!Init
  OBVIOUS
<1>1. Seen
  BY InitTypes, InitOwn, InitShared DEF Seen, Init
<1>2. ASSUME NEW o \in Objects PROVE UserAttrs[o] = <<>> /\ UserMade[o] = 0
  <2>1. Own1(o) \in Nat /\ UserAttrs[o] = View(o, attrs[o]) /\ UserMade[o] = made[o] - Own1(o)
    BY <1>1, SeenAttrs
  <2>2. attrs[o] = [x \in 1 .. Own1(o) |-> [name |-> OwnAttrs(o)[x], corder |-> x - 1]]
        /\ made[o] = Own1(o)
    BY DEF Init, Own1
  <2>3. Len(attrs[o]) = Own1(o)
    BY <2>1, <2>2
  <2>4. 1 .. Len(attrs[o]) - Own1(o) = {}
    BY <2>1, <2>3
  <2>5. View(o, attrs[o]) = <<>>
    BY <2>4 DEF View
  <2> QED BY <2>1, <2>2, <2>5
<1>3. ASSUME NEW g \in {Root, Group} PROVE UserLinks[g] = {}
  <2>1. UserLinks[g] = ViewLinks(OwnLinks(g))
    BY <1>1, SeenLinks DEF Init
  <2>2. \A l \in OwnLinks(g) : Hidden(l.name)
    BY DEF OwnLinks, Hidden, Own
  <2> QED BY <2>1, <2>2 DEF ViewLinks
<1>4. UserAttrs = [o \in Objects |-> <<>>] /\ UserMade = [o \in Objects |-> 0]
  BY <1>2 DEF UserAttrs, UserMade
<1>5. UserLinks = [g \in {Root, Group} |-> {}]
  BY <1>3 DEF UserLinks
<1>6. nobj = 0 /\ res = [id |-> -1]
  BY DEF Init, Failed, Under!Failed
<1> QED BY <1>1, <1>4, <1>5, <1>6 DEF Plain!Init, Plain!Failed

LEMMA SeenStep ==
    ASSUME \A u \in Uses : Unseen(u)
    PROVE  Seen /\ [Next]_vars => Seen'
<1>1. \A u \in Uses : Careful(u)
  <2> SUFFICES ASSUME NEW u \in Uses, u.logBased PROVE Careful(u)
    BY DEF Careful
  <2>1. Unseen(u)
    OBVIOUS
  <2>2. "deleteat" \notin u.calls
    BY <2>1 DEF Unseen
  <2>3. ASSUME "rename" \in u.calls \/ TRUE \in u.byPath, NEW n \in u.names PROVE n.us # 1
    <3>1. u.calls \cap {"nameat", "info", "rename"} # {} \/ TRUE \in u.byPath
      BY <2>3
    <3>2. n.us = 0
      BY <2>1, <2>3, <3>1 DEF Unseen
    <3> QED BY <3>2
  <2> QED BY <2>2, <2>3 DEF Careful
<1>2. Seen /\ Next => use' = use
  BY CallEffects
<1>3. use' = use /\ Unseen(use) => Unseen(use)'
  BY DEF Unseen
<1>4. UNCHANGED vars => use' = use
  BY DEF vars
<1> QED BY <1>1, <1>2, <1>3, <1>4, StepTypes, StepOwn, StepShared DEF Seen

LEMMA CallsOnAttrs ==
    ASSUME Seen, use' = use, NEW h \in use.handles, AttrCall(h)
    PROVE  Plain!Next
<1>1. /\ h.obj \in Objects /\ use \in Uses
      /\ \A n \in use.names : n \in Names
  BY HandlesObject, NamesStored DEF Seen, TypeInv
<1>2. ASSUME NEW n \in use.names,
             \/ AttrCreate(h, n) \/ AttrOpen(h, n) \/ AttrExists(h, n) \/ AttrDelete(h, n)
             \/ "info" \in use.calls /\ AttrInfo(h, n)
      PROVE  Plain!Next
  <2>1. \/ Plain!AttrCreate(h.obj, n) \/ Plain!AttrOpen(h.obj, n)
        \/ Plain!AttrExists(h.obj, n) \/ Plain!AttrDelete(h.obj, n)
    BY <1>2, PlainAttrCreate, PlainAttrOpen, PlainAttrExists, PlainAttrDelete, PlainAttrInfo
  <2> QED BY <1>1, <2>1 DEF Plain!Next
<1>3. ASSUME NEW n \in use.names, NEW m \in use.names, "rename" \in use.calls,
             AttrRename(h, n, m)
      PROVE  Plain!Next
  <2>1. Plain!AttrRename(h.obj, n, m)
    BY <1>3, PlainAttrRename
  <2> QED BY <1>1, <2>1 DEF Plain!Next
<1>4. ASSUME NEW p \in Positions,
             \/ "openat" \in use.calls /\ (p[2] = "inc" \/ "opendec" \in use.calls)
                /\ AttrOpenAt(h, p[1], p[2], p[3])
             \/ "infoat" \in use.calls /\ AttrInfoAt(h, p[1], p[2], p[3])
             \/ "nameat" \in use.calls /\ AttrNameAt(h, p[1], p[2], p[3])
             \/ "deleteat" \in use.calls /\ AttrDeleteAt(h, p[1], p[2], p[3])
      PROVE  Plain!Next
  <2>1. /\ p[1] \in use.orders /\ p[1] \in {"crt", "name"}
        /\ p[2] \in {"inc", "dec"} /\ p[3] \in 0 .. 2 /\ p[3] \in Nat
    BY <1>1, PositionParts
  <2>2. \/ Plain!AttrOpenAt(h.obj, p[1], p[2], p[3])
        \/ Plain!AttrNameAt(h.obj, p[1], p[2], p[3])
        \/ Plain!AttrDeleteAt(h.obj, p[1], p[2], p[3])
    BY <1>4, <2>1, PlainAttrOpenAt, PlainAttrInfoAt, PlainAttrNameAt, PlainAttrDeleteAt
      DEF Plain!AttrInfoAt
  <2> QED BY <1>1, <2>1, <2>2 DEF Plain!Next
<1>5. ASSUME NEW k \in 0 .. 2, AttrIterate(h, k), k = 0 \/ "iterfrom" \in use.calls
      PROVE  Plain!Next
  <2>1. Plain!AttrIterate(h.obj, k)
    BY <1>5, PlainAttrIterate
  <2> QED BY <1>1, <2>1 DEF Plain!Next
<1>6. ASSUME AttrCount(h) PROVE Plain!Next
  <2>1. Plain!AttrCount(h.obj)
    BY <1>6, PlainAttrCount
  <2> QED BY <1>1, <2>1 DEF Plain!Next
<1>7. AttrIterate(h, 0) => Plain!Next
  BY <1>5
<1>8. ("iterfrom" \in use.calls /\ \E k \in {1, 2} : AttrIterate(h, k)) => Plain!Next
  BY <1>5
<1> QED BY <1>2, <1>3, <1>4, <1>6, <1>7, <1>8 DEF AttrCall

LEMMA CallsOnLinks ==
    ASSUME Seen, use' = use, NEW g \in {Root, Group}, LinkCall(g)
    PROVE  Plain!Next
<1>1. \A n \in use.names : n \in Names
  BY NamesStored DEF Seen, TypeInv
<1>2. ASSUME NEW n \in use.names, NEW path \in use.byPath,
             \/ GroupCreate(g, n, path) \/ GroupOpen(g, n, path)
             \/ DatatypeCommit(g, n, path) \/ DatatypeOpen(g, n, path)
             \/ ObjectOpen(g, n, path) \/ ObjectExists(g, n, path)
             \/ LinkExists(g, n, path) \/ LinkGet(g, n, path) \/ LinkDelete(g, n, path)
      PROVE  Plain!Next
  <2>1. Stored(n, path) = Remap(n)
    BY StoredIs
  <2>2. /\ \/ Under!LinkCreate(g, Remap(n)) \/ Under!LinkOpen(g, Remap(n))
           \/ Under!LinkExists(g, Remap(n)) \/ Under!LinkDelete(g, Remap(n))
        /\ res' = ures'
    BY <1>2, <2>1 DEF GroupCreate, GroupOpen, DatatypeCommit, DatatypeOpen, ObjectOpen,
      ObjectExists, LinkExists, LinkGet, LinkDelete
  <2>3. \/ Plain!LinkCreate(g, n) \/ Plain!LinkOpen(g, n)
        \/ Plain!LinkExists(g, n) \/ Plain!LinkDelete(g, n)
    BY <2>2, PlainLinkCreate, PlainLinkOpen, PlainLinkExists, PlainLinkDelete
  <2> QED BY <1>1, <2>3 DEF Plain!Next
<1>3. ASSUME NEW n \in use.names, NEW path \in use.byPath, NEW h \in {Root, Group},
             NEW m \in use.names, NEW pathTo \in use.byPath,
             LinkMove(g, n, path, h, m, pathTo)
      PROVE  Plain!Next
  <2>1. Plain!LinkMove(g, n, h, m)
    BY <1>3, StoredIs, PlainLinkMove DEF LinkMove
  <2> QED BY <1>1, <2>1 DEF Plain!Next
<1>4. ASSUME NEW n \in use.names, NEW h \in {Root, Group}, NEW m \in use.names,
             "again" \in use.calls,
             LinkCreate(g, n, h, m) \/ LinkCopy(g, n, h, m) \/ ObjectCopy(g, n, h, m)
      PROVE  Plain!Next
  <2>1. Plain!LinkAgain(g, n, h, m) \/ Plain!ObjectCopy(g, n, h, m)
    BY <1>4, PlainLinkAgain, PlainObjectCopy DEF LinkCreate, LinkCopy
  <2> QED BY <1>1, <2>1 DEF Plain!Next
<1>5. ASSUME LinkIterate(g) \/ ("linkcount" \in use.calls /\ LinkCount(g)) PROVE Plain!Next
  <2>1. Plain!LinkIterate(g) \/ Plain!LinkCount(g)
    BY <1>5, PlainLinkIterate, PlainLinkCount
  <2> QED BY <2>1 DEF Plain!Next
<1> QED BY <1>2, <1>3, <1>4, <1>5 DEF LinkCall

\* With uses in which the connector does not show, whatever names the
\* application chooses, every call through the connector is a call of the
\* library on the application's view of the file, or does not change it.
THEOREM PlainFileSeen ==
    ASSUME \A u \in Uses : Unseen(u)
    PROVE  Spec => SeesPlainFile
<1>1. Init => Seen /\ Plain!Init
  BY SeenInit
<1>2. Seen /\ [Next]_vars => Seen'
  BY SeenStep
<1>3. Seen /\ [Next]_vars => [Plain!Next]_(Plain!vars)
  <2>1. ASSUME Seen, Next PROVE Plain!Next
    <3>1. use' = use
      BY <2>1, CallEffects
    <3> QED BY <2>1, <3>1, CallsOnAttrs, CallsOnLinks DEF Next
  <2>2. ASSUME UNCHANGED vars PROVE UNCHANGED Plain!vars
    BY <2>2, UserKept DEF vars, Plain!vars
  <2> QED BY <2>1, <2>2
<1> QED BY <1>1, <1>2, <1>3, PTL DEF Spec, SeesPlainFile, Plain!Spec

\* ... and each single call is, and returns what, the same call of the library
\* on that view does: the names, positions and indices a call is given and
\* gives back are adjusted by as much in every one of them.
THEOREM CallsPlain ==
    ASSUME \A u \in Uses : Unseen(u)
    PROVE  Spec => EachCallPlain
<1> DEFINE Calls == /\ \A h \in use.handles : AttrCallsPlain(h)
                    /\ "links" \in use.calls => \A g \in {Root, Group} : LinkCallsPlain(g)
<1>1. Init => Seen
  BY SeenInit
<1>2. Seen /\ [Next]_vars => Seen'
  BY SeenStep
<1>3. Seen /\ [Next]_vars => [Calls]_vars
  <2> SUFFICES ASSUME Seen, Next PROVE Calls
    OBVIOUS
  <2>1. use' = use /\ use \in Uses
    BY CallEffects DEF Seen, TypeInv
  <2>2. ASSUME NEW h \in use.handles PROVE AttrCallsPlain(h)
    <3>1. ASSUME NEW n \in use.names
          PROVE  /\ AttrOpen(h, n) => Plain!AttrOpen(h.obj, n)
                 /\ AttrExists(h, n) => Plain!AttrExists(h.obj, n)
                 /\ AttrCreate(h, n) => Plain!AttrCreate(h.obj, n)
                 /\ AttrDelete(h, n) => Plain!AttrDelete(h.obj, n)
                 /\ AttrInfo(h, n) => ("info" \in use.calls => Plain!AttrOpen(h.obj, n))
      BY <2>1, PlainAttrCreate, PlainAttrOpen, PlainAttrExists, PlainAttrDelete, PlainAttrInfo
    <3>2. ASSUME NEW n \in use.names, NEW m \in use.names, "rename" \in use.calls
          PROVE  AttrRename(h, n, m) => Plain!AttrRename(h.obj, n, m)
      BY <2>1, <3>2, PlainAttrRename
    <3>3. ASSUME NEW p \in Positions
          PROVE  /\ AttrOpenAt(h, p[1], p[2], p[3]) /\ (p[2] = "inc" \/ "opendec" \in use.calls)
                      => Plain!AttrOpenAt(h.obj, p[1], p[2], p[3])
                 /\ AttrInfoAt(h, p[1], p[2], p[3]) => Plain!AttrInfoAt(h.obj, p[1], p[2], p[3])
      BY <2>1, PositionParts, PlainAttrOpenAt, PlainAttrInfoAt
    <3>4. ASSUME NEW p \in Positions
          PROVE  /\ "nameat" \in use.calls /\ AttrNameAt(h, p[1], p[2], p[3])
                      => Plain!AttrNameAt(h.obj, p[1], p[2], p[3])
                 /\ "deleteat" \in use.calls /\ AttrDeleteAt(h, p[1], p[2], p[3])
                      => Plain!AttrDeleteAt(h.obj, p[1], p[2], p[3])
      BY <2>1, PositionParts, PlainAttrNameAt, PlainAttrDeleteAt
    <3>5. ASSUME NEW k \in {0, 1, 2}, k = 0 \/ "iterfrom" \in use.calls, AttrIterate(h, k)
          PROVE  Plain!AttrIterate(h.obj, k)
      BY <2>1, <3>5, PlainAttrIterate
    <3>6. AttrCount(h) => Plain!AttrCount(h.obj)
      BY <2>1, PlainAttrCount
    <3> QED BY <3>1, <3>2, <3>3, <3>4, <3>5, <3>6 DEF AttrCallsPlain
  <2>3. ASSUME NEW g \in {Root, Group} PROVE LinkCallsPlain(g)
    <3>1. ASSUME NEW n \in use.names, NEW path \in use.byPath
          PROVE  /\ GroupCreate(g, n, path) \/ DatatypeCommit(g, n, path)
                      => Plain!LinkCreate(g, n)
                 /\ GroupOpen(g, n, path) \/ DatatypeOpen(g, n, path) => Plain!LinkOpen(g, n)
                 /\ ObjectOpen(g, n, path) \/ LinkGet(g, n, path) => Plain!LinkOpen(g, n)
                 /\ ObjectExists(g, n, path) \/ LinkExists(g, n, path)
                      => Plain!LinkExists(g, n)
                 /\ LinkDelete(g, n, path) => Plain!LinkDelete(g, n)
      <4>1. Stored(n, path) = Remap(n)
        BY StoredIs
      <4>2. GroupCreate(g, n, path) \/ DatatypeCommit(g, n, path) => Plain!LinkCreate(g, n)
        BY <2>1, <4>1, PlainLinkCreate DEF GroupCreate, DatatypeCommit
      <4>3. /\ GroupOpen(g, n, path) \/ DatatypeOpen(g, n, path) => Plain!LinkOpen(g, n)
            /\ ObjectOpen(g, n, path) \/ LinkGet(g, n, path) => Plain!LinkOpen(g, n)
        BY <2>1, <4>1, PlainLinkOpen DEF GroupOpen, DatatypeOpen, ObjectOpen, LinkGet
      <4>4. ObjectExists(g, n, path) \/ LinkExists(g, n, path) => Plain!LinkExists(g, n)
        BY <2>1, <4>1, PlainLinkExists DEF ObjectExists, LinkExists
      <4>5. LinkDelete(g, n, path) => Plain!LinkDelete(g, n)
        BY <2>1, <4>1, PlainLinkDelete DEF LinkDelete
      <4> QED BY <4>2, <4>3, <4>4, <4>5
    <3>2. ASSUME NEW n \in use.names, NEW path \in use.byPath, NEW h \in {Root, Group},
                 NEW m \in use.names, NEW pathTo \in use.byPath
          PROVE  LinkMove(g, n, path, h, m, pathTo) => Plain!LinkMove(g, n, h, m)
      BY <2>1, StoredIs, PlainLinkMove DEF LinkMove
    <3>3. ASSUME "again" \in use.calls, NEW n \in use.names, NEW m \in use.names,
                 NEW h \in {Root, Group}
          PROVE  /\ LinkCreate(g, n, h, m) \/ LinkCopy(g, n, h, m) => Plain!LinkAgain(g, n, h, m)
                 /\ ObjectCopy(g, n, h, m) => Plain!ObjectCopy(g, n, h, m)
      BY <2>1, <3>3, PlainLinkAgain, PlainObjectCopy DEF LinkCreate, LinkCopy
    <3>4. /\ LinkIterate(g) => Plain!LinkIterate(g)
          /\ "linkcount" \in use.calls /\ LinkCount(g) => Plain!LinkCount(g)
      BY <2>1, PlainLinkIterate, PlainLinkCount
    <3> QED BY <3>1, <3>2, <3>3, <3>4 DEF LinkCallsPlain
  <2> QED BY <2>2, <2>3
<1> QED BY <1>1, <1>2, <1>3, PTL DEF Spec, EachCallPlain
=============================================================================
