-------------------------------- MODULE Names --------------------------------
(***************************************************************************)
(* How the connector shares the name space of a file with the application. *)
(* It keeps attributes and links of its own in the file (the attributes    *)
(* _int_att of the root group and _dims, _mdims, _ID of every dataset, the *)
(* group _LOG); their names start with one underscore.  A name of the      *)
(* application that starts with an underscore gets one more on the way     *)
(* down (of a path only the first character is looked at), an iteration    *)
(* hides the names with one underscore, and attributes counted by position *)
(* skip the connector's, which are the oldest.                             *)
(*                                                                         *)
(* Below is the library, itself a PlainNames over the stored names; the    *)
(* refinement says that the application still sees a PlainNames.           *)
(***************************************************************************)
EXTENDS Integers, Sequences, FiniteSets

CONSTANTS
    Root, Group, Dataset,  \* the root group, one group, one dataset
    Names,       \* names applications use
    Upper,       \* rests of names that start with an upper-case letter
    Uses,        \* ways an application uses a file
    MaxCreates   \* bound: attributes and objects created

Objects == {Root, Group, Dataset}

ASSUME ObjectsAssumption == Root # Group /\ Group # Dataset /\ Dataset # Root
\* An object and the type it was opened as.
Handle == {[obj |-> Root, type |-> "file"], [obj |-> Root, type |-> "group"],
           [obj |-> Group, type |-> "group"], [obj |-> Dataset, type |-> "dataset"]}
ASSUME UsesAssumption ==
    /\ \A u \in Uses :
         /\ u.logBased \in BOOLEAN      \* fp->is_log_based_file
         /\ u.names \subseteq Names     \* the names in use
         /\ u.handles \subseteq Handle  \* the handles in use
         /\ u.byPath \subseteq BOOLEAN  \* links are named by a path or not
         /\ u.orders \subseteq {"crt", "name"}
         /\ DOMAIN u = {"logBased", "names", "handles", "calls", "orders", "byPath"}
    /\ MaxCreates \in Nat
ASSUME NamesAssumption == \A n \in Names : n.us \in Nat /\ n = [us |-> n.us, b |-> n.b]

VARIABLES
    use,                        \* the file's kind and the calls made on it
    attrs, made, links, nobj,   \* the file, under the stored names
    ures,                       \* result of the library's last call
    res                         \* result of the application's last call

vars == <<use, attrs, made, links, nobj, ures, res>>

\* The library below the connector.
Under == INSTANCE PlainNames WITH Groups <- {Root, Group}, res <- ures

Failed == Under!Failed
-----------------------------------------------------------------------------
Own(b) == [us |-> 1, b |-> b]

\* The attributes the connector created with the object, in that order.
OwnAttrs(o) ==
    CASE use.logBased /\ o = Root    -> <<Own("int_att")>>
      [] use.logBased /\ o = Dataset -> <<Own("dims"), Own("mdims"), Own("ID")>>
      [] OTHER                       -> <<>>
OwnLinks(g) == IF use.logBased /\ g = Root THEN {[name |-> Own("LOG"), id |-> -2]} ELSE {}

Init ==
    /\ use \in Uses
    /\ attrs = [o \in Objects |->
                  [x \in 1 .. Len(OwnAttrs(o)) |-> [name |-> OwnAttrs(o)[x], corder |-> x - 1]]]
    /\ made = [o \in Objects |-> Len(OwnAttrs(o))]
    /\ links = [g \in {Root, Group} |-> OwnLinks(g)]
    /\ nobj = 0 /\ ures = [id |-> Failed] /\ res = ures

\* Wrong variant: names are stored as they are.
AsIs(n) == n

\* H5VL_logi_name_remap
Remap(n) == IF use.logBased /\ n.us > 0 THEN [n EXCEPT !.us = @ + 1] ELSE n

\* Wrong variant: names are hidden in files that are not log-based, too.
HiddenAlways(n) == n.us = 1

\* The iteration callbacks: one underscore is internal, two lose one.
Hidden(n) == use.logBased /\ n.us = 1
Shown(n)  == IF use.logBased /\ n.us > 1 THEN [n EXCEPT !.us = @ - 1] ELSE n

\* Wrong variant: a dataset has its first internal attribute skipped only.
OneEach(h) == IF h.type = "group" THEN 0 ELSE 1

\* Internal attributes skipped by the type the handle was opened with.
Skip(h) == CASE h.type = "file" -> 1 [] h.type = "dataset" -> 3 [] OTHER -> 0

\* A count of the file's attributes and positions, as the application sees it.
Own1(o) == Len(OwnAttrs(o))
AsUser(o, r) == IF r.id = Failed THEN r ELSE [id |-> r.id - Own1(o)]

MayCreate ==
    made[Root] + made[Group] + made[Dataset] - Own1(Root) - Own1(Group) - Own1(Dataset) + nobj
      < MaxCreates
-----------------------------------------------------------------------------
(***************************************************************************)
(* Attributes.  The handle h is what the application calls with.           *)
(***************************************************************************)
AttrCreate(h, n) ==
    /\ MayCreate
    /\ Under!AttrCreate(h.obj, Remap(n))
    /\ res' = AsUser(h.obj, ures')

AttrOpen(h, n) ==
    /\ Under!AttrOpen(h.obj, Remap(n))
    /\ res' = AsUser(h.obj, ures')

\* Opening by position skips the internal attributes, in a log-based file.
AttrOpenAt(h, order, dir, k) ==
    /\ Under!AttrOpenAt(h.obj, order, dir, IF use.logBased THEN k + Skip(h) ELSE k)
    /\ res' = AsUser(h.obj, ures')

\* Reading by position: first with the internal attributes skipped, for the
\* bounds; counted from the end, a second time with the position as it is.
AtPosition(h, dir, k, Read(_)) ==
    \/ dir = "inc" /\ Read(k + Skip(h))
    \/ dir = "dec" /\ k + Skip(h) < Len(attrs[h.obj]) /\ Read(k)
    \/ dir = "dec" /\ k + Skip(h) >= Len(attrs[h.obj]) /\ Read(k + Skip(h))

\* The creation index is lowered, whatever the file is.
LowerIndex(h, r) == IF r.id = Failed THEN r ELSE [id |-> r.id - Skip(h)]

AttrInfoAt(h, order, dir, k) ==
    /\ AtPosition(h, dir, k, LAMBDA p : Under!AttrInfoAt(h.obj, order, dir, p))
    /\ res' = LowerIndex(h, ures')

\* H5Aget_info_by_name: the name goes down as it is.
AttrInfo(h, n) == Under!AttrOpen(h.obj, n) /\ res' = LowerIndex(h, ures')

\* The name comes back as it is stored.
AttrNameAt(h, order, dir, k) ==
    /\ AtPosition(h, dir, k, LAMBDA p : Under!AttrNameAt(h.obj, order, dir, p))
    /\ res' = ures'

AttrExists(h, n) == Under!AttrExists(h.obj, Remap(n)) /\ res' = ures'

AttrDelete(h, n) == Under!AttrDelete(h.obj, Remap(n)) /\ res' = ures'

\* Neither the names of a rename nor the position of a deletion are adjusted.
AttrRename(h, n, m) == Under!AttrRename(h.obj, n, m) /\ res' = ures'

AttrDeleteAt(h, order, dir, k) == Under!AttrDeleteAt(h.obj, order, dir, k) /\ res' = ures'

\* H5VL_log_atti_iterate_op: the application's callback gets the names that
\* are not hidden, one after the other.
Told(names) ==
    LET told[k \in 0 .. Len(names)] ==
          IF k = 0 THEN <<>>
          ELSE IF Hidden(names[k]) THEN told[k - 1] ELSE Append(told[k - 1], Shown(names[k]))
    IN  told[Len(names)]

\* Where the iteration starts is passed on as it is.
AttrIterate(h, k) ==
    /\ Under!AttrIterate(h.obj, k)
    /\ res' = IF ures' = [id |-> Failed] THEN ures' ELSE [list |-> Told(ures'.list)]

\* H5Oget_info: the internal attributes are deducted, whatever the file is.
AttrCount(h) == Under!AttrCount(h.obj) /\ res' = [count |-> ures'.count - Skip(h)]
-----------------------------------------------------------------------------
(***************************************************************************)
(* Links.  A call names a link by its name, relative to the group, or by a *)
(* path to it, which starts with "/" or with the name of a group.          *)
(***************************************************************************)
\* The name of the link the library looks for: of a path, the first character
\* is no underscore, whatever the name at its end.
Stored(n, path) == IF path THEN n ELSE Remap(n)

GroupCreate(g, n, path) ==
    MayCreate /\ Under!LinkCreate(g, Stored(n, path)) /\ res' = ures'

GroupOpen(g, n, path) == Under!LinkOpen(g, Stored(n, path)) /\ res' = ures'

DatatypeCommit(g, n, path) ==
    MayCreate /\ Under!LinkCreate(g, Stored(n, path)) /\ res' = ures'

DatatypeOpen(g, n, path) == Under!LinkOpen(g, Stored(n, path)) /\ res' = ures'

ObjectOpen(g, n, path) == Under!LinkOpen(g, Stored(n, path)) /\ res' = ures'

\* H5Oexists_by_name
ObjectExists(g, n, path) == Under!LinkExists(g, Stored(n, path)) /\ res' = ures'

LinkExists(g, n, path) == Under!LinkExists(g, Stored(n, path)) /\ res' = ures'

LinkDelete(g, n, path) == Under!LinkDelete(g, Stored(n, path)) /\ res' = ures'

\* H5Lget_info
LinkGet(g, n, path) == Under!LinkOpen(g, Stored(n, path)) /\ res' = ures'

\* Wrong variant: the new name is adjusted a second time.
LinkMoveTwice(g, n, path, h, m, pathTo) ==
    Under!LinkMove(g, Stored(n, path), h, Remap(Stored(m, pathTo))) /\ res' = ures'

LinkMove(g, n, path, h, m, pathTo) ==
    Under!LinkMove(g, Stored(n, path), h, Stored(m, pathTo)) /\ res' = ures'

\* Names of a new hard link and of a copied link go down as they are.
LinkCreate(g, n, h, m) == MayCreate /\ Under!LinkAgain(g, n, h, m) /\ res' = ures'

LinkCopy(g, n, h, m) == MayCreate /\ Under!LinkAgain(g, n, h, m) /\ res' = ures'

\* Refused in a log-based file.
ObjectCopy(g, n, h, m) ==
    /\ MayCreate
    /\ IF use.logBased THEN res' = [ok |-> FALSE] /\ UNCHANGED <<attrs, made, links, nobj, ures>>
       ELSE Under!ObjectCopy(g, n, h, m) /\ res' = ures'

\* H5VL_log_linki_iterate_op over the names the library gives.
LinkIterate(g) ==
    /\ Under!LinkIterate(g)
    /\ res' = [set |-> {Shown(n) : n \in {m \in ures'.set : ~Hidden(m)}}]

\* H5Gget_info is passed on.
LinkCount(g) == Under!LinkCount(g) /\ res' = ures'
-----------------------------------------------------------------------------
Positions == use.orders \X {"inc", "dec"} \X {0, 1, 2}

AttrCall(h) ==
    \/ \E n \in use.names :
         \/ AttrCreate(h, n) \/ AttrOpen(h, n) \/ AttrExists(h, n) \/ AttrDelete(h, n)
         \/ "info" \in use.calls /\ AttrInfo(h, n)
         \/ "rename" \in use.calls /\ \E m \in use.names : AttrRename(h, n, m)
    \/ \E p \in Positions :
         \/ "openat" \in use.calls /\ (p[2] = "inc" \/ "opendec" \in use.calls)
            /\ AttrOpenAt(h, p[1], p[2], p[3])
         \/ "infoat" \in use.calls /\ AttrInfoAt(h, p[1], p[2], p[3])
         \/ "nameat" \in use.calls /\ AttrNameAt(h, p[1], p[2], p[3])
         \/ "deleteat" \in use.calls /\ AttrDeleteAt(h, p[1], p[2], p[3])
    \/ AttrIterate(h, 0)
    \/ "iterfrom" \in use.calls /\ \E k \in {1, 2} : AttrIterate(h, k)
    \/ AttrCount(h)

LinkCall(g) ==
    \/ \E n \in use.names, path \in use.byPath :
         \/ GroupCreate(g, n, path) \/ GroupOpen(g, n, path)
         \/ DatatypeCommit(g, n, path) \/ DatatypeOpen(g, n, path)
         \/ ObjectOpen(g, n, path) \/ ObjectExists(g, n, path)
         \/ LinkExists(g, n, path) \/ LinkGet(g, n, path) \/ LinkDelete(g, n, path)
         \/ \E h \in {Root, Group}, m \in use.names, pathTo \in use.byPath :
              LinkMove(g, n, path, h, m, pathTo)
    \/ "again" \in use.calls /\ \E n, m \in use.names, h \in {Root, Group} :
         LinkCreate(g, n, h, m) \/ LinkCopy(g, n, h, m) \/ ObjectCopy(g, n, h, m)
    \/ LinkIterate(g)
    \/ "linkcount" \in use.calls /\ LinkCount(g)

Next ==
    /\ \/ \E h \in use.handles : AttrCall(h)
       \/ "links" \in use.calls /\ \E g \in {Root, Group} : LinkCall(g)
    /\ UNCHANGED use

Spec == Init /\ [][Next]_vars
-----------------------------------------------------------------------------
(***************************************************************************)
(* Properties                                                              *)
(***************************************************************************)
\* The connector's names, and the application's with an underscore more or not.
StoredName ==
    {Own(b) : b \in {"int_att", "dims", "mdims", "ID", "LOG"}}
      \cup Names \cup {[n EXCEPT !.us = @ + 1] : n \in Names}

\* Uses in which no call reaches what is the connector's: the names of a rename,
\* the position of a deletion and the end of a path are not adjusted.
Careful(u) ==
    u.logBased => /\ "deleteat" \notin u.calls
                  /\ "rename" \in u.calls \/ TRUE \in u.byPath => \A n \in u.names : n.us # 1

\* Uses in which the connector does not show: without the calls, positions and
\* names that are not adjusted.
Unseen(u) ==
    /\ u.logBased =>
         /\ [obj |-> Root, type |-> "group"] \notin u.handles /\ u.orders \subseteq {"crt"}
         /\ u.calls \cap {"opendec", "deleteat", "again", "linkcount", "iterfrom"} = {}
         /\ u.calls \cap {"nameat", "info", "rename"} # {} \/ TRUE \in u.byPath
              => \A n \in u.names : n.us = 0
    /\ ~u.logBased => \A h \in u.handles : h.type = "group"

\* The stored attributes and links are well formed and no name occurs twice.
TypeOK ==
    /\ attrs \in [Objects -> Seq([name : StoredName, corder : Nat])]
    /\ links \in [{Root, Group} -> SUBSET [name : StoredName, id : Nat \cup {-2}]]
    /\ made \in [Objects -> Nat] /\ nobj \in Nat
    /\ \A o \in Objects : \A x, y \in 1 .. Len(attrs[o]) :
         x # y => attrs[o][x].name # attrs[o][y].name
    /\ \A g \in {Root, Group} : \A k, l \in links[g] : k.name = l.name => k = l

\* The connector's attributes stay where the file is opened by them, first on
\* their object, and so does its group, whatever order of creations, deletions,
\* renames and moves the application makes, under names of its own that start
\* with an underscore, too: losing one makes the file or the dataset unreadable.
\* Only careful uses keep them; a path such as "/_LOG" leads to the group.
OwnIntact ==
    /\ \A o \in Objects : \A x \in 1 .. Own1(o) :
         Len(attrs[o]) >= x /\ attrs[o][x] = [name |-> OwnAttrs(o)[x], corder |-> x - 1]
    /\ \A g \in {Root, Group} : OwnLinks(g) \subseteq links[g]

\* What the application is meant to see of the file.
UserAttrs ==
    [o \in Objects |->
       [x \in 1 .. Len(attrs[o]) - Own1(o) |->
          LET a == attrs[o][x + Own1(o)]
          IN  [name |-> Shown(a.name), corder |-> a.corder - Own1(o)]]]
UserLinks ==
    [g \in {Root, Group} |->
       {[name |-> Shown(l.name), id |-> l.id] : l \in {k \in links[g] : ~Hidden(k.name)}}]

UserMade == [o \in Objects |-> made[o] - Own1(o)]

Plain == INSTANCE PlainNames WITH
    Groups <- {Root, Group}, attrs <- UserAttrs, links <- UserLinks,
    made <- UserMade

\* What the application can see of a file, its attributes in order, its links
\* and the results of its calls, changes as the library alone could change it,
\* although the names it uses may be the connector's.
SeesPlainFile == Plain!Spec

AttrCallsPlain(h) ==
    /\ \A n \in use.names :
         /\ AttrOpen(h, n) => Plain!AttrOpen(h.obj, n)
         /\ AttrExists(h, n) => Plain!AttrExists(h.obj, n)
         /\ AttrCreate(h, n) => Plain!AttrCreate(h.obj, n)
         /\ AttrDelete(h, n) => Plain!AttrDelete(h.obj, n)
         /\ AttrInfo(h, n) => ("info" \in use.calls => Plain!AttrOpen(h.obj, n))
         /\ "rename" \in use.calls =>
              \A m \in use.names : AttrRename(h, n, m) => Plain!AttrRename(h.obj, n, m)
    /\ \A p \in Positions :
         /\ AttrOpenAt(h, p[1], p[2], p[3]) /\ (p[2] = "inc" \/ "opendec" \in use.calls)
              => Plain!AttrOpenAt(h.obj, p[1], p[2], p[3])
         /\ AttrInfoAt(h, p[1], p[2], p[3]) => Plain!AttrInfoAt(h.obj, p[1], p[2], p[3])
         /\ "nameat" \in use.calls /\ AttrNameAt(h, p[1], p[2], p[3])
              => Plain!AttrNameAt(h.obj, p[1], p[2], p[3])
         /\ "deleteat" \in use.calls /\ AttrDeleteAt(h, p[1], p[2], p[3])
              => Plain!AttrDeleteAt(h.obj, p[1], p[2], p[3])
    /\ \A k \in {0, 1, 2} :
         (k = 0 \/ "iterfrom" \in use.calls) /\ AttrIterate(h, k) => Plain!AttrIterate(h.obj, k)
    /\ AttrCount(h) => Plain!AttrCount(h.obj)

LinkCallsPlain(g) ==
    /\ \A n \in use.names, path \in use.byPath :
         /\ GroupCreate(g, n, path) \/ DatatypeCommit(g, n, path) => Plain!LinkCreate(g, n)
         /\ GroupOpen(g, n, path) \/ DatatypeOpen(g, n, path) => Plain!LinkOpen(g, n)
         /\ ObjectOpen(g, n, path) \/ LinkGet(g, n, path) => Plain!LinkOpen(g, n)
         /\ ObjectExists(g, n, path) \/ LinkExists(g, n, path) => Plain!LinkExists(g, n)
         /\ LinkDelete(g, n, path) => Plain!LinkDelete(g, n)
         /\ \A h \in {Root, Group}, m \in use.names, pathTo \in use.byPath :
              LinkMove(g, n, path, h, m, pathTo) => Plain!LinkMove(g, n, h, m)
    /\ "again" \in use.calls => \A n, m \in use.names, h \in {Root, Group} :
         /\ LinkCreate(g, n, h, m) \/ LinkCopy(g, n, h, m) => Plain!LinkAgain(g, n, h, m)
         /\ ObjectCopy(g, n, h, m) => Plain!ObjectCopy(g, n, h, m)
    /\ LinkIterate(g) => Plain!LinkIterate(g)
    /\ "linkcount" \in use.calls /\ LinkCount(g) => Plain!LinkCount(g)

\* Each single call does to that view, and returns, what the same call of the
\* library alone does: opening "_x" through the connector opens the "_x" that
\* was created, position 0 is the oldest attribute of the application.
EachCallPlain ==
    [][(\A h \in use.handles : AttrCallsPlain(h))
       /\ ("links" \in use.calls => \A g \in {Root, Group} : LinkCallsPlain(g))]_vars
=============================================================================
