------------------------------- MODULE Subfiles -------------------------------
(***************************************************************************)
(* Subfiling: the processes of a file are split into groups, and every     *)
(* group has a log of its own in a subfile.  What was one collective       *)
(* protocol in LogFile is now several that run side by side, tied together *)
(* by the collectives that are still made on the communicator of the whole *)
(* file, fp->comm.                                                         *)
(*                                                                         *)
(* The members of a group move together (every step below starts with a    *)
(* collective of the group), so a group is a process here; groups are at   *)
(* different places.  The calls are collective: every group makes the same *)
(* calls in the same order, each at its own pace.                          *)
(***************************************************************************)
EXTENDS Integers, Sequences, FiniteSets

CONSTANTS
    NP,           \* processes
    Placements,   \* nodes the processes may run on
    Asked,        \* numbers of subfiles asked for
    None,
    AllWrite,     \* metadata is flushed only when every group has some
    Rewrites,     \* a subfile that is opened anew is written to again
    MaxWrites, MaxCalls, MaxSessions   \* bounds

Ranks == 0 .. NP - 1
AsNumber == 512    \* the configuration read as a number of groups

ASSUME SubfilesAssumption ==
    /\ NP \in 1 .. AsNumber
    /\ Placements \subseteq [Ranks -> Nat] /\ Asked \subseteq Int \ {0}
    /\ AllWrite \in BOOLEAN /\ Rewrites \in BOOLEAN
    /\ MaxWrites \in Nat /\ MaxCalls \in Nat \ {0} /\ MaxSessions \in Nat

VARIABLES
    place, asked, single,   \* nodes, subfiles asked for, single-subfile reads
    sess,      \* "none", "new" or "old": the open session
    ro,        \* it is read-only
    comm,      \* members of the group of each process (fp->group_comm)
    gid,       \* number of its group, and of its subfile (fp->group_id)
    ngroup,    \* groups counted by each process (fp->ngroup)
    home,      \* group of each process in the session that created the file
    calls,     \* the collective calls of the session
    ip, pc,    \* of each group: calls entered, and where it is in the last
    at,        \* number of the subfile it has open
    turn,      \* subfiles opened in this read
    opens,     \* subfiles opened since the file was, each with a broadcast
    nld, nmd,  \* log and metadata datasets it counts (fp->nldset, fp->nmdset)
    dirty,     \* fp->metadirty
    total,     \* some process has data to flush (fsize_all)
    queue,     \* of each process: writes to be flushed
    logged,    \* of each process: flushed writes, to be indexed
    got,       \* of each group: writes found by its last read
    sub,       \* the subfiles
    nwrites, nsess

grouping == <<comm, gid, ngroup, home>>
session  == <<at, turn, opens, nld, nmd, dirty, total, got>>
data     == <<queue, logged, sub>>
vars == <<place, asked, single, sess, ro, grouping, calls, ip, pc, session, data, nwrites, nsess>>
fixed == <<place, asked, single, ro, nsess>>
-----------------------------------------------------------------------------
(* Forming the groups.                                                     *)

\* MPI_Comm_split by rank, or MPI_Comm_split_type by node; ordered by rank.
Colour(r, n) == IF n > 0 THEN (r * n) \div NP ELSE place[r]
Members(r, n) == {s \in Ranks : Colour(s, n) = Colour(r, n)}
GroupRank(r, n) == Cardinality({s \in Members(r, n) : s < r})
Leaders(n) == {r \in Ranks : GroupRank(r, n) = 0}
\* Leaders before this process; the group takes the number its leader has.
CountBefore(r, n) == Cardinality({s \in Leaders(n) : s < r})
\* Wrong variant: The leader's count is not broadcast.
GroupIdCounted(r, n) == CountBefore(r, n)
GroupId(r, n) == CountBefore(CHOOSE s \in Members(r, n) : s \in Leaders(n), n)

\* What calc_node_rank leaves in every process.
CalcNodeRank(n) ==
    /\ comm' = [r \in Ranks |-> Members(r, n)]
    /\ gid' = [r \in Ranks |-> GroupId(r, n)]
    /\ ngroup' = [r \in Ranks |-> Cardinality(Leaders(n))]

In(g) == {r \in Ranks : gid[r] = g}
Groups == {gid[r] : r \in Ranks}
Root == gid[0]    \* the group of rank 0
Ngroup(g) == ngroup[CHOOSE r \in In(g) : TRUE]

EmptySub == [lds |-> <<>>, mds |-> <<>>, att |-> <<0, 0>>]
\* The counts of the main file's attribute: no log is kept there.
MainCounts == [ld |-> 0, md |-> 0]

Started(ids) ==
    /\ at' = ids
    /\ turn' = [g \in Ranks |-> 0] /\ opens' = [g \in Ranks |-> 0]
    /\ nld' = [g \in Ranks |-> MainCounts.ld] /\ nmd' = [g \in Ranks |-> MainCounts.md]
    /\ dirty' = [g \in Ranks |-> FALSE] /\ total' = FALSE
    /\ got' = [g \in Ranks |-> {}]
    /\ calls' = <<>> /\ ip' = [g \in Ranks |-> 0] /\ pc' = [g \in Ranks |-> "idle"]
    /\ nsess' = nsess + 1

\* H5Fcreate: every group creates its subfile.
Create ==
    /\ sess = "none" /\ nsess = 0 /\ nsess < MaxSessions
    /\ CalcNodeRank(asked)
    /\ home' = gid'
    /\ sub' = [g \in Ranks |-> IF g < ngroup'[0] THEN EmptySub ELSE None]
    /\ sess' = "new" /\ ro' = FALSE
    /\ Started([g \in Ranks |-> g])
    /\ UNCHANGED <<place, asked, single, queue, logged, nwrites>>

\* H5Fopen: the groups are formed again, as many as the configuration read as
\* a number gives.  A process that finds no subfile of its number gives up.
Open ==
    /\ sess = "none" /\ nsess > 0 /\ nsess < MaxSessions
    /\ CalcNodeRank(AsNumber)
    /\ IF \A r \in Ranks : sub[gid'[r]] # None
       THEN /\ sess' = "old"
            /\ ro' \in {TRUE} \cup {~Rewrites}
            /\ Started([g \in Ranks |-> g])
       ELSE /\ nsess' = nsess + 1
            /\ UNCHANGED <<sess, ro, calls, ip, pc, session>>
    /\ UNCHANGED <<place, asked, single, home, data, nwrites>>
-----------------------------------------------------------------------------
(* The calls.                                                              *)

Goto(g, l) == pc' = [pc EXCEPT ![g] = l]
Waiting(g) == UNION {queue[r] : r \in In(g)}
Unindexed(g) == UNION {logged[r] : r \in In(g)}

\* A process queues a write between two calls of its group.
Write(r) ==
    /\ sess # "none" /\ ~ro /\ pc[gid[r]] = "idle" /\ nwrites < MaxWrites
    /\ queue' = [queue EXCEPT ![r] = @ \cup {<<r, nwrites + 1>>}]
    /\ nwrites' = nwrites + 1
    /\ UNCHANGED <<fixed, sess, grouping, calls, ip, pc, session, logged, sub>>

\* Wrong variant: A group with nothing to flush leaves at once.
EntryIfWaiting(g, c) ==
    CASE c = "flush"            -> IF Waiting(g) = {} THEN "idle" ELSE "sizes"
      [] c = "close"            -> IF ro THEN "done" ELSE "sizes"
      [] c = "read" /\ single   -> IF dirty[g] THEN "meta" ELSE "search"
      [] c = "read" /\ ~single  -> "switch"
\* Wrong variant: A read does not flush metadata first.
EntryNoMetaflush(g, c) ==
    CASE c = "flush"            -> "sizes"
      [] c = "close"            -> IF ro THEN "done" ELSE "sizes"
      [] c = "read" /\ single   -> "search"
      [] c = "read" /\ ~single  -> "switch"

\* Where a group starts in a call.  H5Fflush, and H5Fclose of a file that can
\* be written, start by adding up the sizes of all groups.  A single-subfile
\* read indexes what was logged, if any group logged anything; a read of all
\* subfiles opens one after another.
Entry(g, c) ==
    CASE c = "flush"            -> "sizes"
      [] c = "close"            -> IF ro THEN "done" ELSE "sizes"
      [] c = "read" /\ single   -> IF dirty[g] THEN "meta" ELSE "search"
      [] c = "read" /\ ~single  -> "switch"

\* With AllWrite, the calls that flush metadata come when every group has some.
\* Without Rewrites, all subfiles are read before the first flush.
MayCall(c) ==
    /\ ~Rewrites /\ ~ro /\ c = "read" /\ ~single =>
        \A i \in 1 .. Len(calls) : calls[i] # "flush"
    /\ AllWrite /\ ~ro /\ (c = "close" \/ (c = "read" /\ single)) =>
          \A g \in Groups :
             /\ pc[g] = "idle" /\ ip[g] = Len(calls)
             /\ \/ Unindexed(g) # {}
                \/ c = "close" /\ Waiting(g) # {}
                \/ c = "read" /\ ~dirty[g]

NewCalls ==
    IF \E i \in 1 .. Len(calls) : calls[i] = "close" THEN {}
    ELSE {c \in {"close"} \cup (IF Len(calls) + 1 < MaxCalls THEN {"flush", "read"} ELSE {}) :
             MayCall(c)}

\* A group enters the next call; the first to get there decides which.
Enter(g) ==
    /\ sess # "none" /\ g \in Groups /\ pc[g] = "idle"
    /\ \E c \in IF ip[g] < Len(calls) THEN {calls[ip[g] + 1]} ELSE NewCalls :
         /\ calls' = IF ip[g] < Len(calls) THEN calls ELSE Append(calls, c)
         /\ Goto(g, Entry(g, c))
    /\ ip' = [ip EXCEPT ![g] = @ + 1]
    /\ turn' = [turn EXCEPT ![g] = 0]
    /\ UNCHANGED <<fixed, sess, grouping, at, opens, nld, nmd, dirty, total, got, data, nwrites>>

Call(g) == calls[ip[g]]

\* Everyone is at the same collective on fp->comm.
Everyone(l) == sess # "none" /\ \A g \in Groups : pc[g] = l

\* MPI_Allreduce and MPI_Exscan of the sizes.
Sizes ==
    /\ Everyone("sizes")
    /\ total' = (\E r \in Ranks : queue[r] # {})
    /\ pc' = [g \in Ranks |-> IF g \in Groups THEN "data" ELSE pc[g]]
    /\ UNCHANGED <<fixed, sess, grouping, calls, ip, at, turn, opens, nld, nmd, dirty, got, data, nwrites>>

\* A group with data creates its next log dataset in the subfile it has open.
\* The creation fails when the subfile has one of that name.
Data(g) ==
    /\ sess # "none" /\ g \in Groups /\ pc[g] = "data"
    /\ LET s == at[g]
           after == IF Call(g) = "close" THEN "meta" ELSE "idle"
       IN IF Waiting(g) = {}
          THEN Goto(g, after) /\ UNCHANGED <<queue, logged, sub, nld>>
          ELSE IF nld[g] < Len(sub[s].lds)
          THEN Goto(g, "failed") /\ UNCHANGED <<queue, logged, sub, nld>>
          ELSE /\ Goto(g, after)
               /\ sub' = [sub EXCEPT ![s].lds = Append(@, Waiting(g))]
               /\ logged' = [r \in Ranks |->
                     IF r \in In(g)
                     THEN logged[r] \cup {[w |-> w, sub |-> s, ld |-> nld[g] + 1] : w \in queue[r]}
                     ELSE logged[r]]
               /\ queue' = [r \in Ranks |-> IF r \in In(g) THEN {} ELSE queue[r]]
               /\ nld' = [nld EXCEPT ![g] = @ + 1]
    /\ dirty' = [dirty EXCEPT ![g] = @ \/ total]
    /\ UNCHANGED <<fixed, sess, grouping, calls, ip, at, turn, opens, nmd, total, got,
                   nwrites>>

AfterMeta(g) == IF Call(g) = "close" THEN "att" ELSE "search"

\* Wrong variant: The dataset is not counted.
MetaflushUncounted(g) ==
    /\ sess # "none" /\ g \in Groups /\ pc[g] = "meta"
    /\ IF Unindexed(g) = {}
       THEN Goto(g, AfterMeta(g)) /\ UNCHANGED sub
       ELSE /\ sub' = [sub EXCEPT ![at[g]].mds = Append(@, Unindexed(g))]
            /\ Goto(g, "barrier")
    /\ logged' = [r \in Ranks |-> IF r \in In(g) THEN {} ELSE logged[r]]
    /\ dirty' = [dirty EXCEPT ![g] = FALSE]
    /\ UNCHANGED <<fixed, sess, grouping, calls, ip, at, turn, opens, nld, nmd, total, got,
                   queue, nwrites>>

\* metaflush: a group with entries writes them, and waits for all processes of
\* the file; a group without goes on.
Metaflush(g) ==
    /\ sess # "none" /\ g \in Groups /\ pc[g] = "meta"
    /\ IF Unindexed(g) = {}
       THEN Goto(g, AfterMeta(g)) /\ UNCHANGED <<sub, nmd>>
       ELSE /\ sub' = [sub EXCEPT ![at[g]].mds = Append(@, Unindexed(g))]
            /\ nmd' = [nmd EXCEPT ![g] = @ + 1]
            /\ Goto(g, "barrier")
    /\ logged' = [r \in Ranks |-> IF r \in In(g) THEN {} ELSE logged[r]]
    /\ dirty' = [dirty EXCEPT ![g] = FALSE]
    /\ UNCHANGED <<fixed, sess, grouping, calls, ip, at, turn, opens, nld, total, got,
                   queue, nwrites>>

\* MPI_Barrier (fp->comm).
Barrier ==
    /\ Everyone("barrier")
    /\ pc' = [g \in Ranks |-> IF g \in Groups THEN AfterMeta(g) ELSE pc[g]]
    /\ UNCHANGED <<fixed, sess, grouping, calls, ip, session, data, nwrites>>

\* A single-subfile read loads the metadata datasets it counts.
Search(g) ==
    /\ sess # "none" /\ g \in Groups /\ pc[g] = "search"
    /\ got' = [got EXCEPT ![g] = {x.w : x \in UNION {sub[at[g]].mds[i] : i \in 1 .. nmd[g]}}]
    /\ Goto(g, "idle")
    /\ UNCHANGED <<fixed, sess, grouping, calls, ip, at, turn, opens, nld, nmd, dirty, total,
                   data, nwrites>>

\* Wrong variant: The group's own subfile first.
SwitchOwnFirst(g) ==
    /\ sess # "none" /\ g \in Groups /\ pc[g] = "switch" /\ turn[g] < Ngroup(g)
    /\ g = Root \/ opens[g] < opens[Root]
    /\ turn' = [turn EXCEPT ![g] = @ + 1]
    /\ opens' = [opens EXCEPT ![g] = @ + 1]
    /\ at' = [at EXCEPT ![g] = (g + turn[g]) % Ngroup(g)]
    /\ nld' = [nld EXCEPT ![g] = MainCounts.ld]
    /\ nmd' = [nmd EXCEPT ![g] = MainCounts.md]
    /\ UNCHANGED <<fixed, sess, grouping, calls, ip, pc, dirty, total, got, data, nwrites>>
\* Wrong variant: No wraparound.
SwitchPastEnd(g) ==
    /\ sess # "none" /\ g \in Groups /\ pc[g] = "switch" /\ turn[g] < Ngroup(g)
    /\ g = Root \/ opens[g] < opens[Root]
    /\ turn' = [turn EXCEPT ![g] = @ + 1]
    /\ opens' = [opens EXCEPT ![g] = @ + 1]
    /\ at' = [at EXCEPT ![g] = g + turn[g] + 1]
    /\ nld' = [nld EXCEPT ![g] = MainCounts.ld]
    /\ nmd' = [nmd EXCEPT ![g] = MainCounts.md]
    /\ UNCHANGED <<fixed, sess, grouping, calls, ip, pc, dirty, total, got, data, nwrites>>

\* The next subfile in turn, the group's own last.  The broadcast comes from
\* rank 0, which does not wait for the others.  The counts are read from the
\* main file.  Nothing is searched.
SwitchSubfile(g) ==
    /\ sess # "none" /\ g \in Groups /\ pc[g] = "switch" /\ turn[g] < Ngroup(g)
    /\ g = Root \/ opens[g] < opens[Root]
    /\ turn' = [turn EXCEPT ![g] = @ + 1]
    /\ opens' = [opens EXCEPT ![g] = @ + 1]
    /\ at' = [at EXCEPT ![g] = (g + turn[g] + 1) % Ngroup(g)]
    /\ nld' = [nld EXCEPT ![g] = MainCounts.ld]
    /\ nmd' = [nmd EXCEPT ![g] = MainCounts.md]
    /\ UNCHANGED <<fixed, sess, grouping, calls, ip, pc, dirty, total, got, data, nwrites>>

SwitchEnd(g) ==
    /\ sess # "none" /\ g \in Groups /\ pc[g] = "switch" /\ turn[g] = Ngroup(g)
    /\ got' = [got EXCEPT ![g] = {}]
    /\ Goto(g, "idle")
    /\ UNCHANGED <<fixed, sess, grouping, calls, ip, at, turn, opens, nld, nmd, dirty, total,
                   data, nwrites>>

\* The attribute of the subfile, then the rest of H5Fclose.
PutAtt(g) ==
    /\ sess # "none" /\ g \in Groups /\ pc[g] = "att"
    /\ sub' = [sub EXCEPT ![at[g]].att = <<nld[g], nmd[g]>>]
    /\ Goto(g, "done")
    /\ UNCHANGED <<fixed, sess, grouping, calls, ip, session, queue, logged, nwrites>>

End ==
    /\ Everyone("done")
    /\ sess' = "none"
    /\ UNCHANGED <<fixed, grouping, calls, ip, pc, session, data, nwrites>>
-----------------------------------------------------------------------------
Init ==
    /\ place \in Placements /\ asked \in Asked /\ single \in BOOLEAN
    /\ sess = "none" /\ ro = FALSE
    /\ comm = [r \in Ranks |-> {}] /\ gid = [r \in Ranks |-> 0]
    /\ ngroup = [r \in Ranks |-> 0] /\ home = [r \in Ranks |-> 0]
    /\ calls = <<>> /\ ip = [g \in Ranks |-> 0] /\ pc = [g \in Ranks |-> "idle"]
    /\ at = [g \in Ranks |-> g] /\ turn = [g \in Ranks |-> 0] /\ opens = turn
    /\ nld = turn /\ nmd = turn
    /\ dirty = [g \in Ranks |-> FALSE] /\ total = FALSE
    /\ queue = comm /\ logged = comm /\ got = comm
    /\ sub = [g \in Ranks |-> None]
    /\ nwrites = 0 /\ nsess = 0

Step(g) ==
    \/ Data(g) \/ Metaflush(g) \/ Search(g)
    \/ SwitchSubfile(g) \/ SwitchEnd(g) \/ PutAtt(g)

Next ==
    \/ Create \/ Open \/ End
    \/ \E r \in Ranks : Write(r)
    \/ Sizes \/ Barrier
    \/ \E g \in Ranks : Enter(g) \/ Step(g)

Spec == Init /\ [][Next]_vars

\* A group that is inside a call goes on with it, and joins the calls that
\* others have made; new calls and writes are the application's choice.
Joins(g) == ip[g] < Len(calls) /\ Enter(g)
FairSpec ==
    /\ Spec
    /\ WF_vars(Sizes) /\ WF_vars(Barrier)
    /\ \A g \in Ranks : WF_vars(Step(g)) /\ WF_vars(Joins(g))
-----------------------------------------------------------------------------
TypeOK ==
    /\ sess \in {"none", "new", "old"} /\ ro \in BOOLEAN
    /\ \A r \in Ranks :
         /\ gid[r] \in Ranks /\ ngroup[r] \in 0 .. NP /\ at[r] \in Ranks
         /\ pc[r] \in {"idle", "sizes", "data", "meta", "barrier", "search", "switch", "att", "done",
                   "failed"}
         /\ ip[r] \in 0 .. Len(calls)
         /\ nld[r] =< MaxCalls /\ nmd[r] =< MaxCalls
    /\ \A g \in Ranks : sub[g] # None =>
         \A i \in 1 .. Len(sub[g].lds) : sub[g].lds[i] \subseteq Ranks \X (1 .. MaxWrites)

\* However many subfiles are asked for and wherever the processes run, they all
\* agree on how many groups there are, the groups are numbered from 0 on, and
\* two processes have the same number exactly if they are in the same group
\* (calc_node_rank: every process counts, the leader's count is broadcast).
GroupsAgree ==
    sess # "none" =>
        /\ \A r \in Ranks : r \in comm[r] /\ ngroup[r] = Cardinality({comm[s] : s \in Ranks})
        /\ \A r, s \in Ranks : (gid[r] = gid[s]) <=> (comm[r] = comm[s])
        /\ {gid[r] : r \in Ranks} = 0 .. ngroup[0] - 1

\* What is in a subfile was written by its group, and its metadata leads to a
\* log dataset of the same subfile that has the write, although groups open
\* each other's subfiles to read while others still log (fp->sfp, fp->group_id
\* after flush_read_reqs).
OwnSubfile ==
    \A g \in Ranks : sub[g] # None =>
        /\ \A i \in 1 .. Len(sub[g].lds) : \A w \in sub[g].lds[i] : home[w[1]] = g
        /\ \A i \in 1 .. Len(sub[g].mds) : \A x \in sub[g].mds[i] :
              x.sub = g /\ x.ld \in 1 .. Len(sub[g].lds) /\ x.w \in sub[g].lds[x.ld]

\* Between sessions, the counts in a subfile's attribute are those of the
\* datasets it has: later readers of the subfile look for as many (filei_close).
CountsTrue ==
    sess = "none" =>
        \A g \in Ranks : sub[g] # None =>
            sub[g].att = <<Len(sub[g].lds), Len(sub[g].mds)>>

\* A single-subfile read finds everything the group has flushed, in the session
\* that wrote it (idx_search after metaflush).
ReadFindsOwn ==
    [][\A g \in Ranks : sess = "new" /\ pc[g] = "search" /\ pc'[g] = "idle" =>
          got'[g] = UNION {sub[g].lds[i] : i \in 1 .. Len(sub[g].lds)}]_vars

\* A collective call that a group has entered ends in every group: the groups
\* find each other at every collective on fp->comm (Allreduce of the sizes,
\* broadcast of open_subfile, barrier of metaflush).
CallsEnd ==
    \A g \in Ranks :
        LET inside == sess # "none" /\ g \in Groups /\
                      (ip[g] < Len(calls) \/ pc[g] \notin {"idle", "done"})
        IN inside ~> ~inside
=============================================================================
