---------------------------- MODULE SubfilesProofs ----------------------------
(***************************************************************************)
(* Proofs about Subfiles.                                                  *)
(*                                                                         *)
(* The first part is about calc_node_rank alone: whatever the colours are, *)
(* the leaders are the least members of the groups, the number of leaders  *)
(* before a leader is different for every leader, and these numbers run    *)
(* from 0 to the number of groups less one.  The second part is about the  *)
(* protocol; its invariants come one after the other, each resting on the  *)
(* ones before:                                                            *)
(*   GroupInv   the grouping, the same in every process;                   *)
(*   TypeInv    types, and the counts below the calls entered;             *)
(*   PlaceInv   a group that is not reading another subfile is in its own; *)
(*   CallInv    the call a group is in, at each of its places;             *)
(*   RestInv    where writes are before they are indexed;                  *)
(*   OwnInv     logs and metadata of a subfile belong to it;               *)
(*   FoundInv   counts and contents in a session that reads one subfile;   *)
(*   CountInv   counts in a session, and in the attribute after it.        *)
(***************************************************************************)
EXTENDS Subfiles, FiniteSetTheorems, SequenceTheorems, TLAPS

\* A nonempty set of naturals has a least element.
LEMMA LeastElement ==
  ASSUME NEW T \in SUBSET Nat, T # {}
  PROVE  \E m \in T : \A n \in T : m <= n
  <1> DEFINE R == OpToRel(<, Nat)
  <1>1. IsWellFoundedOn(R, Nat)
    BY NatLessThanWellFounded
  <1>2. \A x, y \in Nat : <<y, x>> \in R <=> y < x
    BY DEF OpToRel
  <1> HIDE DEF R
  <1>3. PICK m \in T : \A n \in T : ~ (<<n, m>> \in R)
    BY <1>1, WFMin
  <1>4. ASSUME NEW n \in T PROVE m <= n
    <2>1. m \in Nat /\ n \in Nat /\ ~ (n < m)
      BY <1>2, <1>3
    <2>2. QED
      BY <2>1
  <1>5. QED
    BY <1>4
-----------------------------------------------------------------------------
(* The grouping.                                                           *)

LEMMA RanksFinite == Ranks \subseteq Nat /\ 0 \in Ranks /\ IsFiniteSet(Ranks) /\ Cardinality(Ranks) = NP
  <1>1. NP \in Nat /\ NP >= 1
    BY SubfilesAssumption
  <1>2. IsFiniteSet(0 .. NP - 1) /\ Cardinality(0 .. NP - 1) = NP
    BY <1>1, FS_Interval
  <1>3. QED
    BY <1>1, <1>2 DEF Ranks

\* The groups are classes: each process is in its own, and its members have
\* the same.
LEMMA MembersClass ==
  ASSUME NEW n, NEW r \in Ranks
  PROVE  /\ r \in Members(r, n) /\ Members(r, n) \subseteq Ranks
         /\ \A s \in Ranks : s \in Members(r, n) <=> Members(s, n) = Members(r, n)
  <1> HIDE DEF Colour
  <1>1. QED
    BY DEF Members

\* The leader of a group is its member of least rank.
LEMMA LeaderIsLeast ==
  ASSUME NEW n, NEW r \in Ranks
  PROVE  r \in Leaders(n) <=> \A s \in Members(r, n) : r <= s
  <1> DEFINE Below == {s \in Members(r, n) : s < r}
  <1>1. IsFiniteSet(Below)
    <2>1. Below \in SUBSET Ranks
      BY MembersClass
    <2>2. QED
      BY <2>1, RanksFinite, FS_Subset
  <1>2. r \in Leaders(n) <=> Below = {}
    BY <1>1, FS_EmptySet DEF Leaders, GroupRank
  <1>3. \A s \in Members(r, n) : s \in Nat /\ r \in Nat
    BY MembersClass, RanksFinite
  <1>4. QED
    BY <1>2, <1>3

\* Every group has one leader.
LEMMA OneLeader ==
  ASSUME NEW n, NEW r \in Ranks
  PROVE  /\ \E s \in Members(r, n) : s \in Leaders(n)
         /\ \A s, t \in Members(r, n) : s \in Leaders(n) /\ t \in Leaders(n) => s = t
  <1>1. Members(r, n) \in SUBSET Nat /\ Members(r, n) # {} /\ Members(r, n) \subseteq Ranks
    BY MembersClass, RanksFinite
  <1>2. PICK m \in Members(r, n) : \A s \in Members(r, n) : m <= s
    BY <1>1, LeastElement
  <1>3. \A s \in Members(r, n) : Members(s, n) = Members(r, n)
    BY <1>1, MembersClass
  <1>4. m \in Leaders(n)
    BY <1>1, <1>2, <1>3, LeaderIsLeast
  <1>5. ASSUME NEW s \in Members(r, n), NEW t \in Members(r, n), s \in Leaders(n), t \in Leaders(n)
        PROVE  s = t
    <2>1. s <= t /\ t <= s
      BY <1>1, <1>3, <1>5, LeaderIsLeast
    <2>2. QED
      BY <2>1, <1>1
  <1>6. QED
    BY <1>4, <1>5

\* Leaders have different counts.
LEMMA CountsDiffer ==
  ASSUME NEW n, NEW s \in Leaders(n), NEW t \in Leaders(n), s < t
  PROVE  CountBefore(s, n) < CountBefore(t, n)
  <1> DEFINE S == {q \in Leaders(n) : q < s}
             T == {q \in Leaders(n) : q < t}
  <1>0. Leaders(n) \subseteq Ranks
    BY DEF Leaders
  <1>1. IsFiniteSet(T) /\ S \in SUBSET T /\ s \in T /\ s \notin S
    <2>1. T \in SUBSET Ranks
      BY <1>0
    <2>2. IsFiniteSet(T)
      BY <2>1, RanksFinite, FS_Subset
    <2>3. ASSUME NEW q \in Leaders(n), q < s PROVE q < t
      <3>1. q \in Nat /\ s \in Nat /\ t \in Nat
        BY <1>0, RanksFinite
      <3>2. QED
        BY <3>1, <2>3
    <2>4. ~ (s < s)
      <3>1. s \in Nat
        BY <1>0, RanksFinite
      <3>2. QED
        BY <3>1
    <2>5. QED
      BY <2>2, <2>3, <2>4
  <1> HIDE DEF S, T
  <1>2. IsFiniteSet(S) /\ Cardinality(S) <= Cardinality(T) /\ Cardinality(S) # Cardinality(T)
    BY <1>1, FS_Subset
  <1>3. Cardinality(S) \in Nat /\ Cardinality(T) \in Nat
    BY <1>1, <1>2, FS_CardinalityType
  <1>4. Cardinality(S) < Cardinality(T)
    BY <1>2, <1>3
  <1>5. QED
    BY <1>4 DEF CountBefore, S, T

\* The counts of the leaders are 0, 1, ... up to the number of leaders.
LEMMA CountsFill ==
  ASSUME NEW n
  PROVE  /\ Cardinality(Leaders(n)) \in 1 .. NP
         /\ \A s \in Leaders(n) : CountBefore(s, n) \in 0 .. Cardinality(Leaders(n)) - 1
         /\ \A s, t \in Leaders(n) : CountBefore(s, n) = CountBefore(t, n) => s = t
         /\ \A k \in 0 .. Cardinality(Leaders(n)) - 1 : \E s \in Leaders(n) : CountBefore(s, n) = k
  <1> DEFINE L == Leaders(n)
             K == Cardinality(L)
             f == [s \in L |-> CountBefore(s, n)]
  <1>1. L \in SUBSET Ranks /\ L # {}
    <2>1. \E s \in Members(0, n) : s \in Leaders(n)
      BY RanksFinite, OneLeader
    <2>2. QED
      BY <2>1 DEF Leaders
  <1>2. IsFiniteSet(L) /\ K \in Nat /\ K <= NP /\ K # 0
    <2>1. IsFiniteSet(L) /\ K <= Cardinality(Ranks)
      BY <1>1, RanksFinite, FS_Subset
    <2>2. QED
      BY <1>1, <2>1, RanksFinite, FS_CardinalityType, FS_EmptySet
  <1>3. ASSUME NEW s \in L PROVE CountBefore(s, n) \in 0 .. K - 1
    <2> DEFINE B == {q \in L : q < s}
    <2>1. B \in SUBSET L /\ s \notin B
      <3>1. s \in Nat
        BY <1>1, <1>3, RanksFinite
      <3>2. ~ (s < s)
        BY <3>1
      <3>3. QED
        BY <3>2
    <2>2. CountBefore(s, n) = Cardinality(B)
      BY DEF CountBefore
    <2> HIDE DEF B, K, L
    <2>3. IsFiniteSet(B) /\ Cardinality(B) <= Cardinality(L) /\ Cardinality(L) # Cardinality(B)
      BY <1>2, <1>3, <2>1, FS_Subset
    <2>4. Cardinality(B) \in Nat
      BY <2>3, FS_CardinalityType
    <2>5. QED
      BY <1>2, <2>2, <2>3, <2>4 DEF K
  <1>4. ASSUME NEW s \in L, NEW t \in L, CountBefore(s, n) = CountBefore(t, n) PROVE s = t
    <2>1. s \in Nat /\ t \in Nat /\ CountBefore(s, n) \in Nat /\ CountBefore(t, n) \in Nat
      <3>1. s \in Nat /\ t \in Nat
        BY <1>1, RanksFinite
      <3> HIDE DEF K
      <3>2. CountBefore(s, n) \in 0 .. K - 1 /\ CountBefore(t, n) \in 0 .. K - 1
        BY <1>3
      <3>3. QED
        BY <1>2, <3>1, <3>2
    <2>2. s < t => CountBefore(s, n) < CountBefore(t, n)
      BY CountsDiffer
    <2>3. t < s => CountBefore(t, n) < CountBefore(s, n)
      BY CountsDiffer
    <2>4. QED
      BY <1>4, <2>1, <2>2, <2>3
  <1>5. f \in Injection(L, 0 .. K - 1)
    <2>1. f \in [L -> 0 .. K - 1]
      BY <1>3
    <2>2. \A s, t \in L : f[s] = f[t] => s = t
      BY <1>4
    <2> HIDE DEF f
    <2>3. QED
      BY <2>1, <2>2 DEF Injection, IsInjective
  <1>6. IsFiniteSet(0 .. K - 1) /\ Cardinality(0 .. K - 1) = K
    <2> HIDE DEF K
    <2>1. QED
      BY <1>2, FS_Interval
  <1>7. f \in Surjection(L, 0 .. K - 1)
    <2> HIDE DEF f, L
    <2>1. QED
      BY <1>5, <1>6, FS_Injection
  <1>8. \A k \in 0 .. K - 1 : \E s \in L : f[s] = k
    <2> HIDE DEF f, L, K
    <2>1. QED
      BY <1>7 DEF Surjection
  <1>9. QED
    BY <1>2, <1>3, <1>4, <1>8

\* As many groups as leaders.
LEMMA AsManyGroups ==
  ASSUME NEW n
  PROVE  Cardinality({Members(s, n) : s \in Ranks}) = Cardinality(Leaders(n))
  <1> DEFINE L == Leaders(n)
             C == {Members(s, n) : s \in Ranks}
             f == [s \in L |-> Members(s, n)]
  <1>1. L \in SUBSET Ranks
    BY DEF Leaders
  <1>2. IsFiniteSet(L)
    BY <1>1, RanksFinite, FS_Subset
  <1>3. f \in Surjection(L, C)
    <2>1. f \in [L -> C]
      BY <1>1
    <2>2. ASSUME NEW r \in Ranks PROVE \E s \in L : f[s] = Members(r, n)
      <3>1. PICK s \in Members(r, n) : s \in L
        BY OneLeader
      <3>2. Members(s, n) = Members(r, n)
        BY <1>1, <3>1, MembersClass
      <3>3. QED
        BY <3>1, <3>2
    <2>3. QED
      BY <2>1, <2>2 DEF Surjection
  <1>4. f \in Injection(L, C)
    <2>1. ASSUME NEW s \in L, NEW t \in L, Members(s, n) = Members(t, n) PROVE s = t
      <3>1. s \in Members(s, n) /\ t \in Members(s, n)
        BY <1>1, <2>1, MembersClass
      <3>2. QED
        BY <1>1, <3>1, OneLeader
    <2>2. \A s, t \in L : f[s] = f[t] => s = t
      BY <2>1
    <2>3. f \in [L -> C]
      BY <1>1
    <2> HIDE DEF f, L, C
    <2>4. QED
      BY <2>2, <2>3 DEF Injection, IsInjective
  <1>5. QED
    <2> HIDE DEF f, L, C
    <2>1. Cardinality(C) = Cardinality(L)
      BY <1>2, <1>3, <1>4, FS_Surjection
    <2>2. QED
      BY <2>1 DEF C, L

\* The number of a group is the count of its leader: the same exactly for the
\* members of the group.
LEMMA GroupIds ==
  ASSUME NEW n
  PROVE  /\ \A r \in Ranks : GroupId(r, n) \in 0 .. Cardinality(Leaders(n)) - 1
         /\ \A r, s \in Ranks : GroupId(r, n) = GroupId(s, n) <=> Members(r, n) = Members(s, n)
         /\ {GroupId(r, n) : r \in Ranks} = 0 .. Cardinality(Leaders(n)) - 1
  <1> DEFINE Lead(r) == CHOOSE s \in Members(r, n) : s \in Leaders(n)
  <1>1. \A r \in Ranks : Lead(r) \in Members(r, n) /\ Lead(r) \in Leaders(n)
    BY OneLeader
  <1>2. \A r \in Ranks : GroupId(r, n) = CountBefore(Lead(r), n)
    BY DEF GroupId
  <1>3. Leaders(n) \subseteq Ranks
    BY DEF Leaders
  <1>4. \A s \in Leaders(n) : Lead(s) = s
    BY <1>1, <1>3, MembersClass, OneLeader
  <1>5. ASSUME NEW r \in Ranks, NEW s \in Ranks
        PROVE  GroupId(r, n) = GroupId(s, n) <=> Members(r, n) = Members(s, n)
    <2>1. ASSUME GroupId(r, n) = GroupId(s, n) PROVE Members(r, n) = Members(s, n)
      <3> HIDE DEF Lead
      <3>1. Lead(r) = Lead(s)
        BY <1>1, <1>2, <2>1, CountsFill
      <3>2. Lead(r) \in Ranks /\ Lead(r) \in Members(r, n) /\ Lead(r) \in Members(s, n)
        BY <1>1, <1>3, <3>1
      <3>3. QED
        BY <3>2, MembersClass
    <2>2. Members(r, n) = Members(s, n) => GroupId(r, n) = GroupId(s, n)
      BY DEF GroupId
    <2>3. QED
      BY <2>1, <2>2
  <1> HIDE DEF Lead
  <1>6. \A r \in Ranks : GroupId(r, n) \in 0 .. Cardinality(Leaders(n)) - 1
    BY <1>1, <1>2, CountsFill
  <1>7. ASSUME NEW k \in 0 .. Cardinality(Leaders(n)) - 1 PROVE \E r \in Ranks : GroupId(r, n) = k
    <2>1. PICK s \in Leaders(n) : CountBefore(s, n) = k
      BY CountsFill
    <2>2. QED
      BY <1>2, <1>3, <1>4, <2>1
  <1>8. QED
    BY <1>5, <1>6, <1>7
-----------------------------------------------------------------------------
(* What holds of the grouping in a session.                                *)

Grouped ==
    /\ \A r \in Ranks : r \in comm[r] /\ ngroup[r] = Cardinality({comm[s] : s \in Ranks})
    /\ \A r, s \in Ranks : (gid[r] = gid[s]) <=> (comm[r] = comm[s])
    /\ {gid[r] : r \in Ranks} = 0 .. ngroup[0] - 1
    /\ gid \in [Ranks -> Ranks] /\ ngroup \in [Ranks -> 1 .. NP]

GroupInv ==
    /\ sess # "none" => Grouped
    /\ gid \in [Ranks -> Ranks] /\ ngroup \in [Ranks -> 0 .. NP]

\* Every forming of the groups gives such a grouping.
LEMMA Forming ==
  ASSUME NEW n, CalcNodeRank(n)
  PROVE  Grouped'
  <1> DEFINE K == Cardinality(Leaders(n))
  <1>1. /\ \A r \in Ranks : comm'[r] = Members(r, n)
        /\ \A r \in Ranks : gid'[r] = GroupId(r, n)
        /\ \A r \in Ranks : ngroup'[r] = K
    BY DEF CalcNodeRank
  <1>2. {comm'[s] : s \in Ranks} = {Members(s, n) : s \in Ranks}
    BY <1>1
  <1>3. ngroup'[0] = K /\ K \in 1 .. NP
    BY <1>1, RanksFinite, CountsFill
  <1>4. {gid'[r] : r \in Ranks} = 0 .. ngroup'[0] - 1
    <2>1. {gid'[r] : r \in Ranks} = {GroupId(r, n) : r \in Ranks}
      BY <1>1
    <2>2. QED
      BY <1>3, <2>1, GroupIds
  <1>5. \A r \in Ranks : gid'[r] \in Ranks
    <2>1. \A r \in Ranks : gid'[r] \in 0 .. K - 1
      BY <1>1, GroupIds
    <2>2. 0 .. K - 1 \subseteq Ranks
      BY <1>3, SubfilesAssumption DEF Ranks
    <2>3. QED
      BY <2>1, <2>2
  <1>6. gid' \in [Ranks -> Ranks] /\ ngroup' \in [Ranks -> 1 .. NP]
    BY <1>1, <1>3, <1>5 DEF CalcNodeRank
  <1>7. \A r \in Ranks : r \in comm'[r]
    BY <1>1, MembersClass
  <1>8. \A r, s \in Ranks : (gid'[r] = gid'[s]) <=> (comm'[r] = comm'[s])
    BY <1>1, GroupIds
  <1>9. \A r \in Ranks : ngroup'[r] = Cardinality({comm'[s] : s \in Ranks})
    BY <1>1, <1>2, AsManyGroups
  <1>10. QED
    BY <1>4, <1>6, <1>7, <1>8, <1>9 DEF Grouped

LEMMA GroupStep ==
  ASSUME GroupInv, [Next]_vars
  PROVE  GroupInv'
  <1>1. ASSUME NEW n, CalcNodeRank(n) PROVE GroupInv'
    <2>1. Grouped'
      BY <1>1, Forming
    <2>2. (1 .. NP) \subseteq 0 .. NP
      BY SubfilesAssumption
    <2>3. QED
      BY <2>1, <2>2 DEF GroupInv, Grouped
  <1>2. CASE Create
    BY <1>1, <1>2 DEF Create
  <1>3. CASE Open
    BY <1>1, <1>3 DEF Open
  <1>4. CASE UNCHANGED grouping /\ (sess' = sess \/ sess' = "none")
    BY <1>4 DEF GroupInv, Grouped, grouping
  <1>5. Next \/ UNCHANGED vars => Create \/ Open \/ (UNCHANGED grouping /\ (sess' = sess \/ sess' = "none"))
    BY DEF Next, End, Write, Sizes, Barrier, Enter, Step, Data, Metaflush, Search, SwitchSubfile,
           SwitchEnd, PutAtt, vars
  <1>6. QED
    BY <1>2, <1>3, <1>4, <1>5

LEMMA GroupInit == ASSUME Init PROVE GroupInv
  <1>1. 0 \in Ranks /\ 0 \in 0 .. NP
    BY RanksFinite, SubfilesAssumption
  <1>2. QED
    BY <1>1 DEF Init, GroupInv

\* However many subfiles are asked for and wherever the processes run, they all
\* agree on the number of groups and on who is in which (calc_node_rank).
THEOREM GroupingAgreed == Spec => []GroupsAgree
  <1>1. Spec => []GroupInv
    <2>1. GroupInv /\ [Next]_vars => GroupInv'
      BY GroupStep
    <2>2. QED
      BY <2>1, GroupInit, PTL DEF Spec
  <1>2. GroupInv => GroupsAgree
    BY DEF GroupInv, Grouped, GroupsAgree
  <1>3. QED
    BY <1>1, <1>2, PTL

\* In a session the groups are numbered from 0, and each counts them all.
LEMMA GroupNumbers ==
  ASSUME GroupInv, sess # "none"
  PROVE  /\ Groups = 0 .. ngroup[0] - 1 /\ ngroup[0] \in 1 .. NP
         /\ Groups \subseteq Ranks /\ \A r \in Ranks : gid[r] \in Groups
         /\ \A g \in Groups : Ngroup(g) = ngroup[0] /\ g % Ngroup(g) = g /\ (g + Ngroup(g)) % Ngroup(g) = g
  <1>1. Groups = 0 .. ngroup[0] - 1 /\ ngroup[0] \in 1 .. NP
    BY RanksFinite DEF GroupInv, Grouped, Groups
  <1>2. Groups \subseteq Ranks /\ \A r \in Ranks : gid[r] \in Groups
    BY DEF GroupInv, Groups
  <1>3. ASSUME NEW g \in Groups PROVE Ngroup(g) = ngroup[0] /\ g % Ngroup(g) = g /\ (g + Ngroup(g)) % Ngroup(g) = g
    <2>1. \E r \in In(g) : TRUE
      BY DEF Groups, In
    <2>2. (CHOOSE r \in In(g) : TRUE) \in Ranks
      BY <2>1 DEF In
    <2>3. \A r \in Ranks : ngroup[r] = ngroup[0]
      BY RanksFinite DEF GroupInv, Grouped
    <2>4. Ngroup(g) = ngroup[0]
      BY <2>2, <2>3 DEF Ngroup
    <2>5. ASSUME NEW N \in Nat \ {0}, NEW h \in 0 .. N - 1 PROVE h % N = h /\ (h + N) % N = h
      OBVIOUS
    <2>6. ngroup[0] \in Nat \ {0}
      BY <1>1, SubfilesAssumption
    <2>7. QED
      BY <1>1, <2>4, <2>5, <2>6
  <1>4. QED
    BY <1>1, <1>2, <1>3
-----------------------------------------------------------------------------
(* Types.                                                                  *)

Places == {"idle", "sizes", "data", "meta", "barrier", "search", "switch", "att", "done", "failed"}
Written == Ranks \X (1 .. MaxWrites)
Entries == [w : Written, sub : Ranks, ld : Nat]
SubRec == [lds : Seq(SUBSET Written), mds : Seq(SUBSET Entries), att : Nat \X Nat]

ControlTypes ==
    /\ single \in BOOLEAN /\ sess \in {"none", "new", "old"} /\ ro \in BOOLEAN
    /\ calls \in Seq({"flush", "read", "close"}) /\ ip \in [Ranks -> Nat] /\ pc \in [Ranks -> Places]
    /\ at \in [Ranks -> Ranks] /\ turn \in [Ranks -> Nat]
    /\ nld \in [Ranks -> Nat] /\ nmd \in [Ranks -> Nat]
    /\ dirty \in [Ranks -> BOOLEAN] /\ total \in BOOLEAN

DataTypes ==
    /\ queue \in [Ranks -> SUBSET Written] /\ logged \in [Ranks -> SUBSET Entries]
    /\ got \in [Ranks -> SUBSET Written]
    /\ \A g \in Ranks : sub[g] # None => sub[g] \in SubRec
    /\ DOMAIN sub = Ranks /\ sub = [g \in Ranks |-> sub[g]]
    /\ nwrites \in 0 .. MaxWrites

\* The subfiles of the groups are there, one of them is open, and the datasets
\* that are counted are there.
SubsThere ==
    sess # "none" =>
        \A g \in Groups :
            /\ sub[g] \in SubRec /\ at[g] \in Groups
            /\ nld[g] =< Len(sub[at[g]].lds) /\ nmd[g] =< Len(sub[at[g]].mds)

\* A call is counted before it makes a dataset.
Bounds ==
    /\ Len(calls) =< MaxCalls
    /\ (\A i \in 1 .. Len(calls) : calls[i] # "close") => Len(calls) < MaxCalls
    /\ \A g \in Ranks :
         /\ ip[g] =< Len(calls) /\ nld[g] =< ip[g] /\ nmd[g] =< ip[g]
         /\ pc[g] \in {"sizes", "data"} => nld[g] < ip[g]
         /\ pc[g] \in {"sizes", "data", "meta"} => nmd[g] < ip[g]

TypeInv == GroupInv /\ ControlTypes /\ DataTypes /\ SubsThere /\ Bounds

LEMMA TypeInit == ASSUME Init PROVE TypeInv
  <1>1. GroupInv
    BY GroupInit
  <1>2. ControlTypes
    <2>1. /\ turn = [g \in Ranks |-> 0] /\ ip = [g \in Ranks |-> 0]
          /\ nld = [g \in Ranks |-> 0] /\ nmd = [g \in Ranks |-> 0]
      BY DEF Init
    <2>2. turn \in [Ranks -> Nat] /\ ip \in [Ranks -> Nat] /\ nld \in [Ranks -> Nat] /\ nmd \in [Ranks -> Nat]
      BY <2>1
    <2>3. pc \in [Ranks -> Places] /\ at \in [Ranks -> Ranks] /\ dirty \in [Ranks -> BOOLEAN]
      BY DEF Init, Places
    <2>4. calls \in Seq({"flush", "read", "close"})
      BY DEF Init
    <2>5. single \in BOOLEAN /\ sess = "none" /\ ro = FALSE /\ total = FALSE
      BY DEF Init
    <2>6. QED
      BY <2>2, <2>3, <2>4, <2>5 DEF ControlTypes
  <1>3. DataTypes
    <2>1. 0 \in 0 .. MaxWrites
      BY SubfilesAssumption
    <2>2. queue = [r \in Ranks |-> {}] /\ logged = [r \in Ranks |-> {}] /\ got = [r \in Ranks |-> {}]
      BY DEF Init
    <2>3. QED
      BY <2>1, <2>2 DEF Init, DataTypes
  <1>4. SubsThere
    BY DEF Init, SubsThere
  <1>5. Bounds
    BY SubfilesAssumption DEF Init, Bounds
  <1>6. QED
    BY <1>1, <1>2, <1>3, <1>4, <1>5 DEF TypeInv

\* A session begins at no call, in the groups' own subfiles.
LEMMA StartTypes ==
  ASSUME TypeInv, Started([g \in Ranks |-> g]), UNCHANGED <<single>>,
         sess' \in {"new", "old"}, ro' \in BOOLEAN, sub' = [g \in Ranks |-> sub'[g]],
         \A g \in Ranks : sub'[g] # None => sub'[g] \in SubRec,
         GroupInv', \A r \in Ranks : sub'[gid'[r]] \in SubRec,
         UNCHANGED <<queue, logged, nwrites>>
  PROVE  TypeInv'
  <1>1. ControlTypes'
    <2>1. turn' \in [Ranks -> Nat] /\ ip' \in [Ranks -> Nat] /\ nld' \in [Ranks -> Nat] /\ nmd' \in [Ranks -> Nat]
      BY DEF Started, MainCounts
    <2>2. pc' \in [Ranks -> Places] /\ at' \in [Ranks -> Ranks] /\ dirty' \in [Ranks -> BOOLEAN]
      BY DEF Started, Places
    <2>3. calls' \in Seq({"flush", "read", "close"}) /\ total' = FALSE
      BY DEF Started
    <2>4. QED
      BY <2>1, <2>2, <2>3 DEF TypeInv, ControlTypes
  <1>2. DataTypes'
    BY DEF Started, TypeInv, DataTypes
  <1>3. SubsThere'
    <2>1. ASSUME NEW g \in Groups', sess' # "none"
          PROVE  /\ sub'[g] \in SubRec /\ at'[g] \in Groups'
                 /\ nld'[g] =< Len(sub'[at'[g]].lds) /\ nmd'[g] =< Len(sub'[at'[g]].mds)
      <3>1. g \in Ranks /\ sub'[g] \in SubRec
        BY <2>1 DEF Groups, GroupInv
      <3>2. at'[g] = g /\ nld'[g] = 0 /\ nmd'[g] = 0
        BY <3>1 DEF Started, MainCounts
      <3>3. Len(sub'[g].lds) \in Nat /\ Len(sub'[g].mds) \in Nat
        BY <3>1 DEF SubRec
      <3>4. QED
        BY <2>1, <3>1, <3>2, <3>3
    <2>2. QED
      BY <2>1 DEF SubsThere
  <1>4. Bounds'
    <2>1. calls' = <<>> /\ Len(calls') = 0
      BY DEF Started
    <2>2. QED
      BY <2>1, SubfilesAssumption DEF Started, MainCounts, Bounds
  <1>5. QED
    BY <1>1, <1>2, <1>3, <1>4 DEF TypeInv

LEMMA CreateTypes == ASSUME TypeInv, Create, GroupInv' PROVE TypeInv'
  <1>1. EmptySub \in SubRec
    BY DEF EmptySub, SubRec
  <1>2. \A g \in Ranks : sub'[g] = IF g < ngroup'[0] THEN EmptySub ELSE None
    BY DEF Create
  <1>3. ASSUME NEW r \in Ranks PROVE sub'[gid'[r]] \in SubRec
    <2>1. Grouped'
      BY Forming DEF Create
    <2>2. gid'[r] \in Ranks /\ gid'[r] \in 0 .. ngroup'[0] - 1
      BY <2>1 DEF Grouped
    <2>3. ngroup'[0] \in Int
      BY <2>1, RanksFinite, SubfilesAssumption DEF Grouped
    <2>4. gid'[r] < ngroup'[0]
      BY <2>2, <2>3
    <2>5. QED
      BY <1>1, <1>2, <2>2, <2>4
  <1>4. QED
    BY <1>1, <1>2, <1>3, StartTypes DEF Create

LEMMA OpenTypes == ASSUME TypeInv, Open, GroupInv' PROVE TypeInv'
  <1>1. CASE \A r \in Ranks : sub[gid'[r]] # None
    <2>1. Grouped'
      BY Forming DEF Open
    <2>2. \A r \in Ranks : gid'[r] \in Ranks
      BY <2>1 DEF Grouped
    <2>3. UNCHANGED data
      BY DEF Open
    <2>4. \A r \in Ranks : sub'[gid'[r]] \in SubRec
      BY <1>1, <2>2, <2>3 DEF TypeInv, DataTypes, data
    <2>5. ro' \in BOOLEAN /\ sess' = "old" /\ Started([g \in Ranks |-> g])
      BY <1>1, SubfilesAssumption DEF Open
    <2>6. UNCHANGED <<single, nwrites>>
      BY DEF Open
    <2>7. QED
      BY <2>3, <2>4, <2>5, <2>6, StartTypes DEF TypeInv, DataTypes, data
  <1>2. CASE ~ (\A r \in Ranks : sub[gid'[r]] # None)
    <2>1. UNCHANGED <<sess, ro, calls, ip, pc, session, data, single, nwrites>> /\ sess = "none"
      BY <1>2 DEF Open
    <2>2. ControlTypes' /\ DataTypes' /\ SubsThere' /\ Bounds'
      BY <2>1 DEF TypeInv, ControlTypes, DataTypes, SubsThere, Bounds, session, data
    <2>3. QED
      BY <2>2 DEF TypeInv
  <1>3. QED
    BY <1>1, <1>2

LEMMA EnterTypes == ASSUME TypeInv, NEW g \in Ranks, Enter(g), GroupInv' PROVE TypeInv'
  <1>1. PICK c \in IF ip[g] < Len(calls) THEN {calls[ip[g] + 1]} ELSE NewCalls :
           /\ calls' = IF ip[g] < Len(calls) THEN calls ELSE Append(calls, c)
           /\ pc' = [pc EXCEPT ![g] = Entry(g, c)]
    BY DEF Enter, Goto
  <1>2. UNCHANGED <<fixed, sess, grouping, at, opens, nld, nmd, dirty, total, got, data, nwrites>>
    BY DEF Enter
  <1>3. ip' = [ip EXCEPT ![g] = @ + 1] /\ turn' = [turn EXCEPT ![g] = 0] /\ pc[g] = "idle"
    BY DEF Enter
  <1>4. calls \in Seq({"flush", "read", "close"}) /\ Len(calls) \in Nat /\ ip[g] \in Nat /\ ip[g] <= Len(calls)
    BY DEF TypeInv, ControlTypes, Bounds
  <1>5. c \in {"flush", "read", "close"}
    <2>1. CASE ip[g] < Len(calls)
      BY <1>1, <1>4, <2>1
    <2>2. CASE ~ (ip[g] < Len(calls))
      BY <1>1, <2>2 DEF NewCalls
    <2>3. QED
      BY <2>1, <2>2
  <1>6. Entry(g, c) \in Places
    BY <1>5 DEF Entry, Places, TypeInv, ControlTypes
  <1>7. calls' \in Seq({"flush", "read", "close"})
    BY <1>1, <1>4, <1>5
  <1>8. ControlTypes'
    BY <1>1, <1>2, <1>3, <1>6, <1>7 DEF TypeInv, ControlTypes, fixed
  <1>9. DataTypes' /\ SubsThere'
    <2>1. UNCHANGED <<queue, logged, got, sub, nwrites, sess, gid, at, nld, nmd>>
      BY <1>2 DEF fixed, grouping, data
    <2>2. DataTypes'
      BY <2>1 DEF TypeInv, DataTypes
    <2>3. SubsThere'
      BY <2>1 DEF TypeInv, SubsThere, Groups
    <2>4. QED
      BY <2>2, <2>3
  <1>10. Len(calls) <= Len(calls') /\ ip[g] + 1 <= Len(calls') /\ Len(calls') \in Nat
    BY <1>1, <1>4, <1>5
  <1>11. /\ Len(calls') =< MaxCalls
         /\ (\A i \in 1 .. Len(calls') : calls'[i] # "close") => Len(calls') < MaxCalls
    <2>1. CASE ip[g] < Len(calls)
      BY <1>1, <2>1 DEF TypeInv, Bounds
    <2>2. CASE ~ (ip[g] < Len(calls))
      <3>1. c \in NewCalls /\ calls' = Append(calls, c)
        BY <1>1, <2>2
      <3>2. Len(calls) < MaxCalls
        BY <3>1 DEF NewCalls, TypeInv, Bounds
      <3>3. Len(calls') = Len(calls) + 1 /\ calls'[Len(calls) + 1] = c
        BY <1>4, <1>5, <3>1
      <3>4. c = "close" \/ Len(calls) + 1 < MaxCalls
        BY <3>1 DEF NewCalls
      <3>5. Len(calls) + 1 \in 1 .. Len(calls')
        BY <1>4, <3>3
      <3>6. QED
        BY <1>4, <3>2, <3>3, <3>4, <3>5, SubfilesAssumption
    <2>3. QED
      BY <2>1, <2>2
  <1>12. Bounds'
    <2>1. ASSUME NEW h \in Ranks
          PROVE  /\ ip'[h] =< Len(calls') /\ nld'[h] =< ip'[h] /\ nmd'[h] =< ip'[h]
                 /\ pc'[h] \in {"sizes", "data"} => nld'[h] < ip'[h]
                 /\ pc'[h] \in {"sizes", "data", "meta"} => nmd'[h] < ip'[h]
      <3>1. nld[h] \in Nat /\ nmd[h] \in Nat /\ ip[h] \in Nat /\ nld'[h] = nld[h] /\ nmd'[h] = nmd[h]
            /\ ip[h] <= Len(calls) /\ nld[h] <= ip[h] /\ nmd[h] <= ip[h]
        BY <1>2 DEF TypeInv, ControlTypes, Bounds
      <3>2. CASE h = g
        <4>1. ip'[h] = ip[h] + 1
          BY <1>3, <3>2 DEF TypeInv, ControlTypes
        <4>2. QED
          BY <1>10, <3>1, <3>2, <4>1
      <3>3. CASE h # g
        <4>1. ip'[h] = ip[h] /\ pc'[h] = pc[h]
          BY <1>1, <1>3, <3>3 DEF TypeInv, ControlTypes
        <4>2. QED
          BY <1>4, <1>10, <3>1, <4>1 DEF TypeInv, Bounds
      <3>4. QED
        BY <3>2, <3>3
    <2>2. QED
      BY <1>11, <2>1 DEF Bounds
  <1>13. QED
    BY <1>8, <1>9, <1>12 DEF TypeInv

\* Steps that only move control, or what was found, keep the types.
LEMMA MoveTypes ==
  ASSUME TypeInv, GroupInv', UNCHANGED <<single, ro, grouping, calls, ip, at, turn, nld, nmd>>,
         sess' = sess \/ sess' = "none",
         pc' \in [Ranks -> Places], dirty' \in [Ranks -> BOOLEAN], total' \in BOOLEAN,
         DataTypes', sess' # "none" => \A g \in Groups : sub'[g] \in SubRec,
         \A g \in Ranks : sub'[g].lds = sub[g].lds /\ sub'[g].mds = sub[g].mds,
         \A g \in Ranks : /\ pc'[g] \in {"sizes", "data"} => pc[g] \in {"sizes", "data"}
                          /\ pc'[g] \in {"sizes", "data", "meta"} => pc[g] \in {"sizes", "data", "meta"}
  PROVE  TypeInv'
  <1>1. ControlTypes'
    BY DEF TypeInv, ControlTypes
  <1>2. SubsThere'
    BY GroupNumbers DEF TypeInv, SubsThere, Groups, grouping
  <1>3. Bounds'
    BY DEF TypeInv, Bounds
  <1>4. QED
    BY <1>1, <1>2, <1>3 DEF TypeInv

LEMMA WriteTypes == ASSUME TypeInv, NEW r \in Ranks, Write(r), GroupInv' PROVE TypeInv'
  <1>1. UNCHANGED <<single, ro, grouping, calls, ip, pc, at, turn, nld, nmd, dirty, total, got, logged, sub, sess>>
    BY DEF Write, fixed, session
  <1>2. queue' = [queue EXCEPT ![r] = @ \cup {<<r, nwrites + 1>>}] /\ nwrites' = nwrites + 1
        /\ nwrites < MaxWrites
    BY DEF Write
  <1>3. nwrites' \in 0 .. MaxWrites /\ <<r, nwrites + 1>> \in Written
    BY <1>2, SubfilesAssumption DEF TypeInv, DataTypes, Written
  <1>4. DataTypes'
    BY <1>1, <1>2, <1>3 DEF TypeInv, DataTypes
  <1>5. QED
    BY <1>1, <1>4, MoveTypes DEF TypeInv, ControlTypes, SubsThere

LEMMA SizesTypes == ASSUME TypeInv, Sizes, GroupInv' PROVE TypeInv'
  <1>1. UNCHANGED <<single, ro, grouping, calls, ip, at, turn, nld, nmd, sess, data, got, nwrites, dirty>>
    BY DEF Sizes, fixed
  <1>2. DataTypes' /\ (sess' # "none" => \A g \in Groups : sub'[g] \in SubRec)
    BY <1>1 DEF TypeInv, DataTypes, data, SubsThere
  <1>3. pc' = [g \in Ranks |-> IF g \in Groups THEN "data" ELSE pc[g]] /\ total' \in BOOLEAN
        /\ \A g \in Groups : pc[g] = "sizes"
    BY DEF Sizes, Everyone
  <1>4. QED
    BY <1>1, <1>2, <1>3, MoveTypes DEF TypeInv, ControlTypes, Places, data

LEMMA BarrierTypes == ASSUME TypeInv, Barrier, GroupInv' PROVE TypeInv'
  <1>1. UNCHANGED <<single, ro, grouping, calls, ip, at, turn, nld, nmd, sess, data, got, nwrites, dirty, total>>
    BY DEF Barrier, fixed, session
  <1>2. DataTypes' /\ (sess' # "none" => \A g \in Groups : sub'[g] \in SubRec)
    BY <1>1 DEF TypeInv, DataTypes, data, SubsThere
  <1>3. pc' = [g \in Ranks |-> IF g \in Groups THEN AfterMeta(g) ELSE pc[g]]
    BY DEF Barrier
  <1>4. \A g \in Ranks : AfterMeta(g) \in {"att", "search"}
    BY DEF AfterMeta
  <1>5. QED
    BY <1>1, <1>2, <1>3, <1>4, MoveTypes DEF TypeInv, ControlTypes, Places, data

LEMMA EndTypes == ASSUME TypeInv, End, GroupInv' PROVE TypeInv'
  <1>1. UNCHANGED <<single, ro, grouping, calls, ip, at, turn, nld, nmd, pc, data, got, nwrites, dirty, total>>
        /\ sess' = "none"
    BY DEF End, fixed, session
  <1>2. DataTypes'
    BY <1>1 DEF TypeInv, DataTypes, data
  <1>3. QED
    BY <1>1, <1>2, MoveTypes DEF TypeInv, ControlTypes, data

\* A search finds writes that were indexed.
LEMMA SearchTypes == ASSUME TypeInv, NEW g \in Ranks, Search(g), GroupInv' PROVE TypeInv'
  <1>1. UNCHANGED <<single, ro, grouping, calls, ip, at, turn, nld, nmd, sess, data, nwrites, dirty, total>>
        /\ g \in Groups /\ sess # "none"
    BY DEF Search, fixed
  <1>2. got' = [got EXCEPT ![g] = {x.w : x \in UNION {sub[at[g]].mds[i] : i \in 1 .. nmd[g]}}]
        /\ pc' = [pc EXCEPT ![g] = "idle"]
    BY DEF Search, Goto
  <1>3. got' \in [Ranks -> SUBSET Written]
    <2>1. at[g] \in Groups /\ sub[at[g]] \in SubRec /\ nmd[g] <= Len(sub[at[g]].mds) /\ nmd[g] \in Nat
      BY <1>1 DEF TypeInv, SubsThere, ControlTypes
    <2>2. sub[at[g]].mds \in Seq(SUBSET Entries)
      BY <2>1 DEF SubRec
    <2>3. \A i \in 1 .. nmd[g] : sub[at[g]].mds[i] \in SUBSET Entries
      BY <2>1, <2>2, ElementOfSeq
    <2>4. UNION {sub[at[g]].mds[i] : i \in 1 .. nmd[g]} \subseteq Entries
      BY <2>3
    <2>5. \A x \in Entries : x.w \in Written
      BY DEF Entries
    <2>6. {x.w : x \in UNION {sub[at[g]].mds[i] : i \in 1 .. nmd[g]}} \subseteq Written
      BY <2>4, <2>5
    <2>7. QED
      BY <1>2, <2>6 DEF TypeInv, DataTypes
  <1>4. DataTypes' /\ (sess' # "none" => \A h \in Groups : sub'[h] \in SubRec)
    BY <1>1, <1>3 DEF TypeInv, DataTypes, data, SubsThere
  <1>5. pc' \in [Ranks -> Places] /\ \A h \in Ranks : pc'[h] = pc[h] \/ pc'[h] = "idle"
    BY <1>2 DEF TypeInv, ControlTypes, Places
  <1>6. QED
    BY <1>1, <1>4, <1>5, MoveTypes DEF TypeInv, ControlTypes, data

LEMMA SwitchEndTypes == ASSUME TypeInv, NEW g \in Ranks, SwitchEnd(g), GroupInv' PROVE TypeInv'
  <1>1. UNCHANGED <<single, ro, grouping, calls, ip, at, turn, nld, nmd, sess, data, nwrites, dirty, total>>
    BY DEF SwitchEnd, fixed
  <1>2. got' = [got EXCEPT ![g] = {}] /\ pc' = [pc EXCEPT ![g] = "idle"]
    BY DEF SwitchEnd, Goto
  <1>3. DataTypes' /\ (sess' # "none" => \A h \in Groups : sub'[h] \in SubRec)
    BY <1>1, <1>2 DEF TypeInv, DataTypes, data, SubsThere
  <1>4. pc' \in [Ranks -> Places] /\ \A h \in Ranks : pc'[h] = pc[h] \/ pc'[h] = "idle"
    BY <1>2 DEF TypeInv, ControlTypes, Places
  <1>5. QED
    BY <1>1, <1>3, <1>4, MoveTypes DEF TypeInv, ControlTypes, data

\* A subfile with another dataset, or other counts, is a subfile.
LEMMA SubGrows ==
  ASSUME NEW s \in SubRec, NEW t
  PROVE  /\ \A W \in SUBSET Written : t = [s EXCEPT !.lds = Append(@, W)] =>
              t \in SubRec /\ t.lds = Append(s.lds, W) /\ t.mds = s.mds /\ t.att = s.att
         /\ \A E \in SUBSET Entries : t = [s EXCEPT !.mds = Append(@, E)] =>
              t \in SubRec /\ t.mds = Append(s.mds, E) /\ t.lds = s.lds /\ t.att = s.att
         /\ \A c \in Nat \X Nat : t = [s EXCEPT !.att = c] =>
              t \in SubRec /\ t.att = c /\ t.lds = s.lds /\ t.mds = s.mds
  <1>1. ASSUME NEW X, NEW Y, NEW Z, NEW u \in [lds : X, mds : Y, att : Z], NEW x \in X, NEW y \in Y, NEW z \in Z
        PROVE  /\ [u EXCEPT !.lds = x] \in [lds : X, mds : Y, att : Z] /\ [u EXCEPT !.lds = x].lds = x
               /\ [u EXCEPT !.lds = x].mds = u.mds /\ [u EXCEPT !.lds = x].att = u.att
               /\ [u EXCEPT !.mds = y] \in [lds : X, mds : Y, att : Z] /\ [u EXCEPT !.mds = y].mds = y
               /\ [u EXCEPT !.mds = y].lds = u.lds /\ [u EXCEPT !.mds = y].att = u.att
               /\ [u EXCEPT !.att = z] \in [lds : X, mds : Y, att : Z] /\ [u EXCEPT !.att = z].att = z
               /\ [u EXCEPT !.att = z].lds = u.lds /\ [u EXCEPT !.att = z].mds = u.mds
    OBVIOUS
  <1>2. s.lds \in Seq(SUBSET Written) /\ s.mds \in Seq(SUBSET Entries)
        /\ s \in [lds : Seq(SUBSET Written), mds : Seq(SUBSET Entries), att : Nat \X Nat]
    BY DEF SubRec
  <1> HIDE DEF Written, Entries
  <1>3. ASSUME NEW W \in SUBSET Written, t = [s EXCEPT !.lds = Append(@, W)]
        PROVE  t \in SubRec /\ t.lds = Append(s.lds, W) /\ t.mds = s.mds /\ t.att = s.att
    <2>1. Append(s.lds, W) \in Seq(SUBSET Written)
      BY <1>2, AppendProperties
    <2>2. QED
      BY <1>1, <1>2, <1>3, <2>1 DEF SubRec
  <1>4. ASSUME NEW E \in SUBSET Entries, t = [s EXCEPT !.mds = Append(@, E)]
        PROVE  t \in SubRec /\ t.mds = Append(s.mds, E) /\ t.lds = s.lds /\ t.att = s.att
    <2>1. Append(s.mds, E) \in Seq(SUBSET Entries)
      BY <1>2, AppendProperties
    <2>2. QED
      BY <1>1, <1>2, <1>4, <2>1 DEF SubRec
  <1>5. ASSUME NEW c \in Nat \X Nat, t = [s EXCEPT !.att = c]
        PROVE  t \in SubRec /\ t.att = c /\ t.lds = s.lds /\ t.mds = s.mds
    BY <1>1, <1>2, <1>5 DEF SubRec
  <1>6. QED
    BY <1>3, <1>4, <1>5

\* What a group writes at its close.
LEMMA PutAttEffect ==
  ASSUME TypeInv, NEW g \in Ranks, PutAtt(g)
  PROVE  /\ sess # "none" /\ g \in Groups /\ pc[g] = "att" /\ pc' = [pc EXCEPT ![g] = "done"]
         /\ at[g] \in Groups /\ at[g] \in Ranks /\ sub[at[g]] \in SubRec /\ sub'[at[g]] \in SubRec
         /\ sub'[at[g]].att = <<nld[g], nmd[g]>>
         /\ \A h \in Ranks : sub'[h].lds = sub[h].lds /\ sub'[h].mds = sub[h].mds
         /\ \A h \in Ranks : h # at[g] => sub'[h] = sub[h]
         /\ DOMAIN sub' = Ranks /\ sub' = [h \in Ranks |-> sub'[h]]
         /\ UNCHANGED <<single, ro, grouping, calls, ip, session, queue, logged, sess, nwrites>>
  <1>1. g \in Groups /\ sess # "none" /\ pc[g] = "att" /\ pc' = [pc EXCEPT ![g] = "done"]
        /\ sub' = [sub EXCEPT ![at[g]].att = <<nld[g], nmd[g]>>]
        /\ UNCHANGED <<single, ro, grouping, calls, ip, session, queue, logged, sess, nwrites>>
    BY DEF PutAtt, Goto, fixed
  <1>2. at[g] \in Groups /\ at[g] \in Ranks /\ sub[at[g]] \in SubRec /\ nld[g] \in Nat /\ nmd[g] \in Nat
        /\ DOMAIN sub = Ranks
    BY <1>1 DEF TypeInv, SubsThere, ControlTypes, DataTypes
  <1>3. sub'[at[g]] = [sub[at[g]] EXCEPT !.att = <<nld[g], nmd[g]>>]
    BY <1>1, <1>2
  <1>4. \A h \in Ranks : h # at[g] => sub'[h] = sub[h]
    BY <1>1, <1>2
  <1>5. sub'[at[g]] \in SubRec /\ sub'[at[g]].att = <<nld[g], nmd[g]>>
        /\ sub'[at[g]].lds = sub[at[g]].lds /\ sub'[at[g]].mds = sub[at[g]].mds
    <2>1. <<nld[g], nmd[g]>> \in Nat \X Nat
      BY <1>2
    <2> HIDE DEF SubRec, Written, Entries
    <2>2. QED
      BY <1>2, <1>3, <2>1, SubGrows
  <1>6. DOMAIN sub' = Ranks /\ sub' = [h \in Ranks |-> sub'[h]]
    BY <1>1, <1>2
  <1>7. QED
    BY <1>1, <1>2, <1>4, <1>5, <1>6

LEMMA PutAttTypes == ASSUME TypeInv, NEW g \in Ranks, PutAtt(g), GroupInv' PROVE TypeInv'
  <1>1. \A h \in Ranks : sub'[h] # None => sub'[h] \in SubRec
    BY PutAttEffect DEF TypeInv, DataTypes
  <1>2. DataTypes' /\ (sess' # "none" => \A h \in Groups : sub'[h] \in SubRec)
    BY <1>1, PutAttEffect, GroupNumbers DEF TypeInv, DataTypes, SubsThere, session
  <1>3. pc' \in [Ranks -> Places] /\ \A h \in Ranks : pc'[h] = pc[h] \/ pc'[h] = "done"
    BY PutAttEffect DEF TypeInv, ControlTypes, Places
  <1>4. QED
    BY <1>2, <1>3, PutAttEffect, MoveTypes DEF TypeInv, ControlTypes, session

After(g) == IF Call(g) = "close" THEN "meta" ELSE "idle"

\* A group with nothing to flush, or one that finds a dataset of that name.
DataKept(g) ==
    /\ UNCHANGED <<queue, logged, sub, nld>>
    /\ \/ Waiting(g) = {} /\ pc' = [pc EXCEPT ![g] = After(g)]
       \/ nld[g] < Len(sub[at[g]].lds) /\ pc' = [pc EXCEPT ![g] = "failed"]

\* A group that makes its next log dataset.
DataTaken(g) ==
    /\ Waiting(g) # {} /\ nld[g] = Len(sub[at[g]].lds)
    /\ sub'[at[g]] \in SubRec
    /\ sub'[at[g]].lds = Append(sub[at[g]].lds, Waiting(g))
    /\ sub'[at[g]].mds = sub[at[g]].mds /\ sub'[at[g]].att = sub[at[g]].att
    /\ \A h \in Ranks : h # at[g] => sub'[h] = sub[h]
    /\ DOMAIN sub' = Ranks /\ sub' = [h \in Ranks |-> sub'[h]]
    /\ nld' = [nld EXCEPT ![g] = @ + 1]
    /\ logged' = [r \in Ranks |->
          IF r \in In(g) THEN logged[r] \cup {[w |-> w, sub |-> at[g], ld |-> nld[g] + 1] : w \in queue[r]}
          ELSE logged[r]]
    /\ queue' = [r \in Ranks |-> IF r \in In(g) THEN {} ELSE queue[r]]
    /\ pc' = [pc EXCEPT ![g] = After(g)]

LEMMA WaitingType == ASSUME DataTypes, NEW g PROVE Waiting(g) \in SUBSET Written /\ Unindexed(g) \in SUBSET Entries
  <1>1. \A r \in Ranks : queue[r] \subseteq Written /\ logged[r] \subseteq Entries
    BY DEF DataTypes
  <1>2. In(g) \subseteq Ranks
    BY DEF In
  <1> HIDE DEF Written, Entries
  <1>3. QED
    BY <1>1, <1>2 DEF Waiting, Unindexed

LEMMA DataEffect ==
  ASSUME TypeInv, NEW g \in Ranks, Data(g)
  PROVE  /\ sess # "none" /\ g \in Groups /\ pc[g] = "data"
         /\ at[g] \in Groups /\ at[g] \in Ranks /\ sub[at[g]] \in SubRec
         /\ DataKept(g) \/ DataTaken(g)
         /\ dirty' = [dirty EXCEPT ![g] = @ \/ total]
         /\ UNCHANGED <<fixed, sess, grouping, calls, ip, at, turn, opens, nmd, total, got, nwrites>>
  <1>1. /\ sess # "none" /\ g \in Groups /\ pc[g] = "data"
        /\ dirty' = [dirty EXCEPT ![g] = @ \/ total]
        /\ UNCHANGED <<fixed, sess, grouping, calls, ip, at, turn, opens, nmd, total, got, nwrites>>
    BY DEF Data
  <1>2. at[g] \in Groups /\ at[g] \in Ranks /\ sub[at[g]] \in SubRec /\ nld[g] <= Len(sub[at[g]].lds)
        /\ nld[g] \in Nat /\ DOMAIN sub = Ranks /\ Len(sub[at[g]].lds) \in Nat
    <2>1. at[g] \in Groups /\ at[g] \in Ranks /\ sub[at[g]] \in SubRec /\ nld[g] <= Len(sub[at[g]].lds)
          /\ nld[g] \in Nat /\ DOMAIN sub = Ranks
      BY <1>1 DEF TypeInv, SubsThere, ControlTypes, DataTypes
    <2>2. QED
      BY <2>1 DEF SubRec
  <1>3. ASSUME Waiting(g) = {} PROVE DataKept(g)
    <2>1. pc' = [pc EXCEPT ![g] = After(g)] /\ UNCHANGED <<queue, logged, sub, nld>>
      BY <1>3 DEF Data, Goto, After
    <2>2. QED
      BY <1>3, <2>1 DEF DataKept
  <1>4. ASSUME Waiting(g) # {}, nld[g] < Len(sub[at[g]].lds) PROVE DataKept(g)
    <2>1. pc' = [pc EXCEPT ![g] = "failed"] /\ UNCHANGED <<queue, logged, sub, nld>>
      BY <1>4 DEF Data, Goto
    <2>2. QED
      BY <1>4, <2>1 DEF DataKept
  <1>5. ASSUME Waiting(g) # {}, ~ (nld[g] < Len(sub[at[g]].lds)) PROVE DataTaken(g)
    <2>1. /\ sub' = [sub EXCEPT ![at[g]] = [sub[at[g]] EXCEPT !.lds = Append(@, Waiting(g))]]
          /\ nld' = [nld EXCEPT ![g] = @ + 1]
          /\ logged' = [r \in Ranks |->
                IF r \in In(g) THEN logged[r] \cup {[w |-> w, sub |-> at[g], ld |-> nld[g] + 1] : w \in queue[r]}
                ELSE logged[r]]
          /\ queue' = [r \in Ranks |-> IF r \in In(g) THEN {} ELSE queue[r]]
          /\ pc' = [pc EXCEPT ![g] = After(g)]
      BY <1>5 DEF Data, Goto, After
    <2>2. Waiting(g) \in SUBSET Written /\ {} \in SUBSET Entries
      BY WaitingType DEF TypeInv
    <2>3. sub'[at[g]] = [sub[at[g]] EXCEPT !.lds = Append(@, Waiting(g))]
          /\ (\A h \in Ranks : h # at[g] => sub'[h] = sub[h])
          /\ DOMAIN sub' = Ranks /\ sub' = [h \in Ranks |-> sub'[h]]
      BY <1>2, <2>1
    <2>4. nld[g] = Len(sub[at[g]].lds)
      BY <1>2, <1>5
    <2>5. /\ sub'[at[g]] \in SubRec /\ sub'[at[g]].lds = Append(sub[at[g]].lds, Waiting(g))
          /\ sub'[at[g]].mds = sub[at[g]].mds /\ sub'[at[g]].att = sub[at[g]].att
      <3> HIDE DEF SubRec, Written, Entries
      <3> DEFINE t == sub'[at[g]]
                 s == sub[at[g]]
      <3>0. s \in SubRec
        BY <1>2
      <3> HIDE DEF s, t
      <3>1. \A W \in SUBSET Written : t = [s EXCEPT !.lds = Append(@, W)] =>
               t \in SubRec /\ t.lds = Append(s.lds, W) /\ t.mds = s.mds /\ t.att = s.att
        BY <3>0, SubGrows
      <3>2. QED
        BY <2>2, <2>3, <3>1 DEF s, t
    <2>6. QED
      BY <1>5, <2>1, <2>3, <2>4, <2>5 DEF DataTaken
  <1>6. QED
    BY <1>1, <1>2, <1>3, <1>4, <1>5

LEMMA AppendLength ==
  ASSUME NEW S, NEW s \in Seq(S), NEW x \in S
  PROVE  /\ Append(s, x) \in Seq(S) /\ Len(Append(s, x)) = Len(s) + 1 /\ Len(s) \in Nat
         /\ Append(s, x)[Len(s) + 1] = x
         /\ \A i \in 1 .. Len(s) : Append(s, x)[i] = s[i]
  BY AppendProperties

\* The indices of a log that has grown by one.
LEMMA DataGrows ==
  ASSUME TypeInv, NEW g \in Ranks, Data(g), DataTaken(g)
  PROVE  /\ Len(sub'[at[g]].lds) = Len(sub[at[g]].lds) + 1 /\ Len(sub[at[g]].lds) \in Nat
         /\ sub'[at[g]].lds[Len(sub[at[g]].lds) + 1] = Waiting(g)
         /\ \A i \in 1 .. Len(sub[at[g]].lds) : sub'[at[g]].lds[i] = sub[at[g]].lds[i]
  <1> DEFINE s == sub[at[g]].lds
             W == Waiting(g)
  <1>1. s \in Seq(SUBSET Written)
    BY DataEffect DEF SubRec
  <1>2. W \in SUBSET Written
    BY WaitingType DEF TypeInv
  <1>3. sub'[at[g]].lds = Append(s, W)
    BY DEF DataTaken
  <1> HIDE DEF s, W
  <1>4. /\ Len(Append(s, W)) = Len(s) + 1 /\ Len(s) \in Nat /\ Append(s, W)[Len(s) + 1] = W
        /\ \A i \in 1 .. Len(s) : Append(s, W)[i] = s[i]
    BY <1>1, <1>2, AppendLength
  <1>5. QED
    BY <1>3, <1>4 DEF s, W

LEMMA DataTypesKept == ASSUME TypeInv, NEW g \in Ranks, Data(g), GroupInv' PROVE TypeInv'
  <1>1. UNCHANGED <<single, ro, grouping, calls, ip, at, turn, nmd, total, got, nwrites, sess>>
        /\ sess # "none" /\ g \in Groups /\ pc[g] = "data"
    BY DataEffect DEF fixed
  <1>2. dirty' \in [Ranks -> BOOLEAN]
    BY DataEffect DEF TypeInv, ControlTypes
  <1>3. After(g) \in {"meta", "idle"}
    BY DEF After
  <1>4. CASE DataKept(g)
    <2>1. pc' \in [Ranks -> Places] /\ \A h \in Ranks : pc'[h] = pc[h] \/ (h = g /\ pc'[h] \in {"meta", "idle", "failed"})
      BY <1>3, <1>4 DEF DataKept, TypeInv, ControlTypes, Places
    <2>2. UNCHANGED <<queue, logged, sub, nld>>
      BY <1>4 DEF DataKept
    <2>3. DataTypes' /\ (sess' # "none" => \A h \in Groups : sub'[h] \in SubRec)
      BY <1>1, <2>2 DEF TypeInv, DataTypes, SubsThere
    <2>4. QED
      BY <1>1, <1>2, <2>1, <2>2, <2>3, MoveTypes DEF TypeInv, ControlTypes
  <1>5. CASE DataTaken(g)
    <2>1. pc' \in [Ranks -> Places] /\ pc'[g] \in {"meta", "idle"} /\ \A h \in Ranks : h # g => pc'[h] = pc[h]
      BY <1>3, <1>5 DEF DataTaken, TypeInv, ControlTypes, Places
    <2>2. nld' \in [Ranks -> Nat] /\ nld'[g] = nld[g] + 1 /\ nld[g] \in Nat
          /\ \A h \in Ranks : h # g => nld'[h] = nld[h]
      BY <1>5 DEF DataTaken, TypeInv, ControlTypes
    <2>3. ControlTypes'
      BY <1>1, <1>2, <2>1, <2>2 DEF TypeInv, ControlTypes
    <2>4. \A h \in Ranks : sub'[h] # None => sub'[h] \in SubRec
      BY <1>5 DEF DataTaken, TypeInv, DataTypes
    <2>5. logged' \in [Ranks -> SUBSET Entries] /\ queue' \in [Ranks -> SUBSET Written]
      <3>1. \A r \in Ranks : queue[r] \in SUBSET Written /\ logged[r] \in SUBSET Entries
        BY DEF TypeInv, DataTypes
      <3>2. \A w \in Written : [w |-> w, sub |-> at[g], ld |-> nld[g] + 1] \in Entries
        BY <2>2, DataEffect DEF Entries
      <3> HIDE DEF Entries, Written
      <3>3. \A r \in Ranks : {[w |-> w, sub |-> at[g], ld |-> nld[g] + 1] : w \in queue[r]} \in SUBSET Entries
        BY <3>1, <3>2
      <3>4. \A r \in Ranks : logged'[r] \in SUBSET Entries /\ queue'[r] \in SUBSET Written
        BY <1>5, <3>1, <3>3 DEF DataTaken
      <3>5. QED
        BY <1>5, <3>4 DEF DataTaken
    <2>6. DataTypes'
      BY <1>1, <1>5, <2>4, <2>5 DEF DataTaken, TypeInv, DataTypes
    <2>7. SubsThere'
      <3>1. ASSUME NEW h \in Groups
            PROVE  /\ sub'[h] \in SubRec /\ at[h] \in Groups
                   /\ nld'[h] =< Len(sub'[at[h]].lds) /\ nmd[h] =< Len(sub'[at[h]].mds)
        <4>1. /\ sub[h] \in SubRec /\ at[h] \in Groups /\ at[h] \in Ranks /\ h \in Ranks
              /\ nld[h] =< Len(sub[at[h]].lds) /\ nmd[h] =< Len(sub[at[h]].mds)
              /\ sub[at[h]] \in SubRec /\ nld[h] \in Nat
          BY <1>1, <3>1, GroupNumbers DEF TypeInv, SubsThere, ControlTypes
        <4>2. Len(sub[at[h]].lds) \in Nat
          BY <4>1 DEF SubRec
        <4>3. sub'[h] \in SubRec /\ sub'[at[h]].mds = sub[at[h]].mds
          BY <1>5, <4>1 DEF DataTaken
        <4>4. /\ Len(sub'[at[g]].lds) = Len(sub[at[g]].lds) + 1 /\ Len(sub[at[g]].lds) \in Nat
              /\ at[h] # at[g] => sub'[at[h]] = sub[at[h]]
              /\ nld[g] = Len(sub[at[g]].lds)
          <5>1. nld[g] = Len(sub[at[g]].lds) /\ (at[h] # at[g] => sub'[at[h]] = sub[at[h]])
            BY <1>5, <4>1 DEF DataTaken
          <5>2. QED
            BY <1>5, <5>1, DataGrows
        <4>5. nld'[h] =< Len(sub'[at[h]].lds)
          <5>1. CASE h = g
            BY <2>2, <4>4, <5>1
          <5>2. CASE h # g /\ at[h] = at[g]
            BY <2>2, <4>1, <4>4, <5>2
          <5>3. CASE h # g /\ at[h] # at[g]
            BY <2>2, <4>1, <4>4, <5>3
          <5>4. QED
            BY <5>1, <5>2, <5>3
        <4>6. QED
          BY <4>1, <4>3, <4>5
      <3>2. Groups' = Groups /\ at' = at /\ nmd' = nmd
        BY <1>1 DEF Groups, grouping
      <3>3. QED
        BY <3>1, <3>2 DEF SubsThere
    <2>8. Bounds'
      <3>1. ASSUME NEW h \in Ranks
            PROVE  /\ ip'[h] =< Len(calls') /\ nld'[h] =< ip'[h] /\ nmd'[h] =< ip'[h]
                   /\ pc'[h] \in {"sizes", "data"} => nld'[h] < ip'[h]
                   /\ pc'[h] \in {"sizes", "data", "meta"} => nmd'[h] < ip'[h]
        <4>1. ip[h] \in Nat /\ nld[h] \in Nat /\ nmd[h] \in Nat
          BY DEF TypeInv, ControlTypes
        <4>2. QED
          BY <1>1, <2>1, <2>2, <4>1 DEF TypeInv, Bounds
      <3>2. QED
        BY <1>1, <3>1 DEF TypeInv, Bounds
    <2>9. QED
      BY <2>3, <2>6, <2>7, <2>8 DEF TypeInv
  <1>6. QED
    BY <1>4, <1>5, DataEffect

\* A group without entries.
MetaKept(g) ==
    /\ Unindexed(g) = {} /\ UNCHANGED <<sub, nmd>>
    /\ pc' = [pc EXCEPT ![g] = AfterMeta(g)]

\* A group that makes its next metadata dataset.
MetaTaken(g) ==
    /\ Unindexed(g) # {}
    /\ sub'[at[g]] \in SubRec
    /\ sub'[at[g]].mds = Append(sub[at[g]].mds, Unindexed(g))
    /\ sub'[at[g]].lds = sub[at[g]].lds /\ sub'[at[g]].att = sub[at[g]].att
    /\ \A h \in Ranks : h # at[g] => sub'[h] = sub[h]
    /\ DOMAIN sub' = Ranks /\ sub' = [h \in Ranks |-> sub'[h]]
    /\ nmd' = [nmd EXCEPT ![g] = @ + 1]
    /\ pc' = [pc EXCEPT ![g] = "barrier"]

LEMMA MetaEffect ==
  ASSUME TypeInv, NEW g \in Ranks, Metaflush(g)
  PROVE  /\ sess # "none" /\ g \in Groups /\ pc[g] = "meta"
         /\ at[g] \in Groups /\ at[g] \in Ranks /\ sub[at[g]] \in SubRec
         /\ MetaKept(g) \/ MetaTaken(g)
         /\ dirty' = [dirty EXCEPT ![g] = FALSE]
         /\ logged' = [r \in Ranks |-> IF r \in In(g) THEN {} ELSE logged[r]]
         /\ UNCHANGED <<fixed, sess, grouping, calls, ip, at, turn, opens, nld, total, got, queue, nwrites>>
  <1>1. /\ sess # "none" /\ g \in Groups /\ pc[g] = "meta"
        /\ dirty' = [dirty EXCEPT ![g] = FALSE]
        /\ logged' = [r \in Ranks |-> IF r \in In(g) THEN {} ELSE logged[r]]
        /\ UNCHANGED <<fixed, sess, grouping, calls, ip, at, turn, opens, nld, total, got, queue, nwrites>>
    BY DEF Metaflush
  <1>2. at[g] \in Groups /\ at[g] \in Ranks /\ sub[at[g]] \in SubRec /\ DOMAIN sub = Ranks
    BY <1>1 DEF TypeInv, SubsThere, ControlTypes, DataTypes
  <1>3. ASSUME Unindexed(g) = {} PROVE MetaKept(g)
    <2>1. pc' = [pc EXCEPT ![g] = AfterMeta(g)] /\ UNCHANGED <<sub, nmd>>
      BY <1>3 DEF Metaflush, Goto
    <2>2. QED
      BY <1>3, <2>1 DEF MetaKept
  <1>4. ASSUME Unindexed(g) # {} PROVE MetaTaken(g)
    <2>1. /\ sub' = [sub EXCEPT ![at[g]] = [sub[at[g]] EXCEPT !.mds = Append(@, Unindexed(g))]]
          /\ nmd' = [nmd EXCEPT ![g] = @ + 1]
          /\ pc' = [pc EXCEPT ![g] = "barrier"]
      BY <1>4 DEF Metaflush, Goto
    <2>2. Unindexed(g) \in SUBSET Entries
      BY WaitingType DEF TypeInv
    <2>3. sub'[at[g]] = [sub[at[g]] EXCEPT !.mds = Append(@, Unindexed(g))]
          /\ (\A h \in Ranks : h # at[g] => sub'[h] = sub[h])
          /\ DOMAIN sub' = Ranks /\ sub' = [h \in Ranks |-> sub'[h]]
      BY <1>2, <2>1
    <2>4. /\ sub'[at[g]] \in SubRec /\ sub'[at[g]].mds = Append(sub[at[g]].mds, Unindexed(g))
          /\ sub'[at[g]].lds = sub[at[g]].lds /\ sub'[at[g]].att = sub[at[g]].att
      <3> HIDE DEF SubRec, Written, Entries
      <3> DEFINE t == sub'[at[g]]
                 s == sub[at[g]]
      <3>0. s \in SubRec
        BY <1>2
      <3> HIDE DEF s, t
      <3>1. \A E \in SUBSET Entries : t = [s EXCEPT !.mds = Append(@, E)] =>
               t \in SubRec /\ t.mds = Append(s.mds, E) /\ t.lds = s.lds /\ t.att = s.att
        BY <3>0, SubGrows
      <3>2. QED
        BY <2>2, <2>3, <3>1 DEF s, t
    <2>5. QED
      BY <1>4, <2>1, <2>3, <2>4 DEF MetaTaken
  <1>5. QED
    BY <1>1, <1>2, <1>3, <1>4

LEMMA MetaGrows ==
  ASSUME TypeInv, NEW g \in Ranks, Metaflush(g), MetaTaken(g)
  PROVE  /\ Len(sub'[at[g]].mds) = Len(sub[at[g]].mds) + 1 /\ Len(sub[at[g]].mds) \in Nat
         /\ sub'[at[g]].mds[Len(sub[at[g]].mds) + 1] = Unindexed(g)
         /\ \A i \in 1 .. Len(sub[at[g]].mds) : sub'[at[g]].mds[i] = sub[at[g]].mds[i]
  <1> DEFINE s == sub[at[g]].mds
             U == Unindexed(g)
  <1>1. s \in Seq(SUBSET Entries)
    BY MetaEffect DEF SubRec
  <1>2. U \in SUBSET Entries
    BY WaitingType DEF TypeInv
  <1>3. sub'[at[g]].mds = Append(s, U)
    BY DEF MetaTaken
  <1> HIDE DEF s, U
  <1>4. /\ Len(Append(s, U)) = Len(s) + 1 /\ Len(s) \in Nat /\ Append(s, U)[Len(s) + 1] = U
        /\ \A i \in 1 .. Len(s) : Append(s, U)[i] = s[i]
    BY <1>1, <1>2, AppendLength
  <1>5. QED
    BY <1>3, <1>4 DEF s, U

LEMMA MetaTypesKept == ASSUME TypeInv, NEW g \in Ranks, Metaflush(g), GroupInv' PROVE TypeInv'
  <1>1. UNCHANGED <<single, ro, grouping, calls, ip, at, turn, nld, total, got, queue, nwrites, sess>>
        /\ sess # "none" /\ g \in Groups /\ pc[g] = "meta"
    BY MetaEffect DEF fixed
  <1>2. dirty' \in [Ranks -> BOOLEAN]
    BY MetaEffect DEF TypeInv, ControlTypes
  <1>3. AfterMeta(g) \in {"att", "search"}
    BY DEF AfterMeta
  <1>4. logged' \in [Ranks -> SUBSET Entries]
    <2>1. logged' = [r \in Ranks |-> IF r \in In(g) THEN {} ELSE logged[r]]
      BY MetaEffect
    <2>2. \A r \in Ranks : logged[r] \in SUBSET Entries
      BY DEF TypeInv, DataTypes
    <2> HIDE DEF Entries
    <2>3. QED
      BY <2>1, <2>2
  <1>5. CASE MetaKept(g)
    <2>1. pc' \in [Ranks -> Places] /\ \A h \in Ranks : pc'[h] = pc[h] \/ (h = g /\ pc'[h] \in {"att", "search"})
      BY <1>3, <1>5 DEF MetaKept, TypeInv, ControlTypes, Places
    <2>2. UNCHANGED <<sub, nmd>>
      BY <1>5 DEF MetaKept
    <2>3. DataTypes' /\ (sess' # "none" => \A h \in Groups : sub'[h] \in SubRec)
      BY <1>1, <1>4, <2>2 DEF TypeInv, DataTypes, SubsThere
    <2>4. QED
      BY <1>1, <1>2, <2>1, <2>2, <2>3, MoveTypes DEF TypeInv, ControlTypes
  <1>6. CASE MetaTaken(g)
    <2>1. pc' \in [Ranks -> Places] /\ pc'[g] = "barrier" /\ \A h \in Ranks : h # g => pc'[h] = pc[h]
      BY <1>6 DEF MetaTaken, TypeInv, ControlTypes, Places
    <2>2. nmd' \in [Ranks -> Nat] /\ nmd'[g] = nmd[g] + 1 /\ nmd[g] \in Nat
          /\ \A h \in Ranks : h # g => nmd'[h] = nmd[h]
      BY <1>6 DEF MetaTaken, TypeInv, ControlTypes
    <2>3. ControlTypes'
      BY <1>1, <1>2, <2>1, <2>2 DEF TypeInv, ControlTypes
    <2>4. \A h \in Ranks : sub'[h] # None => sub'[h] \in SubRec
      BY <1>6 DEF MetaTaken, TypeInv, DataTypes
    <2>5. DataTypes'
      BY <1>1, <1>4, <1>6, <2>4 DEF MetaTaken, TypeInv, DataTypes
    <2>6. SubsThere'
      <3>1. ASSUME NEW h \in Groups
            PROVE  /\ sub'[h] \in SubRec /\ at[h] \in Groups
                   /\ nld[h] =< Len(sub'[at[h]].lds) /\ nmd'[h] =< Len(sub'[at[h]].mds)
        <4>1. /\ sub[h] \in SubRec /\ at[h] \in Groups /\ at[h] \in Ranks /\ h \in Ranks
              /\ nld[h] =< Len(sub[at[h]].lds) /\ nmd[h] =< Len(sub[at[h]].mds)
              /\ sub[at[h]] \in SubRec /\ nmd[h] \in Nat
          BY <1>1, <3>1, GroupNumbers DEF TypeInv, SubsThere, ControlTypes
        <4>2. Len(sub[at[h]].mds) \in Nat
          BY <4>1 DEF SubRec
        <4>3. sub'[h] \in SubRec /\ sub'[at[h]].lds = sub[at[h]].lds
          BY <1>6, <4>1 DEF MetaTaken
        <4>4. Len(sub'[at[h]].mds) \in Nat /\ Len(sub'[at[h]].mds) >= Len(sub[at[h]].mds)
          <5>1. CASE at[h] = at[g]
            BY <1>6, <5>1, MetaGrows
          <5>2. CASE at[h] # at[g]
            BY <1>6, <4>1, <4>2, <5>2 DEF MetaTaken
          <5>3. QED
            BY <5>1, <5>2
        <4>5. h = g => Len(sub'[at[h]].mds) = Len(sub[at[h]].mds) + 1
          BY <1>6, MetaGrows
        <4>6. nld[h] =< Len(sub'[at[h]].lds)
          BY <4>1, <4>3
        <4>7. nmd'[h] =< Len(sub'[at[h]].mds)
          <5>1. CASE h = g
            BY <2>2, <4>1, <4>2, <4>5, <5>1
          <5>2. CASE h # g
            BY <2>2, <4>1, <4>2, <4>4, <5>2
          <5>3. QED
            BY <5>1, <5>2
        <4>8. QED
          BY <4>1, <4>3, <4>6, <4>7
      <3>2. Groups' = Groups /\ at' = at /\ nld' = nld
        BY <1>1 DEF Groups, grouping
      <3>3. QED
        BY <3>1, <3>2 DEF SubsThere
    <2>7. Bounds'
      <3>1. ASSUME NEW h \in Ranks
            PROVE  /\ ip'[h] =< Len(calls') /\ nld'[h] =< ip'[h] /\ nmd'[h] =< ip'[h]
                   /\ pc'[h] \in {"sizes", "data"} => nld'[h] < ip'[h]
                   /\ pc'[h] \in {"sizes", "data", "meta"} => nmd'[h] < ip'[h]
        <4>1. ip[h] \in Nat /\ nld[h] \in Nat /\ nmd[h] \in Nat
          BY DEF TypeInv, ControlTypes
        <4>2. QED
          BY <1>1, <2>1, <2>2, <4>1 DEF TypeInv, Bounds
      <3>2. QED
        BY <1>1, <3>1 DEF TypeInv, Bounds
    <2>8. QED
      BY <2>3, <2>5, <2>6, <2>7 DEF TypeInv
  <1>7. QED
    BY <1>5, <1>6, MetaEffect

LEMMA SwitchTypes == ASSUME TypeInv, NEW g \in Ranks, SwitchSubfile(g), GroupInv' PROVE TypeInv'
  <1>1. UNCHANGED <<fixed, sess, grouping, calls, ip, pc, dirty, total, got, data, nwrites>>
        /\ sess # "none" /\ g \in Groups /\ pc[g] = "switch"
    BY DEF SwitchSubfile
  <1>2. /\ turn' = [turn EXCEPT ![g] = @ + 1] /\ at' = [at EXCEPT ![g] = (g + turn[g] + 1) % Ngroup(g)]
        /\ nld' = [nld EXCEPT ![g] = 0] /\ nmd' = [nmd EXCEPT ![g] = 0]
    BY DEF SwitchSubfile, MainCounts
  <1>3. (g + turn[g] + 1) % Ngroup(g) \in Groups /\ Groups \subseteq Ranks
    <2>1. ASSUME NEW N \in Nat \ {0}, NEW a \in Nat PROVE a % N \in 0 .. N - 1
      OBVIOUS
    <2>2. Groups = 0 .. Ngroup(g) - 1 /\ Ngroup(g) \in 1 .. NP /\ Groups \subseteq Ranks
      BY <1>1, GroupNumbers DEF TypeInv
    <2>3. Ngroup(g) \in Nat \ {0} /\ g + turn[g] + 1 \in Nat
      <3>1. turn[g] \in Nat
        BY DEF TypeInv, ControlTypes
      <3>2. g \in Nat
        BY RanksFinite
      <3>3. Ngroup(g) \in Nat \ {0}
        BY <2>2, SubfilesAssumption
      <3>4. QED
        BY <3>1, <3>2, <3>3
    <2>4. QED
      BY <2>1, <2>2, <2>3
  <1>4. ControlTypes'
    BY <1>1, <1>2, <1>3 DEF TypeInv, ControlTypes, fixed
  <1>5. UNCHANGED <<queue, logged, sub, got, nwrites, gid, ip, pc, calls, sess>>
    BY <1>1 DEF data, grouping
  <1>6. DataTypes'
    BY <1>5 DEF TypeInv, DataTypes
  <1>7. SubsThere'
    <2>1. ASSUME NEW h \in Groups
          PROVE  /\ sub[h] \in SubRec /\ at'[h] \in Groups
                 /\ nld'[h] =< Len(sub[at'[h]].lds) /\ nmd'[h] =< Len(sub[at'[h]].mds)
      <3>1. h \in Ranks
        BY <1>3
      <3>2. CASE h = g
        <4>1. at'[h] \in Groups /\ nld'[h] = 0 /\ nmd'[h] = 0
          BY <1>2, <1>3, <3>2 DEF TypeInv, ControlTypes
        <4>2. sub[at'[h]] \in SubRec /\ sub[h] \in SubRec
          BY <1>1, <4>1 DEF TypeInv, SubsThere
        <4>3. Len(sub[at'[h]].lds) \in Nat /\ Len(sub[at'[h]].mds) \in Nat
          BY <4>2 DEF SubRec
        <4>4. QED
          BY <4>1, <4>2, <4>3
      <3>3. CASE h # g
        BY <1>1, <1>2, <3>1, <3>3 DEF TypeInv, ControlTypes, SubsThere
      <3>4. QED
        BY <3>2, <3>3
    <2>2. QED
      BY <1>5, <2>1 DEF SubsThere, Groups
  <1>8. Bounds'
    <2>1. ASSUME NEW h \in Ranks
          PROVE  ip[h] \in Nat /\ nld[h] \in Nat /\ nmd[h] \in Nat
                 /\ (h = g => nld'[h] = 0 /\ nmd'[h] = 0) /\ (h # g => nld'[h] = nld[h] /\ nmd'[h] = nmd[h])
      BY <1>2 DEF TypeInv, ControlTypes
    <2>2. QED
      BY <1>1, <1>5, <2>1 DEF TypeInv, Bounds
  <1>9. QED
    BY <1>4, <1>6, <1>7, <1>8 DEF TypeInv

LEMMA TypeStep == ASSUME TypeInv, [Next]_vars PROVE TypeInv'
  <1>1. GroupInv'
    BY GroupStep DEF TypeInv
  <1>2. CASE UNCHANGED vars
    <2>1. ControlTypes' /\ DataTypes'
      BY <1>2 DEF TypeInv, ControlTypes, DataTypes, vars, session, data
    <2>2. SubsThere' /\ Bounds'
      BY <1>2 DEF TypeInv, SubsThere, Bounds, Groups, vars, session, data, grouping
    <2>3. QED
      BY <1>1, <2>1, <2>2 DEF TypeInv
  <1>3. CASE Create \/ Open \/ End \/ Sizes \/ Barrier \/ \E r \in Ranks : Write(r)
    BY <1>1, <1>3, CreateTypes, OpenTypes, EndTypes, SizesTypes, BarrierTypes, WriteTypes
  <1>4. CASE \E g \in Ranks : Enter(g) \/ Step(g)
    BY <1>1, <1>4, EnterTypes, DataTypesKept, MetaTypesKept, SearchTypes, SwitchTypes, SwitchEndTypes, PutAttTypes
    DEF Step
  <1>5. QED
    BY <1>2, <1>3, <1>4 DEF Next

LEMMA Types == Spec => []TypeInv
  <1>1. TypeInv /\ [Next]_vars => TypeInv'
    BY TypeStep
  <1>2. QED
    BY <1>1, TypeInit, PTL DEF Spec

\* The state is typed, and what is counted stays below the bound on calls: in
\* one call a group makes at most one log and one metadata dataset.
THEOREM SubfileTypes == Spec => []TypeOK
  <1>1. ASSUME TypeInv PROVE TypeOK
    <2>1. ASSUME NEW r \in Ranks
          PROVE  /\ gid[r] \in Ranks /\ ngroup[r] \in 0 .. NP /\ at[r] \in Ranks
                 /\ pc[r] \in Places /\ ip[r] \in 0 .. Len(calls)
                 /\ nld[r] =< MaxCalls /\ nmd[r] =< MaxCalls
      <3>1. Len(calls) \in Nat /\ ip[r] \in Nat /\ nld[r] \in Nat /\ nmd[r] \in Nat
        BY <1>1 DEF TypeInv, ControlTypes
      <3>2. ip[r] <= Len(calls) /\ Len(calls) <= MaxCalls /\ nld[r] <= ip[r] /\ nmd[r] <= ip[r]
        BY <1>1 DEF TypeInv, Bounds
      <3>3. QED
        BY <1>1, <3>1, <3>2, SubfilesAssumption DEF TypeInv, GroupInv, ControlTypes
    <2>2. ASSUME NEW g \in Ranks, sub[g] # None, NEW i \in 1 .. Len(sub[g].lds)
          PROVE  sub[g].lds[i] \subseteq Written
      <3>1. sub[g].lds \in Seq(SUBSET Written)
        BY <1>1, <2>2 DEF TypeInv, DataTypes, SubRec
      <3>2. QED
        BY <3>1, ElementOfSeq
    <2>3. sess \in {"none", "new", "old"} /\ ro \in BOOLEAN
      BY <1>1 DEF TypeInv, ControlTypes
    <2>4. QED
      BY <2>1, <2>2, <2>3 DEF TypeOK, Places, Written
  <1>2. QED
    BY <1>1, Types, PTL
-----------------------------------------------------------------------------
(* Where a group is.                                                       *)

\* While a group reads all subfiles one after another it has the next open;
\* it comes out of the read in its own.
Nth(g, t) == (g + t) % Ngroup(g)
PlaceOK(g) ==
    IF pc[g] = "switch" THEN turn[g] =< Ngroup(g) /\ at[g] = Nth(g, turn[g])
    ELSE at[g] = g
PlaceInv == sess # "none" => \A g \in Groups : PlaceOK(g)

\* What a place says of the call that is made.
CallOK(g) ==
    /\ pc[g] = "idle" => ip[g] = 0 \/ Call(g) # "close"
    /\ pc[g] # "idle" => ip[g] # 0
    /\ pc[g] \in {"sizes", "data"} => Call(g) \in {"flush", "close"}
    /\ pc[g] = "switch" => Call(g) = "read" /\ ~single
    /\ pc[g] = "search" => Call(g) = "read" /\ single
    /\ pc[g] \in {"meta", "barrier"} => Call(g) = "close" \/ (Call(g) = "read" /\ single)
    /\ pc[g] \in {"att", "done"} => Call(g) = "close"
    /\ Call(g) = "close" /\ pc[g] \in {"sizes", "data", "meta", "barrier", "att"} => ~ro
CallInv == sess # "none" => \A g \in Groups : CallOK(g)

\* What a step does to the calls of a session.
LEMMA CallsGrow ==
  ASSUME TypeInv, [Next]_vars, ~ Create, ~ Open, NEW g \in Ranks, NEW i \in 1 .. ip[g]
  PROVE  calls'[i] = calls[i]
  <1>1. calls \in Seq({"flush", "read", "close"}) /\ ip[g] \in Nat /\ ip[g] <= Len(calls) /\ Len(calls) \in Nat
    BY DEF TypeInv, ControlTypes, Bounds
  <1>2. i \in 1 .. Len(calls)
    BY <1>1
  <1>3. CASE UNCHANGED calls
    BY <1>3
  <1>4. ASSUME NEW h \in Ranks, Enter(h) PROVE calls'[i] = calls[i]
    <2>1. PICK c \in IF ip[h] < Len(calls) THEN {calls[ip[h] + 1]} ELSE NewCalls :
             calls' = IF ip[h] < Len(calls) THEN calls ELSE Append(calls, c)
      BY <1>4 DEF Enter
    <2>2. CASE ip[h] < Len(calls)
      BY <2>1, <2>2
    <2>3. CASE ~ (ip[h] < Len(calls))
      <3>1. c \in {"flush", "read", "close"}
        BY <2>1, <2>3 DEF NewCalls
      <3>2. Append(calls, c)[i] = calls[i]
        BY <1>1, <1>2, <3>1, AppendLength
      <3>3. QED
        BY <2>1, <2>3, <3>2
    <2>4. QED
      BY <2>2, <2>3
  <1>5. UNCHANGED calls \/ \E h \in Ranks : Enter(h)
    BY DEF Next, End, Write, Sizes, Barrier, Step, Data, Metaflush, Search, SwitchSubfile, SwitchEnd, PutAtt, vars
  <1>6. QED
    BY <1>3, <1>4, <1>5

\* A new session is at no call.
LEMMA StartPlaces ==
  ASSUME GroupInv', Started([g \in Ranks |-> g])
  PROVE  PlaceInv' /\ CallInv'
  <1>1. \A g \in Groups' : g \in Ranks
    BY DEF GroupInv, Groups
  <1>2. \A g \in Ranks : pc'[g] = "idle" /\ at'[g] = g /\ ip'[g] = 0
    BY DEF Started
  <1>3. QED
    BY <1>1, <1>2 DEF PlaceInv, PlaceOK, CallInv, CallOK

\* What the program does to a group that enters a call.
LEMMA EnterEffect ==
  ASSUME TypeInv, NEW g \in Ranks, Enter(g)
  PROVE  \E c \in {"flush", "read", "close"} :
            /\ pc' = [pc EXCEPT ![g] = Entry(g, c)] /\ calls'[ip[g] + 1] = c
            /\ ip' = [ip EXCEPT ![g] = @ + 1] /\ turn' = [turn EXCEPT ![g] = 0]
            /\ pc[g] = "idle" /\ g \in Groups /\ sess # "none"
            /\ UNCHANGED <<fixed, sess, grouping, at, opens, nld, nmd, dirty, total, got, data, nwrites>>
            /\ calls' = IF ip[g] < Len(calls) THEN calls ELSE Append(calls, c)
            /\ ~ (ip[g] < Len(calls)) => c \in NewCalls
  <1>1. PICK c \in IF ip[g] < Len(calls) THEN {calls[ip[g] + 1]} ELSE NewCalls :
           /\ calls' = IF ip[g] < Len(calls) THEN calls ELSE Append(calls, c)
           /\ pc' = [pc EXCEPT ![g] = Entry(g, c)]
    BY DEF Enter, Goto
  <1>2. calls \in Seq({"flush", "read", "close"}) /\ Len(calls) \in Nat /\ ip[g] \in Nat /\ ip[g] <= Len(calls)
    BY DEF TypeInv, ControlTypes, Bounds
  <1>3. CASE ip[g] < Len(calls)
    <2>1. c \in {"flush", "read", "close"} /\ calls'[ip[g] + 1] = c
      BY <1>1, <1>2, <1>3
    <2>2. QED
      BY <1>1, <1>3, <2>1 DEF Enter
  <1>4. CASE ~ (ip[g] < Len(calls))
    <2>1. c \in {"flush", "read", "close"} /\ c \in NewCalls
      BY <1>1, <1>4 DEF NewCalls
    <2>2. ip[g] = Len(calls)
      BY <1>2, <1>4
    <2>3. calls'[ip[g] + 1] = c
      BY <1>1, <1>2, <1>4, <2>1, <2>2, AppendLength
    <2>4. QED
      BY <1>1, <1>4, <2>1, <2>3 DEF Enter
  <1>5. QED
    BY <1>3, <1>4

LEMMA PlaceStep == ASSUME TypeInv, PlaceInv, [Next]_vars, GroupInv' PROVE PlaceInv'
  <1>1. CASE Create
    BY <1>1, StartPlaces DEF Create
  <1>2. CASE Open
    <2>1. sess' = "none" \/ Started([g \in Ranks |-> g])
      BY <1>2 DEF Open
    <2>2. QED
      BY <2>1, StartPlaces DEF PlaceInv
  <1>3. ASSUME sess # "none", sess' = sess, UNCHANGED <<gid, ngroup>>, \A h \in Groups : PlaceOK(h) => PlaceOK(h)'
        PROVE  PlaceInv'
    BY <1>3 DEF PlaceInv, Groups
  <1>4. CASE End
    BY <1>4 DEF End, PlaceInv
  <1>5. CASE UNCHANGED <<sess, gid, ngroup, pc, at, turn>>
    BY <1>5 DEF PlaceInv, PlaceOK, Nth, Groups, Ngroup, In
  <1>6. UNCHANGED <<gid, ngroup>> =>
           Groups' = Groups /\ (\A h : Ngroup(h)' = Ngroup(h)) /\ \A h, t : Nth(h, t)' = Nth(h, t)
    BY DEF Groups, Nth, Ngroup, In
  <1>6a. sess # "none" => Groups \subseteq Ranks
    BY GroupNumbers DEF TypeInv
  <1>7. CASE Sizes \/ Barrier
    <2>1. sess # "none" /\ UNCHANGED <<sess, gid, ngroup, at, turn>>
          /\ \A h \in Groups : pc[h] \in {"sizes", "barrier"} /\ pc'[h] \in {"data", "att", "search"}
      BY <1>7, GroupNumbers DEF Sizes, Barrier, Everyone, grouping, session, AfterMeta, TypeInv
    <2>2. \A h \in Groups : PlaceOK(h) => PlaceOK(h)'
      BY <2>1 DEF PlaceOK
    <2>3. QED
      BY <1>3, <2>1, <2>2
  <1>8. ASSUME NEW g \in Ranks, Enter(g) PROVE PlaceInv'
    <2>1. PICK c \in {"flush", "read", "close"} :
            /\ pc' = [pc EXCEPT ![g] = Entry(g, c)] /\ turn' = [turn EXCEPT ![g] = 0]
            /\ pc[g] = "idle" /\ g \in Groups /\ sess # "none" /\ UNCHANGED <<sess, gid, ngroup, at>>
      BY <1>8, EnterEffect DEF grouping
    <2>2. pc'[g] = Entry(g, c) /\ turn'[g] = 0 /\ \A h \in Ranks : h # g => pc'[h] = pc[h] /\ turn'[h] = turn[h]
      BY <2>1 DEF TypeInv, ControlTypes
    <2>3. at[g] = g /\ g \in Nat /\ g % Ngroup(g) = g /\ Ngroup(g) \in Nat
      <3>1. at[g] = g /\ g \in Nat /\ g % Ngroup(g) = g /\ Ngroup(g) \in 1 .. NP
        BY <2>1, GroupNumbers, RanksFinite DEF PlaceInv, PlaceOK, TypeInv
      <3>2. QED
        BY <3>1, SubfilesAssumption
    <2>4. Nth(g, 0) = g /\ 0 <= Ngroup(g)
      <3>1. g + 0 = g /\ 0 <= Ngroup(g)
        BY <2>3
      <3>2. QED
        BY <2>3, <3>1 DEF Nth
    <2>5. \A h \in Groups : PlaceOK(h) => PlaceOK(h)'
      <3>1. PlaceOK(g)'
        <4>1. at'[g] = g /\ Nth(g, 0)' = g /\ turn'[g] <= Ngroup(g)'
          BY <1>6, <2>1, <2>2, <2>3, <2>4
        <4>2. QED
          BY <1>6, <2>1, <2>2, <2>4, <4>1 DEF PlaceOK
      <3>2. \A h \in Ranks : h # g /\ PlaceOK(h) => PlaceOK(h)'
        BY <1>6, <2>1, <2>2 DEF PlaceOK
      <3>3. QED
        BY <1>6a, <2>1, <3>1, <3>2
    <2>6. QED
      BY <1>3, <2>1, <2>5
  <1>9. ASSUME NEW g \in Ranks, Data(g) \/ Metaflush(g) \/ Search(g) \/ PutAtt(g) PROVE PlaceInv'
    <2>1. /\ sess # "none" /\ pc[g] \in {"data", "meta", "search", "att"} /\ UNCHANGED <<sess, gid, ngroup, at, turn>>
          /\ \E l \in Places \ {"switch"} : pc' = [pc EXCEPT ![g] = l]
      BY <1>9 DEF Data, Metaflush, Search, PutAtt, Goto, AfterMeta, Places, grouping, session
    <2>2. pc'[g] # "switch" /\ \A h \in Ranks : h # g => pc'[h] = pc[h]
      BY <2>1 DEF TypeInv, ControlTypes
    <2>3. \A h \in Groups : PlaceOK(h) => PlaceOK(h)'
      BY <1>6, <2>1, <2>2, GroupNumbers DEF PlaceOK, TypeInv
    <2>4. QED
      BY <1>3, <2>1, <2>3
  <1>10. ASSUME NEW g \in Ranks, SwitchSubfile(g) PROVE PlaceInv'
    <2>1. /\ sess # "none" /\ pc[g] = "switch" /\ UNCHANGED <<sess, gid, ngroup, pc>> /\ turn[g] < Ngroup(g)
          /\ turn' = [turn EXCEPT ![g] = @ + 1] /\ at' = [at EXCEPT ![g] = (g + turn[g] + 1) % Ngroup(g)]
          /\ g \in Groups
      BY <1>10 DEF SwitchSubfile, grouping
    <2>2. turn'[g] = turn[g] + 1 /\ turn[g] \in Nat
          /\ \A h \in Ranks : h # g => turn'[h] = turn[h] /\ at'[h] = at[h]
      BY <2>1 DEF TypeInv, ControlTypes
    <2>3. g \in Nat /\ Ngroup(g) \in Nat
      <3>1. g \in Nat /\ Ngroup(g) \in 1 .. NP
        BY <2>1, GroupNumbers, RanksFinite DEF TypeInv
      <3>2. QED
        BY <3>1, SubfilesAssumption
    <2>4. at'[g] = Nth(g, turn'[g]) /\ turn'[g] <= Ngroup(g)
      <3>1. g + turn[g] + 1 = g + (turn[g] + 1) /\ turn[g] + 1 <= Ngroup(g)
        BY <2>1, <2>2, <2>3
      <3>2. at'[g] = (g + turn[g] + 1) % Ngroup(g)
        BY <2>1 DEF TypeInv, ControlTypes
      <3>3. QED
        BY <2>2, <3>1, <3>2 DEF Nth
    <2>5. \A h \in Groups : PlaceOK(h) => PlaceOK(h)'
      BY <1>6, <1>6a, <2>1, <2>2, <2>4 DEF PlaceOK
    <2>6. QED
      BY <1>3, <2>1, <2>5
  <1>11. ASSUME NEW g \in Ranks, SwitchEnd(g) PROVE PlaceInv'
    <2>1. /\ sess # "none" /\ pc[g] = "switch" /\ UNCHANGED <<sess, gid, ngroup, at, turn>> /\ turn[g] = Ngroup(g)
          /\ pc' = [pc EXCEPT ![g] = "idle"] /\ g \in Groups
      BY <1>11 DEF SwitchEnd, grouping, Goto
    <2>2. pc'[g] = "idle" /\ \A h \in Ranks : h # g => pc'[h] = pc[h]
      BY <2>1 DEF TypeInv, ControlTypes
    <2>3. Nth(g, Ngroup(g)) = g
      BY <2>1, GroupNumbers DEF TypeInv, Nth
    <2>4. \A h \in Groups : PlaceOK(h) => PlaceOK(h)'
      BY <1>6, <1>6a, <2>1, <2>2, <2>3 DEF PlaceOK
    <2>5. QED
      BY <1>3, <2>1, <2>4
  <1>12. UNCHANGED vars \/ (\E r \in Ranks : Write(r)) => UNCHANGED <<sess, gid, ngroup, pc, at, turn>>
    BY DEF vars, Write, grouping, session
  <1>13. QED
    BY <1>1, <1>2, <1>4, <1>5, <1>7, <1>8, <1>9, <1>10, <1>11, <1>12 DEF Next, Step

\* A call keeps its name while later ones are made.
LEMMA CallKept ==
  ASSUME TypeInv, [Next]_vars, ~ Create, ~ Open, NEW g \in Ranks, ip[g] # 0, ip'[g] = ip[g]
  PROVE  Call(g)' = Call(g)
  <1>1. ip[g] \in 1 .. ip[g]
    BY DEF TypeInv, ControlTypes
  <1>2. calls'[ip[g]] = calls[ip[g]]
    BY <1>1, CallsGrow
  <1>3. QED
    BY <1>2 DEF Call

\* Steps in which a group only goes on in its call.
LEMMA CallMoves ==
  ASSUME TypeInv, CallInv, [Next]_vars, ~ Create, ~ Open, sess # "none", sess' = sess,
         UNCHANGED <<gid, single, ro, ip>>,
         \A h \in Groups : CallOK(h) /\ (ip[h] # 0 => Call(h)' = Call(h)) => CallOK(h)'
  PROVE  CallInv'
  <1>1. Groups' = Groups /\ \A h \in Groups : h \in Ranks
    BY GroupNumbers DEF Groups, TypeInv
  <1>2. \A h \in Groups : ip[h] # 0 => Call(h)' = Call(h)
    BY <1>1, CallKept
  <1>3. QED
    BY <1>1, <1>2 DEF CallInv

LEMMA CallStep == ASSUME TypeInv, CallInv, [Next]_vars, GroupInv' PROVE CallInv'
  <1>1. CASE Create
    BY <1>1, StartPlaces DEF Create
  <1>2. CASE Open
    <2>1. sess' = "none" \/ Started([g \in Ranks |-> g])
      BY <1>2 DEF Open
    <2>2. QED
      BY <2>1, StartPlaces DEF CallInv
  <1> SUFFICES ASSUME ~ Create, ~ Open PROVE CallInv'
    BY <1>1, <1>2
  <1>3. CASE End
    BY <1>3 DEF End, CallInv
  <1>4. CASE UNCHANGED <<sess, gid, single, ro, ip, pc, calls>>
    BY <1>4 DEF CallInv, CallOK, Groups, Call
  <1>5. sess # "none" => Groups \subseteq Ranks
    BY GroupNumbers DEF TypeInv
  <1>6. CASE Sizes
    <2>1. sess # "none" /\ UNCHANGED <<sess, gid, single, ro, ip>>
          /\ \A h \in Groups : pc[h] = "sizes" /\ pc'[h] = "data"
      BY <1>5, <1>6 DEF Sizes, Everyone, grouping, fixed
    <2>2. \A h \in Groups : CallOK(h) /\ (ip[h] # 0 => Call(h)' = Call(h)) => CallOK(h)'
      BY <2>1 DEF CallOK
    <2>3. QED
      BY <2>1, <2>2, CallMoves
  <1>7. CASE Barrier
    <2>1. sess # "none" /\ UNCHANGED <<sess, gid, single, ro, ip>>
          /\ \A h \in Groups : pc[h] = "barrier" /\ pc'[h] = IF Call(h) = "close" THEN "att" ELSE "search"
      BY <1>5, <1>7 DEF Barrier, Everyone, grouping, fixed, AfterMeta
    <2>2. \A h \in Groups : CallOK(h) /\ (ip[h] # 0 => Call(h)' = Call(h)) => CallOK(h)'
      BY <2>1 DEF CallOK
    <2>3. QED
      BY <2>1, <2>2, CallMoves
  <1>8. ASSUME NEW g \in Ranks, Enter(g) PROVE CallInv'
    <2>1. PICK c \in {"flush", "read", "close"} :
            /\ pc' = [pc EXCEPT ![g] = Entry(g, c)] /\ calls'[ip[g] + 1] = c
            /\ ip' = [ip EXCEPT ![g] = @ + 1]
            /\ pc[g] = "idle" /\ g \in Groups /\ sess # "none" /\ UNCHANGED <<sess, gid, single, ro>>
      BY <1>8, EnterEffect DEF grouping, fixed
    <2>2. pc'[g] = Entry(g, c) /\ ip'[g] = ip[g] + 1 /\ ip[g] \in Nat
          /\ \A h \in Ranks : h # g => pc'[h] = pc[h] /\ ip'[h] = ip[h]
      BY <2>1 DEF TypeInv, ControlTypes
    <2>3. Call(g)' = c /\ ip'[g] # 0
      BY <2>1, <2>2 DEF Call
    <2>4. CallOK(g)'
      BY <2>1, <2>2, <2>3 DEF CallOK, Entry, TypeInv, ControlTypes
    <2>5. ASSUME NEW h \in Ranks, h # g, CallOK(h) PROVE CallOK(h)'
      <3>1. ip[h] # 0 => Call(h)' = Call(h)
        BY <2>2, <2>5, CallKept
      <3>2. QED
        BY <2>1, <2>2, <2>5, <3>1 DEF CallOK
    <2>6. QED
      BY <1>5, <2>1, <2>4, <2>5 DEF CallInv, Groups
  <1>9. ASSUME NEW g \in Ranks, Step(g) PROVE CallInv'
    <2>1. sess # "none" /\ g \in Groups /\ UNCHANGED <<sess, gid, single, ro, ip>>
      BY <1>9 DEF Step, Data, Metaflush, Search, SwitchSubfile, SwitchEnd, PutAtt, grouping, fixed
    <2>2. \/ pc[g] = "data" /\ (pc' = [pc EXCEPT ![g] = After(g)] \/ pc' = [pc EXCEPT ![g] = "failed"])
          \/ pc[g] = "meta" /\ (pc' = [pc EXCEPT ![g] = AfterMeta(g)] \/ pc' = [pc EXCEPT ![g] = "barrier"])
          \/ pc[g] = "search" /\ pc' = [pc EXCEPT ![g] = "idle"]
          \/ pc[g] = "switch" /\ (pc' = pc \/ pc' = [pc EXCEPT ![g] = "idle"])
          \/ pc[g] = "att" /\ pc' = [pc EXCEPT ![g] = "done"]
      <3>1. CASE Data(g)
        BY <3>1, DataEffect DEF DataKept, DataTaken
      <3>2. CASE Metaflush(g)
        BY <3>2, MetaEffect DEF MetaKept, MetaTaken
      <3>3. CASE Search(g) \/ SwitchSubfile(g) \/ SwitchEnd(g) \/ PutAtt(g)
        BY <3>3 DEF Search, SwitchSubfile, SwitchEnd, PutAtt, Goto
      <3>4. QED
        BY <1>9, <3>1, <3>2, <3>3 DEF Step
    <2>3. \A h \in Ranks : h # g => pc'[h] = pc[h]
      BY <2>2 DEF TypeInv, ControlTypes
    <2>4. \/ pc[g] = "data" /\ (pc'[g] = After(g) \/ pc'[g] = "failed")
          \/ pc[g] = "meta" /\ (pc'[g] = AfterMeta(g) \/ pc'[g] = "barrier")
          \/ pc[g] = "search" /\ pc'[g] = "idle"
          \/ pc[g] = "switch" /\ (pc'[g] = pc[g] \/ pc'[g] = "idle")
          \/ pc[g] = "att" /\ pc'[g] = "done"
      BY <2>2 DEF TypeInv, ControlTypes
    <2>5. CallOK(g) /\ (ip[g] # 0 => Call(g)' = Call(g)) => CallOK(g)'
      BY <2>1, <2>4 DEF CallOK, After, AfterMeta
    <2>6. \A h \in Ranks : h # g /\ CallOK(h) /\ (ip[h] # 0 => Call(h)' = Call(h)) => CallOK(h)'
      BY <2>1, <2>3 DEF CallOK
    <2>7. QED
      BY <1>5, <2>1, <2>5, <2>6, CallMoves
  <1>10. UNCHANGED vars \/ (\E r \in Ranks : Write(r)) => UNCHANGED <<sess, gid, single, ro, ip, pc, calls>>
    BY DEF vars, Write, grouping, fixed
  <1>11. QED
    BY <1>3, <1>4, <1>6, <1>7, <1>8, <1>9, <1>10 DEF Next
-----------------------------------------------------------------------------
(* What is left to flush and to index.                                     *)

\* Nothing is left to flush in a close that is past its log, nor to index where
\* metadata was flushed; a group with entries knows that it has some, because
\* it heard that someone had data when it flushed.
RestOK(g) ==
    /\ Call(g) = "close" /\ pc[g] \in {"meta", "barrier", "att", "done"} => Waiting(g) = {}
    /\ pc[g] \in {"barrier", "search", "att", "done"} => Unindexed(g) = {}
    /\ pc[g] = "data" /\ Waiting(g) # {} => total
    /\ ~dirty[g] => Unindexed(g) = {}
RestInv ==
    /\ sess = "none" \/ ro => \A r \in Ranks : queue[r] = {} /\ logged[r] = {}
    /\ sess # "none" => \A g \in Groups : RestOK(g)

LEMMA StartRest ==
  ASSUME RestInv, sess = "none", UNCHANGED <<queue, logged>>, GroupInv'
  PROVE  /\ Started([g \in Ranks |-> g]) => RestInv'
         /\ sess' = "none" => RestInv'
  <1>1. \A r \in Ranks : queue'[r] = {} /\ logged'[r] = {}
    BY DEF RestInv
  <1>2. \A h : Waiting(h)' = {} /\ Unindexed(h)' = {}
    BY <1>1 DEF Waiting, Unindexed, In
  <1>3. ASSUME Started([g \in Ranks |-> g]) PROVE \A g \in Groups' : RestOK(g)'
    <2>1. \A g \in Groups' : pc'[g] = "idle"
      BY <1>3 DEF Started, GroupInv, Groups
    <2>2. QED
      BY <1>2, <2>1 DEF RestOK
  <1>4. QED
    BY <1>1, <1>3 DEF RestInv

\* Steps in which no process is new to write.
LEMMA RestMoves ==
  ASSUME TypeInv, CallInv, RestInv, [Next]_vars, ~ Create, ~ Open, sess # "none", sess' = sess,
         UNCHANGED <<gid, single, ro>>,
         ro => UNCHANGED <<queue, logged>>,
         \A h \in Groups : RestOK(h) /\ CallOK(h) /\ (ip[h] # 0 /\ ip'[h] = ip[h] => Call(h)' = Call(h)) => RestOK(h)'
  PROVE  RestInv'
  <1>1. Groups' = Groups /\ \A h \in Groups : h \in Ranks
    BY GroupNumbers DEF Groups, TypeInv
  <1>2. \A h \in Groups : ip[h] # 0 /\ ip'[h] = ip[h] => Call(h)' = Call(h)
    BY <1>1, CallKept
  <1>3. QED
    BY <1>1, <1>2 DEF RestInv, CallInv

LEMMA RestStep == ASSUME TypeInv, CallInv, RestInv, [Next]_vars, GroupInv' PROVE RestInv'
  <1>1. CASE Create
    BY <1>1, StartRest DEF Create
  <1>2. CASE Open
    <2>1. sess = "none" /\ UNCHANGED <<queue, logged>> /\ (sess' = "none" \/ Started([g \in Ranks |-> g]))
      BY <1>2 DEF Open, data
    <2>2. QED
      BY <2>1, StartRest
  <1> SUFFICES ASSUME ~ Create, ~ Open PROVE RestInv'
    BY <1>1, <1>2
  <1>5. sess # "none" => Groups \subseteq Ranks /\ \A r \in Ranks : gid[r] \in Groups
    BY GroupNumbers DEF TypeInv
  <1>3. CASE End
    <2>1. sess # "none" /\ \A h \in Groups : pc[h] = "done" /\ Call(h) = "close"
      BY <1>3 DEF End, Everyone, CallInv, CallOK
    <2>2. \A h \in Groups : Waiting(h) = {} /\ Unindexed(h) = {}
      BY <2>1 DEF RestInv, RestOK
    <2>3. \A r \in Ranks : queue[r] \subseteq Waiting(gid[r]) /\ logged[r] \subseteq Unindexed(gid[r])
      BY DEF Waiting, Unindexed, In
    <2>4. \A r \in Ranks : queue[r] = {} /\ logged[r] = {}
      BY <1>5, <2>1, <2>2, <2>3
    <2>5. QED
      BY <1>3, <2>4 DEF End, data, RestInv
  <1>4. CASE UNCHANGED vars
    BY <1>4 DEF vars, RestInv, RestOK, Groups, Call, Waiting, Unindexed, In, grouping, session, data
  <1>6. UNCHANGED gid => /\ UNCHANGED queue => \A h : Waiting(h)' = Waiting(h)
                         /\ UNCHANGED logged => \A h : Unindexed(h)' = Unindexed(h)
    BY DEF Waiting, Unindexed, In
  <1>7. CASE Sizes
    <2>1. sess # "none" /\ UNCHANGED <<sess, gid, single, ro, ip, queue, logged, dirty>>
          /\ total' = (\E r \in Ranks : queue[r] # {}) /\ \A h \in Groups : pc[h] = "sizes" /\ pc'[h] = "data"
      BY <1>5, <1>7 DEF Sizes, Everyone, grouping, fixed, data
    <2>2. \A h : Waiting(h) # {} => total'
      BY <2>1 DEF Waiting, In
    <2>3. \A h \in Groups : RestOK(h) => RestOK(h)'
      BY <1>6, <2>1, <2>2 DEF RestOK
    <2>4. QED
      BY <2>1, <2>3, RestMoves
  <1>8. CASE Barrier
    <2>1. sess # "none" /\ UNCHANGED <<sess, gid, single, ro, ip, queue, logged, dirty, total>>
          /\ \A h \in Groups : pc[h] = "barrier" /\ pc'[h] = IF Call(h) = "close" THEN "att" ELSE "search"
      BY <1>5, <1>8 DEF Barrier, Everyone, grouping, fixed, AfterMeta, data, session
    <2>2. \A h \in Groups : RestOK(h) /\ CallOK(h) /\ (ip[h] # 0 /\ ip'[h] = ip[h] => Call(h)' = Call(h)) => RestOK(h)'
      BY <1>6, <2>1 DEF RestOK, CallOK
    <2>3. QED
      BY <2>1, <2>2, RestMoves
  <1>9. ASSUME NEW g \in Ranks, Enter(g) PROVE RestInv'
    <2>1. PICK c \in {"flush", "read", "close"} :
            /\ pc' = [pc EXCEPT ![g] = Entry(g, c)] /\ calls'[ip[g] + 1] = c
            /\ ip' = [ip EXCEPT ![g] = @ + 1]
            /\ pc[g] = "idle" /\ g \in Groups /\ sess # "none"
            /\ UNCHANGED <<sess, gid, single, ro, queue, logged, dirty, total>>
      BY <1>9, EnterEffect DEF grouping, fixed, data
    <2>2. pc'[g] = Entry(g, c) /\ ip'[g] = ip[g] + 1 /\ ip[g] \in Nat
          /\ \A h \in Ranks : h # g => pc'[h] = pc[h] /\ ip'[h] = ip[h]
      BY <2>1 DEF TypeInv, ControlTypes
    <2>3. Call(g)' = c
      BY <2>1, <2>2 DEF Call
    <2>4. ro => Waiting(g) = {} /\ Unindexed(g) = {}
      BY DEF RestInv, Waiting, Unindexed, In
    <2>5. RestOK(g) => RestOK(g)'
      BY <1>6, <2>1, <2>2, <2>3, <2>4 DEF RestOK, Entry
    <2>6. \A h \in Ranks : h # g /\ RestOK(h) /\ CallOK(h) /\ (ip[h] # 0 => Call(h)' = Call(h)) => RestOK(h)'
      BY <1>6, <2>1, <2>2 DEF RestOK, CallOK
    <2>7. QED
      BY <1>5, <2>1, <2>2, <2>5, <2>6, RestMoves
  <1>10. ASSUME NEW r \in Ranks, Write(r) PROVE RestInv'
    <2>1. /\ sess # "none" /\ ~ro /\ pc[gid[r]] = "idle"
          /\ queue' = [queue EXCEPT ![r] = @ \cup {<<r, nwrites + 1>>}]
          /\ UNCHANGED <<sess, gid, single, ro, ip, pc, logged, dirty, total>>
      BY <1>10 DEF Write, fixed, grouping, session
    <2>2. \A q \in Ranks : q # r => queue'[q] = queue[q]
      BY <2>1
    <2>3. \A h : h # gid[r] => Waiting(h)' = Waiting(h)
      <3>1. ASSUME NEW h, h # gid[r] PROVE Waiting(h)' = Waiting(h)
        <4>1. In(h)' = In(h) /\ \A q \in In(h) : queue'[q] = queue[q]
          BY <2>1, <2>2, <3>1 DEF In
        <4>2. QED
          BY <4>1 DEF Waiting
      <3>2. QED
        BY <3>1
    <2>4. \A h \in Groups : RestOK(h) /\ CallOK(h) /\ (ip[h] # 0 /\ ip'[h] = ip[h] => Call(h)' = Call(h)) => RestOK(h)'
      BY <1>6, <2>1, <2>3 DEF RestOK, CallOK
    <2>5. QED
      BY <2>1, <2>4, RestMoves
  <1>11. ASSUME NEW g \in Ranks, Data(g) PROVE RestInv'
    <2>1. /\ sess # "none" /\ g \in Groups /\ pc[g] = "data" /\ dirty'[g] = (dirty[g] \/ total)
          /\ UNCHANGED <<sess, gid, single, ro, ip, total>>
          /\ \A h \in Ranks : h # g => dirty'[h] = dirty[h]
      BY <1>11, DataEffect DEF fixed, grouping, TypeInv, ControlTypes
    <2>2. CASE DataKept(g)
      <3>1. UNCHANGED <<queue, logged>> /\ (pc'[g] = "failed" \/ (pc'[g] = After(g) /\ Waiting(g) = {}))
            /\ \A h \in Ranks : h # g => pc'[h] = pc[h]
        BY <2>2 DEF DataKept, TypeInv, ControlTypes
      <3>2. RestOK(g) => RestOK(g)'
        BY <1>6, <2>1, <3>1 DEF RestOK, After
      <3>3. \A h \in Ranks : h # g /\ RestOK(h) /\ CallOK(h) /\ (ip[h] # 0 => Call(h)' = Call(h)) => RestOK(h)'
        BY <1>6, <2>1, <3>1 DEF RestOK, CallOK
      <3>4. QED
        BY <1>5, <2>1, <3>1, <3>2, <3>3, RestMoves
    <2>3. CASE DataTaken(g)
      <3>1. pc'[g] = After(g) /\ \A h \in Ranks : h # g => pc'[h] = pc[h]
        BY <2>3 DEF DataTaken, TypeInv, ControlTypes
      <3>2. \A q \in Ranks : (q \in In(g) => queue'[q] = {}) /\ (q \notin In(g) => queue'[q] = queue[q] /\ logged'[q] = logged[q])
        BY <2>3 DEF DataTaken
      <3>3. Waiting(g)' = {}
        BY <2>1, <3>2 DEF Waiting, In
      <3>4. ASSUME NEW h \in Ranks, h # g PROVE Waiting(h)' = Waiting(h) /\ Unindexed(h)' = Unindexed(h)
        <4>1. In(h)' = In(h) /\ \A q \in In(h) : queue'[q] = queue[q] /\ logged'[q] = logged[q]
          BY <2>1, <3>2, <3>4 DEF In
        <4>2. QED
          BY <4>1 DEF Waiting, Unindexed
      <3>5. Waiting(g) # {}
        BY <2>3 DEF DataTaken
      <3>6. ~ro
        BY <2>1, <3>5 DEF RestInv, Waiting, In
      <3>7. RestOK(g) => RestOK(g)'
        BY <2>1, <3>1, <3>3, <3>5 DEF RestOK, After
      <3>8. \A h \in Ranks : h # g /\ RestOK(h) /\ CallOK(h) /\ (ip[h] # 0 => Call(h)' = Call(h)) => RestOK(h)'
        BY <2>1, <3>1, <3>4 DEF RestOK, CallOK
      <3>9. QED
        BY <1>5, <2>1, <3>6, <3>7, <3>8, RestMoves
    <2>4. QED
      BY <1>11, <2>2, <2>3, DataEffect
  <1>12. ASSUME NEW g \in Ranks, Metaflush(g) PROVE RestInv'
    <2>1. /\ sess # "none" /\ g \in Groups /\ pc[g] = "meta"
          /\ UNCHANGED <<sess, gid, single, ro, ip, total, queue>>
          /\ \A h \in Ranks : h # g => dirty'[h] = dirty[h]
          /\ logged' = [r \in Ranks |-> IF r \in In(g) THEN {} ELSE logged[r]]
      BY <1>12, MetaEffect DEF fixed, grouping, TypeInv, ControlTypes
    <2>2. pc'[g] \in {AfterMeta(g), "barrier"} /\ \A h \in Ranks : h # g => pc'[h] = pc[h]
      BY <1>12, MetaEffect DEF MetaKept, MetaTaken, TypeInv, ControlTypes
    <2>3. Unindexed(g)' = {}
      BY <2>1 DEF Unindexed, In
    <2>4. ASSUME NEW h \in Ranks, h # g PROVE Unindexed(h)' = Unindexed(h)
      <3>1. In(h)' = In(h) /\ \A q \in In(h) : logged'[q] = logged[q]
        BY <2>1, <2>4 DEF In
      <3>2. QED
        BY <3>1 DEF Unindexed
    <2>5. ro => UNCHANGED <<queue, logged>>
      <3>1. logged = [r \in Ranks |-> logged[r]]
        BY DEF TypeInv, DataTypes
      <3>2. QED
        BY <2>1, <3>1 DEF RestInv
    <2>6. RestOK(g) /\ CallOK(g) /\ (ip[g] # 0 => Call(g)' = Call(g)) => RestOK(g)'
      BY <1>6, <2>1, <2>2, <2>3 DEF RestOK, CallOK, AfterMeta
    <2>7. \A h \in Ranks : h # g /\ RestOK(h) /\ CallOK(h) /\ (ip[h] # 0 => Call(h)' = Call(h)) => RestOK(h)'
      BY <1>6, <2>1, <2>2, <2>4 DEF RestOK, CallOK
    <2>8. QED
      BY <1>5, <2>1, <2>5, <2>6, <2>7, RestMoves
  <1>13. ASSUME NEW g \in Ranks, Search(g) \/ SwitchSubfile(g) \/ SwitchEnd(g) \/ PutAtt(g) PROVE RestInv'
    <2>1. /\ sess # "none" /\ g \in Groups /\ UNCHANGED <<sess, gid, single, ro, ip, total, queue, logged, dirty>>
          /\ \/ pc' = pc
             \/ pc[g] \in {"search", "switch"} /\ pc' = [pc EXCEPT ![g] = "idle"]
             \/ pc[g] = "att" /\ pc' = [pc EXCEPT ![g] = "done"]
      BY <1>13 DEF Search, SwitchSubfile, SwitchEnd, PutAtt, Goto, fixed, grouping, data, session
    <2>2. /\ \/ pc'[g] = pc[g]
             \/ pc[g] \in {"search", "switch"} /\ pc'[g] = "idle"
             \/ pc[g] = "att" /\ pc'[g] = "done"
          /\ \A h \in Ranks : h # g => pc'[h] = pc[h]
      BY <2>1 DEF TypeInv, ControlTypes
    <2>3. \A h \in Ranks : RestOK(h) /\ CallOK(h) /\ (ip[h] # 0 => Call(h)' = Call(h)) => RestOK(h)'
      BY <1>6, <2>1, <2>2 DEF RestOK, CallOK
    <2>4. QED
      BY <1>5, <2>1, <2>3, RestMoves
  <1>14. QED
    BY <1>3, <1>4, <1>7, <1>8, <1>9, <1>10, <1>11, <1>12, <1>13 DEF Next, Step
-----------------------------------------------------------------------------
(* A subfile and its group.                                                *)

\* When every process is a group of its own, it has its own number.
LEMMA OwnNumbers ==
  ASSUME NEW n, Cardinality(Leaders(n)) = NP
  PROVE  \A r \in Ranks : GroupId(r, n) = r
  <1>1. Leaders(n) = Ranks
    <2>1. Leaders(n) \in SUBSET Ranks
      BY DEF Leaders
    <2>2. QED
      BY <2>1, RanksFinite, FS_Subset
  <1>2. ASSUME NEW r \in Ranks PROVE GroupId(r, n) = r
    <2>1. r \in Members(r, n) /\ r \in Leaders(n)
      BY <1>1, MembersClass
    <2>2. (CHOOSE s \in Members(r, n) : s \in Leaders(n)) = r
      BY <2>1, OneLeader
    <2>3. r \in Nat /\ {s \in Leaders(n) : s < r} = 0 .. r - 1
      BY <1>1, SubfilesAssumption DEF Ranks
    <2>4. Cardinality(0 .. r - 1) = r
      BY <2>3, FS_Interval
    <2>5. QED
      BY <2>2, <2>3, <2>4 DEF GroupId, CountBefore
  <1>3. QED
    BY <1>2

LEMMA ProductsGrow ==
  ASSUME NEW N \in Nat \ {0}, NEW x \in Nat, NEW y \in Nat, x <= y
  PROVE  N * x <= N * y /\ N * x \in Nat /\ N * y \in Nat
  <1>1. PICK k \in Nat : y = x + k
    <2>1. y - x \in Nat /\ y = x + (y - x)
      OBVIOUS
    <2>2. QED
      BY <2>1
  <1>2. N * (x + k) = N * x + N * k /\ N * k \in Nat /\ N * x \in Nat
    OBVIOUS
  <1>3. QED
    BY <1>1, <1>2

\* Numbers that are N apart have different quotients by N.
LEMMA QuotientsApart ==
  ASSUME NEW N \in Nat \ {0}, NEW a \in Nat, NEW b \in Nat, a + N <= b
  PROVE  a \div N < b \div N
  <1>1. ASSUME NEW d \in Nat
        PROVE  d \div N \in Nat /\ d % N \in 0 .. N - 1 /\ d = N * (d \div N) + (d % N)
    OBVIOUS
  <1> DEFINE q == a \div N
             p == b \div N
             u == a % N
             v == b % N
  <1>2. /\ q \in Nat /\ u \in 0 .. N - 1 /\ a = N * q + u
        /\ p \in Nat /\ v \in 0 .. N - 1 /\ b = N * p + v
    BY <1>1
  <1> HIDE DEF q, p, u, v
  <1>3. ASSUME p <= q PROVE FALSE
    <2>1. N * p <= N * q /\ N * p \in Nat /\ N * q \in Nat
      BY <1>2, <1>3, ProductsGrow
    <2>2. QED
      BY <1>2, <2>1
  <1>4. q < p
    BY <1>2, <1>3
  <1>5. QED
    BY <1>4 DEF q, p

\* As many groups as AsNumber: every process is a group of its own, since there
\* are no more processes than that.
LEMMA OneEach == Cardinality(Leaders(AsNumber)) = NP
  <1>2. ASSUME NEW r \in Ranks, NEW s \in Ranks, r < s PROVE Colour(r, AsNumber) # Colour(s, AsNumber)
    <2>1. r \in Nat /\ s \in Nat /\ NP \in Nat \ {0} /\ NP <= 512
      BY RanksFinite, SubfilesAssumption DEF AsNumber
    <2>2. r * 512 \in Nat /\ s * 512 \in Nat /\ r * 512 + NP <= s * 512
      BY <1>2, <2>1
    <2>3. (r * 512) \div NP < (s * 512) \div NP
      BY <2>1, <2>2, QuotientsApart
    <2>4. (r * 512) \div NP \in Int /\ (s * 512) \div NP \in Int
      BY <2>1, <2>2
    <2>5. Colour(r, AsNumber) = (r * 512) \div NP /\ Colour(s, AsNumber) = (s * 512) \div NP
      BY DEF Colour, AsNumber
    <2>6. QED
      BY <2>3, <2>4, <2>5
  <1>3. ASSUME NEW r \in Ranks, NEW s \in Members(r, AsNumber) PROVE s = r
    <2>1. s \in Ranks /\ Colour(s, AsNumber) = Colour(r, AsNumber)
      BY <1>3 DEF Members
    <2>2. ~ (r < s) /\ ~ (s < r)
      BY <1>2, <2>1
    <2>3. r \in Nat /\ s \in Nat
      BY <2>1, RanksFinite
    <2>4. QED
      BY <2>2, <2>3
  <1>4. \A r \in Ranks : \A s \in Members(r, AsNumber) : r <= s
    BY <1>3, RanksFinite
  <1>5. Leaders(AsNumber) = Ranks
    BY <1>4, LeaderIsLeast DEF Leaders
  <1>6. QED
    BY <1>5, RanksFinite

\* The writes of a subfile and where its metadata leads.
SubOwn(g) ==
    /\ \A i \in 1 .. Len(sub[g].lds) : \A w \in sub[g].lds[i] : home[w[1]] = g
    /\ \A i \in 1 .. Len(sub[g].mds) : \A x \in sub[g].mds[i] :
          x.sub = g /\ x.ld \in 1 .. Len(sub[g].lds) /\ x.w \in sub[g].lds[x.ld]

MadeSub(g) == sub[g] # None \/ (sess # "none" /\ g \in Groups)

\* A write is queued by its process; once logged it is in the log of its group.
\* Whoever may write is in the group it was in when the file was created: if
\* the groups were formed anew there are as many as processes, as there were.
OwnInv ==
    /\ \A r \in Ranks : \A w \in queue[r] : w[1] = r
    /\ sess # "none" =>
         \A r \in Ranks : \A x \in logged[r] :
            /\ x.sub = gid[r] /\ x.ld \in 1 .. Len(sub[gid[r]].lds)
            /\ x.w \in sub[gid[r]].lds[x.ld]
    /\ sess # "none" /\ ~ro => \A r \in Ranks : home[r] = gid[r]
    /\ \A g \in Ranks : MadeSub(g) => SubOwn(g)
    /\ MadeSub(NP - 1) => \A r \in Ranks : home[r] = r

LEMMA OwnInit == ASSUME Init PROVE OwnInv
  <1>1. NP - 1 \in Ranks
    BY SubfilesAssumption DEF Ranks
  <1>2. QED
    BY <1>1 DEF Init, OwnInv, MadeSub

LEMMA CreateOwn == ASSUME TypeInv, RestInv, OwnInv, Create, GroupInv' PROVE OwnInv'
  <1>1. \A r \in Ranks : queue'[r] = {} /\ logged'[r] = {}
    BY DEF Create, RestInv
  <1>2. \A r \in Ranks : home'[r] = gid'[r]
    BY DEF Create
  <1>3. \A g \in Ranks : sub'[g] = IF g < ngroup'[0] THEN EmptySub ELSE None
    BY DEF Create
  <1>7. \A g \in Ranks : MadeSub(g)' => g < ngroup'[0]
    <2>1. Groups' = 0 .. ngroup'[0] - 1 /\ ngroup'[0] \in 1 .. NP
      <3>1. Grouped'
        BY DEF Create, GroupInv
      <3>2. QED
        BY <3>1, RanksFinite DEF Grouped, Groups
    <2>2. \A g \in Groups' : g < ngroup'[0]
      BY <2>1, SubfilesAssumption
    <2>3. QED
      BY <1>3, <2>2 DEF MadeSub
  <1>4. \A g \in Ranks : MadeSub(g)' => SubOwn(g)'
    BY <1>3, <1>7 DEF SubOwn, EmptySub
  <1>5. ASSUME MadeSub(NP - 1)' PROVE \A r \in Ranks : home'[r] = r
    <2>1. CalcNodeRank(asked) /\ NP - 1 \in Ranks /\ NP \in Nat
      BY SubfilesAssumption DEF Create, Ranks
    <2>2. ngroup'[0] = Cardinality(Leaders(asked)) /\ Cardinality(Leaders(asked)) \in 1 .. NP
      BY <2>1, CountsFill, RanksFinite DEF CalcNodeRank
    <2>3. NP - 1 < ngroup'[0]
      BY <1>5, <1>7, <2>1
    <2>4. Cardinality(Leaders(asked)) = NP
      BY <2>1, <2>2, <2>3
    <2>5. \A r \in Ranks : gid'[r] = GroupId(r, asked)
      BY <2>1 DEF CalcNodeRank
    <2>6. QED
      BY <1>2, <2>4, <2>5, OwnNumbers
  <1>6. QED
    BY <1>1, <1>2, <1>4, <1>5 DEF OwnInv

LEMMA OpenOwn == ASSUME TypeInv, RestInv, OwnInv, Open, GroupInv' PROVE OwnInv'
  <1>1. sess = "none" /\ UNCHANGED <<queue, logged, sub, home>> /\ CalcNodeRank(AsNumber)
    BY DEF Open, data
  <1>2. \A r \in Ranks : queue'[r] = {} /\ logged'[r] = {}
    BY <1>1 DEF RestInv
  <1>3. \A r \in Ranks : gid'[r] = r
    <2>1. \A r \in Ranks : gid'[r] = GroupId(r, AsNumber)
      BY <1>1 DEF CalcNodeRank
    <2>2. QED
      BY <2>1, OneEach, OwnNumbers
  <1>4. ASSUME sess' # "none" PROVE \A r \in Ranks : home'[r] = gid'[r]
    <2>1. \A r \in Ranks : sub[gid'[r]] # None
      BY <1>1, <1>4 DEF Open
    <2>2. NP - 1 \in Ranks
      BY SubfilesAssumption DEF Ranks
    <2>3. sub[NP - 1] # None
      BY <1>3, <2>1, <2>2
    <2>4. QED
      BY <1>1, <1>3, <2>3 DEF OwnInv, MadeSub
  <1>5. \A g \in Ranks : MadeSub(g)' => sub[g] # None
    BY <1>1 DEF Open, MadeSub, Groups
  <1>6. \A g \in Ranks : MadeSub(g)' => MadeSub(g)
    BY <1>5 DEF MadeSub
  <1>7. NP - 1 \in Ranks
    BY SubfilesAssumption DEF Ranks
  <1>8. \A g \in Ranks : MadeSub(g)' => SubOwn(g)'
    BY <1>1, <1>6 DEF OwnInv, SubOwn
  <1>9. QED
    BY <1>1, <1>2, <1>4, <1>6, <1>7, <1>8 DEF OwnInv

\* Steps that leave the writes where they are.
LEMMA OwnMoves ==
  ASSUME TypeInv, OwnInv, UNCHANGED <<logged, gid, home, ro>>, sess' = sess \/ sess' = "none",
         \A r \in Ranks : \A w \in queue'[r] : w[1] = r,
         \A h \in Ranks : sub'[h].lds = sub[h].lds /\ sub'[h].mds = sub[h].mds,
         \A h \in Ranks : MadeSub(h)' => MadeSub(h)
  PROVE  OwnInv'
  <1>1. \A r \in Ranks : gid[r] \in Ranks
    BY DEF TypeInv, GroupInv
  <1>2. NP - 1 \in Ranks
    BY SubfilesAssumption DEF Ranks
  <1>3. \A h \in Ranks : SubOwn(h) => SubOwn(h)'
    BY DEF SubOwn
  <1>4. \A r \in Ranks : \A w \in queue'[r] : w[1] = r
    OBVIOUS
  <1>5. sess' # "none" => \A r \in Ranks : \A x \in logged'[r] :
            /\ x.sub = gid'[r] /\ x.ld \in 1 .. Len(sub'[gid'[r]].lds)
            /\ x.w \in sub'[gid'[r]].lds[x.ld]
    BY <1>1 DEF OwnInv
  <1>6. sess' # "none" /\ ~ro' => \A r \in Ranks : home'[r] = gid'[r]
    BY DEF OwnInv
  <1>7. \A h \in Ranks : MadeSub(h)' => SubOwn(h)'
    BY <1>3 DEF OwnInv
  <1>8. MadeSub(NP - 1)' => \A r \in Ranks : home'[r] = r
    BY <1>2 DEF OwnInv
  <1>9. QED
    BY <1>4, <1>5, <1>6, <1>7, <1>8 DEF OwnInv

\* Within a log that grew, entries still lead to their writes.
LEMMA DataOwn == ASSUME TypeInv, PlaceInv, RestInv, OwnInv, NEW g \in Ranks, Data(g) PROVE OwnInv'
  <1>1. /\ sess # "none" /\ g \in Groups /\ pc[g] = "data" /\ at[g] \in Ranks
        /\ UNCHANGED <<gid, home, ro, sess>>
    BY DataEffect DEF fixed, grouping
  <1>2. at[g] = g
    BY <1>1 DEF PlaceInv, PlaceOK
  <1>3. CASE DataKept(g)
    <2>1. UNCHANGED <<queue, logged, sub>>
      BY <1>3 DEF DataKept
    <2>2. \A h \in Ranks : MadeSub(h)' => MadeSub(h)
      BY <1>1, <2>1 DEF MadeSub, Groups
    <2>3. QED
      BY <1>1, <2>1, <2>2, OwnMoves DEF OwnInv
  <1>4. CASE DataTaken(g)
    <2> DEFINE n == Len(sub[g].lds)
    <2>1. /\ Len(sub'[g].lds) = n + 1 /\ n \in Nat /\ sub'[g].lds[n + 1] = Waiting(g)
          /\ \A i \in 1 .. n : sub'[g].lds[i] = sub[g].lds[i]
      BY <1>2, <1>4, DataGrows
    <2>2. /\ sub'[g].mds = sub[g].mds /\ \A h \in Ranks : h # g => sub'[h] = sub[h]
          /\ nld[g] = n
      BY <1>2, <1>4 DEF DataTaken
    <2>3. ~ro
      BY <1>1, <1>4 DEF DataTaken, RestInv, Waiting, In
    <2> HIDE DEF n
    <2>4. \A r \in Ranks : \A w \in queue'[r] : w[1] = r
      BY <1>4 DEF DataTaken, OwnInv
    <2>5. ASSUME NEW r \in Ranks, NEW x \in logged'[r]
          PROVE  /\ x.sub = gid[r] /\ x.ld \in 1 .. Len(sub'[gid[r]].lds)
                 /\ x.w \in sub'[gid[r]].lds[x.ld]
      <3>1. gid[r] \in Ranks
        BY DEF TypeInv, GroupInv
      <3>2. CASE x \in logged[r]
        <4>1. /\ x.sub = gid[r] /\ x.ld \in 1 .. Len(sub[gid[r]].lds)
              /\ x.w \in sub[gid[r]].lds[x.ld]
          BY <1>1, <3>2 DEF OwnInv
        <4>2. CASE gid[r] = g
          <5>1. x.ld \in 1 .. n /\ x.w \in sub[g].lds[x.ld]
            BY <4>1, <4>2 DEF n
          <5>2. x.ld \in 1 .. n + 1 /\ x.w \in sub'[g].lds[x.ld]
            BY <2>1, <5>1
          <5>3. QED
            BY <2>1, <4>1, <4>2, <5>2
        <4>3. CASE gid[r] # g
          BY <2>2, <3>1, <4>1, <4>3
        <4>4. QED
          BY <4>2, <4>3
      <3>3. CASE x \notin logged[r]
        <4>1. r \in In(g) /\ x \in {[w |-> w, sub |-> at[g], ld |-> nld[g] + 1] : w \in queue[r]}
          BY <1>4, <2>5, <3>3 DEF DataTaken
        <4>2. PICK w \in queue[r] : x = [w |-> w, sub |-> g, ld |-> n + 1]
          BY <1>2, <2>2, <4>1
        <4>3. gid[r] = g /\ w \in Waiting(g)
          BY <4>1, <4>2 DEF In, Waiting
        <4>4. x.sub = g /\ x.ld = n + 1 /\ x.w = w
          BY <4>2
        <4>5. QED
          BY <2>1, <4>3, <4>4
      <3>4. QED
        BY <3>2, <3>3
    <2>6. \A w \in Waiting(g) : home[w[1]] = g
      <3>1. ASSUME NEW r \in In(g), NEW w \in queue[r] PROVE home[w[1]] = g
        BY <1>1, <2>3 DEF In, OwnInv
      <3>2. QED
        BY <3>1 DEF Waiting
    <2>7. SubOwn(g)
      BY <1>1 DEF OwnInv, MadeSub
    <2>8. SubOwn(g)'
      <3>1. ASSUME NEW i \in 1 .. Len(sub'[g].lds), NEW w \in sub'[g].lds[i] PROVE home[w[1]] = g
        <4>1. i \in 1 .. n \/ i = n + 1
          BY <2>1, <3>1
        <4>2. CASE i = n + 1
          BY <2>1, <2>6, <3>1, <4>2
        <4>3. CASE i \in 1 .. n
          BY <2>1, <2>7, <3>1, <4>3 DEF SubOwn, n
        <4>4. QED
          BY <4>1, <4>2, <4>3
      <3>2. ASSUME NEW i \in 1 .. Len(sub[g].mds), NEW x \in sub[g].mds[i]
            PROVE  x.sub = g /\ x.ld \in 1 .. Len(sub'[g].lds) /\ x.w \in sub'[g].lds[x.ld]
        <4>1. x.sub = g /\ x.ld \in 1 .. n /\ x.w \in sub[g].lds[x.ld]
          BY <2>7, <3>2 DEF SubOwn, n
        <4>2. x.ld \in 1 .. n + 1 /\ x.w \in sub'[g].lds[x.ld]
          BY <2>1, <4>1
        <4>3. QED
          BY <2>1, <4>1, <4>2
      <3>3. QED
        BY <1>1, <2>2, <3>1, <3>2 DEF SubOwn
    <2>9. \A h \in Ranks : MadeSub(h)' => MadeSub(h)
      BY <1>1, <2>2 DEF MadeSub, Groups
    <2>10. \A h \in Ranks : h # g /\ SubOwn(h) => SubOwn(h)'
      BY <1>1, <2>2 DEF SubOwn
    <2>11. \A h \in Ranks : MadeSub(h)' => SubOwn(h)'
      BY <2>8, <2>9, <2>10 DEF OwnInv
    <2>12. NP - 1 \in Ranks
      BY SubfilesAssumption DEF Ranks
    <2>13. MadeSub(NP - 1)' => \A r \in Ranks : home'[r] = r
      BY <1>1, <2>9, <2>12 DEF OwnInv
    <2>14. QED
      BY <1>1, <2>4, <2>5, <2>11, <2>13 DEF OwnInv
  <1>5. QED
    BY <1>3, <1>4, DataEffect

\* Metadata is written to the subfile that has the log.
LEMMA MetaOwn == ASSUME TypeInv, PlaceInv, OwnInv, NEW g \in Ranks, Metaflush(g) PROVE OwnInv'
  <1>1. /\ sess # "none" /\ g \in Groups /\ pc[g] = "meta" /\ at[g] \in Ranks
        /\ UNCHANGED <<gid, home, ro, sess, queue>>
        /\ logged' = [r \in Ranks |-> IF r \in In(g) THEN {} ELSE logged[r]]
    BY MetaEffect DEF fixed, grouping
  <1>2. at[g] = g
    BY <1>1 DEF PlaceInv, PlaceOK
  <1>3. \A r \in Ranks : logged'[r] \subseteq logged[r]
    BY <1>1
  <1>4. \A h \in Ranks : sub'[h].lds = sub[h].lds /\ (h # g => sub'[h] = sub[h])
    BY <1>2, MetaEffect DEF MetaKept, MetaTaken
  <1>5. \A h \in Ranks : MadeSub(h)' => MadeSub(h)
    BY <1>1, <1>4 DEF MadeSub, Groups
  <1>6. SubOwn(g)
    BY <1>1 DEF OwnInv, MadeSub
  <1>7. SubOwn(g)'
    <2>1. CASE MetaKept(g)
      BY <1>1, <1>6, <2>1 DEF MetaKept, SubOwn
    <2>2. CASE MetaTaken(g)
      <3> DEFINE n == Len(sub[g].mds)
      <3>1. /\ Len(sub'[g].mds) = n + 1 /\ n \in Nat /\ sub'[g].mds[n + 1] = Unindexed(g)
            /\ \A i \in 1 .. n : sub'[g].mds[i] = sub[g].mds[i]
        BY <1>2, <2>2, MetaGrows
      <3> HIDE DEF n
      <3>2. ASSUME NEW x \in Unindexed(g)
            PROVE  x.sub = g /\ x.ld \in 1 .. Len(sub[g].lds) /\ x.w \in sub[g].lds[x.ld]
        <4>1. PICK r \in In(g) : x \in logged[r]
          BY DEF Unindexed
        <4>2. QED
          BY <1>1, <4>1 DEF In, OwnInv
      <3>3. ASSUME NEW i \in 1 .. Len(sub'[g].mds), NEW x \in sub'[g].mds[i]
            PROVE  x.sub = g /\ x.ld \in 1 .. Len(sub[g].lds) /\ x.w \in sub[g].lds[x.ld]
        <4>1. i \in 1 .. n \/ i = n + 1
          BY <3>1, <3>3
        <4>2. CASE i = n + 1
          BY <3>1, <3>2, <3>3, <4>2
        <4>3. CASE i \in 1 .. n
          BY <1>6, <3>1, <3>3, <4>3 DEF SubOwn, n
        <4>4. QED
          BY <4>1, <4>2, <4>3
      <3>4. QED
        BY <1>1, <1>4, <1>6, <3>3 DEF SubOwn
    <2>3. QED
      BY <2>1, <2>2, MetaEffect
  <1>8. \A h \in Ranks : h # g /\ SubOwn(h) => SubOwn(h)'
    BY <1>1, <1>4 DEF SubOwn
  <1>9. \A h \in Ranks : MadeSub(h)' => SubOwn(h)'
    BY <1>5, <1>7, <1>8 DEF OwnInv
  <1>10. NP - 1 \in Ranks
    BY SubfilesAssumption DEF Ranks
  <1>11. MadeSub(NP - 1)' => \A r \in Ranks : home'[r] = r
    BY <1>1, <1>5, <1>10 DEF OwnInv
  <1>12. \A r \in Ranks : \A w \in queue'[r] : w[1] = r
    BY <1>1 DEF OwnInv
  <1>13. ASSUME NEW r \in Ranks, NEW x \in logged'[r]
         PROVE  /\ x.sub = gid[r] /\ x.ld \in 1 .. Len(sub'[gid[r]].lds)
                /\ x.w \in sub'[gid[r]].lds[x.ld]
    <2>1. x \in logged[r] /\ gid[r] \in Ranks
      BY <1>3, <1>13 DEF TypeInv, GroupInv
    <2>2. QED
      BY <1>1, <1>4, <2>1 DEF OwnInv
  <1>14. QED
    BY <1>1, <1>9, <1>11, <1>12, <1>13 DEF OwnInv

LEMMA OwnStep == ASSUME TypeInv, PlaceInv, RestInv, OwnInv, [Next]_vars, GroupInv' PROVE OwnInv'
  <1>1. CASE Create \/ Open
    BY <1>1, CreateOwn, OpenOwn
  <1>2. ASSUME NEW r \in Ranks, Write(r) PROVE OwnInv'
    <2>1. /\ UNCHANGED <<logged, gid, home, ro, sess, sub>>
          /\ queue' = [queue EXCEPT ![r] = @ \cup {<<r, nwrites + 1>>}]
      BY <1>2 DEF Write, fixed, grouping
    <2>2. \A q \in Ranks : \A w \in queue'[q] : w[1] = q
      BY <2>1 DEF OwnInv, TypeInv, DataTypes
    <2>3. \A h \in Ranks : MadeSub(h)' => MadeSub(h)
      BY <2>1 DEF MadeSub, Groups
    <2>4. QED
      BY <2>1, <2>2, <2>3, OwnMoves
  <1>3. ASSUME NEW g \in Ranks, PutAtt(g) PROVE OwnInv'
    <2>1. UNCHANGED <<queue, logged, gid, home, ro, sess>>
      BY <1>3, PutAttEffect DEF grouping
    <2>2. \A h \in Ranks : MadeSub(h)' => MadeSub(h)
      BY <1>3, <2>1, PutAttEffect DEF MadeSub, Groups
    <2>3. \A h \in Ranks : sub'[h].lds = sub[h].lds /\ sub'[h].mds = sub[h].mds
      BY <1>3, PutAttEffect
    <2>4. QED
      BY <2>1, <2>2, <2>3, OwnMoves DEF OwnInv
  <1>4. CASE UNCHANGED <<queue, logged, gid, home, ro, sub>> /\ (sess' = sess \/ sess' = "none")
    <2>1. \A h \in Ranks : MadeSub(h)' => MadeSub(h)
      BY <1>4 DEF MadeSub, Groups
    <2>2. QED
      BY <1>4, <2>1, OwnMoves DEF OwnInv
  <1>5. UNCHANGED vars \/ End \/ Sizes \/ Barrier
          \/ (\E g \in Ranks : Enter(g) \/ Search(g) \/ SwitchSubfile(g) \/ SwitchEnd(g))
        => UNCHANGED <<queue, logged, gid, home, ro, sub>> /\ (sess' = sess \/ sess' = "none")
    BY DEF vars, End, Sizes, Barrier, Enter, Search, SwitchSubfile, SwitchEnd, fixed, grouping, data
  <1>6. QED
    BY <1>1, <1>2, <1>3, <1>4, <1>5, DataOwn, MetaOwn DEF Next, Step

LEMMA PlacesInit == ASSUME Init PROVE PlaceInv /\ CallInv /\ RestInv
  BY DEF Init, PlaceInv, CallInv, RestInv

LEMMA Placed == Spec => [](TypeInv /\ PlaceInv /\ CallInv /\ RestInv /\ OwnInv)
  <1>1. Init => TypeInv /\ PlaceInv /\ CallInv /\ RestInv /\ OwnInv
    BY TypeInit, PlacesInit, OwnInit
  <1>2. TypeInv /\ PlaceInv /\ CallInv /\ RestInv /\ OwnInv /\ [Next]_vars
          => (TypeInv /\ PlaceInv /\ CallInv /\ RestInv /\ OwnInv)'
    BY TypeStep, PlaceStep, CallStep, RestStep, OwnStep DEF TypeInv
  <1>3. QED
    BY <1>1, <1>2, PTL DEF Spec

\* What is in a subfile was written by its group, and its metadata leads to a
\* log dataset of the same subfile that has the write, whichever subfiles the
\* groups open in between to read, and also when the groups were formed anew
\* (fp->sfp, fp->group_id after flush_read_reqs).
THEOREM SubfilesApart == Spec => []OwnSubfile
  <1>1. OwnInv => OwnSubfile
    BY DEF OwnInv, OwnSubfile, SubOwn, MadeSub
  <1>2. QED
    BY <1>1, Placed, PTL
-----------------------------------------------------------------------------
(* Counts and contents of a subfile in the session that creates it.        *)

AllOf(s) == UNION {s[i] : i \in 1 .. Len(s)}
Logs(g) == AllOf(sub[g].lds)
Metas(g) == AllOf(sub[g].mds)

CountOK(g) == nld[g] = Len(sub[g].lds) /\ nmd[g] = Len(sub[g].mds)

\* What is logged in the subfile is indexed there, or waits to be.
FoundOK(g) == Logs(g) = {x.w : x \in Metas(g) \cup Unindexed(g)}
FoundInv ==
    sess = "new" => \A g \in Groups : FoundOK(g) /\ (single => CountOK(g))

\* A sequence with one more element.
LEMMA UnionGrows ==
  ASSUME NEW s, NEW t, Len(s) \in Nat, Len(t) = Len(s) + 1, \A i \in 1 .. Len(s) : t[i] = s[i]
  PROVE  AllOf(t) = AllOf(s) \cup t[Len(s) + 1]
  <1> DEFINE n == Len(s)
             W == t[n + 1]
  <1>0. n \in Nat /\ Len(t) = n + 1 /\ \A i \in 1 .. n : t[i] = s[i]
    OBVIOUS
  <1>1. \A x : x \in AllOf(t) <=> \E i \in 1 .. n + 1 : x \in t[i]
    BY DEF AllOf
  <1>2. \A x : x \in AllOf(s) <=> \E i \in 1 .. n : x \in s[i]
    BY DEF AllOf
  <1>3. \A i : i \in 1 .. n + 1 <=> i \in 1 .. n \/ i = n + 1
    <2> HIDE DEF n
    <2>1. QED
      BY <1>0
  <1>4. \A x : (\E i \in 1 .. n + 1 : x \in t[i]) <=> (\E i \in 1 .. n : x \in s[i]) \/ x \in W
    <2> HIDE DEF n
    <2>1. QED
      BY <1>0, <1>3 DEF W
  <1>5. \A x : x \in AllOf(t) <=> x \in AllOf(s) \/ x \in W
    BY <1>1, <1>2, <1>4
  <1>6. QED
    BY <1>5

LEMMA CreateFound == ASSUME TypeInv, RestInv, Create, GroupInv' PROVE \A g \in Groups' : FoundOK(g)' /\ CountOK(g)'
  <1>1. Grouped'
    BY DEF Create, GroupInv
  <1>2. Groups' = 0 .. ngroup'[0] - 1 /\ ngroup'[0] \in 1 .. NP /\ Groups' \subseteq Ranks
    BY <1>1, RanksFinite DEF Grouped, Groups
  <1>3. \A g \in Groups' : g < ngroup'[0]
    BY <1>2, SubfilesAssumption
  <1>4. \A g \in Groups' : sub'[g] = EmptySub /\ nld'[g] = 0 /\ nmd'[g] = 0
    BY <1>2, <1>3 DEF Create, Started, MainCounts
  <1>5. \A r \in Ranks : logged'[r] = {}
    BY DEF Create, RestInv
  <1>6. \A g : Unindexed(g)' = {}
    BY <1>5 DEF Unindexed, In
  <1>7. EmptySub.lds = <<>> /\ EmptySub.mds = <<>> /\ Len(<<>>) = 0
    BY DEF EmptySub
  <1>8. \A g \in Groups' : CountOK(g)'
    BY <1>4, <1>7 DEF CountOK
  <1>9. \A g \in Groups' : Logs(g)' = {} /\ Metas(g)' = {}
    BY <1>4, <1>7 DEF Logs, Metas, AllOf
  <1>10. \A g \in Groups' : FoundOK(g)'
    BY <1>6, <1>9 DEF FoundOK
  <1>11. QED
    BY <1>8, <1>10

\* A group counts what it makes, until it looks at another subfile.
LEMMA CountKept ==
  ASSUME TypeInv, PlaceInv, [Next]_vars, ~ Create, ~ Open, sess # "none",
         NEW g \in Groups, ~ SwitchSubfile(g), CountOK(g)
  PROVE  CountOK(g)'
  <1>1. Groups \subseteq Ranks
    BY GroupNumbers DEF TypeInv
  <1>2. ASSUME NEW h \in Ranks, Data(h) PROVE CountOK(g)'
    <2>1. h \in Groups /\ at[h] = h /\ nmd' = nmd
      BY <1>2, DataEffect DEF PlaceInv, PlaceOK
    <2>2. CASE DataKept(h)
      BY <2>1, <2>2 DEF DataKept, CountOK
    <2>3. CASE DataTaken(h)
      <3>1. CASE h = g
        BY <1>1, <1>2, <2>1, <2>3, <3>1, DataGrows DEF DataTaken, CountOK, TypeInv, ControlTypes
      <3>2. CASE h # g
        BY <1>1, <2>1, <2>3, <3>2 DEF DataTaken, CountOK, TypeInv, ControlTypes
      <3>3. QED
        BY <3>1, <3>2
    <2>4. QED
      BY <1>2, <2>2, <2>3, DataEffect
  <1>3. ASSUME NEW h \in Ranks, Metaflush(h) PROVE CountOK(g)'
    <2>1. h \in Groups /\ at[h] = h /\ nld' = nld
      BY <1>3, MetaEffect DEF PlaceInv, PlaceOK
    <2>2. CASE MetaKept(h)
      BY <2>1, <2>2 DEF MetaKept, CountOK
    <2>3. CASE MetaTaken(h)
      <3>1. CASE h = g
        BY <1>1, <1>3, <2>1, <2>3, <3>1, MetaGrows DEF MetaTaken, CountOK, TypeInv, ControlTypes
      <3>2. CASE h # g
        BY <1>1, <2>1, <2>3, <3>2 DEF MetaTaken, CountOK, TypeInv, ControlTypes
      <3>3. QED
        BY <3>1, <3>2
    <2>4. QED
      BY <1>3, <2>2, <2>3, MetaEffect
  <1>4. ASSUME NEW h \in Ranks, PutAtt(h) PROVE CountOK(g)'
    <2>1. UNCHANGED <<nld, nmd>>
      BY <1>4, PutAttEffect DEF session
    <2>2. QED
      BY <1>1, <1>4, <2>1, PutAttEffect DEF CountOK
  <1>5. ASSUME NEW h \in Ranks, SwitchSubfile(h) PROVE CountOK(g)'
    <2>1. h # g /\ UNCHANGED sub /\ nld' = [nld EXCEPT ![h] = 0] /\ nmd' = [nmd EXCEPT ![h] = 0]
      BY <1>5 DEF SwitchSubfile, MainCounts, data
    <2>2. QED
      BY <1>1, <2>1 DEF CountOK, TypeInv, ControlTypes
  <1>6. CASE UNCHANGED <<sub, nld, nmd>>
    BY <1>6 DEF CountOK
  <1>7. UNCHANGED vars \/ End \/ Sizes \/ Barrier \/ (\E r \in Ranks : Write(r))
          \/ (\E h \in Ranks : Enter(h) \/ Search(h) \/ SwitchEnd(h))
        => UNCHANGED <<sub, nld, nmd>>
    BY DEF vars, End, Sizes, Barrier, Write, Enter, Search, SwitchEnd, session, data
  <1>8. QED
    BY <1>2, <1>3, <1>4, <1>5, <1>6, <1>7 DEF Next, Step

LEMMA FoundKept ==
  ASSUME TypeInv, PlaceInv, RestInv, [Next]_vars, ~ Create, ~ Open, sess # "none",
         NEW g \in Groups, FoundOK(g)
  PROVE  FoundOK(g)'
  <1>1. Groups \subseteq Ranks /\ g \in Ranks
    BY GroupNumbers DEF TypeInv
  <1>2. ASSUME NEW h \in Ranks, Data(h) PROVE FoundOK(g)'
    <2>1. h \in Groups /\ at[h] = h /\ UNCHANGED gid
      BY <1>2, DataEffect DEF PlaceInv, PlaceOK, grouping
    <2>2. CASE DataKept(h)
      <3>1. UNCHANGED <<sub, logged, gid>>
        BY <2>1, <2>2 DEF DataKept
      <3>2. QED
        BY <3>1 DEF FoundOK, Logs, Metas, Unindexed, In
    <2>3. CASE DataTaken(h) /\ h # g
      <3>1. In(g)' = In(g) /\ \A r \in In(g) : logged'[r] = logged[r]
        BY <2>1, <2>3 DEF DataTaken, In
      <3>2. Unindexed(g)' = Unindexed(g)
        BY <3>1 DEF Unindexed
      <3>3. sub'[g] = sub[g]
        BY <1>1, <2>1, <2>3 DEF DataTaken
      <3>4. QED
        BY <3>2, <3>3 DEF FoundOK, Logs, Metas
    <2>4. CASE DataTaken(h) /\ h = g
      <3> DEFINE n == Len(sub[g].lds)
                 E == UNION {{[w |-> w, sub |-> g, ld |-> nld[g] + 1] : w \in queue[r]} : r \in In(g)}
      <3>1. /\ Len(sub'[g].lds) = n + 1 /\ n \in Nat /\ sub'[g].lds[n + 1] = Waiting(g)
            /\ \A i \in 1 .. n : sub'[g].lds[i] = sub[g].lds[i]
        BY <1>1, <1>2, <2>1, <2>4, DataGrows
      <3>2. Logs(g)' = Logs(g) \cup Waiting(g)
        <4> DEFINE s == sub[g].lds
                   t == sub'[g].lds
        <4>1. /\ Len(s) \in Nat /\ Len(t) = Len(s) + 1 /\ t[Len(s) + 1] = Waiting(g)
              /\ \A i \in 1 .. Len(s) : t[i] = s[i]
          BY <3>1
        <4> HIDE DEF s, t
        <4>2. AllOf(t) = AllOf(s) \cup Waiting(g)
          BY <4>1, UnionGrows
        <4>3. QED
          BY <4>2 DEF Logs, s, t
      <3>3. Metas(g)' = Metas(g)
        BY <2>1, <2>4 DEF DataTaken, Metas
      <3>4. Unindexed(g)' = Unindexed(g) \cup E
        <4>1. In(g)' = In(g)
          BY <2>1 DEF In
        <4>2. \A r \in In(g) : logged'[r] = logged[r] \cup {[w |-> w, sub |-> g, ld |-> nld[g] + 1] : w \in queue[r]}
          BY <2>1, <2>4 DEF DataTaken, In
        <4>3. QED
          BY <4>1, <4>2 DEF Unindexed
      <3>5. {x.w : x \in E} = Waiting(g)
        <4>1. \A x \in E : \E r \in In(g) : x.w \in queue[r]
          OBVIOUS
        <4>2. ASSUME NEW r \in In(g), NEW w \in queue[r] PROVE \E x \in E : x.w = w
          <5>1. [w |-> w, sub |-> g, ld |-> nld[g] + 1] \in E
            OBVIOUS
          <5>2. QED
            BY <5>1
        <4> HIDE DEF E
        <4>3. QED
          BY <4>1, <4>2 DEF Waiting
      <3> HIDE DEF E
      <3>6. QED
        BY <3>2, <3>3, <3>4, <3>5 DEF FoundOK
    <2>5. QED
      BY <1>2, <2>2, <2>3, <2>4, DataEffect
  <1>3. ASSUME NEW h \in Ranks, Metaflush(h) PROVE FoundOK(g)'
    <2>1. h \in Groups /\ at[h] = h /\ UNCHANGED gid
          /\ logged' = [r \in Ranks |-> IF r \in In(h) THEN {} ELSE logged[r]]
      BY <1>3, MetaEffect DEF PlaceInv, PlaceOK, grouping
    <2>2. In(g)' = In(g)
      BY <2>1 DEF In
    <2>3. CASE h # g
      <3>1. \A r \in In(g) : logged'[r] = logged[r]
        BY <2>1, <2>3 DEF In
      <3>2. Unindexed(g)' = Unindexed(g)
        BY <2>2, <3>1 DEF Unindexed
      <3>3. sub'[g] = sub[g]
        BY <1>1, <1>3, <2>1, <2>3, MetaEffect DEF MetaKept, MetaTaken
      <3>4. QED
        BY <3>2, <3>3 DEF FoundOK, Logs, Metas
    <2>4. CASE h = g
      <3>1. Unindexed(g)' = {}
        BY <2>1, <2>2, <2>4 DEF Unindexed, In
      <3>2. Logs(g)' = Logs(g)
        BY <1>3, <2>1, <2>4, MetaEffect DEF MetaKept, MetaTaken, Logs
      <3>3. CASE MetaKept(g)
        <4>1. Metas(g)' = Metas(g) /\ Unindexed(g) = {}
          BY <3>3 DEF MetaKept, Metas
        <4>2. QED
          BY <3>1, <3>2, <4>1 DEF FoundOK
      <3>4. CASE MetaTaken(g)
        <4> DEFINE n == Len(sub[g].mds)
        <4>1. /\ Len(sub'[g].mds) = n + 1 /\ n \in Nat /\ sub'[g].mds[n + 1] = Unindexed(g)
              /\ \A i \in 1 .. n : sub'[g].mds[i] = sub[g].mds[i]
          BY <1>1, <1>3, <2>1, <2>4, <3>4, MetaGrows
        <4>2. Metas(g)' = Metas(g) \cup Unindexed(g)
          <5> DEFINE s == sub[g].mds
                     t == sub'[g].mds
          <5>1. /\ Len(s) \in Nat /\ Len(t) = Len(s) + 1 /\ t[Len(s) + 1] = Unindexed(g)
                /\ \A i \in 1 .. Len(s) : t[i] = s[i]
            BY <4>1
          <5> HIDE DEF s, t
          <5>2. AllOf(t) = AllOf(s) \cup Unindexed(g)
            BY <5>1, UnionGrows
          <5>3. QED
            BY <5>2 DEF Metas, s, t
        <4>3. QED
          BY <3>1, <3>2, <4>2 DEF FoundOK
      <3>5. QED
        BY <1>3, <2>4, <3>3, <3>4, MetaEffect
    <2>5. QED
      BY <2>3, <2>4
  <1>4. ASSUME NEW h \in Ranks, PutAtt(h) PROVE FoundOK(g)'
    <2>1. UNCHANGED <<gid, logged>>
      BY <1>4, PutAttEffect DEF grouping
    <2>2. sub'[g].lds = sub[g].lds /\ sub'[g].mds = sub[g].mds
      BY <1>1, <1>4, PutAttEffect
    <2>3. QED
      BY <2>1, <2>2 DEF FoundOK, Logs, Metas, Unindexed, In
  <1>5. CASE UNCHANGED <<sub, logged, gid>>
    BY <1>5 DEF FoundOK, Logs, Metas, Unindexed, In
  <1>6. UNCHANGED vars \/ End \/ Sizes \/ Barrier \/ (\E r \in Ranks : Write(r))
          \/ (\E h \in Ranks : Enter(h) \/ Search(h) \/ SwitchSubfile(h) \/ SwitchEnd(h))
        => UNCHANGED <<sub, logged, gid>>
    BY DEF vars, End, Sizes, Barrier, Write, Enter, Search, SwitchSubfile, SwitchEnd, grouping, data
  <1>7. QED
    BY <1>2, <1>3, <1>4, <1>5, <1>6 DEF Next, Step

LEMMA FoundStep ==
  ASSUME TypeInv, PlaceInv, CallInv, RestInv, FoundInv, [Next]_vars, GroupInv'
  PROVE  FoundInv'
  <1>1. CASE Create
    BY <1>1, CreateFound DEF FoundInv
  <1>2. CASE Open
    <2>1. sess' # "new"
      BY <1>2 DEF Open
    <2>2. QED
      BY <2>1 DEF FoundInv
  <1>3. ASSUME ~ Create, ~ Open, sess' = "new" PROVE \A g \in Groups' : FoundOK(g)' /\ (single' => CountOK(g)')
    <2>1. UNCHANGED <<sess, gid, single>>
      BY <1>3 DEF Next, End, Sizes, Barrier, Write, Enter, Step, Data, Metaflush, Search, SwitchSubfile, SwitchEnd,
                  PutAtt, vars, fixed, grouping
    <2>2. Groups' = Groups /\ Groups \subseteq Ranks
      BY <1>3, <2>1, GroupNumbers DEF Groups, TypeInv
    <2>3. ASSUME NEW g \in Groups PROVE FoundOK(g)' /\ (single => CountOK(g)')
      <3>1. FoundOK(g) /\ (single => CountOK(g)) /\ CallOK(g) /\ sess # "none"
        BY <1>3, <2>1 DEF FoundInv, CallInv
      <3>2. FoundOK(g)'
        BY <1>3, <3>1, FoundKept
      <3>3. single => ~ SwitchSubfile(g)
        BY <3>1 DEF CallOK, SwitchSubfile
      <3>4. QED
        BY <1>3, <3>1, <3>2, <3>3, CountKept
    <2>4. QED
      BY <2>1, <2>2, <2>3
  <1>4. QED
    BY <1>1, <1>2, <1>3 DEF FoundInv

ReadOK == \A g \in Ranks : sess = "new" /\ pc[g] = "search" /\ pc'[g] = "idle" =>
              got'[g] = UNION {sub[g].lds[i] : i \in 1 .. Len(sub[g].lds)}

\* A group that comes out of a single-subfile read has searched.
LEMMA SearchFinds ==
  ASSUME TypeInv, PlaceInv, CallInv, RestInv, FoundInv, [Next]_vars
  PROVE  ReadOK
  <1> SUFFICES ASSUME NEW g \in Ranks, sess = "new", pc[g] = "search", pc'[g] = "idle"
               PROVE  got'[g] = UNION {sub[g].lds[i] : i \in 1 .. Len(sub[g].lds)}
    BY DEF ReadOK
  <1>1. Search(g)
    <2>1. ~ Create /\ ~ Open /\ ~ UNCHANGED vars /\ ~ End /\ ~ \E r \in Ranks : Write(r)
      BY DEF Create, Open, End, Write, vars
    <2>2. ~ Sizes /\ ~ Barrier
      BY DEF Sizes, Barrier, AfterMeta, Everyone
    <2>3. ASSUME NEW h \in Ranks, h # g PROVE ~ Enter(h) /\ ~ Step(h)
      <3>1. ~ \E l \in Places : pc' = [pc EXCEPT ![h] = l]
        BY <2>3 DEF TypeInv, ControlTypes
      <3>2. ~ Enter(h)
        <4>1. \A c \in {"flush", "read", "close"} : Entry(h, c) \in Places
          BY DEF Entry, Places, TypeInv, ControlTypes
        <4>2. QED
          BY <3>1, <4>1, EnterEffect
      <3>3. ~ Data(h) /\ ~ Metaflush(h)
        <4>1. After(h) \in Places /\ AfterMeta(h) \in Places /\ "failed" \in Places /\ "barrier" \in Places
          BY DEF After, AfterMeta, Places
        <4>2. QED
          BY <3>1, <4>1, DataEffect, MetaEffect DEF DataKept, DataTaken, MetaKept, MetaTaken
      <3>4. ~ Search(h) /\ ~ SwitchSubfile(h) /\ ~ SwitchEnd(h) /\ ~ PutAtt(h)
        BY <3>1 DEF Search, SwitchSubfile, SwitchEnd, PutAtt, Goto, Places
      <3>5. QED
        BY <3>2, <3>3, <3>4 DEF Step
    <2>4. ~ Enter(g) /\ ~ Data(g) /\ ~ Metaflush(g) /\ ~ SwitchSubfile(g) /\ ~ SwitchEnd(g) /\ ~ PutAtt(g)
      BY DEF Enter, Data, Metaflush, SwitchSubfile, SwitchEnd, PutAtt
    <2>5. QED
      BY <2>1, <2>2, <2>3, <2>4 DEF Next, Step
  <1>2. g \in Groups /\ at[g] = g /\ got' = [got EXCEPT ![g] = {x.w : x \in UNION {sub[at[g]].mds[i] : i \in 1 .. nmd[g]}}]
    BY <1>1 DEF Search, PlaceInv, PlaceOK
  <1>3. single /\ CountOK(g) /\ FoundOK(g) /\ Unindexed(g) = {}
    BY <1>2 DEF CallInv, CallOK, FoundInv, RestInv, RestOK
  <1>4. got'[g] = {x.w : x \in UNION {sub[g].mds[i] : i \in 1 .. Len(sub[g].mds)}}
    BY <1>2, <1>3 DEF CountOK, TypeInv, DataTypes
  <1>5. Logs(g) = {x.w : x \in Metas(g)}
    BY <1>3 DEF FoundOK
  <1>6. got'[g] = Logs(g)
    BY <1>4, <1>5 DEF Metas, AllOf
  <1>7. UNION {sub[g].lds[i] : i \in 1 .. Len(sub[g].lds)} = Logs(g)
    BY DEF Logs, AllOf
  <1>8. QED
    BY <1>6, <1>7

\* A single-subfile read finds everything the group has flushed, in the session
\* that wrote it (idx_search after metaflush).
THEOREM ReadsFindOwn == Spec => ReadFindsOwn
  <1>1. Spec => [](TypeInv /\ PlaceInv /\ CallInv /\ RestInv /\ FoundInv)
    <2>1. Init => FoundInv
      BY DEF Init, FoundInv
    <2>2. TypeInv /\ PlaceInv /\ CallInv /\ RestInv /\ FoundInv /\ [Next]_vars => FoundInv'
      BY FoundStep, GroupStep DEF TypeInv
    <2>3. QED
      BY <2>1, <2>2, Placed, PTL DEF Spec
  <1>2. TypeInv /\ PlaceInv /\ CallInv /\ RestInv /\ FoundInv /\ [Next]_vars => [ReadOK]_vars
    BY SearchFinds
  <1>3. Spec => [][ReadOK]_vars
    BY <1>1, <1>2, PTL DEF Spec
  <1>4. QED
    BY <1>3, PTL DEF ReadFindsOwn, ReadOK
-----------------------------------------------------------------------------
(* Counts in the attribute.                                                *)

AttTrue(g) == sub[g].att = <<Len(sub[g].lds), Len(sub[g].mds)>>
OnlyReads(g) == \A i \in 1 .. ip[g] : calls[i] = "read"

\* When all subfiles are read one after another, the counters are those of the
\* main file, which has no log; that is harmless before the first flush.
CountInv ==
    /\ sess = "old" => ro
    /\ sess # "new" => \A g \in Ranks : sub[g] # None => AttTrue(g)
    /\ sess = "new" =>
         /\ ~ro
         /\ \A g \in Groups : CountOK(g) /\ (pc[g] = "done" => AttTrue(g))
         /\ \A g \in Ranks \ Groups : sub[g] = None
         /\ ~single => /\ \A i, j \in 1 .. Len(calls) : j < i /\ calls[i] = "read" => calls[j] = "read"
                       /\ \A g \in Groups : OnlyReads(g) => Len(sub[g].lds) = 0 /\ Len(sub[g].mds) = 0

LEMMA CreateCounts == ASSUME TypeInv, RestInv, Create, GroupInv' PROVE CountInv'
  <1>1. Grouped'
    BY DEF Create, GroupInv
  <1>2. Groups' = 0 .. ngroup'[0] - 1 /\ ngroup'[0] \in 1 .. NP /\ Groups' \subseteq Ranks
    BY <1>1, RanksFinite DEF Grouped, Groups
  <1>3. \A g \in Ranks : g \in Groups' <=> g < ngroup'[0]
    BY <1>2, SubfilesAssumption DEF Ranks
  <1>4. \A g \in Groups' : sub'[g] = EmptySub /\ pc'[g] = "idle"
    BY <1>2, <1>3 DEF Create, Started
  <1>5. \A g \in Ranks \ Groups' : sub'[g] = None
    BY <1>3 DEF Create
  <1>6. EmptySub.lds = <<>> /\ EmptySub.mds = <<>> /\ Len(<<>>) = 0
    BY DEF EmptySub
  <1>7. \A i, j \in 1 .. Len(calls') : j < i /\ calls'[i] = "read" => calls'[j] = "read"
    BY <1>6 DEF Create, Started
  <1>8. \A g \in Groups' : Len(sub'[g].lds) = 0 /\ Len(sub'[g].mds) = 0
    BY <1>4, <1>6
  <1>9. sess' = "new" /\ ro' = FALSE
    BY DEF Create
  <1>10. \A g \in Groups' : CountOK(g)'
    BY CreateFound
  <1>11. QED
    BY <1>4, <1>5, <1>7, <1>8, <1>9, <1>10 DEF CountInv

LEMMA OpenCounts == ASSUME ~Rewrites, CountInv, Open PROVE CountInv'
  <1>1. sess = "none" /\ UNCHANGED sub /\ ((sess' = "old" /\ ro' = TRUE) \/ sess' = "none")
    BY DEF Open, data
  <1>2. QED
    BY <1>1 DEF CountInv, AttTrue

\* In a session a subfile changes only by what its own group does.
LEMMA SubLocal ==
  ASSUME TypeInv, PlaceInv, [Next]_vars, ~ Create, ~ Open, NEW g \in Ranks, sub'[g] # sub[g]
  PROVE  g \in Groups /\ sess # "none" /\ (Data(g) \/ Metaflush(g) \/ PutAtt(g))
  <1>1. ASSUME NEW h \in Ranks, Data(h) \/ Metaflush(h) \/ PutAtt(h)
        PROVE  h = g /\ h \in Groups /\ sess # "none"
    <2>1. h \in Groups /\ sess # "none" /\ pc[h] \in {"data", "meta", "att"}
      BY <1>1 DEF Data, Metaflush, PutAtt
    <2>2. at[h] = h
      BY <2>1 DEF PlaceInv, PlaceOK
    <2>3. h # g => sub'[g] = sub[g]
      BY <1>1, <2>2, DataEffect, MetaEffect, PutAttEffect DEF DataKept, DataTaken, MetaKept, MetaTaken
    <2>4. QED
      BY <2>1, <2>3
  <1>2. UNCHANGED vars \/ End \/ Sizes \/ Barrier \/ (\E r \in Ranks : Write(r))
          \/ (\E h \in Ranks : Enter(h) \/ Search(h) \/ SwitchSubfile(h) \/ SwitchEnd(h))
        => UNCHANGED sub
    BY DEF vars, End, Sizes, Barrier, Write, Enter, Search, SwitchSubfile, SwitchEnd, data
  <1>3. QED
    BY <1>1, <1>2 DEF Next, Step

\* Nothing is written by who may not write.
LEMMA ReadOnlyKept ==
  ASSUME TypeInv, PlaceInv, CallInv, RestInv, [Next]_vars, ~ Create, ~ Open, ro, NEW g \in Ranks
  PROVE  sub'[g] = sub[g]
  <1> SUFFICES ASSUME sub'[g] # sub[g] PROVE FALSE
    OBVIOUS
  <1>1. g \in Groups /\ sess # "none" /\ (Data(g) \/ Metaflush(g) \/ PutAtt(g))
    BY SubLocal
  <1>2. Waiting(g) = {} /\ Unindexed(g) = {}
    BY DEF RestInv, Waiting, Unindexed, In
  <1>3. ~ PutAtt(g)
    BY <1>1 DEF PutAtt, CallInv, CallOK
  <1>4. UNCHANGED sub
    BY <1>1, <1>2, <1>3, DataEffect, MetaEffect DEF DataKept, DataTaken, MetaKept, MetaTaken
  <1>5. QED
    BY <1>4

\* The calls of a session in which all subfiles are read: reads come first.
LEMMA ReadsFirst ==
  ASSUME ~Rewrites, TypeInv, CountInv, [Next]_vars, ~ Create, ~ Open, sess = "new", ~single,
         NEW i \in 1 .. Len(calls'), NEW j \in 1 .. Len(calls'), j < i, calls'[i] = "read"
  PROVE  calls'[j] = "read"
  <1>1. calls \in Seq({"flush", "read", "close"}) /\ Len(calls) \in Nat
    BY DEF TypeInv, ControlTypes
  <1>2. CASE UNCHANGED calls
    BY <1>2 DEF CountInv
  <1>3. ASSUME NEW h \in Ranks, Enter(h), calls' # calls PROVE calls'[j] = "read"
    <2>1. PICK c \in {"flush", "read", "close"} : calls' = Append(calls, c) /\ c \in NewCalls
      BY <1>3, EnterEffect
    <2>2. /\ Len(calls') = Len(calls) + 1 /\ calls'[Len(calls) + 1] = c
          /\ \A k \in 1 .. Len(calls) : calls'[k] = calls[k]
      BY <1>1, <2>1, AppendLength
    <2>3. j \in 1 .. Len(calls)
      BY <1>1, <2>2
    <2>4. CASE i \in 1 .. Len(calls)
      BY <2>2, <2>3, <2>4 DEF CountInv
    <2>5. CASE i = Len(calls) + 1
      <3>1. c = "read" /\ c \in NewCalls
        BY <2>1, <2>2, <2>5
      <3>2. ~ro
        BY DEF CountInv
      <3>3. calls[j] # "flush" /\ calls[j] # "close"
        BY <2>3, <3>1, <3>2 DEF NewCalls, MayCall
      <3>4. calls[j] \in {"flush", "read", "close"}
        BY <1>1, <2>3
      <3>5. QED
        BY <2>2, <2>3, <3>3, <3>4
    <2>6. QED
      BY <1>1, <2>2, <2>4, <2>5
  <1>4. UNCHANGED calls \/ \E h \in Ranks : Enter(h)
    BY DEF Next, Create, Open, End, Write, Sizes, Barrier, Step, Data, Metaflush, Search, SwitchSubfile, SwitchEnd, PutAtt, vars
  <1>5. QED
    BY <1>2, <1>3, <1>4

LEMMA CountStep ==
  ASSUME ~Rewrites, TypeInv, PlaceInv, CallInv, RestInv, CountInv, [Next]_vars, GroupInv'
  PROVE  CountInv'
  <1>1. CASE Create \/ Open
    BY <1>1, CreateCounts, OpenCounts
  <1> SUFFICES ASSUME ~ Create, ~ Open PROVE CountInv'
    BY <1>1
  <1>2. UNCHANGED <<gid, single, ro>> /\ (sess' = sess \/ (sess' = "none" /\ End)) /\ (sess = "none" => UNCHANGED sub)
    BY DEF Next, End, Sizes, Barrier, Write, Enter, Step, Data, Metaflush, Search, SwitchSubfile, SwitchEnd,
           PutAtt, vars, fixed, grouping, Everyone, data
  <1>3. Groups' = Groups /\ (sess # "none" => Groups \subseteq Ranks)
    BY <1>2, GroupNumbers DEF Groups, TypeInv
  <1>4. CASE sess = "none"
    BY <1>2, <1>4 DEF CountInv, AttTrue, End, Everyone
  <1>5. CASE sess = "old"
    <2>1. \A g \in Ranks : sub'[g] = sub[g]
      BY <1>5, ReadOnlyKept DEF CountInv
    <2>2. QED
      BY <1>2, <1>5, <2>1 DEF CountInv, AttTrue
  <1>6. CASE sess = "new" /\ sess' = "none"
    <2>1. UNCHANGED sub /\ \A g \in Groups : pc[g] = "done"
      BY <1>2, <1>6 DEF End, Everyone, data
    <2>2. \A g \in Ranks : sub[g] # None => AttTrue(g)
      BY <1>6, <2>1 DEF CountInv
    <2>3. QED
      BY <1>6, <2>1, <2>2 DEF CountInv, AttTrue
  <1>7. CASE sess = "new" /\ sess' = "new"
    <2>1. ASSUME NEW g \in Groups PROVE CountOK(g)'
      <3>1. CASE SwitchSubfile(g)
        <4>1. Call(g) = "read" /\ ~single /\ ip[g] # 0
          BY <1>7, <3>1 DEF SwitchSubfile, CallInv, CallOK
        <4>2. ip[g] \in Nat /\ ip[g] <= Len(calls) /\ Len(calls) \in Nat
          BY <1>3, <1>7 DEF TypeInv, ControlTypes, Bounds
        <4>3. OnlyReads(g)
          <5>1. ASSUME NEW i \in 1 .. ip[g] PROVE calls[i] = "read"
            <6>1. i \in 1 .. Len(calls) /\ ip[g] \in 1 .. Len(calls) /\ (i = ip[g] \/ i < ip[g])
              BY <4>1, <4>2
            <6>2. QED
              BY <1>7, <4>1, <6>1 DEF CountInv, Call
          <5>2. QED
            BY <5>1 DEF OnlyReads
        <4>4. Len(sub[g].lds) = 0 /\ Len(sub[g].mds) = 0
          BY <1>7, <4>1, <4>3 DEF CountInv
        <4>5. sub' = sub /\ nld'[g] = 0 /\ nmd'[g] = 0
          BY <1>3, <1>7, <3>1 DEF SwitchSubfile, MainCounts, data, TypeInv, ControlTypes
        <4>6. QED
          BY <4>4, <4>5 DEF CountOK
      <3>2. CASE ~ SwitchSubfile(g)
        BY <1>7, <3>2, CountKept DEF CountInv
      <3>3. QED
        BY <3>1, <3>2
    <2>2. ASSUME NEW g \in Groups, pc'[g] = "done" PROVE AttTrue(g)'
      <3>1. CASE PutAtt(g)
        <4>0. g \in Ranks
          BY <1>3, <1>7
        <4>1. at[g] = g /\ UNCHANGED <<nld, nmd>>
          <5>1. UNCHANGED <<nld, nmd>> /\ pc[g] = "att"
            BY <3>1 DEF PutAtt, session
          <5>2. at[g] = g
            BY <1>7, <5>1 DEF PlaceInv, PlaceOK
          <5>3. QED
            BY <5>1, <5>2
        <4>2. sub'[g].att = <<nld[g], nmd[g]>>
          BY <3>1, <4>0, <4>1, PutAttEffect
        <4>3. CountOK(g)'
          BY <2>1
        <4>4. QED
          BY <4>1, <4>2, <4>3 DEF CountOK, AttTrue
      <3>2. CASE ~ PutAtt(g)
        <4>1. pc[g] = "done"
          <5>1. g \in Ranks /\ ~ro
            BY <1>3, <1>7 DEF CountInv
          <5>2. \A h \in Ranks : Enter(h) => h # g \/ pc'[g] # "done"
            <6>1. ASSUME Enter(g) PROVE pc'[g] # "done"
              <7>1. PICK c \in {"flush", "read", "close"} : pc' = [pc EXCEPT ![g] = Entry(g, c)]
                BY <5>1, <6>1, EnterEffect
              <7>2. QED
                BY <5>1, <7>1 DEF Entry, TypeInv, ControlTypes
            <6>2. QED
              BY <6>1
          <5>3. ASSUME NEW h \in Ranks, Enter(h), h # g PROVE pc'[g] = pc[g]
            <6>1. PICK c \in {"flush", "read", "close"} : pc' = [pc EXCEPT ![h] = Entry(h, c)]
              BY <5>3, EnterEffect
            <6>2. QED
              BY <5>1, <5>3, <6>1 DEF TypeInv, ControlTypes
          <5>4. ASSUME NEW h \in Ranks, Data(h) \/ Metaflush(h) PROVE pc'[g] = pc[g] \/ pc'[g] # "done"
            <6>1. \E l \in {"idle", "meta", "failed", "att", "search", "barrier"} : pc' = [pc EXCEPT ![h] = l]
              BY <5>4, DataEffect, MetaEffect DEF DataKept, DataTaken, MetaKept, MetaTaken, After, AfterMeta
            <6>2. QED
              BY <5>1, <6>1 DEF TypeInv, ControlTypes
          <5>5. ASSUME NEW h \in Ranks, Search(h) \/ SwitchSubfile(h) \/ SwitchEnd(h) PROVE pc'[g] = pc[g] \/ pc'[g] # "done"
            <6>1. pc' = pc \/ pc' = [pc EXCEPT ![h] = "idle"]
              BY <5>5 DEF Search, SwitchSubfile, SwitchEnd, Goto
            <6>2. QED
              BY <5>1, <6>1 DEF TypeInv, ControlTypes
          <5>6. ASSUME NEW h \in Ranks, PutAtt(h) PROVE pc'[g] = pc[g]
            BY <3>2, <5>1, <5>6, PutAttEffect DEF TypeInv, ControlTypes
          <5>7. Sizes \/ Barrier => pc'[g] # "done"
            BY <5>1 DEF Sizes, Barrier, AfterMeta
          <5>8. UNCHANGED vars \/ End \/ (\E r \in Ranks : Write(r)) => pc' = pc
            BY DEF vars, End, Write
          <5>9. QED
            BY <2>2, <5>2, <5>3, <5>4, <5>5, <5>6, <5>7, <5>8 DEF Next, Step
        <4>2. sub'[g] = sub[g]
          <5>1. ~ Data(g) /\ ~ Metaflush(g) /\ ~ PutAtt(g)
            BY <4>1 DEF Data, Metaflush, PutAtt
          <5>2. QED
            BY <1>3, <1>7, <5>1, SubLocal
        <4>3. QED
          BY <1>7, <4>1, <4>2 DEF CountInv, AttTrue
      <3>3. QED
        BY <3>1, <3>2
    <2>3. \A g \in Ranks \ Groups : sub'[g] = None
      BY <1>7, SubLocal DEF CountInv
    <2>4. ASSUME ~single, NEW g \in Groups, OnlyReads(g)' PROVE Len(sub'[g].lds) = 0 /\ Len(sub'[g].mds) = 0
      <3>1. g \in Ranks /\ ip[g] \in Nat
        BY <1>3, <1>7 DEF TypeInv, ControlTypes
      <3>2. ip'[g] \in Nat /\ ip[g] <= ip'[g]
        <4>1. ASSUME NEW h \in Ranks, Enter(h) PROVE ip'[g] = ip[g] \/ ip'[g] = ip[g] + 1
          <5>1. ip' = [ip EXCEPT ![h] = @ + 1]
            BY <4>1 DEF Enter
          <5>2. QED
            BY <3>1, <5>1 DEF TypeInv, ControlTypes
        <4>2. UNCHANGED ip \/ \E h \in Ranks : Enter(h)
          BY DEF Next, Create, Open, End, Write, Sizes, Barrier, Step, Data, Metaflush, Search, SwitchSubfile, SwitchEnd, PutAtt, vars
        <4>3. QED
          BY <3>1, <4>1, <4>2
      <3>3. OnlyReads(g)
        <4>1. ASSUME NEW i \in 1 .. ip[g] PROVE calls[i] = "read"
          <5>1. i \in 1 .. ip'[g]
            BY <3>1, <3>2
          <5>2. calls'[i] = "read"
            BY <2>4, <5>1 DEF OnlyReads
          <5>3. QED
            BY <3>1, <5>2, CallsGrow
        <4>2. QED
          BY <4>1 DEF OnlyReads
      <3>4. Len(sub[g].lds) = 0 /\ Len(sub[g].mds) = 0
        BY <1>7, <2>4, <3>3 DEF CountInv
      <3>5. ~ Data(g) /\ ~ Metaflush(g) /\ ~ PutAtt(g)
        <4>1. pc[g] \in {"data", "meta", "att"} => Call(g) # "read" /\ ip[g] # 0
          BY <1>7, <2>4 DEF CallInv, CallOK
        <4>2. ip[g] # 0 => Call(g) = "read"
          <5>1. ip[g] # 0 => ip[g] \in 1 .. ip[g]
            BY <3>1
          <5>2. QED
            BY <3>3, <5>1 DEF OnlyReads, Call
        <4>3. pc[g] \notin {"data", "meta", "att"}
          BY <4>1, <4>2
        <4>4. QED
          BY <4>3 DEF Data, Metaflush, PutAtt
      <3>6. sub'[g] = sub[g]
        BY <3>1, <3>5, SubLocal
      <3>7. QED
        BY <3>4, <3>6
    <2>5. ~single => \A i, j \in 1 .. Len(calls') : j < i /\ calls'[i] = "read" => calls'[j] = "read"
      BY <1>7, ReadsFirst
    <2>6. ~ro
      BY <1>7 DEF CountInv
    <2>7. QED
      BY <1>2, <1>3, <1>7, <2>1, <2>2, <2>3, <2>4, <2>5, <2>6 DEF CountInv
  <1>8. QED
    BY <1>2, <1>4, <1>5, <1>6, <1>7 DEF TypeInv, ControlTypes

\* When a subfile is not written to again, the counts in its attribute are
\* those of the datasets it has: later readers look for as many
\* (filei_close).
THEOREM CountsAreTrue ==
  ASSUME ~Rewrites
  PROVE  Spec => []CountsTrue
  <1>1. Init => CountInv
    BY DEF Init, CountInv
  <1>2. TypeInv /\ PlaceInv /\ CallInv /\ RestInv /\ CountInv /\ [Next]_vars => CountInv'
    BY CountStep, GroupStep DEF TypeInv
  <1>3. Spec => []CountInv
    BY <1>1, <1>2, Placed, PTL DEF Spec
  <1>4. CountInv => CountsTrue
    BY DEF CountInv, CountsTrue, AttTrue
  <1>5. QED
    BY <1>3, <1>4, PTL
==============================================================================
