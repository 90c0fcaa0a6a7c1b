------------------------ MODULE LogFileCollectProofs ------------------------
(***************************************************************************)
(* LogFile!CollectivesMatch and LogFile!ReadReturnsLatest for every value  *)
(* of the constants.                                                       *)
(*                                                                         *)
(* The first half is about the collectives, when every rank reads the same *)
(* selection: ranks that wait in a collective wait in the same one of the  *)
(* same call.                                                              *)
(*                                                                         *)
(* The property says nothing of ranks that are still on their way, so it   *)
(* is not inductive.  The invariant says where every rank will wait next   *)
(* (NextWait), as a function of the call it is in and of what all ranks    *)
(* know: CallInv and IndexInv tie a rank's state to the program of calls   *)
(* and to the file, the ranks agree on whether there is metadata to flush  *)
(* (Dirty), and Together relates any two ranks.                            *)
(*                                                                         *)
(* The second half proves LogFile!ReadReturnsLatest: the order of a rank's *)
(* requests (OwnInv, RisingInv), of the flushes (EpochInv, PlaceInv) and   *)
(* of the log datasets (OrderInv) makes the data written last the data at  *)
(* the highest offset, which is what a read keeps.                         *)
(***************************************************************************)
EXTENDS LogFileProofs

-----------------------------------------------------------------------------
(* The program of calls: p[n] is the n-th call.                            *)

\* The buffered reads queued and not yet performed or dropped after n calls.
QueuedIn(p, n) ==
    {k \in 1 .. n : p[k].op = "bread" /\ \A j \in k .. n : p[j].op \notin {"flush", "close"}}
QueuedOf(p, n) == UNION {p[k].sel : k \in QueuedIn(p, n)}

\* What the n-th call reads, and where it goes on after its data flush.
Wanted(p, n) == IF p[n].op = "read" THEN p[n].sel ELSE QueuedOf(p, n - 1)
After(p, n) ==
    IF p[n].op = "close" THEN "gather"
    ELSE IF p[n].op = "read" \/ QueuedOf(p, n - 1) # {} THEN "search" ELSE "app"

OnlyBuffered(p, m, n) == \A k \in m .. n : p[k].op = "bread"

LEMMA QueuedNone == ASSUME NEW p PROVE QueuedOf(p, 0) = {}
  <1>1. QueuedIn(p, 0) = {}
    BY DEF QueuedIn
  <1>2. QED
    BY <1>1 DEF QueuedOf

\* The queue over one more call.
LEMMA QueuedNext ==
  ASSUME NEW p, NEW n \in Nat
  PROVE  /\ p[n + 1].op = "bread" => QueuedOf(p, n + 1) = QueuedOf(p, n) \cup p[n + 1].sel
         /\ p[n + 1].op \in {"flush", "close"} => QueuedOf(p, n + 1) = {}
         /\ p[n + 1].op = "read" => QueuedOf(p, n + 1) = QueuedOf(p, n)
  <1>1. ASSUME p[n + 1].op \in {"flush", "close"} PROVE QueuedIn(p, n + 1) = {}
    <2>1. ASSUME NEW k \in QueuedIn(p, n + 1) PROVE FALSE
      <3>1. k \in 1 .. n + 1 /\ n + 1 \in k .. n + 1
        BY DEF QueuedIn
      <3>2. QED
        BY <1>1, <3>1 DEF QueuedIn
    <2>2. QED
      BY <2>1
  <1>2. ASSUME p[n + 1].op \notin {"flush", "close"}, NEW k \in 1 .. n
        PROVE  k \in QueuedIn(p, n + 1) <=> k \in QueuedIn(p, n)
    <2>1. k .. n + 1 = (k .. n) \cup {n + 1} /\ k \in 1 .. n + 1
      OBVIOUS
    <2>2. QED
      BY <1>2, <2>1 DEF QueuedIn
  <1>3. QueuedIn(p, n) \subseteq 1 .. n /\ QueuedIn(p, n + 1) \subseteq 1 .. n + 1
        /\ 1 .. n + 1 = (1 .. n) \cup {n + 1} /\ n + 1 \in 1 .. n + 1 /\ n + 1 \notin 1 .. n
    BY DEF QueuedIn
  <1>4. ASSUME p[n + 1].op = "bread" PROVE QueuedIn(p, n + 1) = QueuedIn(p, n) \cup {n + 1}
    <2>1. (n + 1) .. (n + 1) = {n + 1}
      OBVIOUS
    <2>2. n + 1 \in QueuedIn(p, n + 1)
      BY <1>3, <1>4, <2>1 DEF QueuedIn
    <2>3. QED
      BY <1>2, <1>3, <1>4, <2>2
  <1>5. ASSUME p[n + 1].op = "read" PROVE QueuedIn(p, n + 1) = QueuedIn(p, n)
    <2>1. n + 1 \notin QueuedIn(p, n + 1)
      BY <1>5 DEF QueuedIn
    <2>2. QED
      BY <1>2, <1>3, <1>5, <2>1
  <1>6. p[n + 1].op = "bread" => QueuedOf(p, n + 1) = QueuedOf(p, n) \cup p[n + 1].sel
    BY <1>4 DEF QueuedOf
  <1>7. p[n + 1].op \in {"flush", "close"} => QueuedOf(p, n + 1) = {}
    BY <1>1 DEF QueuedOf
  <1>8. p[n + 1].op = "read" => QueuedOf(p, n + 1) = QueuedOf(p, n)
    BY <1>5 DEF QueuedOf
  <1>9. QED
    BY <1>6, <1>7, <1>8

\* Later calls change nothing about earlier ones.
LEMMA QueuedSame ==
  ASSUME NEW p, NEW q, NEW m \in Nat, \A k \in 1 .. m : p[k] = q[k], NEW n \in 0 .. m
  PROVE  QueuedOf(p, n) = QueuedOf(q, n)
  <1>1. QueuedIn(p, n) = QueuedIn(q, n)
    <2>1. ASSUME NEW k \in 1 .. n, NEW j \in k .. n PROVE j \in 1 .. m
      OBVIOUS
    <2>2. ASSUME NEW k \in 1 .. n PROVE k \in QueuedIn(p, n) <=> k \in QueuedIn(q, n)
      <3>1. k \in 1 .. m
        OBVIOUS
      <3>2. \A j \in k .. n : p[j].op = q[j].op
        BY <2>1
      <3>3. QED
        BY <3>1, <3>2 DEF QueuedIn
    <2>3. QED
      BY <2>2 DEF QueuedIn
  <1>2. \A k \in QueuedIn(p, n) : p[k].sel = q[k].sel
    BY DEF QueuedIn
  <1>3. QED
    BY <1>1, <1>2 DEF QueuedOf

LEMMA CallsSame ==
  ASSUME NEW p, NEW q, NEW m \in Nat, \A k \in 1 .. m : p[k] = q[k], NEW n \in 1 .. m
  PROVE  p[n] = q[n] /\ Wanted(p, n) = Wanted(q, n) /\ After(p, n) = After(q, n)
  <1>1. n - 1 \in 0 .. m
    OBVIOUS
  <1>2. QueuedOf(p, n - 1) = QueuedOf(q, n - 1) /\ p[n] = q[n]
    BY <1>1, QueuedSame
  <1>3. QED
    BY <1>2 DEF Wanted, After
-----------------------------------------------------------------------------
(* A rank and the call it is in.                                           *)

Flushing == {"push", "pack", "scan", "write"}
Looking == {"gather", "section", "barrier", "clean", "search", "view", "readall", "unview", "return"}
Reads == {"search", "view", "readall", "unview", "return"}

\* What the rank has queued to read; the call at each step; where the call
\* goes after its data flush; what it reads.
CallInv(r) ==
    /\ pc[r] \in {"app", "closed"} => rreqs[r] = QueuedOf(prog, ncalls[r])
    /\ pc[r] \notin {"app", "closed"} =>
         /\ Op(r) # "bread"
         /\ rreqs[r] = QueuedOf(prog, IF Op(r) = "read" THEN ncalls[r] ELSE ncalls[r] - 1)
         /\ Op(r) = "read" => rd[r] = Wanted(prog, ncalls[r])
    /\ pc[r] # "app" => ncalls[r] # 0
    /\ pc[r] \in {"pending"} \cup Reads => Op(r) \in {"flush", "read"}
    /\ pc[r] \in {"closing", "closed"} => Op(r) = "close"
    /\ pc[r] \in Flushing => cont[r] = After(prog, ncalls[r])
    /\ pc[r] \in Looking => After(prog, ncalls[r]) # "app"
    /\ pc[r] \in Looking \cup Flushing /\ Op(r) = "flush" => rd[r] = Wanted(prog, ncalls[r])

\* The state of rank r that the invariants below are about.
Same(r) ==
    /\ pc'[r] = pc[r] /\ cont'[r] = cont[r] /\ ncalls'[r] = ncalls[r]
    /\ rreqs'[r] = rreqs[r] /\ rd'[r] = rd[r]
    /\ metadirty'[r] = metadirty[r] /\ idxvalid'[r] = idxvalid[r] /\ idx'[r] = idx[r]

ProgGrows == Len(prog) <= Len(prog') /\ \A k \in 1 .. Len(prog) : prog'[k] = prog[k]
LEMMA ProgGrowth ==
  ASSUME TypeInv, [Next]_vars
  PROVE  ProgGrows
  <1>1. Len(prog) \in Nat
    BY LenProperties DEF TypeInv, TypeOK, AppType
  <1>2. CASE UNCHANGED <<prog, ncalls>>
    BY <1>1, <1>2 DEF ProgGrows
  <1>3. ASSUME NEW r \in Ranks, NEW op, NEW sel, Joins(r, op, sel) PROVE ProgGrows
    BY <1>1, <1>3, JoinsProg DEF ProgGrows
  <1>4. QED
    BY <1>2, <1>3, ProgSteps

LEMMA ProgSame ==
  ASSUME TypeInv, ProgGrows, NEW r \in Ranks
  PROVE  /\ QueuedOf(prog', ncalls[r]) = QueuedOf(prog, ncalls[r])
         /\ ncalls[r] # 0 =>
              /\ prog'[ncalls[r]] = prog[ncalls[r]]
              /\ QueuedOf(prog', ncalls[r] - 1) = QueuedOf(prog, ncalls[r] - 1)
              /\ Wanted(prog', ncalls[r]) = Wanted(prog, ncalls[r])
              /\ After(prog', ncalls[r]) = After(prog, ncalls[r])
  <1> DEFINE m == Len(prog)
             n == ncalls[r]
  <1>1. m \in Nat /\ n \in 0 .. m /\ (n # 0 => n \in 1 .. m /\ n - 1 \in 0 .. m)
    BY LenProperties DEF TypeInv, TypeOK, AppType
  <1>2. \A k \in 1 .. m : prog'[k] = prog[k]
    BY DEF ProgGrows
  <1> HIDE DEF m, n
  <1>3. QueuedOf(prog', n) = QueuedOf(prog, n)
    BY <1>1, <1>2, QueuedSame
  <1>4. ASSUME n # 0
        PROVE  /\ prog'[n] = prog[n] /\ QueuedOf(prog', n - 1) = QueuedOf(prog, n - 1)
               /\ Wanted(prog', n) = Wanted(prog, n) /\ After(prog', n) = After(prog, n)
    <2>1. QueuedOf(prog', n - 1) = QueuedOf(prog, n - 1)
      BY <1>1, <1>2, <1>4, QueuedSame
    <2>2. prog'[n] = prog[n] /\ Wanted(prog', n) = Wanted(prog, n) /\ After(prog', n) = After(prog, n)
      BY <1>1, <1>2, <1>4, CallsSame
    <2>3. QED
      BY <2>1, <2>2
  <1>5. QED
    BY <1>3, <1>4 DEF n

\* A step of one rank leaves the others alone.
LEMMA OthersSame ==
  ASSUME TypeInv, NEW r \in Ranks, NEW q \in Ranks, r # q,
         (\E b \in Blocks : Write(r, b)) \/ Call(r) \/ LocalStep(r)
  PROVE  Same(q)
  <1>1. pc'[q] = pc[q] /\ cont'[q] = cont[q] /\ ncalls'[q] = ncalls[q]
    BY OthersKept DEF Kept
  <1> USE DEF TypeInv, TypeOK, ReadType, MetaType
  <1>2. rreqs'[q] = rreqs[q] /\ rd'[q] = rd[q]
    BY DEF Write, Call, CallFlush, CallRead, CallBufferedRead, CallClose, LocalStep, PushMerged,
       Pack, WriteData, WriteSection, MetaClean, Search, Return, readVars
  <1>3. metadirty'[q] = metadirty[q] /\ idxvalid'[q] = idxvalid[q] /\ idx'[q] = idx[q]
    BY DEF Write, Call, CallFlush, CallRead, CallBufferedRead, CallClose, LocalStep, PushMerged,
       Pack, WriteData, WriteSection, MetaClean, Search, Return, metaVars
  <1>4. QED
    BY <1>1, <1>2, <1>3 DEF Same

LEMMA CallSame ==
  ASSUME TypeInv, NEW r \in Ranks, CallInv(r), Same(r), ProgGrows
  PROVE  CallInv(r)'
  <1>1. ncalls[r] # 0 => Op(r)' = Op(r)
    BY ProgSame DEF Op, Same
  <1>2. pc[r] # "app" => ncalls[r] # 0
    BY DEF CallInv
  <1>3. pc[r] = "app" => CallInv(r)'
    BY <1>2, ProgSame DEF CallInv, Same, Flushing, Looking, Reads
  <1>4. pc[r] # "app" => CallInv(r)'
    BY <1>1, <1>2, ProgSame DEF CallInv, Same
  <1>5. QED
    BY <1>3, <1>4

\* A call, with what the program says of it.
LEMMA JoinsCall ==
  ASSUME UniformReads, TypeInv, NEW r \in Ranks, NEW op, NEW sel, Joins(r, op, sel)
  PROVE  /\ pc[r] = "app" /\ ncalls[r] \in Nat /\ ncalls[r] <= Len(prog)
         /\ ncalls'[r] = ncalls[r] + 1 /\ ncalls[r] + 1 <= Len(prog')
         /\ prog'[ncalls[r] + 1].op = op /\ prog'[ncalls[r] + 1].sel = sel
         /\ ProgGrows
         /\ \A q \in Ranks : q # r => ncalls'[q] = ncalls[q]
  <1>1. ncalls[r] \in Nat /\ Len(prog) \in Nat /\ prog \in Seq(CallRecord) /\ ncalls[r] <= Len(prog)
    BY LenProperties DEF TypeInv, TypeOK, AppType
  <1>2. ncalls' = [ncalls EXCEPT ![r] = @ + 1] /\ pc[r] = "app" /\ ncalls \in [Ranks -> Nat]
    BY DEF Joins, TypeInv, TypeOK, AppType
  <1>3. CASE ncalls[r] < Len(prog)
    <2>1. prog' = prog /\ prog[ncalls[r] + 1].op = op /\ prog[ncalls[r] + 1].sel = sel
      BY <1>3 DEF Joins
    <2>2. QED
      BY <1>1, <1>2, <1>3, <2>1 DEF ProgGrows
  <1>4. CASE ~ (ncalls[r] < Len(prog))
    <2>1. prog' = Append(prog, [op |-> op, sel |-> sel]) /\ ncalls[r] = Len(prog)
      BY <1>1, <1>4 DEF Joins
    <2>2. Len(prog') = Len(prog) + 1 /\ prog'[Len(prog) + 1] = [op |-> op, sel |-> sel]
          /\ \A k \in 1 .. Len(prog) : prog'[k] = prog[k]
      BY <1>1, <2>1
    <2>3. QED
      BY <1>1, <1>2, <2>1, <2>2 DEF ProgGrows
  <1>5. QED
    BY <1>3, <1>4

\* The rank that makes a call.
LEMMA CallCall ==
  ASSUME UniformReads, TypeInv, NEW r \in Ranks, CallInv(r), Call(r)
  PROVE  CallInv(r)'
  <1>0. ASSUME NEW op, NEW sel, Joins(r, op, sel)
        PROVE  /\ ncalls'[r] = ncalls[r] + 1 /\ ncalls[r] \in Nat /\ Op(r)' = op
               /\ prog'[ncalls[r] + 1].op = op /\ prog'[ncalls[r] + 1].sel = sel
               /\ rreqs[r] = QueuedOf(prog', ncalls[r]) /\ pc[r] = "app"
               /\ ncalls'[r] # 0 /\ ncalls'[r] - 1 = ncalls[r]
    <2>1. /\ ncalls'[r] = ncalls[r] + 1 /\ ncalls[r] \in Nat /\ pc[r] = "app" /\ ProgGrows
          /\ prog'[ncalls[r] + 1].op = op /\ prog'[ncalls[r] + 1].sel = sel
      BY <1>0, JoinsCall
    <2>2. rreqs[r] = QueuedOf(prog, ncalls[r])
      BY <2>1 DEF CallInv
    <2>3. QueuedOf(prog', ncalls[r]) = QueuedOf(prog, ncalls[r])
      BY <2>1, ProgSame
    <2>4. ncalls'[r] # 0 /\ ncalls'[r] - 1 = ncalls[r]
      BY <2>1
    <2>5. Op(r)' = op
      BY <2>1, Zenon DEF Op
    <2>6. QED
      BY <2>1, <2>2, <2>3, <2>4, <2>5
  <1> USE DEF TypeInv, TypeOK, StepType, ReadType
  <1>1. CASE CallFlush(r)
    <2>1. pc'[r] = "pending" /\ rreqs'[r] = rreqs[r] /\ Joins(r, "flush", {})
      BY <1>1 DEF CallFlush, Goto, readVars
    <2>2. QED
      BY <1>0, <2>1 DEF CallInv, Looking, Flushing, Reads
  <1>2. ASSUME NEW s \in Selections, CallRead(r, s) PROVE CallInv(r)'
    <2>1. Joins(r, "read", s) /\ rd'[r] = s /\ rreqs'[r] = rreqs[r] /\ pc'[r] \in {"pending", "search"}
      BY <1>2 DEF CallRead, Goto, Selections
    <2>2. QueuedOf(prog', ncalls[r] + 1) = QueuedOf(prog', ncalls[r])
          /\ Wanted(prog', ncalls[r] + 1) = s /\ After(prog', ncalls[r] + 1) = "search"
      BY <1>0, <2>1, QueuedNext DEF Wanted, After
    <2>3. QED
      BY <1>0, <2>1, <2>2 DEF CallInv, Looking, Flushing, Reads
  <1>3. ASSUME NEW s \in Selections, CallBufferedRead(r, s) PROVE CallInv(r)'
    <2>1. Joins(r, "bread", s) /\ rreqs'[r] = rreqs[r] \cup s /\ pc'[r] = "app"
      BY <1>3, <1>0 DEF CallBufferedRead
    <2>2. QueuedOf(prog', ncalls[r] + 1) = QueuedOf(prog', ncalls[r]) \cup s
      BY <1>0, <2>1, QueuedNext
    <2>3. QED
      BY <1>0, <2>1, <2>2 DEF CallInv, Looking, Flushing, Reads
  <1>4. CASE CallClose(r)
    <2>1. Joins(r, "close", {}) /\ rreqs'[r] = rreqs[r]
          /\ (pc'[r] = "closing" \/ (pc'[r] = "push" /\ cont'[r] = "gather"))
      BY <1>4 DEF CallClose, Goto, readVars
    <2>2. After(prog', ncalls[r] + 1) = "gather"
      BY <1>0, <2>1 DEF After
    <2>3. QED
      BY <1>0, <2>1, <2>2 DEF CallInv, Looking, Flushing, Reads
  <1>5. QED
    BY <1>1, <1>2, <1>3, <1>4 DEF Call
\* A call that is not a buffered read, and what is queued after it.
LEMMA QueuedAfter ==
  ASSUME TypeInv, NEW r \in Ranks, ncalls[r] # 0, Op(r) # "bread"
  PROVE  /\ Op(r) \in {"flush", "read", "close"}
         /\ Op(r) # "read" => QueuedOf(prog, ncalls[r]) = {}
         /\ ncalls[r] - 1 \in Nat
  <1> DEFINE n == ncalls[r] - 1
  <1>1. n \in Nat /\ n + 1 = ncalls[r] /\ ncalls[r] \in 1 .. Len(prog) /\ prog \in Seq(CallRecord)
    BY LenProperties DEF TypeInv, TypeOK, AppType
  <1>2. prog[ncalls[r]] \in CallRecord
    BY <1>1
  <1>3. Op(r) \in {"flush", "read", "close"}
    BY <1>2 DEF CallRecord, Reading, Op
  <1> HIDE DEF n
  <1>4. Op(r) # "read" => QueuedOf(prog, n + 1) = {}
    BY <1>1, <1>3, QueuedNext DEF Op
  <1>5. QED
    BY <1>1, <1>3, <1>4 DEF n

LEMMA LocalProg ==
  ASSUME NEW r \in Ranks, LocalStep(r)
  PROVE  UNCHANGED <<prog, ncalls, mode>> /\ Op(r)' = Op(r)
  <1>1. UNCHANGED <<prog, ncalls, mode>>
    BY DEF LocalStep, PushMerged, Pack, WriteData, WriteSection, MetaClean, Search, Return, appVars,
           fileVars
  <1>2. QED
    BY <1>1 DEF Op

\* A step inside a call.
LEMMA CallLocal ==
  ASSUME TypeInv, NEW r \in Ranks, CallInv(r), LocalStep(r)
  PROVE  CallInv(r)'
  <1>1. UNCHANGED <<prog, ncalls, mode>> /\ Op(r)' = Op(r)
    BY LocalProg
  <1>2. pc[r] \notin {"app", "closed"}
    BY DEF LocalStep, PushMerged, Pack, WriteData, WriteSection, MetaClean, Search, Return
  <1>3. /\ ncalls[r] # 0 /\ Op(r) # "bread" /\ Op(r) \in {"flush", "read", "close"}
        /\ Op(r) # "read" => QueuedOf(prog, ncalls[r]) = {}
    BY <1>2, QueuedAfter DEF CallInv
  <1> USE DEF TypeInv, TypeOK, StepType, ReadType, Flushing, Looking, Reads
  <1>4. CASE PushMerged(r)
    <2>1. UNCHANGED <<cont, rreqs, rd>> /\ pc[r] = "push" /\ pc'[r] \in {"push", "pack"}
      BY <1>4 DEF PushMerged, Goto, readVars
    <2>2. QED
      BY <1>1, <1>3, <2>1 DEF CallInv
  <1>5. CASE Pack(r)
    <2>1. UNCHANGED <<cont, rreqs, rd>> /\ pc[r] = "pack" /\ pc'[r] \in {"pack", "scan"}
      BY <1>5 DEF Pack, Goto, readVars
    <2>2. QED
      BY <1>1, <1>3, <2>1 DEF CallInv
  <1>6. CASE WriteData(r)
    <2>1. UNCHANGED <<cont, rreqs, rd>> /\ pc[r] = "write" /\ pc'[r] = cont[r]
      BY <1>6 DEF WriteData, Goto, readVars
    <2>2. cont[r] = After(prog, ncalls[r])
      BY <2>1 DEF CallInv
    <2>3. CASE cont[r] = "app"
      <3>1. Op(r) = "flush" /\ QueuedOf(prog, ncalls[r] - 1) = {}
        BY <1>3, <2>2, <2>3 DEF After, Op
      <3>2. rreqs[r] = {}
        BY <1>2, <3>1 DEF CallInv
      <3>3. QED
        BY <1>1, <1>3, <2>1, <2>3, <3>1, <3>2 DEF CallInv
    <2>4. CASE cont[r] = "search"
      <3>1. Op(r) \in {"flush", "read"}
        BY <1>3, <2>2, <2>4 DEF After, Op
      <3>2. QED
        BY <1>1, <1>3, <2>1, <2>2, <2>4, <3>1 DEF CallInv
    <2>5. CASE cont[r] = "gather"
      BY <1>1, <1>3, <2>1, <2>2, <2>5 DEF CallInv
    <2>6. QED
      BY <2>2, <2>3, <2>4, <2>5 DEF After
  <1>7. CASE WriteSection(r)
    <2>1. UNCHANGED <<cont, rreqs, rd>> /\ pc[r] = "section" /\ pc'[r] = "barrier"
      BY <1>7 DEF WriteSection, Goto, readVars
    <2>2. QED
      BY <1>1, <1>3, <2>1 DEF CallInv
  <1>8. CASE MetaClean(r)
    <2>1. UNCHANGED <<cont, rreqs, rd>> /\ pc[r] = "clean"
          /\ pc'[r] = IF Op(r) = "close" THEN "closing" ELSE "search"
      BY <1>8 DEF MetaClean, Goto, readVars
    <2>2. CASE Op(r) = "close"
      BY <1>1, <1>3, <2>1, <2>2 DEF CallInv
    <2>3. CASE Op(r) # "close"
      BY <1>1, <1>3, <2>1, <2>3 DEF CallInv
    <2>4. QED
      BY <2>2, <2>3
  <1>9. CASE Search(r)
    <2>1. UNCHANGED <<cont, rreqs, rd>> /\ pc[r] = "search" /\ pc'[r] \in {"gather", "view", "readall"}
      BY <1>9 DEF Search, Goto, readVars
    <2>2. QED
      BY <1>1, <1>3, <2>1 DEF CallInv
  <1>10. CASE Return(r)
    <2>1. pc[r] = "return" /\ pc'[r] = "app" /\ rreqs'[r] = IF Op(r) = "flush" THEN {} ELSE rreqs[r]
      BY <1>10 DEF Return, Goto
    <2>2. Op(r) \in {"flush", "read"} /\ (Op(r) = "read" => rreqs[r] = QueuedOf(prog, ncalls[r]))
      BY <2>1 DEF CallInv
    <2>3. QED
      BY <1>1, <1>3, <2>1, <2>2 DEF CallInv
  <1>11. QED
    BY <1>4, <1>5, <1>6, <1>7, <1>8, <1>9, <1>10 DEF LocalStep
\* Where all ranks go after the reduction of a flush.
LEMMA AfterWritesIs ==
  ASSUME TypeInv, \A q \in Ranks : CallInv(q), At("pending"), NEW r \in Ranks,
         \A q \in Ranks : ncalls[q] = ncalls[r]
  PROVE  AfterWrites(r) = After(prog, ncalls[r])
  <1>1. \A q \in Ranks : pc[q] = "pending" /\ Op(q) = Op(r)
    BY DEF At, Op
  <1>2. Op(r) \in {"flush", "read"}
    BY <1>1 DEF CallInv
  <1>3. CASE Op(r) = "read"
    BY <1>3 DEF AfterWrites, After, Op
  <1>4. CASE Op(r) = "flush"
    <2>1. \A q \in Ranks : rreqs[q] = QueuedOf(prog, ncalls[r] - 1)
      BY <1>1, <1>4 DEF CallInv
    <2>2. AnyReads(r) <=> QueuedOf(prog, ncalls[r] - 1) # {}
      BY <2>1 DEF AnyReads
    <2>3. QED
      BY <1>4, <2>2 DEF AfterWrites, After, Op
  <1>5. QED
    BY <1>2, <1>3, <1>4

LEMMA CollectiveProg ==
  ASSUME NEW r \in Ranks, Collective \/ \E m \in {"rw", "ro"} : OpenFile(m)
  PROVE  UNCHANGED <<prog, ncalls>> /\ Op(r)' = Op(r)
  <1>1. UNCHANGED <<prog, ncalls>>
    BY DEF Collective, AllreducePending, ScanAndCreate, GatherAndCreate, MetaBarrier, SetView, ReadAll,
           RestoreView, CloseFile, OpenFile, appVars
  <1>2. QED
    BY <1>1 DEF Op

\* The collectives.
LEMMA CallCollective ==
  ASSUME TypeInv, \A q \in Ranks : CallInv(q), NEW r \in Ranks,
         \A q \in Ranks : pc[r] = "pending" /\ pc[q] = "pending" => ncalls[q] = ncalls[r],
         Collective \/ \E m \in {"rw", "ro"} : OpenFile(m)
  PROVE  CallInv(r)'
  <1>1. UNCHANGED <<prog, ncalls>> /\ Op(r)' = Op(r)
    BY CollectiveProg
  <1>2. CallInv(r) /\ (pc[r] \notin {"app", "closed"} => ncalls[r] # 0 /\ Op(r) # "bread")
    BY DEF CallInv
  <1>3. pc[r] \notin {"app", "closed"} =>
          /\ Op(r) \in {"flush", "read", "close"}
          /\ Op(r) # "read" => QueuedOf(prog, ncalls[r]) = {}
    BY <1>2, QueuedAfter
  <1> USE DEF Flushing, Looking, Reads
  <1>4. CASE AllreducePending
    <2>1. At("pending") /\ pc[r] = "pending"
      BY <1>4 DEF AllreducePending, At
    <2>2. AfterWrites(r) = After(prog, ncalls[r])
      BY <2>1, AfterWritesIs DEF At
    <2>3. /\ pc'[r] = (IF AnyWrites(r) THEN "push" ELSE AfterWrites(r)) /\ cont'[r] = AfterWrites(r)
          /\ rd'[r] = (IF Op(r) = "read" THEN rd[r] ELSE rreqs[r]) /\ rreqs' = rreqs
      BY <1>4 DEF AllreducePending
    <2>4. Op(r) \in {"flush", "read"} /\ (Op(r) = "read" => rd[r] = Wanted(prog, ncalls[r]))
          /\ rreqs[r] = QueuedOf(prog, IF Op(r) = "read" THEN ncalls[r] ELSE ncalls[r] - 1)
      BY <1>2, <2>1 DEF CallInv
    <2>5. rd'[r] = Wanted(prog, ncalls[r])
      BY <2>3, <2>4 DEF Wanted, Op
    <2>6. After(prog, ncalls[r]) \in {"search", "app"}
      BY <2>4 DEF After, Op
    <2>7. After(prog, ncalls[r]) = "app" => Op(r) = "flush" /\ rreqs[r] = {}
      BY <2>4 DEF After, Op
    <2>8. CASE AnyWrites(r)
      BY <1>1, <1>2, <1>3, <2>1, <2>2, <2>3, <2>4, <2>5, <2>8 DEF CallInv
    <2>9. CASE ~AnyWrites(r) /\ After(prog, ncalls[r]) = "app"
      BY <1>1, <1>2, <1>3, <2>1, <2>2, <2>3, <2>7, <2>9 DEF CallInv
    <2>10. CASE ~AnyWrites(r) /\ After(prog, ncalls[r]) = "search"
      BY <1>1, <1>2, <1>3, <2>1, <2>2, <2>3, <2>4, <2>5, <2>10 DEF CallInv
    <2>11. QED
      BY <2>6, <2>8, <2>9, <2>10
  <1>5. CASE ScanAndCreate
    <2>1. UNCHANGED <<cont, rreqs, rd>> /\ pc[r] = "scan" /\ pc'[r] \in {cont[r], "write"}
      BY <1>5 DEF ScanAndCreate, At, readVars
    <2>2. cont[r] = After(prog, ncalls[r])
      BY <1>2, <2>1 DEF CallInv
    <2>3. CASE pc'[r] = "write"
      BY <1>1, <1>2, <1>3, <2>1, <2>2, <2>3 DEF CallInv
    <2>4. CASE pc'[r] = "app" /\ cont[r] = "app"
      <3>1. Op(r) = "flush" /\ QueuedOf(prog, ncalls[r] - 1) = {}
        BY <1>3, <2>1, <2>2, <2>4 DEF After, Op
      <3>2. rreqs[r] = {}
        BY <1>2, <2>1, <3>1 DEF CallInv
      <3>3. QED
        BY <1>1, <1>2, <1>3, <2>1, <2>4, <3>1, <3>2 DEF CallInv
    <2>5. CASE pc'[r] = "search" /\ cont[r] = "search"
      <3>1. Op(r) \in {"flush", "read"}
        BY <1>3, <2>1, <2>2, <2>5 DEF After, Op
      <3>2. QED
        BY <1>1, <1>2, <2>1, <2>2, <2>5, <3>1 DEF CallInv
    <2>6. CASE pc'[r] = "gather" /\ cont[r] = "gather"
      BY <1>1, <1>2, <2>1, <2>2, <2>6 DEF CallInv
    <2>7. QED
      BY <2>1, <2>2, <2>3, <2>4, <2>5, <2>6 DEF After
  <1>6. CASE GatherAndCreate
    <2>1. UNCHANGED <<cont, rreqs, rd>> /\ pc[r] = "gather" /\ pc'[r] \in {"clean", "section"}
      BY <1>6 DEF GatherAndCreate, At, readVars
    <2>2. QED
      BY <1>1, <1>2, <2>1 DEF CallInv
  <1>7. CASE MetaBarrier
    <2>1. UNCHANGED <<cont, rreqs, rd>> /\ pc[r] = "barrier" /\ pc'[r] = "clean"
      BY <1>7 DEF MetaBarrier, At, readVars
    <2>2. QED
      BY <1>1, <1>2, <2>1 DEF CallInv
  <1>8. CASE SetView \/ ReadAll \/ RestoreView
    <2>1. /\ UNCHANGED <<cont, rreqs, rd>> /\ pc[r] \in {"view", "readall", "unview"}
          /\ pc'[r] \in {"readall", "unview", "return"}
      BY <1>8 DEF SetView, ReadAll, RestoreView, At, readVars
    <2>2. QED
      BY <1>1, <1>2, <2>1 DEF CallInv
  <1>9. CASE CloseFile
    <2>1. pc[r] = "closing" /\ pc'[r] = "closed" /\ rreqs'[r] = {}
      BY <1>9 DEF CloseFile, At
    <2>2. Op(r) = "close"
      BY <1>2, <2>1 DEF CallInv
    <2>3. QED
      BY <1>1, <1>2, <1>3, <2>1, <2>2 DEF CallInv
  <1>10. ASSUME NEW m \in {"rw", "ro"}, OpenFile(m) PROVE CallInv(r)'
    <2>1. pc[r] = "closed" /\ pc'[r] = "app" /\ rreqs' = rreqs
      BY <1>10 DEF OpenFile, At, readVars
    <2>2. QED
      BY <1>1, <1>2, <2>1 DEF CallInv
  <1>11. QED
    BY <1>4, <1>5, <1>6, <1>7, <1>8, <1>9, <1>10 DEF Collective
-----------------------------------------------------------------------------
(* What all ranks know: the entries of the file, and whether there is      *)
(* metadata to flush.                                                      *)

Logged == EntriesIn(Len(mdsets))

\* A valid index has every entry of the file.
IndexInv(r) ==
    /\ idxvalid[r] /\ pc[r] \notin {"section", "barrier", "clean"} => idx[r] = Logged
    /\ pc[r] \in {"view", "readall", "unview"} => idxvalid[r]

\* There is metadata to flush, or will be when the rank has written its data.
Dirty(r) == pc[r] = "write" \/ (metadirty[r] /\ pc[r] # "clean")

LEMMA DirtyLocal ==
  ASSUME TypeInv, NEW r \in Ranks, (\E b \in Blocks : Write(r, b)) \/ Call(r) \/ LocalStep(r),
         \* the flush goes on or the rank leaves it
         pc[r] = "write" => cont[r] \in {"app", "search", "gather"}
  PROVE  Dirty(r)' = Dirty(r)
  <1> USE DEF TypeInv, TypeOK, StepType, MetaType, Dirty, Goto, metaVars
  <1>1. ASSUME NEW b \in Blocks, Write(r, b) PROVE Dirty(r)' = Dirty(r)
    BY <1>1 DEF Write
  <1>2. CASE Call(r)
    <2>1. pc[r] = "app" /\ UNCHANGED metadirty
      BY <1>2 DEF Call, CallFlush, CallRead, CallBufferedRead, CallClose, Joins
    <2>2. pc'[r] \notin {"write", "clean"}
      BY <1>2, <2>1 DEF Call, CallFlush, CallRead, CallBufferedRead, CallClose
    <2>3. QED
      BY <2>1, <2>2
  <1>3. CASE LocalStep(r)
    <2>1. CASE PushMerged(r)
      BY <2>1 DEF PushMerged
    <2>2. CASE Pack(r)
      BY <2>2 DEF Pack
    <2>3. CASE WriteData(r)
      BY <2>3 DEF WriteData
    <2>4. CASE WriteSection(r)
      BY <2>4 DEF WriteSection
    <2>5. CASE MetaClean(r)
      BY <2>5 DEF MetaClean
    <2>6. CASE Search(r)
      BY <2>6 DEF Search
    <2>7. CASE Return(r)
      BY <2>7 DEF Return
    <2>8. QED
      BY <1>3, <2>1, <2>2, <2>3, <2>4, <2>5, <2>6, <2>7 DEF LocalStep
  <1>4. QED
    BY <1>1, <1>2, <1>3

LEMMA DirtySame ==
  ASSUME NEW r \in Ranks, Same(r)
  PROVE  Dirty(r)' = Dirty(r)
  BY DEF Same, Dirty

\* After a collective all ranks are dirty or none is.
LEMMA DirtyCollective ==
  ASSUME TypeInv, \A r, q \in Ranks : Dirty(r) = Dirty(q),
         Collective \/ \E m \in {"rw", "ro"} : OpenFile(m),
         \A r \in Ranks : cont[r] \in Steps \ {"write", "clean"} \/ pc[r] # "scan",
         NEW r \in Ranks, NEW q \in Ranks
  PROVE  Dirty(r)' = Dirty(q)'
  <1> USE DEF TypeInv, TypeOK, StepType, MetaType, At, metaVars
  <1>1. CASE AllreducePending
    <2>1. Dirty(r)' = Dirty(r) /\ Dirty(q)' = Dirty(q)
      BY <1>1 DEF AllreducePending, AfterWrites, Dirty
    <2>2. QED
      BY <2>1
  <1>2. CASE ScanAndCreate
    <2>1. pc[r] = "scan" /\ pc[q] = "scan" /\ UNCHANGED metadirty
          /\ (pc' = cont \/ pc' = [x \in Ranks |-> "write"])
      BY <1>2 DEF ScanAndCreate
    <2>2. CASE pc' = cont
      <3>1. Dirty(r)' = Dirty(r) /\ Dirty(q)' = Dirty(q)
        BY <2>1, <2>2 DEF Dirty
      <3>2. QED
        BY <3>1
    <2>3. CASE pc' = [x \in Ranks |-> "write"]
      BY <2>3 DEF Dirty
    <2>4. QED
      BY <2>1, <2>2, <2>3
  <1>3. CASE GatherAndCreate
    <2>1. UNCHANGED metadirty /\ pc[r] = "gather" /\ pc[q] = "gather"
          /\ (pc' = [x \in Ranks |-> "clean"] \/ pc' = [x \in Ranks |-> "section"])
      BY <1>3 DEF GatherAndCreate
    <2>2. Dirty(r) = Dirty(q)
      OBVIOUS
    <2>3. metadirty[r] = metadirty[q]
      BY <2>1, <2>2 DEF Dirty
    <2>4. QED
      BY <2>1, <2>3 DEF Dirty
  <1>4. CASE MetaBarrier
    BY <1>4 DEF MetaBarrier, Dirty
  <1>5. CASE SetView \/ ReadAll \/ RestoreView \/ CloseFile
    <2>1. Dirty(r)' = Dirty(r) /\ Dirty(q)' = Dirty(q)
      BY <1>5 DEF SetView, ReadAll, RestoreView, CloseFile, Dirty
    <2>2. QED
      BY <2>1
  <1>6. ASSUME NEW m \in {"rw", "ro"}, OpenFile(m) PROVE Dirty(r)' = Dirty(q)'
    BY <1>6 DEF OpenFile, Dirty
  <1>7. QED
    BY <1>1, <1>2, <1>3, <1>4, <1>5, <1>6 DEF Collective

-----------------------------------------------------------------------------
(* Where a rank waits next.                                                *)

\* The rank is between two calls, or will be without waiting for anyone.
Out(r) == pc[r] \in {"app", "return"} \/ (pc[r] = "write" /\ cont[r] = "app")

Finds(r) == IF Hits(Logged, Wanted(prog, ncalls[r])) # {} THEN "view" ELSE "readall"
Lookup(r) == IF Dirty(r) THEN "gather" ELSE Finds(r)

NextWait(r) ==
    IF pc[r] \in {"push", "pack"} THEN "scan"
    ELSE IF pc[r] = "write" THEN "gather"
    ELSE IF pc[r] = "section" THEN "barrier"
    ELSE IF pc[r] = "clean" THEN IF Op(r) = "close" THEN "closing" ELSE Finds(r)
    ELSE IF pc[r] = "search" THEN Lookup(r)
    ELSE pc[r]

\* The first wait of the call the rank is in.
First(r) ==
    IF Op(r) = "close" THEN IF mode = "ro" THEN "closing" ELSE "scan"
    ELSE IF Op(r) = "flush" \/ NP = 1 THEN "pending"
    ELSE Lookup(r)

\* Two ranks in calls are in the same one and wait in the same collective.  A
\* rank that is between calls makes buffered reads only until it is in the
\* call another rank is in, and the other has waited for nothing in it.
Together(r, q) ==
    /\ Out(r) /\ Out(q) => OnlyBuffered(prog, ncalls[r] + 1, ncalls[q])
    /\ Out(r) /\ ~Out(q) =>
         /\ ncalls[r] < ncalls[q] /\ OnlyBuffered(prog, ncalls[r] + 1, ncalls[q] - 1)
         /\ NextWait(q) = First(q)
    /\ ~Out(r) /\ ~Out(q) => ncalls[r] = ncalls[q] /\ NextWait(r) = NextWait(q)

AgreeInv ==
    /\ \A r \in Ranks : CallInv(r) /\ IndexInv(r)
    /\ \A r, q \in Ranks : Dirty(r) = Dirty(q)
    /\ \A r, q \in Ranks : Together(r, q)

\* The file opened for reading is never dirty, and a rank's next step in a
\* flush is one of three.
LEMMA ContOK ==
  ASSUME NEW r \in Ranks, CallInv(r), pc[r] \in Flushing
  PROVE  cont[r] \in {"app", "search", "gather"}
  BY DEF CallInv, After

\* When a rank is at its section, all are on their way to the barrier.
LEMMA AllAtSection ==
  ASSUME \A x, y \in Ranks : Together(x, y), NEW r \in Ranks, pc[r] = "section", NEW q \in Ranks
  PROVE  pc[q] \in {"section", "barrier"}
  <1>1. ~Out(r) /\ NextWait(r) = "barrier"
    BY DEF Out, NextWait
  <1>2. First(r) # "barrier"
    BY DEF First, Lookup, Finds
  <1>3. ~Out(q)
    BY <1>1, <1>2 DEF Together
  <1>4. NextWait(q) = "barrier"
    BY <1>1, <1>3 DEF Together
  <1>5. QED
    BY <1>4 DEF NextWait, Lookup, Finds

\* Ranks at a collective are in the same call.
LEMMA SameCall ==
  ASSUME NEW l \in Waits \cup {"closed"}, At(l), NEW r \in Ranks, NEW q \in Ranks, Together(r, q)
  PROVE  ncalls[r] = ncalls[q] /\ Op(r) = Op(q)
  <1>1. ~Out(r) /\ ~Out(q)
    BY DEF At, Out, Waits
  <1>2. QED
    BY <1>1 DEF Together, Op

\* The entries of the file change only while metadata is written.
LEMMA LoggedKept ==
  ASSUME [Next]_vars, ~ GatherAndCreate, \A r \in Ranks : ~ WriteSection(r)
  PROVE  UNCHANGED mdsets
  BY DEF Next, Write, Call, CallFlush, CallRead, CallBufferedRead, CallClose, LocalStep, PushMerged,
     Pack, WriteData, MetaClean, Search, Return, Collective, AllreducePending, ScanAndCreate,
     MetaBarrier, SetView, ReadAll, RestoreView, CloseFile, OpenFile, Finished, vars, fileVars

\* The search of a valid index, or of one loaded now, is of all entries.
LEMMA SearchIndex ==
  ASSUME TypeInv, NumberInv, NEW r \in Ranks, IndexInv(r), Search(r), ~ metadirty[r]
  PROVE  idx'[r] = Logged /\ idxvalid'[r] /\ pc'[r] = IF Hits(Logged, rd[r]) # {} THEN "view" ELSE "readall"
  <1>1. pc[r] = "search" /\ LoadIndex(r) = Logged
    BY DEF Search, LoadIndex, Logged, NumberInv
  <1>2. idx'[r] = Logged /\ idxvalid'[r]
    BY <1>1 DEF Search, IndexInv, TypeInv, TypeOK, MetaType
  <1>3. QED
    BY <1>2 DEF Search, Goto, TypeInv, TypeOK, StepType

\* While one rank writes its section all do, or wait for the others.
SectionInv ==
    (\E q \in Ranks : pc[q] = "section") => \A r \in Ranks : pc[r] \in {"section", "barrier"}

LEMMA IndexStep ==
  ASSUME TypeInv, NumberInv, SectionInv, [Next]_vars, NEW r \in Ranks, QueueInv(r), IndexInv(r)
  PROVE  IndexInv(r)'
  <1>1. IndexInv(r) /\ (pc[r] \in {"scan", "write"} => cont[r] \in {"app", "search", "gather"})
    BY DEF QueueInv
  <1>2. CASE GatherAndCreate
    BY <1>2 DEF GatherAndCreate, IndexInv
  <1>3. ASSUME NEW q \in Ranks, WriteSection(q) PROVE IndexInv(r)'
    <2>1. pc[r] \in {"section", "barrier"}
      BY <1>3 DEF SectionInv, WriteSection
    <2>2. pc'[r] \in {"section", "barrier"}
      BY <1>3, <2>1 DEF WriteSection, Goto, TypeInv, TypeOK, StepType
    <2>3. QED
      BY <2>2 DEF IndexInv
  <1>4. ASSUME ~ GatherAndCreate, \A q \in Ranks : ~ WriteSection(q) PROVE IndexInv(r)'
    <2>1. Logged' = Logged
      BY <1>4, LoggedKept DEF Logged, EntriesIn
    <2> USE DEF TypeInv, TypeOK, StepType, MetaType
    <2>2. ASSUME NEW q \in Ranks, (\E b \in Blocks : Write(q, b)) \/ Call(q) \/ LocalStep(q)
          PROVE  IndexInv(r)'
      <3>1. CASE q # r
        <4>1. Same(r)
          BY <2>2, <3>1, OthersSame
        <4>2. QED
          BY <1>1, <2>1, <4>1 DEF Same, IndexInv
      <3>2. CASE q = r
        <4>1. CASE \E b \in Blocks : Write(r, b)
          BY <1>1, <2>1, <4>1 DEF Write, metaVars, IndexInv
        <4>2. CASE Call(r)
          <5>1. pc[r] = "app" /\ UNCHANGED <<idx, idxvalid>>
            BY <4>2 DEF Call, CallFlush, CallRead, CallBufferedRead, CallClose, Joins, metaVars
          <5>2. pc'[r] \notin {"view", "readall", "unview"}
            BY <4>2, <5>1 DEF Call, CallFlush, CallRead, CallBufferedRead, CallClose, Goto
          <5>3. QED
            BY <1>1, <2>1, <5>1, <5>2 DEF IndexInv
        <4>3. CASE PushMerged(r) \/ Pack(r) \/ WriteData(r) \/ Return(r)
          <5>1. /\ UNCHANGED <<idx, idxvalid>> /\ pc[r] \in {"push", "pack", "write", "return"}
                /\ pc'[r] \in {"push", "pack", "scan", "app"} \cup {cont[r]}
            BY <4>3 DEF PushMerged, Pack, WriteData, Return, Goto, metaVars
          <5>2. pc'[r] \notin {"view", "readall", "unview"}
            BY <1>1, <4>3, <5>1 DEF PushMerged, Pack, WriteData, Return, Goto
          <5>3. QED
            BY <1>1, <2>1, <5>1, <5>2 DEF IndexInv
        <4>4. CASE MetaClean(r)
          BY <4>4 DEF MetaClean, Goto, IndexInv
        <4>5. CASE Search(r)
          <5>1. CASE metadirty[r]
            BY <1>1, <2>1, <4>5, <5>1 DEF Search, Goto, IndexInv
          <5>2. CASE ~ metadirty[r]
            BY <2>1, <4>5, <5>2, <1>1, SearchIndex DEF IndexInv
          <5>3. QED
            BY <5>1, <5>2
        <4>6. QED
          BY <1>4, <2>2, <3>2, <4>1, <4>2, <4>3, <4>4, <4>5 DEF LocalStep
      <3>3. QED
        BY <3>1, <3>2
    <2>3. CASE ScanAndCreate
      <3>1. UNCHANGED <<idx, idxvalid>> /\ pc[r] = "scan" /\ pc'[r] \in {cont[r], "write"}
        BY <2>3 DEF ScanAndCreate, At, metaVars
      <3>2. QED
        BY <1>1, <2>1, <3>1 DEF IndexInv
    <2>4. CASE AllreducePending \/ MetaBarrier \/ SetView \/ ReadAll \/ RestoreView \/ CloseFile
      <3>1. UNCHANGED <<idx, idxvalid>>
        BY <2>4 DEF AllreducePending, MetaBarrier, SetView, ReadAll, RestoreView, CloseFile, metaVars
      <3>2. CASE AllreducePending
        BY <1>1, <2>1, <3>1, <3>2 DEF AllreducePending, AfterWrites, At, IndexInv
      <3>3. CASE MetaBarrier
        BY <3>3 DEF MetaBarrier, IndexInv
      <3>4. CASE SetView \/ ReadAll \/ RestoreView \/ CloseFile
        BY <1>1, <2>1, <3>1, <3>4 DEF SetView, ReadAll, RestoreView, CloseFile, At, IndexInv
      <3>5. QED
        BY <2>4, <3>2, <3>3, <3>4
    <2>5. ASSUME NEW m \in {"rw", "ro"}, OpenFile(m) PROVE IndexInv(r)'
      BY <2>5 DEF OpenFile, IndexInv
    <2>6. CASE UNCHANGED vars
      BY <1>1, <2>1, <2>6 DEF vars, metaVars, IndexInv
    <2>7. QED
      BY <1>4, <2>2, <2>3, <2>4, <2>5, <2>6 DEF Next, Collective, Finished
  <1>5. QED
    BY <1>2, <1>3, <1>4
\* A rank in a call is in one that waits.
LEMMA InCall ==
  ASSUME TypeInv, NEW r \in Ranks, CallInv(r), ~Out(r)
  PROVE  ncalls[r] \in 1 .. Len(prog) /\ Op(r) # "bread"
  <1>1. ncalls[r] \in Nat /\ ncalls[r] <= Len(prog) /\ Len(prog) \in Nat
    BY LenProperties DEF TypeInv, TypeOK, AppType
  <1>2. pc[r] # "app" /\ ncalls[r] # 0
    BY DEF Out, CallInv
  <1>3. Op(r) # "bread"
    BY <1>2 DEF CallInv
  <1>4. QED
    BY <1>1, <1>2, <1>3

\* Two ranks keep their places.
Stays(r) ==
    Out(r)' = Out(r) /\ ncalls'[r] = ncalls[r] /\ (~Out(r) => NextWait(r)' = NextWait(r))

LEMMA TogetherStays ==
  ASSUME TypeInv, ProgGrows, NEW r \in Ranks, NEW q \in Ranks, Together(r, q), Stays(r), Stays(q),
         Out(r) /\ ~Out(q) => First(q)' = First(q)
  PROVE  Together(r, q)'
  <1>1. /\ ncalls[r] \in Nat /\ ncalls[q] \in Nat /\ Len(prog) \in Nat
        /\ ncalls[r] <= Len(prog) /\ ncalls[q] <= Len(prog)
    BY LenProperties DEF TypeInv, TypeOK, AppType
  <1>2. \A m, n \in Nat : 1 <= m /\ n <= Len(prog) /\ OnlyBuffered(prog, m, n) => OnlyBuffered(prog', m, n)
    BY <1>1 DEF OnlyBuffered, ProgGrows
  <1>3. ncalls'[r] = ncalls[r] /\ ncalls'[q] = ncalls[q] /\ Out(r)' = Out(r) /\ Out(q)' = Out(q)
    BY DEF Stays
  <1>4. ASSUME Out(r), Out(q) PROVE OnlyBuffered(prog', ncalls[r] + 1, ncalls[q])
    BY <1>1, <1>2, <1>4 DEF Together
  <1>5. ASSUME Out(r), ~Out(q)
        PROVE  /\ ncalls[r] < ncalls[q] /\ OnlyBuffered(prog', ncalls[r] + 1, ncalls[q] - 1)
               /\ NextWait(q)' = First(q)'
    <2>1. ncalls[r] < ncalls[q] /\ OnlyBuffered(prog, ncalls[r] + 1, ncalls[q] - 1) /\ NextWait(q) = First(q)
      BY <1>5 DEF Together
    <2>2. OnlyBuffered(prog', ncalls[r] + 1, ncalls[q] - 1)
      BY <1>1, <1>2, <2>1
    <2>3. QED
      BY <1>5, <2>1, <2>2 DEF Stays
  <1>6. ASSUME ~Out(r), ~Out(q) PROVE ncalls[r] = ncalls[q] /\ NextWait(r)' = NextWait(q)'
    BY <1>6 DEF Together, Stays
  <1>7. QED
    BY <1>3, <1>4, <1>5, <1>6 DEF Together

\* The entries of the file are of writes of the history.
IdsInv == \A e \in Logged : e.id \in Ids

LEMMA IdsStep ==
  ASSUME TypeInv, \A r \in Ranks : RecordInv(r), IdsInv, [Next]_vars
  PROVE  IdsInv'
  <1> SUFFICES ASSUME NEW e \in Logged' PROVE e.id \in Ids'
    BY DEF IdsInv
  <1>1. CASE e \in Logged
    BY <1>1, SizeKept DEF IdsInv
  <1>2. ASSUME NEW r \in Ranks, e \in Range(wreqs[r]) PROVE e.id \in Ids'
    <2>1. PICK k \in 1 .. Len(wreqs[r]) : e = wreqs[r][k]
      BY <1>2, LenProperties DEF Range, TypeInv, TypeOK, ReqType
    <2>2. e.id \in Ids
      BY <2>1 DEF TypeInv, IdsOK
    <2>3. QED
      BY <2>2, SizeKept
  <1>3. e \in Logged \/ \E r \in Ranks : WriteSection(r) /\ e \in Range(wreqs[r])
    BY EntriesFrom DEF Logged
  <1>4. QED
    BY <1>1, <1>2, <1>3

\* What a rank will find is settled while the entries stay.
LEMMA FindsSame ==
  ASSUME TypeInv, IdsInv, [Next]_vars, Logged' = Logged,
         NEW r \in Ranks, ncalls[r] # 0, ncalls'[r] = ncalls[r]
  PROVE  Op(r)' = Op(r) /\ Finds(r)' = Finds(r)
  <1>1. Wanted(prog', ncalls[r]) = Wanted(prog, ncalls[r]) /\ Op(r)' = Op(r)
    BY ProgSame, ProgGrowth DEF Op
  <1>2. \A e \in Logged : hist'[e.id] = hist[e.id]
    BY SizeKept DEF IdsInv
  <1>3. \A s : {e \in Logged' : hist'[e.id].blk \in s} = {e \in Logged : hist[e.id].blk \in s}
    BY <1>2
  <1>4. QED
    BY <1>1, <1>3 DEF Finds, Hits, BlkOf
LEMMA StaysSame ==
  ASSUME TypeInv, IdsInv, [Next]_vars, NEW r \in Ranks, CallInv(r), Same(r),
         Logged' = Logged \/ pc[r] \in {"section", "barrier"}
  PROVE  Stays(r)
  <1>1. Out(r)' = Out(r) /\ ncalls'[r] = ncalls[r]
    BY DEF Same, Out
  <1>2. pc[r] # "app" => ncalls[r] # 0
    BY DEF CallInv
  <1>3. CASE pc[r] \in {"section", "barrier"}
    BY <1>1, <1>3 DEF Same, Stays, NextWait
  <1>4. CASE Logged' = Logged /\ ~Out(r)
    <2>1. Op(r)' = Op(r) /\ Finds(r)' = Finds(r)
      BY <1>1, <1>2, <1>4, FindsSame DEF Out
    <2>2. Lookup(r)' = Lookup(r)
      BY <2>1, DirtySame DEF Lookup
    <2>3. QED
      BY <1>1, <2>1, <2>2 DEF Stays, NextWait, Same
  <1>5. CASE Out(r)
    BY <1>1, <1>5 DEF Stays
  <1>6. QED
    BY <1>3, <1>4, <1>5

LEMMA FirstSame ==
  ASSUME TypeInv, IdsInv, [Next]_vars, NEW r \in Ranks, CallInv(r), ~Out(r), Logged' = Logged,
         ncalls'[r] = ncalls[r], mode' = mode, Dirty(r)' = Dirty(r)
  PROVE  First(r)' = First(r)
  <1>1. ncalls[r] # 0
    BY DEF CallInv, Out
  <1>2. Op(r)' = Op(r) /\ Finds(r)' = Finds(r)
    BY <1>1, FindsSame
  <1>3. QED
    BY <1>2 DEF First, Lookup

\* A rank's own step inside a call does not change where it waits next.
LEMMA StaysLocal ==
  ASSUME TypeInv, NumberInv, IdsInv, [Next]_vars, NEW r \in Ranks, CallInv(r), IndexInv(r), LocalStep(r)
  PROVE  Stays(r)
  <1>1. UNCHANGED <<prog, ncalls, mode>> /\ Op(r)' = Op(r)
    BY LocalProg
  <1>2. Dirty(r)' = Dirty(r)
    BY DirtyLocal, ContOK DEF Flushing
  <1>3. pc[r] # "app" /\ ncalls[r] # 0
    BY DEF LocalStep, PushMerged, Pack, WriteData, WriteSection, MetaClean, Search, Return, CallInv
  <1>4. Logged' = Logged => Finds(r)' = Finds(r)
    BY <1>1, <1>3, FindsSame
  <1>5. ASSUME ~ WriteSection(r) PROVE Logged' = Logged
    <2>1. UNCHANGED mdsets
      BY <1>5 DEF LocalStep, PushMerged, Pack, WriteData, MetaClean, Search, Return, fileVars
    <2>2. QED
      BY <2>1 DEF Logged, EntriesIn
  <1> USE DEF TypeInv, TypeOK, StepType
  <1>6. CASE PushMerged(r)
    <2>1. pc[r] = "push" /\ pc'[r] \in {"push", "pack"}
      BY <1>6 DEF PushMerged, Goto
    <2>2. QED
      BY <1>1, <2>1 DEF Stays, Out, NextWait
  <1>7. CASE Pack(r)
    <2>1. pc[r] = "pack" /\ pc'[r] \in {"pack", "scan"}
      BY <1>7 DEF Pack, Goto
    <2>2. QED
      BY <1>1, <2>1 DEF Stays, Out, NextWait
  <1>8. CASE WriteData(r)
    <2>1. pc[r] = "write" /\ pc'[r] = cont[r] /\ cont[r] \in {"app", "search", "gather"}
      BY <1>8, ContOK DEF WriteData, Goto, Flushing
    <2>2. Dirty(r)
      BY <2>1 DEF Dirty
    <2>3. CASE cont[r] = "app"
      BY <1>1, <2>1, <2>3 DEF Stays, Out
    <2>4. CASE cont[r] = "gather"
      BY <1>1, <2>1, <2>4 DEF Stays, Out, NextWait
    <2>5. CASE cont[r] = "search"
      <3>1. Lookup(r)' = "gather"
        BY <1>2, <2>2 DEF Lookup
      <3>2. QED
        BY <1>1, <2>1, <2>5, <3>1 DEF Stays, Out, NextWait
    <2>6. QED
      BY <2>1, <2>3, <2>4, <2>5
  <1>9. CASE WriteSection(r)
    <2>1. pc[r] = "section" /\ pc'[r] = "barrier"
      BY <1>9 DEF WriteSection, Goto
    <2>2. QED
      BY <1>1, <2>1 DEF Stays, Out, NextWait
  <1>10. CASE MetaClean(r)
    <2>1. pc[r] = "clean" /\ pc'[r] = IF Op(r) = "close" THEN "closing" ELSE "search"
      BY <1>10 DEF MetaClean, Goto
    <2>2. Finds(r)' = Finds(r)
      BY <1>4, <1>5, <2>1 DEF WriteSection
    <2>3. ~ Dirty(r)'
      BY <1>2, <2>1 DEF Dirty
    <2>4. Lookup(r)' = Finds(r)
      BY <2>2, <2>3 DEF Lookup
    <2>5. CASE Op(r) = "close"
      BY <1>1, <2>1, <2>5 DEF Stays, Out, NextWait
    <2>6. CASE Op(r) # "close"
      BY <1>1, <2>1, <2>4, <2>6 DEF Stays, Out, NextWait
    <2>7. QED
      BY <2>5, <2>6
  <1>11. CASE Search(r)
    <2>1. pc[r] = "search"
      BY <1>11 DEF Search
    <2>2. CASE metadirty[r]
      <3>1. pc'[r] = "gather" /\ Lookup(r) = "gather"
        BY <1>11, <2>1, <2>2 DEF Search, Goto, Lookup, Dirty
      <3>2. QED
        BY <1>1, <2>1, <3>1 DEF Stays, Out, NextWait
    <2>3. CASE ~ metadirty[r]
      <3>1. rd[r] = Wanted(prog, ncalls[r])
        <4>1. Op(r) \in {"flush", "read"}
          BY <2>1 DEF CallInv, Reads
        <4>2. QED
          BY <2>1, <4>1 DEF CallInv, Looking
      <3>2. pc'[r] = Finds(r)
        BY <1>11, <2>3, <3>1, SearchIndex DEF Finds
      <3>3. Lookup(r) = Finds(r)
        BY <2>1, <2>3 DEF Lookup, Dirty
      <3>4. Finds(r) \in {"view", "readall"}
        BY DEF Finds
      <3>5. QED
        BY <1>1, <2>1, <3>2, <3>3, <3>4 DEF Stays, Out, NextWait
    <2>4. QED
      BY <2>2, <2>3
  <1>12. CASE Return(r)
    <2>1. pc[r] = "return" /\ pc'[r] = "app"
      BY <1>12 DEF Return, Goto
    <2>2. QED
      BY <1>1, <2>1 DEF Stays, Out
  <1>13. QED
    BY <1>6, <1>7, <1>8, <1>9, <1>10, <1>11, <1>12 DEF LocalStep
LEMMA DirtyStep ==
  ASSUME TypeInv, AgreeInv, [Next]_vars, NEW x \in Ranks, NEW y \in Ranks
  PROVE  Dirty(x)' = Dirty(y)'
  <1>1. Dirty(x) = Dirty(y)
    BY DEF AgreeInv
  <1>2. ASSUME NEW q \in Ranks, pc[q] \in Flushing PROVE cont[q] \in {"app", "search", "gather"}
    BY <1>2, ContOK DEF AgreeInv
  <1>3. ASSUME NEW r \in Ranks, (\E b \in Blocks : Write(r, b)) \/ Call(r) \/ LocalStep(r),
               NEW q \in Ranks
        PROVE  Dirty(q)' = Dirty(q)
    <2>1. CASE q = r
      BY <1>2, <1>3, <2>1, DirtyLocal DEF Flushing
    <2>2. CASE q # r
      BY <1>3, <2>2, OthersSame, DirtySame
    <2>3. QED
      BY <2>1, <2>2
  <1>4. CASE Collective \/ \E m \in {"rw", "ro"} : OpenFile(m)
    <2>1. \A r \in Ranks : cont[r] \in Steps \ {"write", "clean"} \/ pc[r] # "scan"
      BY <1>2 DEF Steps, Flushing
    <2>2. \A r, q \in Ranks : Dirty(r) = Dirty(q)
      BY DEF AgreeInv
    <2>3. QED
      BY <1>4, <2>1, <2>2, DirtyCollective
  <1>5. CASE UNCHANGED vars
    BY <1>1, <1>5 DEF vars, metaVars, Dirty
  <1>6. QED
    BY <1>1, <1>3, <1>4, <1>5 DEF Next, Finished

\* A write, and a step inside a call.
LEMMA TogetherLocal ==
  ASSUME TypeInv, NumberInv, IdsInv, AgreeInv, [Next]_vars, NEW r \in Ranks,
         (\E b \in Blocks : Write(r, b)) \/ LocalStep(r), NEW x \in Ranks, NEW y \in Ranks
  PROVE  Together(x, y)'
  <1>1. ProgGrows /\ UNCHANGED mode
    BY ProgGrowth, LocalProg DEF Write, fileVars
  <1>2. Logged' = Logged \/ WriteSection(r)
    <2>1. UNCHANGED mdsets \/ WriteSection(r)
      BY DEF Write, LocalStep, PushMerged, Pack, WriteData, MetaClean, Search, Return, fileVars
    <2>2. QED
      BY <2>1 DEF Logged, EntriesIn
  <1>3. WriteSection(r) => \A q \in Ranks : pc[q] \in {"section", "barrier"}
    BY AllAtSection DEF AgreeInv, WriteSection
  <1>4. ASSUME NEW q \in Ranks PROVE Stays(q) /\ ncalls'[q] = ncalls[q]
    <2>1. CallInv(q) /\ IndexInv(q)
      BY DEF AgreeInv
    <2>2. CASE q = r /\ LocalStep(r)
      BY <2>1, <2>2, StaysLocal DEF Stays
    <2>3. CASE q # r \/ \E b \in Blocks : Write(r, b)
      <3>1. Same(q)
        <4>1. CASE q # r
          BY <4>1, OthersSame
        <4>2. ASSUME NEW b \in Blocks, Write(r, b) PROVE Same(q)
          BY <4>2 DEF Write, Same, readVars, metaVars
        <4>3. QED
          BY <2>3, <4>1, <4>2
      <3>2. QED
        BY <1>2, <1>3, <2>1, <3>1, StaysSame DEF Stays
    <2>4. QED
      BY <2>2, <2>3
  <1>5. ASSUME Out(x), ~Out(y) PROVE First(y)' = First(y)
    <2>1. ~ WriteSection(r)
      BY <1>3, <1>5 DEF Out
    <2>2. Dirty(y)' = Dirty(y)
      <3>1. CASE y = r
        <4>1. pc[r] \in Flushing => cont[r] \in {"app", "search", "gather"}
          BY ContOK DEF AgreeInv
        <4>2. QED
          BY <3>1, <4>1, DirtyLocal DEF Flushing
      <3>2. CASE y # r
        BY <3>2, OthersSame, DirtySame
      <3>3. QED
        BY <3>1, <3>2
    <2>3. QED
      BY <1>1, <1>2, <1>4, <1>5, <2>1, <2>2, FirstSame DEF AgreeInv
  <1>6. Together(x, y)
    BY DEF AgreeInv
  <1>7. QED
    BY <1>1, <1>4, <1>5, <1>6, TogetherStays

\* A call that waits waits first where First says.
LEMMA CallFirst ==
  ASSUME UniformReads, TypeInv, NEW r \in Ranks, Call(r), ~ (\E s \in Selections \ {{}} : CallBufferedRead(r, s))
  PROVE  /\ ~Out(r)' /\ NextWait(r)' = First(r)' /\ Op(r)' # "bread"
         /\ \E op, sel : Joins(r, op, sel) /\ op # "bread"
  <1> USE DEF TypeInv, TypeOK, StepType
  <1>1. ASSUME NEW op, NEW sel, Joins(r, op, sel) PROVE Op(r)' = op
    <2>1. ncalls'[r] = ncalls[r] + 1 /\ prog'[ncalls[r] + 1].op = op
      BY <1>1, JoinsCall
    <2>2. QED
      BY <2>1, Zenon DEF Op
  <1>2. CASE CallFlush(r)
    <2>1. Joins(r, "flush", {}) /\ pc'[r] = "pending" /\ Op(r)' = "flush"
      BY <1>1, <1>2 DEF CallFlush, Goto
    <2>2. ~Out(r)' /\ NextWait(r)' = First(r)' /\ Op(r)' # "bread"
      BY <2>1 DEF Out, NextWait, First
    <2>3. QED
      BY <2>1, <2>2
  <1>3. ASSUME NEW s \in Selections, CallRead(r, s)
        PROVE  /\ ~Out(r)' /\ NextWait(r)' = First(r)' /\ Op(r)' # "bread"
               /\ \E op, sel : Joins(r, op, sel) /\ op # "bread"
    <2>1. s # {}
      BY DEF Selections
    <2>2. Joins(r, "read", s) /\ Op(r)' = "read" /\ pc'[r] = IF NP = 1 THEN "pending" ELSE "search"
      BY <1>1, <1>3, <2>1 DEF CallRead, Goto, FlushesBeforeRead
    <2>3. ~Out(r)' /\ NextWait(r)' = First(r)' /\ Op(r)' # "bread"
      BY <2>2 DEF Out, NextWait, First
    <2>4. QED
      BY <2>2, <2>3
  <1>4. CASE CallClose(r)
    <2>1. Joins(r, "close", {}) /\ Op(r)' = "close" /\ mode' = mode
          /\ pc'[r] = IF mode = "ro" THEN "closing" ELSE "push"
      BY <1>1, <1>4 DEF CallClose, Goto, fileVars
    <2>2. ~Out(r)' /\ NextWait(r)' = First(r)' /\ Op(r)' # "bread"
      BY <2>1 DEF Out, NextWait, First
    <2>3. QED
      BY <2>1, <2>2
  <1>5. QED
    BY <1>2, <1>3, <1>4 DEF Call
\* A rank makes a buffered read; x is any other rank.
LEMMA TogetherBuffered ==
  ASSUME UniformReads, TypeInv, AgreeInv, NEW r \in Ranks, NEW s, Joins(r, "bread", s), Out(r)',
         NEW x \in Ranks, x # r, Stays(x), ~Out(x) => First(x)' = First(x)
  PROVE  Together(r, x)' /\ Together(x, r)'
  <1> DEFINE n == ncalls[r]
             k == ncalls[x]
  <1>1. /\ Out(r) /\ n \in Nat /\ n <= Len(prog) /\ ncalls'[r] = n + 1 /\ ProgGrows
        /\ n + 1 <= Len(prog') /\ prog'[n + 1].op = "bread"
    BY JoinsCall DEF Out
  <1>2. k \in Nat /\ k <= Len(prog) /\ Len(prog) \in Nat /\ Together(r, x) /\ Together(x, r)
    BY LenProperties DEF TypeInv, TypeOK, AppType, AgreeInv
  <1>3. ncalls'[x] = k /\ Out(x)' = Out(x) /\ (~Out(x) => NextWait(x)' = NextWait(x))
    BY DEF Stays
  <1>4. \A i \in 1 .. Len(prog) : prog'[i] = prog[i]
    BY <1>1 DEF ProgGrows
  <1>5. CASE Out(x)
    <2>1. OnlyBuffered(prog, n + 1, k) /\ OnlyBuffered(prog, k + 1, n)
      BY <1>1, <1>2, <1>5 DEF Together
    <2> HIDE DEF n, k
    <2>2. OnlyBuffered(prog', n + 1 + 1, k)
      BY <1>1, <1>2, <1>4, <2>1 DEF OnlyBuffered
    <2>3. OnlyBuffered(prog', k + 1, n + 1)
      BY <1>1, <1>2, <1>4, <2>1 DEF OnlyBuffered
    <2> USE DEF n, k
    <2>4. QED
      BY <1>1, <1>3, <1>5, <2>2, <2>3 DEF Together
  <1>6. CASE ~Out(x)
    <2>1. n < k /\ OnlyBuffered(prog, n + 1, k - 1) /\ NextWait(x) = First(x)
      BY <1>1, <1>2, <1>6 DEF Together
    <2>2. prog[k].op # "bread" /\ k \in 1 .. Len(prog)
      BY <1>6, InCall DEF AgreeInv, Op
    <2> HIDE DEF n, k
    <2>3. n + 1 # k
      BY <1>1, <1>4, <2>2
    <2>4. n + 1 < k /\ OnlyBuffered(prog', n + 1 + 1, k - 1)
      BY <1>1, <1>2, <1>4, <2>1, <2>3 DEF OnlyBuffered
    <2>5. QED
      BY <1>1, <1>3, <1>6, <2>1, <2>4 DEF Together, n, k
  <1>7. QED
    BY <1>5, <1>6

\* A rank makes a call that waits.
LEMMA TogetherWaits ==
  ASSUME UniformReads, TypeInv, AgreeInv, NEW r \in Ranks, NEW op, NEW sel, Joins(r, op, sel),
         op # "bread", ~Out(r)', NextWait(r)' = First(r)',
         NEW x \in Ranks, x # r, Stays(x), ~Out(x) => First(x)' = First(x),
         Dirty(x)' = Dirty(r)'
  PROVE  Together(r, x)' /\ Together(x, r)'
  <1> DEFINE n == ncalls[r]
             k == ncalls[x]
  <1>1. /\ Out(r) /\ n \in Nat /\ n <= Len(prog) /\ ncalls'[r] = n + 1 /\ ProgGrows
        /\ n + 1 <= Len(prog') /\ prog'[n + 1].op = op
    BY JoinsCall DEF Out
  <1>2. k \in Nat /\ k <= Len(prog) /\ Len(prog) \in Nat /\ Together(r, x) /\ Together(x, r)
    BY LenProperties DEF TypeInv, TypeOK, AppType, AgreeInv
  <1>3. ncalls'[x] = k /\ Out(x)' = Out(x) /\ (~Out(x) => NextWait(x)' = NextWait(x))
    BY DEF Stays
  <1>4. \A i \in 1 .. Len(prog) : prog'[i] = prog[i]
    BY <1>1 DEF ProgGrows
  <1>5. CASE Out(x)
    <2>1. OnlyBuffered(prog, n + 1, k) /\ OnlyBuffered(prog, k + 1, n)
      BY <1>1, <1>2, <1>5 DEF Together
    <2> HIDE DEF n, k
    <2>2. k <= n
      <3>1. ASSUME n < k PROVE FALSE
        <4>1. n + 1 \in 1 .. Len(prog) /\ n + 1 \in n + 1 .. k
          BY <1>1, <1>2, <3>1
        <4>2. prog[n + 1].op = "bread"
          BY <2>1, <4>1 DEF OnlyBuffered
        <4>3. QED
          BY <1>1, <1>4, <4>1, <4>2
      <3>2. QED
        BY <1>1, <1>2, <3>1
    <2>3. k < n + 1 /\ OnlyBuffered(prog', k + 1, (n + 1) - 1)
      BY <1>1, <1>2, <1>4, <2>1, <2>2 DEF OnlyBuffered
    <2>4. QED
      BY <1>1, <1>3, <1>5, <2>3 DEF Together, n, k
  <1>6. CASE ~Out(x)
    <2>1. n < k /\ OnlyBuffered(prog, n + 1, k - 1) /\ NextWait(x) = First(x)
      BY <1>1, <1>2, <1>6 DEF Together
    <2> HIDE DEF n, k
    <2>2. k = n + 1
      <3>1. ASSUME n + 1 < k PROVE FALSE
        <4>1. n + 1 \in 1 .. Len(prog) /\ n + 1 \in n + 1 .. k - 1
          BY <1>1, <1>2, <3>1
        <4>2. prog[n + 1].op = "bread"
          BY <2>1, <4>1 DEF OnlyBuffered
        <4>3. QED
          BY <1>1, <1>4, <4>1, <4>2
      <3>2. QED
        BY <1>1, <1>2, <2>1, <3>1
    <2>3. ncalls'[x] = ncalls'[r] /\ Op(x)' = Op(r)'
      BY <1>1, <1>3, <2>2 DEF Op, n, k
    <2>4. First(x)' = First(r)'
      BY <2>3 DEF First, Lookup, Finds
    <2>5. NextWait(x)' = NextWait(r)' /\ ncalls'[x] = ncalls'[r]
      BY <1>1, <1>3, <1>6, <2>1, <2>2, <2>4
    <2>6. QED
      BY <1>3, <1>6, <2>5 DEF Together
  <1>7. QED
    BY <1>5, <1>6
LEMMA TogetherCall ==
  ASSUME UniformReads, TypeInv, IdsInv, AgreeInv, [Next]_vars, NEW r \in Ranks, Call(r),
         NEW x \in Ranks, NEW y \in Ranks
  PROVE  Together(x, y)'
  <1>1. UNCHANGED <<mode, mdsets>> /\ Logged' = Logged
    BY DEF Call, CallFlush, CallRead, CallBufferedRead, CallClose, fileVars, Logged, EntriesIn
  <1>2. ASSUME NEW q \in Ranks, q # r
        PROVE  /\ Stays(q) /\ (~Out(q) => First(q)' = First(q)) /\ Dirty(q)' = Dirty(r)'
    <2>1. Same(q) /\ CallInv(q)
      BY <1>2, OthersSame DEF AgreeInv
    <2>2. Stays(q) /\ Dirty(q)' = Dirty(q) /\ ncalls'[q] = ncalls[q]
      BY <1>1, <2>1, StaysSame, DirtySame DEF Same
    <2>3. ~Out(q) => First(q)' = First(q)
      BY <1>1, <2>1, <2>2, FirstSame
    <2>4. QED
      BY <2>2, <2>3, DirtyStep
  <1>3. CASE x # r /\ y # r
    BY <1>2, <1>3, TogetherStays, ProgGrowth DEF AgreeInv
  <1>4. CASE x = r /\ y = r
    <2>1. ncalls'[r] \in Nat
      <3>1. PICK op, sel : Joins(r, op, sel)
        BY DEF Call, CallFlush, CallRead, CallBufferedRead, CallClose
      <3>2. QED
        BY <3>1, JoinsCall
    <2>2. QED
      BY <1>4, <2>1 DEF Together, OnlyBuffered
  <1>5. ASSUME NEW q \in Ranks, q # r PROVE Together(r, q)' /\ Together(q, r)'
    <2>1. ASSUME NEW s \in Selections \ {{}}, CallBufferedRead(r, s) PROVE Together(r, q)' /\ Together(q, r)'
      <3>1. Joins(r, "bread", s) /\ pc' = pc
        BY <2>1 DEF CallBufferedRead
      <3>2. Out(r)'
        BY <3>1 DEF Joins, Out
      <3>3. QED
        BY <1>2, <1>5, <3>1, <3>2, TogetherBuffered
    <2>2. ASSUME ~ \E s \in Selections \ {{}} : CallBufferedRead(r, s)
          PROVE  Together(r, q)' /\ Together(q, r)'
      <3>1. /\ ~Out(r)' /\ NextWait(r)' = First(r)'
            /\ \E op, sel : Joins(r, op, sel) /\ op # "bread"
        BY <2>2, CallFirst
      <3>2. QED
        BY <1>2, <1>5, <3>1, TogetherWaits
    <2>3. QED
      BY <2>1, <2>2
  <1>6. QED
    BY <1>3, <1>4, <1>5

\* After a collective all ranks have left the call, or all wait for the same.
LEMMA TogetherAll ==
  ASSUME TypeInv, UNCHANGED ncalls, NEW x \in Ranks, NEW y \in Ranks, ncalls[x] = ncalls[y],
         \/ Out(x)' /\ Out(y)'
         \/ ~Out(x)' /\ ~Out(y)' /\ NextWait(x)' = NextWait(y)'
  PROVE  Together(x, y)'
  <1>1. ncalls[x] \in Nat
    BY DEF TypeInv, TypeOK, AppType
  <1>2. CASE Out(x)' /\ Out(y)'
    BY <1>1, <1>2 DEF Together, OnlyBuffered
  <1>3. CASE ~Out(x)' /\ ~Out(y)' /\ NextWait(x)' = NextWait(y)'
    BY <1>3 DEF Together
  <1>4. QED
    BY <1>2, <1>3

LEMMA TogetherCollective ==
  ASSUME UniformReads, TypeInv, NumberInv, IdsInv, AgreeInv, [Next]_vars,
         Collective \/ \E m \in {"rw", "ro"} : OpenFile(m), NEW x \in Ranks, NEW y \in Ranks
  PROVE  Together(x, y)'
  <1>1. UNCHANGED <<prog, ncalls>> /\ Op(x)' = Op(x) /\ Op(y)' = Op(y)
    BY CollectiveProg
  <1>2. PICK l \in Waits \cup {"closed"} : At(l)
    BY DEF Collective, AllreducePending, ScanAndCreate, GatherAndCreate, MetaBarrier, SetView, ReadAll,
           RestoreView, CloseFile, OpenFile, Waits
  <1>3. \A q \in Ranks : ncalls[q] = ncalls[x] /\ Op(q) = Op(x) /\ pc[q] = l
    BY <1>2, SameCall DEF AgreeInv, At
  <1>4. Dirty(x)' = Dirty(y)' /\ CallInv(x) /\ CallInv(y) /\ IndexInv(x) /\ IndexInv(y)
    BY DirtyStep DEF AgreeInv
  <1>5. ncalls'[x] = ncalls'[y] /\ Op(x)' = Op(y)'
    BY <1>1, <1>3
  <1>6. Finds(x)' = Finds(y)' /\ Lookup(x)' = Lookup(y)'
    BY <1>4, <1>5 DEF Finds, Lookup
  <1>7. pc'[x] = pc'[y] /\ (pc'[x] = "write" => cont'[x] = cont'[y])
    <2>1. CASE AllreducePending
      <3>1. At("pending")
        BY <2>1 DEF AllreducePending
      <3>2. \A q \in Ranks : ncalls[q] = ncalls[y]
        BY <1>3
      <3>3. AfterWrites(x) = After(prog, ncalls[x]) /\ AfterWrites(y) = After(prog, ncalls[y])
        BY <1>3, <3>1, <3>2, AfterWritesIs DEF AgreeInv
      <3>4. AfterWrites(x) = AfterWrites(y) /\ AnyWrites(x) = AnyWrites(y)
        BY <1>3, <3>3 DEF AnyWrites
      <3>5. QED
        BY <2>1, <3>4 DEF AllreducePending
    <2>2. CASE ScanAndCreate
      <3>1. At("scan") /\ UNCHANGED cont /\ (pc' = cont \/ pc' = [q \in Ranks |-> "write"])
        BY <2>2 DEF ScanAndCreate
      <3>2. cont[x] = cont[y]
        BY <1>3, <1>4, <3>1 DEF At, CallInv, Flushing
      <3>3. QED
        BY <3>1, <3>2
    <2>3. CASE GatherAndCreate
      <3>1. pc' = [q \in Ranks |-> "clean"] \/ pc' = [q \in Ranks |-> "section"]
        BY <2>3 DEF GatherAndCreate
      <3>2. QED
        BY <3>1
    <2>4. CASE MetaBarrier
      BY <2>4 DEF MetaBarrier
    <2>5. CASE SetView
      BY <2>5 DEF SetView
    <2>6. CASE ReadAll
      <3>1. At("readall") /\ pc[x] = "readall" /\ pc[y] = "readall"
        BY <2>6 DEF ReadAll, At
      <3>2. ASSUME NEW q \in {x, y} PROVE idx[q] = Logged /\ rd[q] = Wanted(prog, ncalls[q])
        <4>1. pc[q] = "readall" /\ CallInv(q) /\ IndexInv(q)
          BY <1>4, <3>1
        <4>2. idx[q] = Logged
          BY <4>1 DEF IndexInv
        <4>3. Op(q) \in {"flush", "read"}
          BY <4>1 DEF CallInv, Reads
        <4>4. QED
          BY <4>1, <4>2, <4>3 DEF CallInv, Looking
      <3>3. Hits(idx[x], rd[x]) = Hits(idx[y], rd[y])
        BY <1>3, <3>2
      <3>4. QED
        BY <2>6, <3>3 DEF ReadAll
    <2>7. CASE RestoreView
      BY <2>7 DEF RestoreView
    <2>8. CASE CloseFile
      BY <2>8 DEF CloseFile
    <2>9. ASSUME NEW m \in {"rw", "ro"}, OpenFile(m) PROVE pc'[x] = pc'[y] /\ pc'[x] # "write"
      BY <2>9 DEF OpenFile
    <2>10. QED
      BY <2>1, <2>2, <2>3, <2>4, <2>5, <2>6, <2>7, <2>8, <2>9 DEF Collective
  <1>8. Out(x)' = Out(y)'
    BY <1>7 DEF Out
  <1>9. NextWait(x)' = NextWait(y)'
    BY <1>5, <1>6, <1>7 DEF NextWait
  <1>10. QED
    BY <1>1, <1>3, <1>8, <1>9, TogetherAll

LEMMA AgreeStep ==
  ASSUME UniformReads, Inv, NumberInv, IdsInv, AgreeInv, [Next]_vars
  PROVE  AgreeInv'
  <1>1. TypeInv /\ ProgGrows
    BY ProgGrowth DEF Inv
  <1>2. ASSUME NEW r \in Ranks PROVE IndexInv(r)'
    <2>1. SectionInv
      BY AllAtSection DEF AgreeInv, SectionInv
    <2>2. QED
      BY <1>1, <2>1, IndexStep DEF AgreeInv, Inv
  <1>3. ASSUME NEW r \in Ranks, NEW q \in Ranks PROVE Dirty(r)' = Dirty(q)'
    BY <1>1, DirtyStep
  <1>4. ASSUME NEW r \in Ranks PROVE CallInv(r)'
    <2>1. CallInv(r)
      BY DEF AgreeInv
    <2>2. CASE UNCHANGED vars
      <3>1. Same(r)
        BY <2>2 DEF vars, appVars, readVars, metaVars, Same
      <3>2. QED
        BY <1>1, <2>1, <3>1, CallSame
    <2>3. ASSUME NEW q \in Ranks, (\E b \in Blocks : Write(q, b)) \/ Call(q) \/ LocalStep(q) PROVE CallInv(r)'
      <3>1. CASE q # r
        BY <1>1, <2>1, <2>3, <3>1, OthersSame, CallSame
      <3>2. ASSUME NEW b \in Blocks, Write(r, b) PROVE CallInv(r)'
        <4>1. Same(r)
          BY <3>2 DEF Write, Same, readVars, metaVars
        <4>2. QED
          BY <1>1, <2>1, <4>1, CallSame
      <3>3. QED
        BY <1>1, <2>1, <2>3, <3>1, <3>2, CallCall, CallLocal
    <2>4. CASE Collective \/ \E m \in {"rw", "ro"} : OpenFile(m)
      <3>1. ASSUME NEW q \in Ranks, pc[r] = "pending", pc[q] = "pending" PROVE ncalls[q] = ncalls[r]
        BY <3>1 DEF AgreeInv, Together, Out
      <3>2. QED
        BY <1>1, <2>4, <3>1, CallCollective DEF AgreeInv
    <2>5. QED
      BY <2>2, <2>3, <2>4 DEF Next, Finished
  <1>5. ASSUME NEW x \in Ranks, NEW y \in Ranks PROVE Together(x, y)'
    <2>1. CASE UNCHANGED vars
      BY <2>1 DEF AgreeInv, vars, appVars, metaVars, fileVars, Together, Out, NextWait, First, Lookup,
                  Finds, Dirty, Logged, EntriesIn, Hits, BlkOf, Op
    <2>2. ASSUME NEW q \in Ranks, (\E b \in Blocks : Write(q, b)) \/ Call(q) \/ LocalStep(q) PROVE Together(x, y)'
      BY <1>1, <2>2, TogetherLocal, TogetherCall
    <2>3. CASE Collective \/ \E m \in {"rw", "ro"} : OpenFile(m)
      BY <1>1, <2>3, TogetherCollective
    <2>4. QED
      BY <2>1, <2>2, <2>3 DEF Next, Finished
  <1>6. QED
    BY <1>2, <1>3, <1>4, <1>5 DEF AgreeInv

LEMMA AgreeInit == Init => AgreeInv /\ IdsInv
  <1> SUFFICES ASSUME Init PROVE AgreeInv /\ IdsInv
    OBVIOUS
  <1>1. \A r \in Ranks : CallInv(r)
    BY QueuedNone DEF Init, CallInv, Flushing, Looking, Reads
  <1>2. \A r \in Ranks : IndexInv(r)
    BY DEF Init, IndexInv
  <1>3. \A r, q \in Ranks : Dirty(r) = Dirty(q)
    BY DEF Init, Dirty
  <1>4. \A r, q \in Ranks : Together(r, q)
    BY DEF Init, Together, Out, OnlyBuffered
  <1>5. IdsInv
    BY EmptySeq DEF Init, IdsInv, Logged, EntriesIn
  <1>6. QED
    BY <1>1, <1>2, <1>3, <1>4, <1>5 DEF AgreeInv

\* No two ranks ever wait in different collectives, or in the same one of
\* different calls, however far one runs ahead of the other between them: the
\* collectives of flush, metadata flush, read and close are reached in the same
\* order on every rank.  (With empty selections it is not so, see ReadApart.)
THEOREM RanksMeet ==
  ASSUME UniformReads \/ NP = 1
  PROVE  Spec => []CollectivesMatch
  <1>1. CASE NP = 1
    <2>1. CollectivesMatch
      BY <1>1 DEF CollectivesMatch, Ranks
    <2>2. QED
      BY <2>1, PTL
  <1>2. CASE UniformReads
    <2>1. Init => AgreeInv /\ IdsInv
      BY AgreeInit
    <2>2. Inv /\ NumberInv /\ AgreeInv /\ IdsInv /\ [Next]_vars => AgreeInv' /\ IdsInv'
      BY <1>2, AgreeStep, IdsStep DEF Inv
    <2>3. Spec => []AgreeInv
      BY <2>1, <2>2, NumberAlways, PTL DEF Spec
    <2>4. AgreeInv => CollectivesMatch
      BY DEF AgreeInv, Together, Out, NextWait, CollectivesMatch, Waits
    <2>5. QED
      BY <2>3, <2>4, PTL
  <1>3. QED
    BY <1>1, <1>2


-----------------------------------------------------------------------------
(* What the steps do to the queues of a rank.                              *)

\* The rank keeps its requests, though perhaps at other offsets.
SameQueue(r) ==
    /\ Len(wreqs'[r]) = Len(wreqs[r]) /\ mreqs'[r] = mreqs[r]
    /\ \A k \in 1 .. Len(wreqs[r]) : wreqs'[r][k].id = wreqs[r][k].id

\* A new write joins the requests, or the merged ones of its dataset.
Queues(r, b) ==
    LET i == Len(hist) + 1
        d == Dset[b]
    IN  \/ /\ ~Merge /\ mreqs'[r] = mreqs[r]
           /\ Len(wreqs'[r]) = Len(wreqs[r]) + 1 /\ wreqs'[r][Len(wreqs[r]) + 1].id = i
           /\ \A k \in 1 .. Len(wreqs[r]) : wreqs'[r][k] = wreqs[r][k]
        \/ /\ Merge /\ wreqs'[r] = wreqs[r]
           /\ \A e \in 0 .. NDset - 1 : e # d => mreqs'[r][e] = mreqs[r][e]
           /\ Len(mreqs'[r][d]) = Len(mreqs[r][d]) + 1 /\ mreqs'[r][d][Len(mreqs[r][d]) + 1] = i
           /\ \A k \in 1 .. Len(mreqs[r][d]) : mreqs'[r][d][k] = mreqs[r][d][k]

\* The merged requests of dataset d join the requests.
Moves(r, d) ==
    LET n == Len(wreqs[r])
        m == Len(mreqs[r][d])
    IN  /\ Len(wreqs'[r]) = n + m
        /\ \A k \in 1 .. n : wreqs'[r][k] = wreqs[r][k]
        /\ \A k \in 1 .. m : wreqs'[r][n + k].id = mreqs[r][d][k]
        /\ mreqs'[r][d] = <<>>
        /\ \A e \in 0 .. NDset - 1 : e # d => mreqs'[r][e] = mreqs[r][e]

\* The rank deletes its requests, or all that is queued.
Empties(r) == wreqs'[r] = <<>> /\ (mreqs'[r] = mreqs[r] \/ NoMerged(r)')

LEMMA QueueTypes ==
  ASSUME TypeInv, NEW r \in Ranks
  PROVE  /\ Len(wreqs[r]) \in Nat /\ wreqs[r] \in Seq(Request) /\ nflushed[r] \in Nat
         /\ nflushed[r] <= Len(wreqs[r])
         /\ \A d \in 0 .. NDset - 1 : mreqs[r][d] \in Seq(Nat) /\ Len(mreqs[r][d]) \in Nat
         /\ \A k \in 1 .. Len(wreqs[r]) : wreqs[r][k] \in Request /\ wreqs[r][k].id \in Ids
         /\ \A d \in 0 .. NDset - 1 : \A k \in 1 .. Len(mreqs[r][d]) : mreqs[r][d][k] \in Ids
  <1>1. wreqs[r] \in Seq(Request) /\ \A d \in 0 .. NDset - 1 : mreqs[r][d] \in Seq(Nat)
    BY DEF TypeInv, TypeOK, ReqType
  <1>2. \A k \in 1 .. Len(wreqs[r]) : wreqs[r][k] \in Request
    BY <1>1, ElementOfSeq
  <1>3. QED
    BY <1>1, <1>2, LenProperties DEF TypeInv, TypeOK, ReqType, IdsOK

LEMMA WriteQueues ==
  ASSUME TypeInv, NEW r \in Ranks, NEW b \in Blocks, Write(r, b)
  PROVE  /\ Queues(r, b) /\ pc[r] = "app" /\ nflushed' = nflushed /\ UNCHANGED <<pc, epoch>>
         /\ hist' = Append(hist, [rank |-> r, blk |-> b, ep |-> epoch])
         /\ Len(hist') = Len(hist) + 1 /\ Len(hist) \in Nat
         /\ hist'[Len(hist) + 1] = [rank |-> r, blk |-> b, ep |-> epoch]
         /\ \A q \in Ranks : q # r => SameQueue(q)
  <1> DEFINE w == [rank |-> r, blk |-> b, ep |-> epoch]
  <1>1. hist \in Seq(WriteRecord) /\ hist' = Append(hist, w) /\ Len(hist) \in Nat
    BY LenProperties DEF Write, TypeInv, TypeOK, AppType
  <1> HIDE DEF w
  <1>2. Len(hist') = Len(hist) + 1 /\ hist'[Len(hist) + 1] = w
    BY <1>1
  <1>3. pc[r] = "app" /\ nflushed' = nflushed /\ UNCHANGED <<pc, epoch>>
    BY DEF Write
  <1>4. ASSUME NEW q \in Ranks, q # r PROVE SameQueue(q)
    <2>1. wreqs'[q] = wreqs[q] /\ mreqs'[q] = mreqs[q]
      BY <1>4, OthersKept DEF Kept
    <2>2. QED
      BY <2>1 DEF SameQueue
  <1>5. Queues(r, b)
    <2> DEFINE i == Len(hist) + 1
               x == [id |-> i, foff |-> 0]
    <2>1. i = Len(hist') /\ i \in Nat
      BY <1>1, <1>2
    <2>2. CASE Merge
      <3>1. wreqs' = wreqs /\ mreqs' = [mreqs EXCEPT ![r][Dset[b]] = Append(@, i)]
        BY <2>1, <2>2 DEF Write
      <3> DEFINE m == mreqs[r][Dset[b]]
      <3>2. Dset[b] \in 0 .. NDset - 1
        BY DsetAssumption
      <3>3. m \in Seq(Nat) /\ Len(m) \in Nat /\ mreqs[r] \in [0 .. NDset - 1 -> Seq(Nat)]
        BY <3>2, QueueTypes DEF TypeInv, TypeOK, ReqType
      <3>4. mreqs'[r][Dset[b]] = Append(m, i)
            /\ \A e \in 0 .. NDset - 1 : e # Dset[b] => mreqs'[r][e] = mreqs[r][e]
        BY <3>1, <3>2, <3>3 DEF TypeInv, TypeOK, ReqType
      <3> HIDE DEF m, i
      <3>5. /\ Len(Append(m, i)) = Len(m) + 1 /\ Append(m, i)[Len(m) + 1] = i
            /\ \A k \in 1 .. Len(m) : Append(m, i)[k] = m[k]
        BY <2>1, <3>3
      <3>6. QED
        BY <2>2, <3>1, <3>4, <3>5 DEF Queues, m, i
    <2>3. CASE ~Merge
      <3>1. mreqs' = mreqs /\ wreqs'[r] = Append(wreqs[r], x)
        BY <2>1, <2>3 DEF Write, TypeInv, TypeOK, ReqType
      <3>2. x \in Request /\ x.id = i
        BY <2>1 DEF Request
      <3> HIDE DEF x, i
      <3>3. wreqs[r] \in Seq(Request) /\ Len(wreqs[r]) \in Nat
        BY QueueTypes
      <3>4. /\ Len(wreqs'[r]) = Len(wreqs[r]) + 1 /\ wreqs'[r][Len(wreqs[r]) + 1] = x
            /\ \A k \in 1 .. Len(wreqs[r]) : wreqs'[r][k] = wreqs[r][k]
        BY <3>1, <3>2, <3>3
      <3>5. QED
        BY <2>3, <3>1, <3>2, <3>4 DEF Queues, i
    <2>4. QED
      BY <2>2, <2>3
  <1>6. QED
    BY <1>1, <1>2, <1>3, <1>4, <1>5 DEF w

LEMMA QueueStays ==
  ASSUME NEW r, wreqs'[r] = wreqs[r], mreqs'[r] = mreqs[r]
  PROVE  SameQueue(r)
  BY DEF SameQueue

LEMMA PushMoves ==
  ASSUME TypeInv, NEW r \in Ranks, PushMerged(r)
  PROVE  /\ nflushed' = nflushed /\ UNCHANGED <<hist, epoch>>
         /\ pc[r] = "push" /\ pc'[r] \in {"push", "pack"}
         /\ SameQueue(r) \/ \E d \in 0 .. NDset - 1 : Moves(r, d)
  <1>1. /\ nflushed' = nflushed /\ UNCHANGED <<hist, epoch>>
        /\ pc[r] = "push" /\ pc'[r] \in {"push", "pack"}
    BY DEF PushMerged, appVars, Goto, TypeInv, TypeOK, StepType
  <1>2. ASSUME UNCHANGED <<wreqs, mreqs>> PROVE SameQueue(r)
    BY <1>2, QueueStays
  <1>3. ASSUME NEW d \in 0 .. NDset - 1,
               wreqs' = [wreqs EXCEPT ![r] = @ \o [k \in 1 .. Len(mreqs[r][d]) |->
                           [id |-> mreqs[r][d][k], foff |-> 0]]],
               mreqs' = [mreqs EXCEPT ![r][d] = <<>>]
        PROVE  Moves(r, d)
    <2> DEFINE m == mreqs[r][d]
               old == wreqs[r]
               new == [k \in 1 .. Len(m) |-> [id |-> m[k], foff |-> 0]]
    <2>1. m \in Seq(Nat) /\ Len(m) \in Nat /\ old \in Seq(Request) /\ Len(old) \in Nat
      BY QueueTypes
    <2>2. wreqs'[r] = old \o new /\ mreqs'[r] = [mreqs[r] EXCEPT ![d] = <<>>]
          /\ mreqs[r] \in [0 .. NDset - 1 -> Seq(Nat)]
      BY <1>3 DEF TypeInv, TypeOK, ReqType
    <2>3. \A k \in 1 .. Len(m) : m[k] \in Nat
      BY <2>1, ElementOfSeq
    <2>4. new \in [1 .. Len(m) -> Request] /\ \A k \in 1 .. Len(m) : new[k].id = m[k]
      BY <2>3 DEF Request
    <2>5. mreqs'[r][d] = <<>> /\ \A e \in 0 .. NDset - 1 : e # d => mreqs'[r][e] = mreqs[r][e]
      BY <2>2
    <2> HIDE DEF m, old, new
    <2>6. new \in Seq(Request) /\ Len(new) = Len(m)
      BY <2>1, <2>4, SeqOfFunction
    <2>7. /\ Len(wreqs'[r]) = Len(old) + Len(m)
          /\ \A k \in 1 .. Len(old) + Len(m) : wreqs'[r][k] =
               IF k <= Len(old) THEN old[k] ELSE new[k - Len(old)]
      <3>1. /\ Len(old \o new) = Len(old) + Len(new)
            /\ \A k \in 1 .. Len(old) + Len(new) : (old \o new)[k] =
                 IF k <= Len(old) THEN old[k] ELSE new[k - Len(old)]
        BY <2>1, <2>6, ConcatRequests
      <3>2. QED
        BY <2>2, <2>6, <3>1
    <2>8. \A k \in 1 .. Len(old) : wreqs'[r][k] = old[k]
      BY <2>1, <2>7
    <2>9. ASSUME NEW k \in 1 .. Len(m) PROVE wreqs'[r][Len(old) + k].id = m[k]
      <3>1. Len(old) + k \in 1 .. Len(old) + Len(m) /\ ~(Len(old) + k <= Len(old))
            /\ (Len(old) + k) - Len(old) = k
        BY <2>1
      <3>2. wreqs'[r][Len(old) + k] = new[k]
        BY <2>7, <3>1
      <3>3. QED
        BY <2>4, <3>2
    <2>10. QED
      BY <2>5, <2>7, <2>8, <2>9 DEF Moves, m, old
  <1>4. QED
    BY <1>1, <1>2, <1>3 DEF PushMerged

\* Over any step.
LEMMA QueueSteps ==
  ASSUME TypeInv, \A q \in Ranks : QueueInv(q), [Next]_vars, NEW r \in Ranks
  PROVE  \/ SameQueue(r)
         \/ \E b \in Blocks : Write(r, b)
         \/ PushMerged(r)
         \/ Empties(r) /\ nflushed'[r] = 0
  <1>1. ASSUME wreqs'[r] = wreqs[r], mreqs'[r] = mreqs[r] PROVE SameQueue(r)
    BY <1>1, QueueStays
  <1>2. ASSUME NEW q \in Ranks, q # r,
               (\E b \in Blocks : Write(q, b)) \/ Call(q) \/ LocalStep(q)
        PROVE  SameQueue(r)
    BY <1>1, <1>2, OthersKept DEF Kept
  <1>3. CASE Call(r)
    BY <1>1, <1>3 DEF Call, CallFlush, CallRead, CallBufferedRead, CallClose, reqVars
  <1>4. CASE Pack(r)
    <2>1. mreqs' = mreqs
      BY <1>4 DEF Pack
    <2>2. CASE cur[r] < Len(wreqs[r])
      BY <1>4, <2>1, <2>2, PackEffect DEF SameQueue
    <2>3. CASE ~(cur[r] < Len(wreqs[r]))
      BY <1>1, <1>4, <2>1, <2>3 DEF Pack
    <2>4. QED
      BY <2>2, <2>3
  <1>5. CASE WriteData(r)
    <2>1. mreqs' = mreqs
      BY <1>5 DEF WriteData
    <2>2. wreqs'[r] = [k \in 1 .. Len(wreqs[r]) |->
                         IF k \in {j \in 1 .. Len(wreqs[r]) : j > nflushed[r]}
                         THEN [id |-> wreqs[r][k].id, foff |-> wreqs[r][k].foff + foff[r]]
                         ELSE wreqs[r][k]]
      BY <1>5 DEF WriteData, TypeInv, TypeOK, ReqType
    <2>3. DOMAIN wreqs'[r] = 1 .. Len(wreqs[r]) /\ Len(wreqs[r]) \in Nat
      BY <2>2, QueueTypes
    <2>4. \A k \in 1 .. Len(wreqs[r]) : wreqs'[r][k].id = wreqs[r][k].id
      BY <2>2
    <2>5. Len(wreqs'[r]) = Len(wreqs[r])
      BY <2>3
    <2>6. QED
      BY <2>1, <2>4, <2>5 DEF SameQueue
  <1>6. CASE MetaClean(r)
    BY <1>6 DEF MetaClean, Empties, TypeInv, TypeOK, ReqType
  <1>7. CASE WriteSection(r) \/ Search(r) \/ Return(r)
    BY <1>1, <1>7 DEF WriteSection, Search, Return, reqVars
  <1>8. CASE Collective
    BY <1>1, <1>8 DEF Collective, AllreducePending, ScanAndCreate, GatherAndCreate, MetaBarrier,
       SetView, ReadAll, RestoreView, CloseFile, reqVars
  <1>9. ASSUME NEW m \in {"rw", "ro"}, OpenFile(m) PROVE Empties(r) /\ nflushed'[r] = 0
    BY <1>9 DEF OpenFile, Empties, NoMerged
  <1>10. CASE UNCHANGED vars
    BY <1>1, <1>10 DEF vars, reqVars
  <1>11. QED
    BY <1>2, <1>3, <1>4, <1>5, <1>6, <1>7, <1>8, <1>9, <1>10 DEF Next, LocalStep, Finished
-----------------------------------------------------------------------------
(* The order of the requests of a rank.                                    *)

\* What a rank has queued are its own writes, merged by dataset.
OwnInv(r) ==
    /\ \A k \in 1 .. Len(wreqs[r]) : hist[wreqs[r][k].id].rank = r
    /\ \A d \in 0 .. NDset - 1 : \A k \in 1 .. Len(mreqs[r][d]) :
         hist[mreqs[r][d][k]].rank = r /\ Dset[BlkOf(mreqs[r][d][k])] = d
    /\ ~Merge => NoMerged(r)

\* The requests for a block are in the order of the writes, and the merged
\* requests of a dataset come after all others of the dataset.
RisingInv(r) ==
    /\ \A j, k \in 1 .. Len(wreqs[r]) :
         j < k /\ BlkOf(wreqs[r][j].id) = BlkOf(wreqs[r][k].id) => wreqs[r][j].id < wreqs[r][k].id
    /\ \A d \in 0 .. NDset - 1 : \A j, k \in 1 .. Len(mreqs[r][d]) :
         j < k => mreqs[r][d][j] < mreqs[r][d][k]
    /\ \A d \in 0 .. NDset - 1 : \A j \in 1 .. Len(wreqs[r]), k \in 1 .. Len(mreqs[r][d]) :
         Dset[BlkOf(wreqs[r][j].id)] = d => wreqs[r][j].id < mreqs[r][d][k]

\* Neither depends on more than the queue, and on the history as it was.
LEMMA OrderKept ==
  ASSUME TypeInv, [Next]_vars, NEW r \in Ranks, OwnInv(r), RisingInv(r), SameQueue(r)
  PROVE  OwnInv(r)' /\ RisingInv(r)'
  <1>1. \A i \in Ids : hist'[i] = hist[i]
    BY SizeKept
  <1>2. /\ \A k \in 1 .. Len(wreqs[r]) : wreqs[r][k].id \in Ids
        /\ \A d \in 0 .. NDset - 1 : \A k \in 1 .. Len(mreqs[r][d]) : mreqs[r][d][k] \in Ids
    BY QueueTypes
  <1>3. /\ \A k \in 1 .. Len(wreqs[r]) : hist'[wreqs'[r][k].id] = hist[wreqs[r][k].id]
        /\ \A d \in 0 .. NDset - 1 : \A k \in 1 .. Len(mreqs[r][d]) :
             hist'[mreqs[r][d][k]] = hist[mreqs[r][d][k]]
    BY <1>1, <1>2 DEF SameQueue
  <1>4. OwnInv(r)'
    BY <1>3 DEF OwnInv, SameQueue, NoMerged, BlkOf
  <1>5. RisingInv(r)'
    <2>1. /\ Len(wreqs'[r]) = Len(wreqs[r]) /\ mreqs'[r] = mreqs[r]
          /\ \A k \in 1 .. Len(wreqs[r]) : /\ wreqs'[r][k].id = wreqs[r][k].id
                                           /\ hist'[wreqs[r][k].id] = hist[wreqs[r][k].id]
      BY <1>3 DEF SameQueue
    <2>2. \A j, k \in 1 .. Len(wreqs[r]) :
            j < k /\ hist'[wreqs'[r][j].id].blk = hist'[wreqs'[r][k].id].blk
              => wreqs'[r][j].id < wreqs'[r][k].id
      <3>1. \A j, k \in 1 .. Len(wreqs[r]) :
              j < k /\ hist[wreqs[r][j].id].blk = hist[wreqs[r][k].id].blk
                => wreqs[r][j].id < wreqs[r][k].id
        BY DEF RisingInv, BlkOf
      <3>2. ASSUME NEW j \in 1 .. Len(wreqs[r]), NEW k \in 1 .. Len(wreqs[r])
            PROVE  /\ wreqs'[r][j].id = wreqs[r][j].id /\ wreqs'[r][k].id = wreqs[r][k].id
                   /\ hist'[wreqs'[r][j].id].blk = hist[wreqs[r][j].id].blk
                   /\ hist'[wreqs'[r][k].id].blk = hist[wreqs[r][k].id].blk
        BY <1>3, <2>1
      <3>3. QED
        BY <3>1, <3>2
    <2>3. \A d \in 0 .. NDset - 1 : \A j \in 1 .. Len(wreqs[r]), k \in 1 .. Len(mreqs[r][d]) :
            Dset[hist'[wreqs'[r][j].id].blk] = d => wreqs'[r][j].id < mreqs[r][d][k]
      BY <2>1 DEF RisingInv, BlkOf
    <2>4. \A d \in 0 .. NDset - 1 : \A j, k \in 1 .. Len(mreqs[r][d]) :
            j < k => mreqs[r][d][j] < mreqs[r][d][k]
      BY DEF RisingInv
    <2>5. QED
      BY <2>1, <2>2, <2>3, <2>4 DEF RisingInv, BlkOf
  <1>6. QED
    BY <1>4, <1>5

LEMMA OrderEmpty ==
  ASSUME TypeInv, [Next]_vars, NEW r \in Ranks, OwnInv(r), RisingInv(r), Empties(r)
  PROVE  OwnInv(r)' /\ RisingInv(r)'
  <1>1. \A i \in Ids : hist'[i] = hist[i]
    BY SizeKept
  <1>2. \A d \in 0 .. NDset - 1 : \A k \in 1 .. Len(mreqs[r][d]) : mreqs[r][d][k] \in Ids
    BY QueueTypes
  <1>3. Len(wreqs'[r]) = 0 /\ Len(<<>>) = 0
    BY EmptySeq DEF Empties
  <1>4. CASE mreqs'[r] = mreqs[r]
    <2>1. \A d \in 0 .. NDset - 1 : \A k \in 1 .. Len(mreqs[r][d]) :
             hist'[mreqs[r][d][k]] = hist[mreqs[r][d][k]]
      BY <1>1, <1>2
    <2>2. OwnInv(r)'
      BY <1>3, <1>4, <2>1 DEF OwnInv, NoMerged, BlkOf
    <2>3. RisingInv(r)'
      BY <1>3, <1>4, <2>1 DEF RisingInv, BlkOf
    <2>4. QED
      BY <2>2, <2>3
  <1>5. CASE NoMerged(r)'
    <2>1. \A d \in 0 .. NDset - 1 : Len(mreqs'[r][d]) = 0
      BY <1>3, <1>5 DEF NoMerged
    <2>2. QED
      BY <1>3, <1>5, <2>1 DEF OwnInv, RisingInv
  <1>6. QED
    BY <1>4, <1>5 DEF Empties

LEMMA OrderWrite ==
  ASSUME TypeInv, [Next]_vars, NEW r \in Ranks, OwnInv(r), RisingInv(r), NEW b \in Blocks, Write(r, b)
  PROVE  OwnInv(r)' /\ RisingInv(r)'
  <1> DEFINE i == Len(hist) + 1
  <1>1. /\ \A j \in Ids : hist'[j] = hist[j] /\ j < i
        /\ hist'[i].rank = r /\ hist'[i].blk = b
    <2>1. Len(hist) \in Nat /\ hist'[Len(hist) + 1] = [rank |-> r, blk |-> b, ep |-> epoch]
      BY WriteQueues
    <2>2. QED
      BY <2>1, SizeKept DEF Ids
  <1>2. Queues(r, b)
    BY WriteQueues
  <1>3. Dset[b] \in 0 .. NDset - 1
    BY DsetAssumption
  <1>4. /\ Len(wreqs[r]) \in Nat /\ \A d \in 0 .. NDset - 1 : Len(mreqs[r][d]) \in Nat
        /\ \A k \in 1 .. Len(wreqs[r]) : wreqs[r][k].id \in Ids
        /\ \A d \in 0 .. NDset - 1 : \A k \in 1 .. Len(mreqs[r][d]) : mreqs[r][d][k] \in Ids
    BY QueueTypes
  <1> HIDE DEF i
  <1>5. CASE Merge
    <2> DEFINE m == Len(mreqs[r][Dset[b]])
    <2>1. /\ wreqs'[r] = wreqs[r]
          /\ \A e \in 0 .. NDset - 1 : e # Dset[b] => mreqs'[r][e] = mreqs[r][e]
          /\ Len(mreqs'[r][Dset[b]]) = m + 1 /\ mreqs'[r][Dset[b]][m + 1] = i
          /\ \A k \in 1 .. m : mreqs'[r][Dset[b]][k] = mreqs[r][Dset[b]][k]
      BY <1>2, <1>5 DEF Queues, i
    <2>2. m \in Nat
      BY <1>3, <1>4
    <2>3. ASSUME NEW d \in 0 .. NDset - 1, NEW k \in 1 .. Len(mreqs'[r][d])
          PROVE  \/ k \in 1 .. Len(mreqs[r][d]) /\ mreqs'[r][d][k] = mreqs[r][d][k]
                 \/ d = Dset[b] /\ k = m + 1 /\ mreqs'[r][d][k] = i /\ Len(mreqs[r][d]) = m
      <3>1. CASE d = Dset[b]
        <4>1. /\ Len(mreqs'[r][d]) = m + 1 /\ mreqs'[r][d][m + 1] = i /\ Len(mreqs[r][d]) = m
              /\ \A l \in 1 .. m : mreqs'[r][d][l] = mreqs[r][d][l]
          BY <2>1, <3>1
        <4> HIDE DEF m
        <4>2. k \in 1 .. m \/ k = m + 1
          BY <2>2, <4>1
        <4>3. QED
          BY <3>1, <4>1, <4>2
      <3>2. CASE d # Dset[b]
        BY <2>1, <3>2
      <3>3. QED
        BY <3>1, <3>2
    <2> HIDE DEF m
    <2>4. OwnInv(r)'
      <3>1. \A k \in 1 .. Len(wreqs'[r]) : hist'[wreqs'[r][k].id].rank = r
        BY <1>1, <1>4, <2>1 DEF OwnInv
      <3>2. ASSUME NEW d \in 0 .. NDset - 1, NEW k \in 1 .. Len(mreqs'[r][d])
            PROVE  hist'[mreqs'[r][d][k]].rank = r /\ Dset[hist'[mreqs'[r][d][k]].blk] = d
        <4>1. CASE k \in 1 .. Len(mreqs[r][d]) /\ mreqs'[r][d][k] = mreqs[r][d][k]
          <5>1. hist'[mreqs[r][d][k]] = hist[mreqs[r][d][k]]
            BY <1>1, <1>4, <4>1
          <5>2. QED
            BY <4>1, <5>1 DEF OwnInv, BlkOf
        <4>2. CASE d = Dset[b] /\ mreqs'[r][d][k] = i
          BY <1>1, <4>2
        <4>3. QED
          BY <2>3, <4>1, <4>2
      <3>3. QED
        BY <1>5, <3>1, <3>2 DEF OwnInv, BlkOf
    <2>5. RisingInv(r)'
      <3>1. \A k \in 1 .. Len(wreqs'[r]) : wreqs'[r][k] = wreqs[r][k] /\ hist'[wreqs[r][k].id] = hist[wreqs[r][k].id]
        BY <1>1, <1>4, <2>1
      <3>2. ASSUME NEW d \in 0 .. NDset - 1, NEW j \in 1 .. Len(mreqs'[r][d]),
                   NEW k \in 1 .. Len(mreqs'[r][d]), j < k
            PROVE  mreqs'[r][d][j] < mreqs'[r][d][k]
        <4>1. CASE k \in 1 .. Len(mreqs[r][d]) /\ mreqs'[r][d][k] = mreqs[r][d][k]
          <5>1. j \in 1 .. Len(mreqs[r][d]) /\ ~(d = Dset[b] /\ j = m + 1 /\ Len(mreqs[r][d]) = m)
            BY <1>4, <3>2, <4>1
          <5>2. mreqs'[r][d][j] = mreqs[r][d][j]
            BY <2>3, <5>1
          <5>3. QED
            BY <3>2, <4>1, <5>1, <5>2 DEF RisingInv
        <4>2. CASE d = Dset[b] /\ k = m + 1 /\ mreqs'[r][d][k] = i /\ Len(mreqs[r][d]) = m
          <5>1. j # m + 1
            BY <2>2, <3>2, <4>2
          <5>2. j \in 1 .. Len(mreqs[r][d]) /\ mreqs'[r][d][j] = mreqs[r][d][j]
            BY <2>3, <5>1
          <5>3. QED
            BY <1>1, <1>4, <4>2, <5>2
        <4>3. QED
          BY <2>3, <4>1, <4>2
      <3>3. ASSUME NEW d \in 0 .. NDset - 1, NEW j \in 1 .. Len(wreqs[r]),
                   NEW k \in 1 .. Len(mreqs'[r][d]), Dset[BlkOf(wreqs[r][j].id)] = d
            PROVE  wreqs[r][j].id < mreqs'[r][d][k]
        <4>1. wreqs[r][j].id < i
          BY <1>1, <1>4
        <4>2. CASE k \in 1 .. Len(mreqs[r][d]) /\ mreqs'[r][d][k] = mreqs[r][d][k]
          BY <3>3, <4>2 DEF RisingInv
        <4>3. QED
          BY <2>3, <4>1, <4>2
      <3>4. \A j, k \in 1 .. Len(wreqs'[r]) :
              j < k /\ hist'[wreqs'[r][j].id].blk = hist'[wreqs'[r][k].id].blk => wreqs'[r][j].id < wreqs'[r][k].id
        <4>1. Len(wreqs'[r]) = Len(wreqs[r])
          BY <2>1
        <4>2. QED
          BY <3>1, <4>1 DEF RisingInv, BlkOf
      <3>5. \A d \in 0 .. NDset - 1 : \A j \in 1 .. Len(wreqs'[r]), k \in 1 .. Len(mreqs'[r][d]) :
              Dset[hist'[wreqs'[r][j].id].blk] = d => wreqs'[r][j].id < mreqs'[r][d][k]
        <4>1. Len(wreqs'[r]) = Len(wreqs[r])
          BY <2>1
        <4>2. QED
          BY <3>1, <3>3, <4>1 DEF BlkOf
      <3>6. QED
        BY <3>2, <3>4, <3>5 DEF RisingInv, BlkOf
    <2>6. QED
      BY <2>4, <2>5
  <1>6. CASE ~Merge
    <2> DEFINE n == Len(wreqs[r])
    <2>1. /\ mreqs'[r] = mreqs[r] /\ NoMerged(r)
          /\ Len(wreqs'[r]) = n + 1 /\ wreqs'[r][n + 1].id = i
          /\ \A k \in 1 .. n : wreqs'[r][k] = wreqs[r][k]
      BY <1>2, <1>6 DEF Queues, OwnInv, i
    <2>2. /\ n \in Nat /\ \A k \in 1 .. n : wreqs[r][k].id \in Ids
          /\ \A k \in 1 .. n : wreqs'[r][k].id < i /\ hist'[wreqs'[r][k].id] = hist[wreqs[r][k].id]
      BY <1>1, <1>4, <2>1
    <2>3. \A d \in 0 .. NDset - 1 : Len(mreqs'[r][d]) = 0
      BY <2>1, EmptySeq DEF NoMerged
    <2>5. \A k \in 1 .. n : hist[wreqs[r][k].id].rank = r
      BY DEF OwnInv
    <2>6. \A j, k \in 1 .. n : j < k /\ hist[wreqs[r][j].id].blk = hist[wreqs[r][k].id].blk
            => wreqs[r][j].id < wreqs[r][k].id
      BY DEF RisingInv, BlkOf
    <2> HIDE DEF n
    <2>4. \A k \in 1 .. n + 1 : k \in 1 .. n \/ k = n + 1
      BY <2>2
    <2>7. OwnInv(r)'
      <3>1. \A k \in 1 .. n + 1 : hist'[wreqs'[r][k].id].rank = r
        BY <1>1, <2>1, <2>2, <2>4, <2>5
      <3>2. NoMerged(r)'
        BY <2>1 DEF NoMerged
      <3>3. QED
        BY <2>1, <2>3, <3>1, <3>2 DEF OwnInv
    <2>8. RisingInv(r)'
      <3>1. ASSUME NEW j \in 1 .. n + 1, NEW k \in 1 .. n + 1, j < k,
                   hist'[wreqs'[r][j].id].blk = hist'[wreqs'[r][k].id].blk
            PROVE  wreqs'[r][j].id < wreqs'[r][k].id
        <4>1. j \in 1 .. n
          BY <2>2, <3>1
        <4>2. CASE k = n + 1
          BY <2>1, <2>2, <4>1, <4>2
        <4>3. CASE k \in 1 .. n
          BY <2>1, <2>2, <2>6, <3>1, <4>1, <4>3
        <4>4. QED
          BY <2>4, <4>2, <4>3
      <3>2. QED
        BY <2>1, <2>3, <3>1 DEF RisingInv, BlkOf
    <2>9. QED
      BY <2>7, <2>8
  <1>7. QED
    BY <1>5, <1>6
LEMMA OrderMoves ==
  ASSUME TypeInv, NEW r \in Ranks, OwnInv(r), RisingInv(r), UNCHANGED hist,
         NEW d \in 0 .. NDset - 1, Moves(r, d)
  PROVE  OwnInv(r)' /\ RisingInv(r)'
  <1> DEFINE n == Len(wreqs[r])
             m == Len(mreqs[r][d])
  <1>1. n \in Nat /\ m \in Nat
    BY QueueTypes
  <1>2. /\ Len(wreqs'[r]) = n + m /\ \A k \in 1 .. n : wreqs'[r][k] = wreqs[r][k]
        /\ \A k \in 1 .. m : wreqs'[r][n + k].id = mreqs[r][d][k]
        /\ mreqs'[r][d] = <<>> /\ \A e \in 0 .. NDset - 1 : e # d => mreqs'[r][e] = mreqs[r][e]
    BY DEF Moves
  <1>3. Len(mreqs'[r][d]) = 0
    BY <1>2, EmptySeq
  <1>4. /\ \A k \in 1 .. n : hist[wreqs[r][k].id].rank = r
        /\ \A e \in 0 .. NDset - 1 : \A k \in 1 .. Len(mreqs[r][e]) :
             hist[mreqs[r][e][k]].rank = r /\ Dset[hist[mreqs[r][e][k]].blk] = e
        /\ \A k \in 1 .. m : hist[mreqs[r][d][k]].rank = r /\ Dset[hist[mreqs[r][d][k]].blk] = d
    BY DEF OwnInv, BlkOf
  <1>5. /\ \A j, k \in 1 .. n : j < k /\ hist[wreqs[r][j].id].blk = hist[wreqs[r][k].id].blk
             => wreqs[r][j].id < wreqs[r][k].id
        /\ \A j, k \in 1 .. m : j < k => mreqs[r][d][j] < mreqs[r][d][k]
        /\ \A j \in 1 .. n, k \in 1 .. m :
             Dset[hist[wreqs[r][j].id].blk] = d => wreqs[r][j].id < mreqs[r][d][k]
    BY DEF RisingInv, BlkOf
  <1>6. \A e \in 0 .. NDset - 1 : \A j \in 1 .. n, k \in 1 .. Len(mreqs[r][e]) :
          Dset[hist[wreqs[r][j].id].blk] = e => wreqs[r][j].id < mreqs[r][e][k]
    BY DEF RisingInv, BlkOf
  <1> HIDE DEF n, m
  <1>7. ASSUME NEW k \in 1 .. n + m
        PROVE  \/ k \in 1 .. n /\ wreqs'[r][k] = wreqs[r][k]
               \/ k > n /\ k - n \in 1 .. m /\ wreqs'[r][k].id = mreqs[r][d][k - n]
    <2>1. CASE k \in 1 .. n
      BY <1>2, <2>1
    <2>2. CASE k \notin 1 .. n
      <3>1. k > n /\ k - n \in 1 .. m /\ n + (k - n) = k
        BY <1>1, <2>2
      <3>2. QED
        BY <1>2, <3>1
    <2>3. QED
      BY <2>1, <2>2
  <1>8. OwnInv(r)'
    <2>1. \A k \in 1 .. n + m : hist[wreqs'[r][k].id].rank = r
      BY <1>4, <1>7
    <2>2. \A e \in 0 .. NDset - 1 : \A k \in 1 .. Len(mreqs'[r][e]) :
            hist[mreqs'[r][e][k]].rank = r /\ Dset[hist[mreqs'[r][e][k]].blk] = e
      BY <1>2, <1>3, <1>4
    <2>3. ~Merge => NoMerged(r)'
      BY <1>2 DEF OwnInv, NoMerged
    <2>4. QED
      BY <1>2, <2>1, <2>2, <2>3 DEF OwnInv, BlkOf
  <1>9. RisingInv(r)'
    <2>1. ASSUME NEW j \in 1 .. n + m, NEW k \in 1 .. n + m, j < k,
                 hist[wreqs'[r][j].id].blk = hist[wreqs'[r][k].id].blk
          PROVE  wreqs'[r][j].id < wreqs'[r][k].id
      <3>1. CASE k \in 1 .. n /\ wreqs'[r][k] = wreqs[r][k]
        <4>1. j \in 1 .. n
          BY <1>1, <2>1, <3>1
        <4>2. wreqs'[r][j] = wreqs[r][j]
          BY <1>2, <4>1
        <4>3. QED
          BY <1>5, <2>1, <3>1, <4>1, <4>2
      <3>2. CASE k > n /\ k - n \in 1 .. m /\ wreqs'[r][k].id = mreqs[r][d][k - n]
        <4>1. CASE j \in 1 .. n /\ wreqs'[r][j] = wreqs[r][j]
          BY <1>4, <1>5, <2>1, <3>2, <4>1
        <4>2. CASE j - n \in 1 .. m /\ wreqs'[r][j].id = mreqs[r][d][j - n]
          <5>1. j - n < k - n
            BY <1>1, <2>1
          <5>2. QED
            BY <1>5, <3>2, <4>2, <5>1
        <4>3. QED
          BY <1>7, <4>1, <4>2
      <3>3. QED
        BY <1>7, <3>1, <3>2
    <2>2. \A e \in 0 .. NDset - 1 : \A j, k \in 1 .. Len(mreqs'[r][e]) :
            j < k => mreqs'[r][e][j] < mreqs'[r][e][k]
      <3>1. \A e \in 0 .. NDset - 1 : \A j, k \in 1 .. Len(mreqs[r][e]) :
              j < k => mreqs[r][e][j] < mreqs[r][e][k]
        BY DEF RisingInv
      <3>2. QED
        BY <1>2, <1>3, <3>1
    <2>3. ASSUME NEW e \in 0 .. NDset - 1, NEW j \in 1 .. n + m, NEW k \in 1 .. Len(mreqs'[r][e]),
                 Dset[hist[wreqs'[r][j].id].blk] = e
          PROVE  wreqs'[r][j].id < mreqs'[r][e][k]
      <3>1. e # d /\ mreqs'[r][e] = mreqs[r][e]
        BY <1>2, <1>3
      <3>2. j \in 1 .. n /\ wreqs'[r][j] = wreqs[r][j]
        BY <1>4, <1>7, <2>3, <3>1
      <3>3. QED
        BY <1>6, <2>3, <3>1, <3>2
    <2>4. QED
      BY <1>2, <2>1, <2>2, <2>3 DEF RisingInv, BlkOf
  <1>10. QED
    BY <1>8, <1>9

LEMMA OrderStep ==
  ASSUME TypeInv, \A q \in Ranks : QueueInv(q), [Next]_vars, NEW r \in Ranks, OwnInv(r), RisingInv(r)
  PROVE  OwnInv(r)' /\ RisingInv(r)'
  <1>1. ASSUME NEW b \in Blocks, Write(r, b) PROVE OwnInv(r)' /\ RisingInv(r)'
    BY <1>1, OrderWrite
  <1>2. CASE PushMerged(r)
    <2>1. UNCHANGED hist /\ (SameQueue(r) \/ \E d \in 0 .. NDset - 1 : Moves(r, d))
      BY <1>2, PushMoves
    <2>2. QED
      BY <2>1, OrderKept, OrderMoves
  <1>3. CASE SameQueue(r)
    BY <1>3, OrderKept
  <1>4. CASE Empties(r)
    BY <1>4, OrderEmpty
  <1>5. QED
    BY <1>1, <1>2, <1>3, <1>4, QueueSteps
-----------------------------------------------------------------------------
(* Ranks enter the step that writes their metadata section together.       *)

LEMMA SectionStep ==
  ASSUME TypeInv, SectionInv, \A q \in Ranks : QueueInv(q), [Next]_vars
  PROVE  SectionInv'
  <1> USE DEF TypeInv, TypeOK, StepType
  <1>1. \A r \in Ranks : pc[r] \in {"scan", "write"} => cont[r] \in {"app", "search", "gather"}
    BY DEF QueueInv
  <1>2. CASE GatherAndCreate
    BY <1>2 DEF GatherAndCreate, SectionInv
  <1>3. ASSUME ~GatherAndCreate, NEW q \in Ranks, pc'[q] = "section" PROVE pc[q] = "section"
    <2>1. CASE Collective \/ \E m \in {"rw", "ro"} : OpenFile(m)
      BY <1>1, <1>3, <2>1 DEF Collective, AllreducePending, AfterWrites, ScanAndCreate, At, MetaBarrier,
         SetView, ReadAll, RestoreView, CloseFile, OpenFile
    <2>2. ASSUME NEW r \in Ranks, (\E b \in Blocks : Write(r, b)) \/ Call(r) \/ LocalStep(r)
          PROVE  pc[q] = "section"
      <3>1. CASE q # r
        BY <1>3, <2>2, <3>1, OthersKept DEF Kept
      <3>2. CASE q = r
        BY <1>1, <1>3, <2>2, <3>2 DEF Write, Call, CallFlush, CallRead, CallBufferedRead, CallClose, Joins,
           LocalStep, PushMerged, Pack, WriteData, WriteSection, MetaClean, Search, Return, Goto
      <3>3. QED
        BY <3>1, <3>2
    <2>3. CASE UNCHANGED vars
      BY <1>3, <2>3 DEF vars
    <2>4. QED
      BY <2>1, <2>2, <2>3 DEF Next, Finished
  <1>4. ASSUME ~GatherAndCreate, NEW q \in Ranks, pc'[q] = "section", NEW r \in Ranks
        PROVE  pc'[r] \in {"section", "barrier"}
    <2>1. pc[q] = "section" /\ pc[r] \in {"section", "barrier"}
      BY <1>3, <1>4 DEF SectionInv
    <2>2. CASE Collective \/ \E m \in {"rw", "ro"} : OpenFile(m)
      BY <1>4, <2>1, <2>2 DEF Collective, AllreducePending, ScanAndCreate, At, MetaBarrier, SetView,
         ReadAll, RestoreView, CloseFile, OpenFile
    <2>3. ASSUME NEW x \in Ranks, (\E b \in Blocks : Write(x, b)) \/ Call(x) \/ LocalStep(x)
          PROVE  pc'[r] \in {"section", "barrier"}
      <3>1. CASE x # r
        BY <2>1, <2>3, <3>1, OthersKept DEF Kept
      <3>2. CASE x = r
        BY <2>1, <2>3, <3>2 DEF Write, Call, CallFlush, CallRead, CallBufferedRead, CallClose, Joins,
           LocalStep, PushMerged, Pack, WriteData, WriteSection, MetaClean, Search, Return, Goto
      <3>3. QED
        BY <3>1, <3>2
    <2>4. CASE UNCHANGED vars
      BY <2>1, <2>4 DEF vars
    <2>5. QED
      BY <2>2, <2>3, <2>4 DEF Next, Finished
  <1>5. QED
    BY <1>2, <1>4 DEF SectionInv

-----------------------------------------------------------------------------
(* A step is the creation of a log dataset, the write of a rank's part of  *)
(* it, or leaves the outcome of the flushes alone.                         *)

Quiet ==
    /\ epoch' = epoch /\ eof' = eof
    /\ \A r \in Ranks : (pc'[r] = "write") = (pc[r] = "write")
    /\ \A r \in Ranks : pc[r] = "write" => foff'[r] = foff[r] /\ fsize'[r] = fsize[r]
    /\ \A r \in Ranks : nflushed'[r] = nflushed[r] \/ (nflushed'[r] = 0 /\ wreqs'[r] = <<>>)

Creates(offs, doff) ==
    /\ At("scan") /\ UNCHANGED <<hist, wreqs, mreqs, nflushed, fsize, disk, mdsets>>
    /\ IsPrefixSum(offs, fsize) /\ Created(offs, doff)

LEMMA FlushSteps ==
  ASSUME TypeInv, \A q \in Ranks : QueueInv(q), [Next]_vars
  PROVE  \/ Quiet
         \/ \E r \in Ranks : WriteData(r)
         \/ \E offs \in [0 .. NP -> 0 .. MaxBytes], doff \in Addrs \cup {0, eof} : Creates(offs, doff)
  <1> USE DEF TypeInv, TypeOK, StepType, ReqType
  <1>1. ASSUME NEW r \in Ranks, (\E b \in Blocks : Write(r, b)) \/ Call(r) \/ LocalStep(r),
               ~WriteData(r)
        PROVE  Quiet
    <2>1. epoch' = epoch /\ eof' = eof
      BY <1>1 DEF Call, LocalStep, Write, CallFlush, CallRead, CallBufferedRead, CallClose, Joins,
         PushMerged, Pack, WriteSection, MetaClean, Search, Return, fileVars, appVars
    <2>2. ASSUME NEW q \in Ranks, q # r
          PROVE  /\ pc'[q] = pc[q] /\ fsize'[q] = fsize[q] /\ foff'[q] = foff[q]
                 /\ nflushed'[q] = nflushed[q]
      BY <1>1, <2>2, OthersKept, OthersLayout DEF Kept
    <2>3. pc[r] # "write" /\ pc'[r] # "write"
          /\ (nflushed'[r] = nflushed[r] \/ (nflushed'[r] = 0 /\ wreqs'[r] = <<>>))
      <3>1. ASSUME NEW b \in Blocks, Write(r, b) PROVE pc[r] = "app" /\ pc' = pc /\ nflushed' = nflushed
        BY <3>1 DEF Write
      <3>2. CASE Call(r)
        <4>1. pc[r] = "app" /\ nflushed' = nflushed
          BY <3>2 DEF Call, CallFlush, CallRead, CallBufferedRead, CallClose, Joins, reqVars
        <4>2. pc'[r] # "write"
          BY <3>2, <4>1 DEF Call, CallFlush, CallRead, CallBufferedRead, CallClose, Goto
        <4>3. QED
          BY <4>1, <4>2
      <3>3. CASE LocalStep(r)
        <4>1. pc[r] # "write" /\ pc'[r] # "write"
          BY <1>1, <3>3 DEF LocalStep, PushMerged, Pack, WriteSection, MetaClean, Search, Return, Goto
        <4>2. CASE MetaClean(r)
          BY <4>1, <4>2 DEF MetaClean
        <4>3. CASE ~MetaClean(r)
          <5>1. nflushed' = nflushed
            BY <1>1, <3>3, <4>3 DEF LocalStep, PushMerged, Pack, WriteSection, Search, Return, reqVars
          <5>2. QED
            BY <4>1, <5>1
        <4>4. QED
          BY <4>2, <4>3
      <3>4. QED
        BY <1>1, <3>1, <3>2, <3>3
    <2>4. QED
      BY <2>1, <2>2, <2>3 DEF Quiet
  <1>2. CASE Collective /\ ~ScanAndCreate
    <2>1. /\ UNCHANGED <<epoch, eof, nflushed>>
          /\ \A r \in Ranks : pc[r] # "write" /\ pc'[r] # "write"
      BY <1>2 DEF Collective, AllreducePending, AfterWrites, GatherAndCreate, MetaBarrier, SetView,
         ReadAll, RestoreView, CloseFile, At, fileVars, appVars, reqVars
    <2>2. QED
      BY <2>1 DEF Quiet
  <1>3. CASE ScanAndCreate
    <2>1. PICK offs \in [0 .. NP -> 0 .. MaxBytes] : Scanned(offs)
      BY <1>3, ScanEffect
    <2>2. At("scan") /\ UNCHANGED <<hist, wreqs, mreqs, nflushed, fsize, disk, mdsets>>
      BY <1>3, ScanEffect
    <2>3. CASE pc' = cont /\ UNCHANGED <<foff, ldsets, eof, epoch>>
      <3>1. \A r \in Ranks : pc[r] # "write" /\ pc'[r] # "write"
        BY <2>2, <2>3 DEF At, QueueInv
      <3>2. QED
        BY <2>2, <2>3, <3>1 DEF Quiet
    <2>4. QED
      BY <2>1, <2>2, <2>3 DEF Scanned, Creates
  <1>4. ASSUME NEW m \in {"rw", "ro"}, OpenFile(m) PROVE Quiet
    BY <1>4 DEF OpenFile, At, appVars, Quiet
  <1>5. CASE UNCHANGED vars
    BY <1>5 DEF vars, reqVars, fileVars, appVars, Quiet
  <1>6. QED
    BY <1>1, <1>2, <1>3, <1>4, <1>5 DEF Next, Finished

\* What rank r has queued and not yet written to the file.
Unflushed(r, i) ==
    \/ \E k \in nflushed[r] + 1 .. Len(wreqs[r]) : i = wreqs[r][k].id
    \/ \E d \in 0 .. NDset - 1 : \E k \in 1 .. Len(mreqs[r][d]) : i = mreqs[r][d][k]

LEMMA UnflushedIds ==
  ASSUME TypeInv, NEW r \in Ranks, NEW i, Unflushed(r, i)
  PROVE  i \in Ids
  <1>1. \A k \in nflushed[r] + 1 .. Len(wreqs[r]) : k \in 1 .. Len(wreqs[r])
    BY QueueTypes
  <1>2. QED
    BY <1>1, QueueTypes DEF Unflushed

\* Only a write adds to it.
LEMMA UnflushedStep ==
  ASSUME TypeInv, \A q \in Ranks : QueueInv(q), [Next]_vars, NEW r \in Ranks, NEW i,
         Unflushed(r, i)', nflushed'[r] = nflushed[r] \/ (nflushed'[r] = 0 /\ wreqs'[r] = <<>>)
  PROVE  \/ Unflushed(r, i)
         \/ \E b \in Blocks : Write(r, b) /\ i = Len(hist) + 1
  <1>1. /\ Len(wreqs[r]) \in Nat /\ nflushed[r] \in Nat /\ nflushed[r] <= Len(wreqs[r])
        /\ \A d \in 0 .. NDset - 1 : Len(mreqs[r][d]) \in Nat
    BY QueueTypes
  <1>2. Len(wreqs'[r]) = 0 => nflushed'[r] = 0 \/ nflushed'[r] = nflushed[r]
    OBVIOUS
  <1>3. wreqs'[r] = <<>> => \A k : k \notin nflushed'[r] + 1 .. Len(wreqs'[r])
    <2>1. wreqs'[r] = <<>> => Len(wreqs'[r]) = 0 /\ nflushed'[r] \in Nat
      BY <1>1, EmptySeq
    <2>2. QED
      BY <2>1
  <1>4. CASE SameQueue(r)
    <2>1. CASE nflushed'[r] = nflushed[r]
      <3>1. \A k \in nflushed[r] + 1 .. Len(wreqs[r]) : k \in 1 .. Len(wreqs[r])
        BY <1>1
      <3>2. QED
        BY <1>4, <2>1, <3>1 DEF SameQueue, Unflushed
    <2>2. CASE wreqs'[r] = <<>>
      BY <1>3, <1>4, <2>2 DEF SameQueue, Unflushed
    <2>3. QED
      BY <2>1, <2>2
  <1>5. ASSUME NEW b \in Blocks, Write(r, b)
        PROVE  Unflushed(r, i) \/ (\E c \in Blocks : Write(r, c) /\ i = Len(hist) + 1)
    <2>1. Queues(r, b) /\ nflushed' = nflushed
      BY <1>5, WriteQueues
    <2>2. CASE Merge
      <3> DEFINE m == Len(mreqs[r][Dset[b]])
      <3>1. m \in Nat /\ Dset[b] \in 0 .. NDset - 1
        BY <1>1, DsetAssumption
      <3>2. /\ wreqs'[r] = wreqs[r]
            /\ \A e \in 0 .. NDset - 1 : e # Dset[b] => mreqs'[r][e] = mreqs[r][e]
            /\ Len(mreqs'[r][Dset[b]]) = m + 1 /\ mreqs'[r][Dset[b]][m + 1] = Len(hist) + 1
            /\ \A k \in 1 .. m : mreqs'[r][Dset[b]][k] = mreqs[r][Dset[b]][k]
        BY <2>1, <2>2 DEF Queues
      <3>3. \A k \in 1 .. Len(mreqs'[r][Dset[b]]) : k \in 1 .. m \/ k = m + 1
        <4> HIDE DEF m
        <4>1. QED
          BY <3>1, <3>2
      <3>4. CASE \E k \in nflushed[r] + 1 .. Len(wreqs[r]) : i = wreqs[r][k].id
        BY <3>4 DEF Unflushed
      <3>5. ASSUME NEW d \in 0 .. NDset - 1, NEW k \in 1 .. Len(mreqs'[r][d]), i = mreqs'[r][d][k]
            PROVE  Unflushed(r, i) \/ i = Len(hist) + 1
        <4>1. CASE d = Dset[b]
          BY <3>2, <3>3, <3>5, <4>1 DEF Unflushed
        <4>2. CASE d # Dset[b]
          BY <3>2, <3>5, <4>2 DEF Unflushed
        <4>3. QED
          BY <4>1, <4>2
      <3>6. QED
        BY <1>5, <2>1, <3>2, <3>4, <3>5 DEF Unflushed
    <2>3. CASE ~Merge
      <3>1. /\ mreqs'[r] = mreqs[r]
            /\ Len(wreqs'[r]) = Len(wreqs[r]) + 1 /\ wreqs'[r][Len(wreqs[r]) + 1].id = Len(hist) + 1
            /\ \A k \in 1 .. Len(wreqs[r]) : wreqs'[r][k] = wreqs[r][k]
        BY <2>1, <2>3 DEF Queues
      <3>2. CASE \E d \in 0 .. NDset - 1 : \E k \in 1 .. Len(mreqs[r][d]) : i = mreqs[r][d][k]
        BY <3>2 DEF Unflushed
      <3>3. ASSUME NEW k \in nflushed[r] + 1 .. Len(wreqs[r]) + 1, i = wreqs'[r][k].id
            PROVE  Unflushed(r, i) \/ i = Len(hist) + 1
        <4>1. CASE k = Len(wreqs[r]) + 1
          BY <3>1, <3>3, <4>1
        <4>2. CASE k # Len(wreqs[r]) + 1
          <5>1. k \in nflushed[r] + 1 .. Len(wreqs[r]) /\ k \in 1 .. Len(wreqs[r])
            BY <1>1, <4>2
          <5>2. QED
            BY <3>1, <3>3, <5>1 DEF Unflushed
        <4>3. QED
          BY <4>1, <4>2
      <3>4. QED
        BY <1>5, <2>1, <3>1, <3>2, <3>3 DEF Unflushed
    <2>4. QED
      BY <2>2, <2>3
  <1>6. CASE PushMerged(r)
    <2>1. nflushed' = nflushed /\ (SameQueue(r) \/ \E d \in 0 .. NDset - 1 : Moves(r, d))
      BY <1>6, PushMoves
    <2>2. ASSUME NEW d \in 0 .. NDset - 1, Moves(r, d) PROVE Unflushed(r, i)
      <3> DEFINE n == Len(wreqs[r])
                 m == Len(mreqs[r][d])
      <3>1. /\ Len(wreqs'[r]) = n + m /\ \A k \in 1 .. n : wreqs'[r][k] = wreqs[r][k]
            /\ \A k \in 1 .. m : wreqs'[r][n + k].id = mreqs[r][d][k]
            /\ mreqs'[r][d] = <<>> /\ \A e \in 0 .. NDset - 1 : e # d => mreqs'[r][e] = mreqs[r][e]
        BY <2>2 DEF Moves
      <3>2. \A k : k \notin 1 .. Len(mreqs'[r][d])
        BY <3>1, EmptySeq
      <3>3. CASE \E e \in 0 .. NDset - 1 : \E k \in 1 .. Len(mreqs'[r][e]) : i = mreqs'[r][e][k]
        BY <3>1, <3>2, <3>3 DEF Unflushed
      <3>4. n \in Nat /\ m \in Nat /\ nflushed[r] \in Nat
        BY <1>1
      <3> HIDE DEF n, m
      <3>5. ASSUME NEW k \in nflushed[r] + 1 .. n + m
            PROVE  \/ k \in nflushed[r] + 1 .. n /\ wreqs'[r][k] = wreqs[r][k]
                   \/ k - n \in 1 .. m /\ wreqs'[r][k].id = mreqs[r][d][k - n]
        <4>1. CASE k <= n
          BY <3>1, <3>4, <4>1
        <4>2. CASE ~(k <= n)
          <5>1. k - n \in 1 .. m /\ n + (k - n) = k
            BY <3>4, <4>2
          <5>2. QED
            BY <3>1, <5>1
        <4>3. QED
          BY <4>1, <4>2
      <3>6. ASSUME NEW k \in nflushed[r] + 1 .. n + m, i = wreqs'[r][k].id PROVE Unflushed(r, i)
        BY <3>5, <3>6 DEF Unflushed, n, m
      <3>7. QED
        BY <2>1, <3>1, <3>3, <3>6 DEF Unflushed
    <2>3. QED
      BY <1>4, <2>1, <2>2
  <1>7. CASE Empties(r)
    <2>1. \A k : k \notin nflushed'[r] + 1 .. Len(wreqs'[r])
      BY <1>3, <1>7 DEF Empties
    <2>2. NoMerged(r)' => \A d \in 0 .. NDset - 1 : \A k : k \notin 1 .. Len(mreqs'[r][d])
      BY EmptySeq DEF NoMerged
    <2>3. QED
      BY <1>7, <2>1, <2>2 DEF Empties, Unflushed
  <1>8. QED
    BY <1>4, <1>5, <1>6, <1>7, QueueSteps

-----------------------------------------------------------------------------
(* The epoch of a write: the flushes that wrote data before it.            *)

\* What a rank has not written yet is of this epoch: the current one, or the
\* one before while the flush of the others goes on.
Pace(r) == IF pc[r] = "write" THEN epoch - 1 ELSE epoch

EpochInv ==
    /\ \A i \in Ids : hist[i].ep <= epoch
    /\ \A i, j \in Ids : i < j => hist[i].ep <= hist[j].ep
    /\ \A r \in Ranks : \A i : Unflushed(r, i) => hist[i].ep = Pace(r)

LEMMA EpochType ==
  ASSUME TypeInv
  PROVE  epoch \in Nat /\ \A i \in Ids : hist[i] \in WriteRecord /\ hist[i].ep \in Nat
  <1>1. \A i \in Ids : hist[i] \in WriteRecord
    BY ElementOfSeq DEF TypeInv, TypeOK, AppType, Ids
  <1>2. QED
    BY <1>1 DEF WriteRecord, TypeInv, TypeOK, AppType

\* The history over a step.
LEMMA NewIds ==
  ASSUME TypeInv, [Next]_vars, NEW i \in Ids'
  PROVE  \/ i \in Ids /\ hist'[i] = hist[i]
         \/ \E r \in Ranks, b \in Blocks :
              /\ Write(r, b) /\ i = Len(hist) + 1 /\ hist'[i] = [rank |-> r, blk |-> b, ep |-> epoch]
              /\ hist'[i].ep = epoch /\ hist'[i].rank = r /\ epoch' = epoch /\ pc[r] = "app"
  <1>1. CASE UNCHANGED hist
    BY <1>1 DEF Ids
  <1>2. ASSUME NEW r \in Ranks, NEW b \in Blocks, Write(r, b)
        PROVE  \/ i \in Ids
               \/ /\ i = Len(hist) + 1 /\ hist'[i] = [rank |-> r, blk |-> b, ep |-> epoch]
                  /\ hist'[i].ep = epoch /\ hist'[i].rank = r /\ epoch' = epoch /\ pc[r] = "app"
    <2>1. /\ Len(hist') = Len(hist) + 1 /\ Len(hist) \in Nat
          /\ hist'[Len(hist) + 1] = [rank |-> r, blk |-> b, ep |-> epoch]
          /\ epoch' = epoch /\ pc[r] = "app"
      BY <1>2, WriteQueues
    <2>2. QED
      BY <2>1 DEF Ids
  <1>3. i \in Ids => hist'[i] = hist[i]
    BY SizeKept
  <1>4. QED
    BY <1>1, <1>2, <1>3, HistStep

LEMMA EpochStep ==
  ASSUME TypeInv, \A q \in Ranks : QueueInv(q), EpochInv, [Next]_vars
  PROVE  EpochInv'
  <1>1. epoch \in Nat /\ \A i \in Ids : hist[i].ep \in Nat /\ hist[i].ep <= epoch
    BY EpochType DEF EpochInv
  <1>2. epoch' \in Nat /\ epoch <= epoch'
    <2>1. Quiet => epoch' = epoch
      BY DEF Quiet
    <2>2. ASSUME NEW r \in Ranks, WriteData(r) PROVE epoch' = epoch
      BY <2>2 DEF WriteData, appVars
    <2>3. \A offs, doff : Creates(offs, doff) => epoch' = epoch + 1
      BY DEF Creates, Created
    <2>4. QED
      BY <1>1, <2>1, <2>2, <2>3, FlushSteps
  <1>3. \A i \in Ids : i < Len(hist) + 1 /\ i \in Nat
    BY LenProperties DEF Ids, TypeInv, TypeOK, AppType
  <1>4. ASSUME NEW i \in Ids' PROVE hist'[i].ep <= epoch'
    <2>1. CASE i \in Ids /\ hist'[i] = hist[i]
      BY <1>1, <1>2, <2>1
    <2>2. CASE hist'[i].ep = epoch
      BY <1>2, <2>2
    <2>3. QED
      BY <2>1, <2>2, NewIds
  <1>5. ASSUME NEW i \in Ids', NEW j \in Ids', i < j PROVE hist'[i].ep <= hist'[j].ep
    <2>1. CASE j \in Ids /\ hist'[j] = hist[j]
      <3>1. i # Len(hist) + 1
        BY <1>3, <1>5, <2>1
      <3>2. i \in Ids /\ hist'[i] = hist[i]
        BY <3>1, NewIds
      <3>3. QED
        BY <1>5, <2>1, <3>2 DEF EpochInv
    <2>2. CASE j = Len(hist) + 1 /\ hist'[j].ep = epoch
      <3>1. i \in Ids /\ hist'[i] = hist[i]
        <4>1. i # Len(hist) + 1
          BY <1>5, <2>2 DEF Ids
        <4>2. QED
          BY <4>1, NewIds
      <3>2. QED
        BY <1>1, <2>2, <3>1
    <2>3. QED
      BY <2>1, <2>2, NewIds
  <1>6. ASSUME NEW r \in Ranks, NEW i, Unflushed(r, i)' PROVE hist'[i].ep = Pace(r)'
    <2>1. ASSUME NEW b \in Blocks, Write(r, b), i = Len(hist) + 1 PROVE hist'[i].ep = Pace(r)'
      <3>1. hist'[i] = [rank |-> r, blk |-> b, ep |-> epoch] /\ epoch' = epoch /\ pc'[r] = "app"
        BY <2>1, WriteQueues
      <3>2. QED
        BY <3>1 DEF Pace
    <2>2. ASSUME Unflushed(r, i) PROVE hist'[i] = hist[i] /\ hist[i].ep = Pace(r)
      BY <2>2, UnflushedIds, SizeKept DEF EpochInv
    <2>3. CASE Quiet
      <3>1. Pace(r)' = Pace(r)
        BY <2>3 DEF Quiet, Pace
      <3>2. nflushed'[r] = nflushed[r] \/ (nflushed'[r] = 0 /\ wreqs'[r] = <<>>)
        BY <2>3 DEF Quiet
      <3>3. QED
        BY <1>6, <2>1, <2>2, <3>1, <3>2, UnflushedStep
    <2>4. ASSUME NEW q \in Ranks, WriteData(q) PROVE hist'[i].ep = Pace(r)'
      <3>1. CASE r = q
        <4>1. NoMerged(r) /\ mreqs' = mreqs /\ nflushed'[r] = Len(wreqs[r]) /\ Len(wreqs[r]) \in Nat
          BY <2>4, <3>1, QueueTypes DEF WriteData, QueueInv, TypeInv, TypeOK, ReqType
        <4>2. Len(wreqs'[r]) = Len(wreqs[r])
          <5>1. wreqs'[r] = [k \in 1 .. Len(wreqs[r]) |->
                               IF k \in {j \in 1 .. Len(wreqs[r]) : j > nflushed[r]}
                               THEN [id |-> wreqs[r][k].id, foff |-> wreqs[r][k].foff + foff[r]]
                               ELSE wreqs[r][k]]
            BY <2>4, <3>1 DEF WriteData, TypeInv, TypeOK, ReqType
          <5>2. DOMAIN wreqs'[r] = 1 .. Len(wreqs[r])
            BY <5>1
          <5>3. QED
            BY <4>1, <5>2
        <4>3. \A k : k \notin nflushed'[r] + 1 .. Len(wreqs'[r])
          BY <4>1, <4>2
        <4>4. \A d \in 0 .. NDset - 1 : \A k : k \notin 1 .. Len(mreqs'[r][d])
          BY <4>1, EmptySeq DEF NoMerged
        <4>5. QED
          BY <1>6, <4>3, <4>4 DEF Unflushed
      <3>2. CASE r # q
        <4>1. pc'[r] = pc[r] /\ nflushed'[r] = nflushed[r] /\ epoch' = epoch
          BY <2>4, <3>2, OthersKept, OthersLayout DEF Kept, LocalStep, WriteData, appVars
        <4>2. QED
          BY <1>6, <2>1, <2>2, <4>1, UnflushedStep DEF Pace
      <3>3. QED
        BY <3>1, <3>2
    <2>5. ASSUME NEW offs, NEW doff, Creates(offs, doff) PROVE hist'[i].ep = Pace(r)'
      <3>1. /\ pc[r] = "scan" /\ pc'[r] = "write" /\ epoch' = epoch + 1
            /\ UNCHANGED <<nflushed, wreqs, mreqs>>
        BY <2>5 DEF Creates, Created, At
      <3>2. Unflushed(r, i)
        BY <1>6, <3>1 DEF Unflushed
      <3>3. Pace(r)' = Pace(r)
        BY <1>1, <3>1 DEF Pace
      <3>4. QED
        BY <2>2, <3>2, <3>3
    <2>6. QED
      BY <2>3, <2>4, <2>5, FlushSteps
  <1>7. QED
    BY <1>4, <1>5, <1>6 DEF EpochInv

-----------------------------------------------------------------------------
(* Where the writes are: what is flushed or recorded, with its offset.     *)
IsPlaced(e) ==
    \/ e \in Logged
    \/ \E r \in Ranks : \E k \in 1 .. nflushed[r] : e = wreqs[r][k]

\* What rank r places when it writes its part.
Places(r, e) ==
    \E k \in nflushed[r] + 1 .. Len(wreqs[r]) :
        e.id = wreqs[r][k].id /\ e.foff = foff[r] + wreqs[r][k].foff

LEMMA PlacedStep ==
  ASSUME LogInv, ~AllocFails, [Next]_vars, NEW e, IsPlaced(e)'
  PROVE  IsPlaced(e) \/ \E r \in Ranks : WriteData(r) /\ Places(r, e)
  <1> USE DEF LogInv, Inv
  <1>1. CASE e \in Logged'
    <2>1. ASSUME NEW r \in Ranks, WriteSection(r), e \in Range(wreqs[r]) PROVE IsPlaced(e)
      <3>1. PICK k \in 1 .. Len(wreqs[r]) : e = wreqs[r][k]
        BY <2>1, LenProperties DEF Range, TypeInv, TypeOK, ReqType
      <3>2. nflushed[r] = Len(wreqs[r])
        BY <2>1, NotPending DEF WriteSection, ReadyInv
      <3>3. QED
        BY <3>1, <3>2 DEF IsPlaced
    <2>2. QED
      BY <1>1, <2>1, EntriesFrom DEF Logged, IsPlaced
  <1>2. ASSUME NEW r \in Ranks, NEW k \in 1 .. nflushed'[r], e = wreqs'[r][k]
        PROVE  IsPlaced(e) \/ \E q \in Ranks : WriteData(q) /\ Places(q, e)
    <2>1. CASE WriteData(r)
      <3>1. /\ nflushed'[r] = Len(wreqs[r])
            /\ \A j \in 1 .. Len(wreqs[r]) : wreqs'[r][j].id = wreqs[r][j].id
            /\ \A j \in 1 .. nflushed[r] : wreqs'[r][j] = wreqs[r][j]
            /\ \A j \in nflushed[r] + 1 .. Len(wreqs[r]) : wreqs'[r][j].foff = foff[r] + wreqs[r][j].foff
        BY <2>1, WriteEffect
      <3>2. nflushed[r] \in Nat /\ Len(wreqs[r]) \in Nat
        BY QueueTypes
      <3>3. k \in 1 .. nflushed[r] \/ k \in nflushed[r] + 1 .. Len(wreqs[r])
        BY <3>1, <3>2
      <3>4. QED
        BY <1>2, <2>1, <3>1, <3>3 DEF IsPlaced, Places
    <2>2. CASE ~WriteData(r)
      BY <1>2, <2>2, FlushedKept DEF IsPlaced
    <2>3. QED
      BY <2>1, <2>2
  <1>3. QED
    BY <1>1, <1>2 DEF IsPlaced

LEMMA PlacedAt ==
  ASSUME LogInv, EpochInv, NEW r \in Ranks, OwnInv(r), pc[r] = "write", NEW e, Places(r, e)
  PROVE  /\ e.id \in Ids /\ e.foff \in Nat /\ foff[r] \in Nat /\ fsize[r] \in Nat
         /\ foff[r] <= e.foff /\ e.foff < foff[r] + fsize[r]
         /\ hist[e.id].ep = epoch - 1 /\ hist[e.id].rank = r
  <1> USE DEF LogInv, Inv
  <1>1. PICK k \in nflushed[r] + 1 .. Len(wreqs[r]) :
          e.id = wreqs[r][k].id /\ e.foff = foff[r] + wreqs[r][k].foff
    BY DEF Places
  <1>2. /\ k \in 1 .. Len(wreqs[r]) /\ wreqs[r][k].id \in Ids
        /\ wreqs[r][k].foff \in Nat /\ foff[r] \in Nat /\ fsize[r] \in Nat
        /\ SizeOf(wreqs[r][k].id) \in Nat /\ SizeOf(wreqs[r][k].id) > 0
        /\ wreqs[r][k].foff + SizeOf(wreqs[r][k].id) <= fsize[r]
    BY WritePlaces
  <1>3. ASSUME NEW f \in Nat, NEW w \in Nat, NEW l \in Nat, NEW n \in Nat, w + l <= n, l > 0
        PROVE  f + w \in Nat /\ f <= f + w /\ f + w < f + n
    BY <1>3
  <1>4. e.foff \in Nat /\ foff[r] <= e.foff /\ e.foff < foff[r] + fsize[r]
    BY <1>1, <1>2, <1>3
  <1>5. hist[e.id].ep = epoch - 1
    <2>1. Unflushed(r, e.id)
      BY <1>1 DEF Unflushed
    <2>2. QED
      BY <2>1 DEF EpochInv, Pace
  <1>6. hist[e.id].rank = r
    BY <1>1, <1>2 DEF OwnInv
  <1>7. QED
    BY <1>1, <1>2, <1>4, <1>5, <1>6

\* A flush adds its log dataset behind all that is placed.
PlaceInv ==
    /\ \A e : IsPlaced(e) =>
         e.id \in Ids /\ e.foff \in Nat /\ e.foff < eof /\ hist[e.id].ep < epoch
    /\ \A r \in Ranks : pc[r] = "write" => foff[r] + fsize[r] <= eof
    /\ \A e : \A r \in Ranks : pc[r] = "write" /\ IsPlaced(e) =>
         /\ hist[e.id].rank = r => hist[e.id].ep < epoch - 1
         /\ hist[e.id].ep < epoch - 1 => e.foff < foff[r]

LEMMA PlaceStep ==
  ASSUME LogInv, ~AllocFails, InOrder, EpochInv, \A q \in Ranks : OwnInv(q), PlaceInv, [Next]_vars
  PROVE  PlaceInv'
  <1>0. TypeInv /\ (\A q \in Ranks : QueueInv(q) /\ LayoutInv(q)) /\ SpaceInv
    BY DEF LogInv, Inv
  <1>1. ASSUME NEW e, IsPlaced(e)
        PROVE  /\ e.id \in Ids /\ e.id \in Ids' /\ hist'[e.id] = hist[e.id] /\ e.foff \in Nat
               /\ hist[e.id].ep \in Nat /\ e.foff < eof /\ hist[e.id].ep < epoch
    BY <1>0, <1>1, SizeKept, EpochType DEF PlaceInv
  <1>2. epoch \in Nat /\ eof \in Nat
        /\ \A r \in Ranks : foff[r] \in Nat /\ fsize[r] \in Nat
    BY <1>0 DEF TypeInv, TypeOK, AppType, FileType, ReqType
  <1>3. CASE Quiet
    <2>1. \A e : IsPlaced(e)' => IsPlaced(e)
      <3>1. ASSUME NEW r \in Ranks, WriteData(r) PROVE FALSE
        <4>1. pc[r] = "write" /\ pc'[r] = cont[r] /\ cont[r] # "write"
          BY <1>0, <3>1 DEF WriteData, Goto, QueueInv, TypeInv, TypeOK, StepType
        <4>2. QED
          BY <1>3, <4>1 DEF Quiet
      <3>2. QED
        BY <3>1, PlacedStep
    <2>2. /\ epoch' = epoch /\ eof' = eof /\ \A r \in Ranks : (pc'[r] = "write") = (pc[r] = "write")
          /\ \A r \in Ranks : pc[r] = "write" => foff'[r] = foff[r] /\ fsize'[r] = fsize[r]
      BY <1>3 DEF Quiet
    <2>3. ASSUME NEW e, IsPlaced(e)'
          PROVE  e.id \in Ids' /\ e.foff \in Nat /\ e.foff < eof' /\ hist'[e.id].ep < epoch'
      BY <1>1, <2>1, <2>2, <2>3
    <2>4. \A r \in Ranks : pc'[r] = "write" => foff'[r] + fsize'[r] <= eof'
      BY <2>2 DEF PlaceInv
    <2>5. ASSUME NEW r \in Ranks, NEW e, pc'[r] = "write", IsPlaced(e)'
          PROVE  /\ hist'[e.id].rank = r => hist'[e.id].ep < epoch' - 1
                 /\ hist'[e.id].ep < epoch' - 1 => e.foff < foff'[r]
      BY <1>1, <2>1, <2>2, <2>5 DEF PlaceInv
    <2>6. QED
      BY <2>3, <2>4, <2>5 DEF PlaceInv
  <1>4. ASSUME NEW r \in Ranks, WriteData(r) PROVE PlaceInv'
    <2>1. pc[r] = "write" /\ pc'[r] # "write" /\ UNCHANGED <<hist, epoch, eof, foff, fsize>>
      <3>1. pc[r] = "write" /\ pc'[r] = cont[r] /\ UNCHANGED <<hist, epoch, eof, foff, fsize>>
        BY <1>0, <1>4 DEF WriteData, Goto, TypeInv, TypeOK, StepType, appVars
      <3>2. QED
        BY <1>0, <3>1 DEF QueueInv
    <2>2. ASSUME NEW q \in Ranks, q # r PROVE pc'[q] = pc[q]
      BY <1>0, <1>4, <2>2, OthersKept DEF Kept, LocalStep
    <2>3. ASSUME NEW e, IsPlaced(e)' PROVE IsPlaced(e) \/ Places(r, e)
      <3>1. ASSUME NEW q \in Ranks, WriteData(q) PROVE q = r
        <4>1. pc[q] = "write" /\ pc'[q] = cont[q]
          BY <1>0, <3>1 DEF WriteData, Goto, TypeInv, TypeOK, StepType
        <4>2. cont[q] # "write"
          BY <1>0, <4>1 DEF QueueInv
        <4>3. QED
          BY <2>2, <4>1, <4>2
      <3>2. QED
        BY <2>3, <3>1, PlacedStep
    <2>4. foff[r] + fsize[r] <= eof
      BY <2>1 DEF PlaceInv
    <2>5. ASSUME NEW e, Places(r, e)
          PROVE  /\ e.id \in Ids' /\ e.foff \in Nat /\ e.foff < eof
                 /\ hist'[e.id].ep = epoch - 1 /\ hist'[e.id].rank = r
      <3>1. /\ e.id \in Ids /\ e.foff \in Nat /\ e.foff < foff[r] + fsize[r]
            /\ hist[e.id].ep = epoch - 1 /\ hist[e.id].rank = r
        BY <2>1, <2>5, PlacedAt
      <3>2. QED
        BY <1>0, <1>2, <2>1, <2>4, <3>1, SizeKept
    <2>6. ASSUME NEW e, IsPlaced(e)'
          PROVE  e.id \in Ids' /\ e.foff \in Nat /\ e.foff < eof' /\ hist'[e.id].ep < epoch'
      BY <1>1, <1>2, <2>1, <2>3, <2>5, <2>6
    <2>7. \A q \in Ranks : pc'[q] = "write" => foff'[q] + fsize'[q] <= eof'
      BY <2>1, <2>2 DEF PlaceInv
    <2>8. ASSUME NEW q \in Ranks, NEW e, pc'[q] = "write", IsPlaced(e)'
          PROVE  /\ hist'[e.id].rank = q => hist'[e.id].ep < epoch' - 1
                 /\ hist'[e.id].ep < epoch' - 1 => e.foff < foff'[q]
      <3>1. q # r /\ pc[q] = "write"
        BY <2>1, <2>2, <2>8
      <3>2. CASE IsPlaced(e)
        BY <1>1, <2>1, <3>1, <3>2 DEF PlaceInv
      <3>3. CASE Places(r, e)
        BY <1>2, <2>1, <2>5, <3>1, <3>3
      <3>4. QED
        BY <2>3, <2>8, <3>2, <3>3
    <2>9. QED
      BY <2>6, <2>7, <2>8 DEF PlaceInv
  <1>5. ASSUME NEW offs \in [0 .. NP -> 0 .. MaxBytes], NEW doff \in Addrs \cup {0, eof},
               Creates(offs, doff)
        PROVE  PlaceInv'
    <2>1. /\ UNCHANGED <<hist, fsize, nflushed, wreqs, mdsets>> /\ epoch' = epoch + 1
          /\ IsPrefixSum(offs, fsize) /\ MayAllocate(doff, offs[NP])
          /\ eof' = IF doff + offs[NP] > eof THEN doff + offs[NP] ELSE eof
          /\ foff' = [r \in Ranks |-> offs[r] + doff]
      BY <1>5 DEF Creates, Created
    <2>2. doff = eof
      BY <2>1 DEF MayAllocate
    <2>3. offs \in [0 .. NP -> Nat] /\ fsize \in [Ranks -> Nat] /\ offs[NP] \in Nat
          /\ \A r \in Ranks : offs[r] \in Nat
      <3>1. offs \in [0 .. NP -> Nat]
        BY BoundAssumption
      <3>2. NP \in 0 .. NP /\ \A r \in Ranks : r \in 0 .. NP
        BY NPAssumption DEF Ranks
      <3>3. fsize \in [Ranks -> Nat]
        BY <1>0 DEF TypeInv, TypeOK, ReqType
      <3>4. QED
        BY <3>1, <3>2, <3>3
    <2>4. eof <= eof' /\ eof + offs[NP] = eof'
      BY <1>2, <2>1, <2>2, <2>3
    <2>5. ASSUME NEW r \in Ranks
          PROVE  eof <= foff'[r] /\ foff'[r] + fsize'[r] <= eof' /\ foff'[r] \in Nat
      <3>1. offs[r] + fsize[r] <= offs[NP]
        BY <2>1, <2>3, PrefixSumsApart
      <3>2. foff'[r] = offs[r] + eof /\ fsize'[r] = fsize[r]
        BY <2>1, <2>2
      <3>3. QED
        BY <1>2, <2>3, <2>4, <3>1, <3>2
    <2>6. \A e : IsPlaced(e)' => IsPlaced(e)
      BY <2>1 DEF IsPlaced, Logged, EntriesIn
    <2>7. ASSUME NEW e, IsPlaced(e)'
          PROVE  /\ e.id \in Ids' /\ e.foff \in Nat /\ e.foff < eof /\ hist'[e.id].ep < epoch
                 /\ hist'[e.id].ep \in Nat
      BY <1>1, <2>6, <2>7
    <2>8. eof' \in Nat
      BY <1>2, <2>3, <2>4
    <2>9. ASSUME NEW e, IsPlaced(e)'
          PROVE  e.id \in Ids' /\ e.foff \in Nat /\ e.foff < eof' /\ hist'[e.id].ep < epoch'
      BY <1>2, <2>1, <2>4, <2>7, <2>8, <2>9
    <2>10. ASSUME NEW r \in Ranks, NEW e, IsPlaced(e)'
           PROVE  hist'[e.id].ep < epoch' - 1 /\ e.foff < foff'[r]
      BY <1>2, <2>1, <2>5, <2>7, <2>10
    <2>11. QED
      BY <2>5, <2>9, <2>10 DEF PlaceInv
  <1>6. QED
    BY <1>0, <1>3, <1>4, <1>5, FlushSteps

-----------------------------------------------------------------------------
(* Of two placed writes to a block, the later one is the further one.      *)
OrderInv ==
    \A e, f :
        IsPlaced(e) /\ IsPlaced(f) /\ BlkOf(e.id) = BlkOf(f.id) /\ Supersedes(f.id, e.id) =>
            e.foff < f.foff

\* Two writes that one flush of a rank places.
LEMMA OrderTogether ==
  ASSUME LogInv, EpochInv, NEW r \in Ranks, OwnInv(r), RisingInv(r), pc[r] = "write",
         NEW e, NEW f, Places(r, e), Places(r, f),
         BlkOf(e.id) = BlkOf(f.id), Supersedes(f.id, e.id)
  PROVE  e.foff < f.foff
  <1>0. TypeInv /\ QueueInv(r) /\ LayoutInv(r) /\ SpaceInv
    BY DEF LogInv, Inv
  <1>1. PICK j \in nflushed[r] + 1 .. Len(wreqs[r]) :
          e.id = wreqs[r][j].id /\ e.foff = foff[r] + wreqs[r][j].foff
    BY DEF Places
  <1>2. PICK k \in nflushed[r] + 1 .. Len(wreqs[r]) :
          f.id = wreqs[r][k].id /\ f.foff = foff[r] + wreqs[r][k].foff
    BY DEF Places
  <1>3. /\ j \in 1 .. Len(wreqs[r]) /\ wreqs[r][j].foff \in Nat /\ foff[r] \in Nat
        /\ SizeOf(wreqs[r][j].id) \in Nat /\ SizeOf(wreqs[r][j].id) > 0
    BY <1>0, WritePlaces
  <1>4. k \in 1 .. Len(wreqs[r]) /\ wreqs[r][k].foff \in Nat
    BY <1>0, WritePlaces
  <1>5. e.id < f.id /\ e.id \in Nat /\ f.id \in Nat
    <2>1. hist[e.id].ep = epoch - 1 /\ hist[f.id].ep = epoch - 1 /\ epoch \in Nat
          /\ e.id \in Ids /\ f.id \in Ids
      BY <1>0, PlacedAt, EpochType
    <2>2. ~(hist[e.id].ep < hist[f.id].ep)
      BY <2>1
    <2>3. QED
      BY <2>1, <2>2 DEF Supersedes, Ids
  <1>6. ~(k < j) /\ j # k
    <2>1. k < j => f.id < e.id
      BY <1>1, <1>2, <1>3, <1>4 DEF RisingInv
    <2>2. j = k => e.id = f.id
      BY <1>1, <1>2
    <2>3. QED
      BY <1>5, <2>1, <2>2
  <1>7. j < k
    BY <1>3, <1>4, <1>6
  <1>8. wreqs[r][j].foff + SizeOf(wreqs[r][j].id) <= wreqs[r][k].foff
    <2>1. cur[r] = Len(wreqs[r])
      BY <1>0 DEF LayoutInv
    <2>2. QED
      BY <1>0, <1>7, <2>1 DEF LayoutInv
  <1>9. ASSUME NEW a \in Nat, NEW b \in Nat, NEW c \in Nat, NEW s \in Nat, s > 0, a + s <= b
        PROVE  c + a < c + b
    BY <1>9
  <1>10. QED
    BY <1>1, <1>2, <1>3, <1>4, <1>8, <1>9

LEMMA OrderInvStep ==
  ASSUME LogInv, ~AllocFails, EpochInv, \A q \in Ranks : OwnInv(q) /\ RisingInv(q), PlaceInv,
         OrderInv, [Next]_vars
  PROVE  OrderInv'
  <1>0. TypeInv
    BY DEF LogInv, Inv
  <1>1. ASSUME NEW e, IsPlaced(e)'
        PROVE  /\ e.id \in Ids /\ hist'[e.id] = hist[e.id]
               /\ IsPlaced(e) \/ \E r \in Ranks : WriteData(r) /\ Places(r, e)
    <2>1. IsPlaced(e) \/ \E r \in Ranks : WriteData(r) /\ Places(r, e)
      BY <1>1, PlacedStep
    <2>2. ASSUME NEW r \in Ranks, WriteData(r), Places(r, e) PROVE e.id \in Ids
      BY <2>2, PlacedAt DEF WriteData
    <2>3. e.id \in Ids
      BY <2>1, <2>2 DEF PlaceInv
    <2>4. QED
      BY <1>0, <2>1, <2>3, SizeKept
  <1> SUFFICES ASSUME NEW e, NEW f, IsPlaced(e)', IsPlaced(f)',
                      BlkOf(e.id)' = BlkOf(f.id)', Supersedes(f.id, e.id)'
               PROVE  e.foff < f.foff
    BY Zenon DEF OrderInv
  <1>2. /\ hist[e.id].blk = hist[f.id].blk
        /\ hist[e.id].ep < hist[f.id].ep \/ (hist[e.id].rank = hist[f.id].rank /\ e.id < f.id)
    BY <1>1 DEF BlkOf, Supersedes
  <1>3. BlkOf(e.id) = BlkOf(f.id) /\ Supersedes(f.id, e.id)
    BY <1>2 DEF BlkOf, Supersedes
  <1>4. epoch \in Nat /\ e.id \in Ids /\ f.id \in Ids /\ hist[e.id].ep \in Nat /\ hist[f.id].ep \in Nat
        /\ (e.id < f.id => hist[e.id].ep <= hist[f.id].ep)
    BY <1>0, <1>1, <1>2, EpochType DEF EpochInv
  <1>5. CASE IsPlaced(e) /\ IsPlaced(f)
    BY <1>3, <1>5 DEF OrderInv
  <1>6. ASSUME IsPlaced(e), NEW r \in Ranks, WriteData(r), Places(r, f) PROVE e.foff < f.foff
    <2>1. pc[r] = "write" /\ hist[f.id].ep = epoch - 1 /\ hist[f.id].rank = r
          /\ foff[r] <= f.foff /\ f.foff \in Nat /\ foff[r] \in Nat
      BY <1>6, PlacedAt DEF WriteData
    <2>2. hist[e.id].ep < epoch - 1
      BY <1>2, <1>6, <2>1 DEF PlaceInv
    <2>3. e.foff < foff[r] /\ e.foff \in Nat
      BY <1>6, <2>1, <2>2 DEF PlaceInv
    <2>4. QED
      BY <2>1, <2>3
  <1>7. ASSUME IsPlaced(f), NEW r \in Ranks, WriteData(r), Places(r, e) PROVE FALSE
    <2>1. pc[r] = "write" /\ hist[e.id].ep = epoch - 1 /\ hist[e.id].rank = r
      BY <1>7, PlacedAt DEF WriteData
    <2>2. hist[f.id].ep < epoch /\ (hist[f.id].rank = r => hist[f.id].ep < epoch - 1)
      BY <1>7, <2>1 DEF PlaceInv
    <2>3. QED
      BY <1>2, <1>4, <2>1, <2>2
  <1>8. ASSUME NEW r \in Ranks, WriteData(r), NEW q \in Ranks, WriteData(q) PROVE q = r
    <2>1. pc[q] = "write" /\ pc'[q] = cont[q] /\ cont[q] # "write"
      BY <1>0, <1>8 DEF WriteData, Goto, LogInv, Inv, QueueInv, TypeInv, TypeOK, StepType
    <2>2. q # r => pc'[q] = pc[q]
      BY <1>0, <1>8, OthersKept DEF Kept, LocalStep
    <2>3. QED
      BY <2>1, <2>2
  <1>9. ASSUME NEW r \in Ranks, WriteData(r), Places(r, e), Places(r, f) PROVE e.foff < f.foff
    <2>1. pc[r] = "write"
      BY <1>9 DEF WriteData
    <2>2. QED
      BY <1>3, <1>9, <2>1, OrderTogether
  <1>10. QED
    BY <1>1, <1>2, <1>5, <1>6, <1>7, <1>8, <1>9

-----------------------------------------------------------------------------
(* A rank that reads has nothing queued: its metadata flush has emptied    *)
(* the queue.                                                              *)
CleanInv(r) ==
    /\ ~metadirty[r] => nflushed[r] = 0
    /\ pc[r] \in {"view", "readall"} => NoMerged(r) /\ wreqs[r] = <<>>

LEMMA CleanStep ==
  ASSUME LogInv, [Next]_vars, NEW r \in Ranks, CleanInv(r)
  PROVE  CleanInv(r)'
  <1>0. TypeInv /\ QueueInv(r) /\ ReadyInv(r)
    BY DEF LogInv, Inv
  <1>1. ASSUME nflushed'[r] = nflushed[r], metadirty'[r] = metadirty[r],
               pc'[r] \in {"view", "readall"} =>
                 pc[r] \in {"view", "readall"} /\ mreqs'[r] = mreqs[r] /\ wreqs'[r] = wreqs[r]
        PROVE  CleanInv(r)'
    BY <1>1 DEF CleanInv, NoMerged
  <1> USE DEF TypeInv, TypeOK, StepType, ReqType, MetaType
  <1>2. ASSUME NEW q \in Ranks, q # r, (\E b \in Blocks : Write(q, b)) \/ Call(q) \/ LocalStep(q)
        PROVE  CleanInv(r)'
    <2>1. Same(r) /\ Kept(r) /\ nflushed'[r] = nflushed[r]
      BY <1>0, <1>2, OthersSame, OthersKept, OthersLayout
    <2>2. QED
      BY <1>1, <2>1 DEF Same, Kept
  <1>3. ASSUME NEW b \in Blocks, Write(r, b) PROVE CleanInv(r)'
    BY <1>1, <1>3 DEF Write, metaVars
  <1>4. CASE Call(r)
    <2>1. pc[r] = "app" /\ UNCHANGED <<nflushed, metadirty>>
      BY <1>4 DEF Call, CallFlush, CallRead, CallBufferedRead, CallClose, Joins, reqVars, metaVars
    <2>2. pc'[r] \notin {"view", "readall"}
      BY <1>0, <1>4, <2>1 DEF Call, CallFlush, CallRead, CallBufferedRead, CallClose, Goto
    <2>3. QED
      BY <1>1, <2>1, <2>2
  <1>5. CASE PushMerged(r) \/ Pack(r) \/ WriteSection(r) \/ Return(r)
    <2>1. UNCHANGED <<nflushed, metadirty>>
      BY <1>5 DEF PushMerged, Pack, WriteSection, Return, reqVars, metaVars
    <2>2. pc'[r] \notin {"view", "readall"}
      BY <1>0, <1>5 DEF PushMerged, Pack, WriteSection, Return, Goto
    <2>3. QED
      BY <1>1, <2>1, <2>2
  <1>6. CASE WriteData(r)
    <2>1. metadirty'[r] = TRUE /\ pc'[r] = cont[r] /\ pc[r] = "write"
      BY <1>0, <1>6 DEF WriteData, Goto
    <2>2. pc'[r] \notin {"view", "readall"}
      BY <1>0, <2>1 DEF QueueInv
    <2>3. QED
      BY <2>1, <2>2 DEF CleanInv
  <1>7. CASE MetaClean(r)
    <2>1. nflushed'[r] = 0 /\ pc'[r] \in {"closing", "search"}
      BY <1>0, <1>7 DEF MetaClean, Goto
    <2>2. QED
      BY <2>1 DEF CleanInv
  <1>8. CASE Search(r)
    <2>1. UNCHANGED <<nflushed, metadirty, mreqs, wreqs>> /\ pc[r] = "search"
      BY <1>8 DEF Search, reqVars
    <2>2. CASE metadirty[r]
      <3>1. pc'[r] = "gather"
        BY <1>0, <1>8, <2>2 DEF Search, Goto
      <3>2. QED
        BY <1>1, <2>1, <3>1
    <2>3. CASE ~metadirty[r]
      <3>1. NoMerged(r) /\ nflushed[r] = Len(wreqs[r]) /\ nflushed[r] = 0
        BY <1>0, <2>1, <2>3, NotPending DEF ReadyInv, CleanInv
      <3>2. wreqs[r] = <<>>
        BY <1>0, <3>1, EmptySeq
      <3>3. QED
        BY <2>1, <3>1, <3>2 DEF CleanInv, NoMerged
    <2>4. QED
      BY <2>2, <2>3
  <1>9. CASE Collective
    <2>1. UNCHANGED <<nflushed, metadirty, mreqs, wreqs>>
      BY <1>9 DEF Collective, AllreducePending, ScanAndCreate, GatherAndCreate, MetaBarrier, SetView,
         ReadAll, RestoreView, CloseFile, reqVars, metaVars
    <2>2. pc'[r] \in {"view", "readall"} => pc[r] \in {"view", "readall"}
      <3>1. CASE ScanAndCreate
        <4>1. pc[r] = "scan" /\ (pc' = cont \/ pc' = [q \in Ranks |-> "write"])
          BY <3>1 DEF ScanAndCreate, At
        <4>2. QED
          BY <1>0, <4>1 DEF QueueInv
      <3>2. CASE ~ScanAndCreate
        BY <1>9, <3>2 DEF Collective, AllreducePending, AfterWrites, GatherAndCreate, MetaBarrier,
           SetView, ReadAll, RestoreView, CloseFile, At
      <3>3. QED
        BY <3>1, <3>2
    <2>3. QED
      BY <1>1, <2>1, <2>2
  <1>10. ASSUME NEW m \in {"rw", "ro"}, OpenFile(m) PROVE CleanInv(r)'
    BY <1>10 DEF OpenFile, CleanInv
  <1>11. CASE UNCHANGED vars
    BY <1>1, <1>11 DEF vars, reqVars, metaVars
  <1>12. QED
    BY <1>2, <1>3, <1>4, <1>5, <1>6, <1>7, <1>8, <1>9, <1>10, <1>11 DEF Next, LocalStep, Finished
-----------------------------------------------------------------------------
(* The collective read.                                                    *)

\* The writes to b that a read of rank r has to take account of.
Before(r, b) == {i \in Ids : BlkOf(i) = b /\ (hist[i].ep < epoch \/ hist[i].rank = r)}

ReadOK(r) ==
    \A b \in rd[r] :
        IF Before(r, b) = {} THEN val[r][b] = Fill
        ELSE val[r][b] \in Before(r, b) /\ \A j \in Before(r, b) : ~Supersedes(j, val[r][b])

\* The bytes at an entry's offset are those of its write.
LEMMA DataThere ==
  ASSUME TypeInv, SpaceInv, NEW i, NEW off, HasData(i, off)
  PROVE  DataAt(off) = i
  <1>1. [off |-> off, id |-> i] \in disk
    BY DEF HasData
  <1>2. \A x \in disk : x.id \in Ids /\ x.off \in Nat /\ SizeOf(x.id) \in Nat /\ SizeOf(x.id) > 0
    <2>1. \A x \in disk : x \in [off : Nat, id : Nat] /\ x.id \in Ids
      BY DEF TypeInv, TypeOK, FileType, SpaceInv, OwnedInv
    <2>2. QED
      BY <2>1, SizeType
  <1>3. i \in Ids /\ off \in Nat /\ SizeOf(i) \in Nat /\ SizeOf(i) > 0
    BY <1>1, <1>2
  <1>4. ASSUME NEW x \in disk, x.off = off PROVE x.id = i
    <2>1. x.id = i \/ Apart(off, SizeOf(i), x.off, SizeOf(x.id))
      BY DEF HasData
    <2>2. SizeOf(x.id) \in Nat /\ SizeOf(x.id) > 0
      BY <1>2
    <2>3. ~Apart(off, SizeOf(i), off, SizeOf(x.id))
      BY <1>3, <2>2 DEF Apart
    <2>4. QED
      BY <1>4, <2>1, <2>3
  <1>5. \E x \in disk : x.off = off
    BY <1>1
  <1>6. QED
    BY <1>4, <1>5 DEF DataAt

\* A set of entries has one at the highest offset.
LEMMA LastReadExists ==
  ASSUME NEW hits, hits # {}, NEW n \in Nat, \A e \in hits : e.foff \in Nat /\ e.foff < n
  PROVE  LastRead(hits) \in hits /\ \A f \in hits : f.foff <= LastRead(hits).foff
  <1> DEFINE T == {n - e.foff : e \in hits}
  <1>1. T \in SUBSET Nat /\ T # {}
    OBVIOUS
  <1>2. PICK m \in T : \A k \in T : m <= k
    <2> HIDE DEF T
    <2>1. QED
      BY <1>1, LeastElement
  <1>3. PICK e \in hits : m = n - e.foff
    BY <1>2
  <1>4. ASSUME NEW f \in hits PROVE f.foff <= e.foff
    <2>1. n - e.foff <= n - f.foff /\ e.foff \in Nat /\ f.foff \in Nat
      BY <1>2, <1>3
    <2>2. QED
      BY <2>1
  <1>5. \E x \in hits : \A f \in hits : f.foff <= x.foff
    BY <1>4
  <1>6. QED
    BY <1>5 DEF LastRead
\* At the collective read every write of the history has its entry.
LEMMA AllRecorded ==
  ASSUME LogInv, At("readall"), \A q \in Ranks : CleanInv(q), NEW i \in Ids
  PROVE  \E e \in Logged : e.id = i
  <1>1. hist[i].rank \in Ranks
    BY EpochType DEF LogInv, Inv, WriteRecord
  <1>2. NoMerged(hist[i].rank) /\ wreqs[hist[i].rank] = <<>>
    BY <1>1 DEF At, CleanInv
  <1>3. ~Queued(i)
    BY <1>2, EmptySeq DEF Queued, NoMerged, Range
  <1>4. QED
    BY <1>3 DEF LogInv, Inv, NoWriteLost, Recorded, Logged

\* What a read merges for a block is the last of the writes before it, or the
\* fill value.
LEMMA BlockRead ==
  ASSUME LogInv, PlaceInv, OrderInv, At("readall"), \A q \in Ranks : CleanInv(q) /\ IndexInv(q),
         NEW r \in Ranks, NEW b \in Blocks
  PROVE  IF Before(r, b) = {} THEN ReadBlock(r, b) = Fill
         ELSE ReadBlock(r, b) \in Before(r, b) /\ \A j \in Before(r, b) : ~Supersedes(j, ReadBlock(r, b))
  <1> DEFINE hits == Hits(Logged, {b})
             e == LastRead(hits)
  <1>1. idx[r] = Logged
    BY DEF At, IndexInv
  <1>2. ASSUME NEW f \in hits
        PROVE  IsPlaced(f) /\ f.id \in Before(r, b) /\ BlkOf(f.id) = b /\ f.foff \in Nat /\ f.foff < eof
    <2>1. f \in Logged /\ BlkOf(f.id) = b
      BY DEF Hits
    <2>2. QED
      BY <2>1 DEF IsPlaced, PlaceInv, Before
  <1>3. ASSUME NEW j \in Before(r, b) PROVE \E f \in hits : f.id = j
    BY AllRecorded DEF Before, Hits
  <1>4. CASE hits = {}
    <2>1. Before(r, b) = {}
      BY <1>3, <1>4
    <2>2. ReadBlock(r, b) = Fill
      BY <1>1, <1>4 DEF ReadBlock
    <2>3. QED
      BY <2>1, <2>2
  <1>5. CASE hits # {}
    <2>1. eof \in Nat
      BY DEF LogInv, Inv, TypeInv, TypeOK, FileType
    <2>2. e \in hits /\ \A f \in hits : f.foff <= e.foff
      <3>1. \A f \in hits : f.foff \in Nat /\ f.foff < eof
        BY <1>2
      <3> HIDE DEF hits
      <3>2. QED
        BY <1>5, <2>1, <3>1, LastReadExists
    <2>3. ReadBlock(r, b) = DataAt(e.foff)
      BY <1>1, <1>5 DEF ReadBlock
    <2> HIDE DEF e
    <2>4. HasData(e.id, e.foff)
      BY <2>2 DEF LogInv, LogIntact, Hits, Logged
    <2>5. ReadBlock(r, b) = e.id
      BY <2>3, <2>4, DataThere DEF LogInv, Inv
    <2>6. ASSUME NEW j \in Before(r, b), Supersedes(j, e.id) PROVE FALSE
      <3>1. PICK f \in hits : f.id = j
        BY <1>3
      <3>2. e.foff < f.foff
        BY <1>2, <2>2, <2>6, <3>1 DEF OrderInv
      <3>3. f.foff <= e.foff /\ f.foff \in Nat /\ e.foff \in Nat
        BY <1>2, <2>2, <3>1
      <3>4. QED
        BY <3>2, <3>3
    <2>7. e.id \in Before(r, b)
      BY <1>2, <2>2
    <2>8. QED
      BY <2>5, <2>6, <2>7
  <1>6. QED
    BY <1>4, <1>5

\* A rank that has read and not returned keeps what it read, and what counted
\* for it does not change: no flush goes on without it.
LEMMA ReadKept ==
  ASSUME TypeInv, \A q \in Ranks : QueueInv(q), [Next]_vars, NEW r \in Ranks,
         pc[r] \in {"unview", "return"}, pc'[r] \in {"unview", "return"}
  PROVE  rd'[r] = rd[r] /\ val'[r] = val[r] /\ epoch' = epoch
         /\ \A b \in Blocks : Before(r, b)' = Before(r, b)
  <1> USE DEF TypeInv, TypeOK, StepType, ReadType
  <1>1. rd'[r] = rd[r] /\ val'[r] = val[r]
    <2>1. ASSUME NEW q \in Ranks, q # r, (\E b \in Blocks : Write(q, b)) \/ Call(q) \/ LocalStep(q)
          PROVE  rd'[r] = rd[r] /\ val'[r] = val[r]
      BY <2>1 DEF Write, Call, CallFlush, CallRead, CallBufferedRead, CallClose, LocalStep, PushMerged,
         Pack, WriteData, WriteSection, MetaClean, Search, Return, readVars
    <2>2. ASSUME (\E b \in Blocks : Write(r, b)) \/ Call(r) \/ LocalStep(r) PROVE FALSE
      BY <2>2 DEF Write, Call, CallFlush, CallRead, CallBufferedRead, CallClose, Joins, LocalStep,
         PushMerged, Pack, WriteData, WriteSection, MetaClean, Search, Return, Goto
    <2>3. CASE Collective \/ \E m \in {"rw", "ro"} : OpenFile(m)
      BY <2>3 DEF Collective, AllreducePending, ScanAndCreate, GatherAndCreate, MetaBarrier, SetView,
         ReadAll, RestoreView, CloseFile, OpenFile, At, readVars
    <2>4. CASE UNCHANGED vars
      BY <2>4 DEF vars, readVars
    <2>5. QED
      BY <2>1, <2>2, <2>3, <2>4 DEF Next, Finished
  <1>2. epoch' = epoch
    <2>1. \A offs, doff : ~Creates(offs, doff)
      BY DEF Creates, At
    <2>2. ASSUME NEW q \in Ranks, WriteData(q) PROVE epoch' = epoch
      BY <2>2 DEF WriteData, appVars
    <2>3. QED
      BY <2>1, <2>2, FlushSteps DEF Quiet
  <1>3. \A i \in Ids : i \in Ids' /\ hist'[i] = hist[i]
    BY SizeKept
  <1>4. ASSUME NEW i \in Ids', i \notin Ids PROVE ~(hist'[i].ep < epoch \/ hist'[i].rank = r)
    <2>1. hist'[i].ep = epoch /\ hist'[i].rank # r
      BY <1>4, NewIds
    <2>2. epoch \in Nat
      BY DEF AppType
    <2>3. QED
      BY <2>1, <2>2
  <1>5. ASSUME NEW b \in Blocks PROVE Before(r, b)' = Before(r, b)
    <2>1. \A i : i \in Before(r, b)' <=> i \in Before(r, b)
      BY <1>2, <1>3, <1>4 DEF Before, BlkOf
    <2>2. Before(r, b)' = {i \in Before(r, b)' : TRUE} /\ Before(r, b) = {i \in Before(r, b) : TRUE}
      OBVIOUS
    <2>3. QED
      BY <2>1
  <1>6. QED
    BY <1>1, <1>2, <1>5

ReadStepInv ==
    \A r \in Ranks : pc[r] \in {"unview", "return"} => ReadOK(r)

LEMMA ReadStep ==
  ASSUME LogInv, EpochInv, PlaceInv, OrderInv, \A q \in Ranks : CleanInv(q) /\ IndexInv(q),
         ReadStepInv, [Next]_vars
  PROVE  ReadStepInv'
  <1>0. TypeInv /\ \A q \in Ranks : QueueInv(q)
    BY DEF LogInv, Inv
  <1> SUFFICES ASSUME NEW r \in Ranks, pc'[r] \in {"unview", "return"} PROVE ReadOK(r)'
    BY DEF ReadStepInv
  <1>1. rd[r] \subseteq Blocks /\ rd'[r] \subseteq Blocks
    <2>1. TypeInv'
      BY <1>0, TypeStep
    <2>2. QED
      BY <1>0, <2>1 DEF TypeInv, TypeOK, ReadType
  <1>2. CASE pc[r] \in {"unview", "return"}
    <2>1. /\ rd'[r] = rd[r] /\ val'[r] = val[r] /\ epoch' = epoch
          /\ \A b \in Blocks : Before(r, b)' = Before(r, b)
      BY <1>0, <1>2, ReadKept
    <2>2. \A b \in rd[r] : val[r][b] \in Before(r, b) => val[r][b] \in Ids
      BY DEF Before
    <2>3. \A i, j \in Ids : Supersedes(j, i)' = Supersedes(j, i)
      BY <1>0, SizeKept DEF Supersedes
    <2>4. \A b : \A j \in Before(r, b) : j \in Ids
      BY DEF Before
    <2>5. ReadOK(r)
      BY <1>2 DEF ReadStepInv
    <2>6. ASSUME NEW b \in rd'[r]
          PROVE  IF Before(r, b)' = {} THEN val'[r][b] = Fill
                 ELSE /\ val'[r][b] \in Before(r, b)'
                      /\ \A j \in Before(r, b)' : ~Supersedes(j, val[r][b])'
      <3>1. b \in rd[r] /\ b \in Blocks /\ Before(r, b)' = Before(r, b) /\ val'[r][b] = val[r][b]
        BY <1>1, <2>1
      <3>2. IF Before(r, b) = {} THEN val[r][b] = Fill
            ELSE val[r][b] \in Before(r, b) /\ \A j \in Before(r, b) : ~Supersedes(j, val[r][b])
        BY <2>5, <3>1 DEF ReadOK
      <3>3. CASE Before(r, b) = {}
        BY <3>1, <3>2, <3>3
      <3>4. CASE Before(r, b) # {}
        BY <2>2, <2>3, <2>4, <3>1, <3>2, <3>4
      <3>5. QED
        BY <3>3, <3>4
    <2>7. QED
      BY <2>6 DEF ReadOK
  <1>3. CASE ReadAll
    <2>1. /\ At("readall") /\ UNCHANGED <<hist, epoch, rd>>
          /\ \A b \in rd[r] : val'[r][b] = ReadBlock(r, b)
      BY <1>1, <1>3 DEF ReadAll, appVars
    <2>2. ASSUME NEW b \in rd[r]
          PROVE  IF Before(r, b) = {} THEN ReadBlock(r, b) = Fill
                 ELSE /\ ReadBlock(r, b) \in Before(r, b)
                      /\ \A j \in Before(r, b) : ~Supersedes(j, ReadBlock(r, b))
      BY <1>1, <2>1, BlockRead
    <2>3. QED
      BY <2>1, <2>2 DEF ReadOK, Before, BlkOf, Supersedes, Ids
  <1>4. CASE pc[r] \notin {"unview", "return"} /\ ~ReadAll
    <2> USE DEF TypeInv, TypeOK, StepType
    <2>1. CASE Collective
      <3>1. CASE ScanAndCreate
        <4>1. pc[r] = "scan" /\ (pc' = cont \/ pc' = [q \in Ranks |-> "write"])
          BY <3>1 DEF ScanAndCreate, At
        <4>2. QED
          BY <1>0, <4>1 DEF QueueInv
      <3>2. CASE ~ScanAndCreate
        BY <1>0, <1>4, <2>1, <3>2 DEF Collective, AllreducePending, AfterWrites, GatherAndCreate,
           MetaBarrier, SetView, RestoreView, CloseFile, At
      <3>3. QED
        BY <3>1, <3>2
    <2>2. ASSUME NEW q \in Ranks, (\E b \in Blocks : Write(q, b)) \/ Call(q) \/ LocalStep(q) PROVE FALSE
      <3>1. CASE q # r
        <4>1. pc'[r] = pc[r]
          BY <1>0, <2>2, <3>1, OthersKept DEF Kept
        <4>2. QED
          BY <1>4, <4>1
      <3>2. CASE q = r
        <4>1. CASE WriteData(r)
          <5>1. pc[r] = "write" /\ pc'[r] = cont[r]
            BY <1>0, <4>1 DEF WriteData, Goto
          <5>2. QED
            BY <1>0, <5>1 DEF QueueInv
        <4>2. CASE ~WriteData(r)
          BY <1>0, <1>4, <2>2, <3>2, <4>2 DEF Write, Call, CallFlush, CallRead, CallBufferedRead, CallClose,
             Joins, LocalStep, PushMerged, Pack, WriteSection, MetaClean, Search, Return, Goto
        <4>3. QED
          BY <4>1, <4>2
      <3>3. QED
        BY <3>1, <3>2
    <2>3. ASSUME NEW m \in {"rw", "ro"}, OpenFile(m) PROVE FALSE
      BY <2>3 DEF OpenFile
    <2>4. CASE UNCHANGED vars
      BY <1>4, <2>4 DEF vars
    <2>5. QED
      BY <2>1, <2>2, <2>3, <2>4 DEF Next, Finished
  <1>5. QED
    BY <1>2, <1>3, <1>4

\* The invariant of what reads return.
LatestInv ==
    /\ LogInv /\ SectionInv /\ EpochInv /\ PlaceInv /\ OrderInv /\ ReadStepInv
    /\ \A r \in Ranks : OwnInv(r) /\ RisingInv(r) /\ CleanInv(r) /\ IndexInv(r)

LEMMA LatestInit == Init => LatestInv
  <1> SUFFICES ASSUME Init PROVE LatestInv
    OBVIOUS
  <1>1. LogInv /\ SectionInv /\ ReadStepInv
    BY LogInit DEF Init, SectionInv, ReadStepInv
  <1>2. Len(hist) = 0 /\ Len(mdsets) = 0 /\ \A r \in Ranks : Len(wreqs[r]) = 0 /\ NoMerged(r)
        /\ \A d \in 0 .. NDset - 1 : Len(mreqs[r][d]) = 0
    BY EmptySeq DEF Init, NoMerged
  <1>3. \A r \in Ranks : OwnInv(r) /\ RisingInv(r)
    BY <1>2 DEF OwnInv, RisingInv
  <1>4. \A r \in Ranks : CleanInv(r) /\ IndexInv(r)
    BY DEF Init, CleanInv, IndexInv
  <1>5. EpochInv
    BY <1>2 DEF EpochInv, Unflushed, Ids, Init
  <1>6. \A e : ~IsPlaced(e)
    BY <1>2 DEF IsPlaced, Logged, EntriesIn, Init
  <1>7. PlaceInv /\ OrderInv
    BY <1>6 DEF PlaceInv, OrderInv, Init
  <1>8. QED
    BY <1>1, <1>3, <1>4, <1>5, <1>7 DEF LatestInv

LEMMA LatestStep ==
  ASSUME LatestInv, [Next]_vars, ~AllocFails, InOrder, FlushFirst \/ NP = 1
  PROVE  LatestInv'
  <1>0. /\ TypeInv /\ NumberInv /\ \A r \in Ranks : QueueInv(r)
        /\ LogInv /\ SectionInv /\ EpochInv /\ PlaceInv /\ OrderInv /\ ReadStepInv
        /\ \A r \in Ranks : OwnInv(r) /\ RisingInv(r) /\ CleanInv(r) /\ IndexInv(r)
    BY DEF LatestInv, LogInv, Inv
  <1>1. LogInv'
    BY <1>0, LogStep
  <1>2. SectionInv' /\ EpochInv'
    BY <1>0, SectionStep, EpochStep
  <1>3. PlaceInv' /\ OrderInv'
    BY <1>0, PlaceStep, OrderInvStep
  <1>4. ReadStepInv'
    BY <1>0, ReadStep
  <1>5. ASSUME NEW r \in Ranks PROVE OwnInv(r)' /\ RisingInv(r)' /\ CleanInv(r)' /\ IndexInv(r)'
    BY <1>0, OrderStep, CleanStep, IndexStep
  <1>6. QED
    BY <1>1, <1>2, <1>3, <1>4, <1>5 DEF LatestInv

\* A read returns the bytes of a write that no other write supersedes, however
\* the ranks' writes, flushes and reads interleave and over any sessions.  The
\* log datasets have to follow each other in the file, as the code assumes when
\* it lets the highest offset win.
THEOREM ReadsLatest ==
  ASSUME InOrder, ~AllocFails, FlushFirst \/ NP = 1
  PROVE  Spec => []ReadReturnsLatest
  <1>1. LatestInv /\ [Next]_vars => LatestInv'
    BY LatestStep
  <1>2. LatestInv => ReadReturnsLatest
    BY DEF LatestInv, ReadStepInv, ReadOK, Before, ReadReturnsLatest
  <1>3. QED
    BY <1>1, <1>2, LatestInit, PTL DEF Spec
=============================================================================
