---------------------------- MODULE HandlesProofs ----------------------------
(***************************************************************************)
(* Theorems about Handles, for any number of files, file objects and       *)
(* handles.  The actions are first sorted by what they do to the counts:   *)
(* a file is opened, a reference is taken or dropped, a wrap context       *)
(* changes, or nothing that counts happens.  The invariants and the        *)
(* refinement are then proved of these kinds of step.                      *)
(***************************************************************************)
EXTENDS Handles, TLAPS

\* One handle more, or one less.
OneMore(p) ==
    \/ fids' = Bump(fids, p) /\ UNCHANGED <<objs, dsets, lost>>
    \/ objs' = Bump(objs, p) /\ UNCHANGED <<fids, dsets, lost>>
    \/ dsets' = Bump(dsets, p) /\ UNCHANGED <<fids, objs, lost>>
    \/ lost' = Bump(lost, p) /\ UNCHANGED <<fids, objs, dsets>>
OneLess(p) ==
    \/ fids[p] > 0 /\ fids' = Drop(fids, p) /\ UNCHANGED <<objs, dsets, lost>>
    \/ objs[p] > 0 /\ objs' = Drop(objs, p) /\ UNCHANGED <<fids, dsets, lost>>
    \/ dsets[p] > 0 /\ dsets' = Drop(dsets, p) /\ UNCHANGED <<fids, objs, lost>>

\* A file is opened, and its file object handed out or kept back.
Opens(f, p) ==
    /\ life[p] = "new" /\ NotOpen(f)
    /\ Made(f, p) /\ Register(f, p) /\ HandedOut(p)
Strands(f, p) ==
    /\ life[p] = "new" /\ NotOpen(f)
    /\ Made(f, p) /\ (Register(f, p) \/ UNCHANGED files)
    /\ Withheld(p)
Takes(p) ==
    /\ life[p] = "open" /\ Held(p) > 0 /\ refcnt' = Bump(refcnt, p) /\ OneMore(p)
    /\ UNCHANGED <<files, file, life, wraps, ctx>>

\* After the last reference is dropped, the file is closed or broken.
Stays(p) == refcnt'[p] # 0 /\ OneLess(p) /\ UNCHANGED <<files, life>>
Ends(p) ==
    /\ refcnt'[p] = 0 /\ OneLess(p)
    /\ files' = [files EXCEPT ![file[p]] = None]
    /\ life' = [life EXCEPT ![p] = "deleted"]
Breaks(p) ==
    /\ refcnt'[p] = 0 /\ (left[p] > 0 \/ "flush" \in Failing)
    /\ OneLess(p) \/ UNCHANGED <<fids, objs, dsets, lost>>
    /\ life' = [life EXCEPT ![p] = "broken"] /\ UNCHANGED files
Drops(p) ==
    /\ p \in Open /\ Held(p) > 0 /\ NotIterated(p) /\ refcnt' = Drop(refcnt, p)
    /\ UNCHANGED <<file, wraps, ctx>>
    /\ Stays(p) \/ Ends(p) \/ Breaks(p)

counted == <<files, file, life, refcnt, fids, objs, dsets, lost>>
Wraps(p) ==
    /\ life[p] = "open" /\ UNCHANGED counted
    /\ \/ ctx' = [ctx EXCEPT ![p] = TRUE] /\ UNCHANGED wraps
       \/ ctx[p] /\ wraps' = Bump(wraps, p) /\ UNCHANGED ctx
Unwraps(p) ==
    /\ UNCHANGED counted
    /\ \/ wraps[p] > 0 /\ wraps' = Drop(wraps, p) /\ UNCHANGED ctx
       \/ (wraps[p] = 0 \/ WrappedClosed) /\ ctx' = [ctx EXCEPT ![p] = FALSE] /\ UNCHANGED wraps

Kinds ==
    \/ \E f \in Files, p \in Fps : Opens(f, p) \/ Strands(f, p)
    \/ \E p \in Fps : Takes(p) \/ Drops(p) \/ Wraps(p) \/ Unwraps(p)
    \/ UNCHANGED <<counted, wraps, ctx>>

\* The counts and the registry.
CountType ==
    /\ files \in [Files -> Fps \cup {None}]
    /\ file \in [Fps -> Files \cup {None}]
    /\ life \in [Fps -> {"new", "open", "broken", "deleted"}]
    /\ refcnt \in [Fps -> Int]
    /\ fids \in [Fps -> Nat] /\ objs \in [Fps -> Nat] /\ dsets \in [Fps -> Nat]
    /\ wraps \in [Fps -> Nat]
    /\ lost \in [Fps -> Nat] /\ left \in [Fps -> Nat] /\ fails \in Nat
-----------------------------------------------------------------------------
\* Dropping a reference, in a call that returns the error of a failed close.
LEMMA DecRefKind ==
  ASSUME NEW p, DecRefReturning(p)
  PROVE  /\ refcnt' = Drop(refcnt, p)
         /\ \/ refcnt'[p] # 0 /\ ok' /\ UNCHANGED <<files, life>>
            \/ /\ refcnt'[p] = 0 /\ ok' /\ files' = [files EXCEPT ![file[p]] = None]
               /\ life' = [life EXCEPT ![p] = "deleted"]
            \/ /\ refcnt'[p] = 0 /\ ~ok' /\ (left[p] > 0 \/ "flush" \in Failing)
               /\ life' = [life EXCEPT ![p] = "broken"] /\ UNCHANGED files
  BY DEF DecRefReturning, CloseFails, MayFail, Closed, Broken, Succeed

\* Dropping a reference in a destructor.
LEMMA DestroyKind ==
  ASSUME NEW p, Destroy(p)
  PROVE  /\ refcnt' = Drop(refcnt, p)
         /\ \/ refcnt'[p] # 0 /\ UNCHANGED <<files, life>>
            \/ /\ refcnt'[p] = 0 /\ files' = [files EXCEPT ![file[p]] = None]
               /\ life' = [life EXCEPT ![p] = "deleted"]
            \/ /\ refcnt'[p] = 0 /\ (left[p] > 0 \/ "flush" \in Failing)
               /\ life' = [life EXCEPT ![p] = "broken"] /\ UNCHANGED files
  BY DEF Destroy, CloseFails, MayFail, Closed, Broken, Succeed

\* Every call is of one of the kinds, except the close of a file handle that
\* came out of a wrap context.
LEMMA CallKinds ==
  ASSUME CountType, Call, \A p \in Fps : ~WrappedClose(p)
  PROVE  Kinds
  <1>1. ASSUME NEW f \in Files, NEW p \in Fps, FileCreate(f, p) \/ FileOpen(f, p)
        PROVE  Kinds
    <2>1. Opens(f, p) \/ Strands(f, p) \/ UNCHANGED <<counted, wraps, ctx>>
      BY <1>1 DEF FileCreate, FileOpen, Fresh, PostCreate, PostOpen, Opens, Strands, counted,
         NotMade, NoRefs, Refused, handles
    <2>2. QED
      BY <2>1 DEF Kinds
  <1>2. ASSUME NEW p \in Fps, FileReopen(p) \/ ObjectMake(p) \/ DatasetCreate(p)
                               \/ DatasetOpen(p) \/ WrapObject(p) \/ WrapDataset(p)
        PROVE  Kinds
    <2>1. Takes(p) \/ UNCHANGED <<counted, wraps, ctx>>
      <3>1. CASE FileReopen(p)
        BY <3>1 DEF FileReopen, Usable, Takes, OneMore
      <3>2. CASE ObjectMake(p) \/ WrapObject(p)
        BY <3>2 DEF ObjectMake, WrapObject, Makes, Usable, Takes, OneMore, counted
      <3>3. CASE DatasetCreate(p) \/ DatasetOpen(p) \/ WrapDataset(p)
        BY <3>3 DEF DatasetCreate, DatasetOpen, WrapDataset, NewDataset, InfoFails, Makes, Usable,
                    Takes, OneMore, counted
      <3>4. QED
        BY <1>2, <3>1, <3>2, <3>3
    <2>2. QED
      BY <2>1 DEF Kinds
  <1>3. ASSUME NEW p \in Fps, FileClose(p)
        PROVE  Kinds
    <2>1. Held(p) > 0
      BY <1>3 DEF CountType, FileClose, Held
    <2>2. Drops(p)
      BY <1>3, <2>1, DecRefKind DEF FileClose, Drops, Stays, Ends, Breaks, OneLess
    <2>3. QED
      BY <2>2 DEF Kinds
  <1>4. ASSUME NEW p \in Fps, CloseObject(p) \/ DatasetClose(p)
        PROVE  Kinds
    <2>1. Held(p) > 0
      BY <1>4 DEF CountType, CloseObject, DatasetClose, Held
    <2>2. Drops(p) \/ UNCHANGED <<counted, wraps, ctx>>
      BY <1>4, <2>1, DestroyKind DEF CloseObject, DatasetClose, Open, Drops, Stays, Ends, Breaks, OneLess,
         NoRefs, counted
    <2>3. QED
      BY <2>2 DEF Kinds
  <1>5. ASSUME NEW p \in Fps, UnwrapObject(p)
        PROVE  Kinds
    <2>1. CASE wraps[p] > 0 /\ wraps' = Drop(wraps, p) /\ NoRefs /\ UNCHANGED <<objs, dsets>>
      <3>1. Unwraps(p)
        BY <1>5, <2>1 DEF UnwrapObject, Unwraps, NoRefs, counted
      <3>2. QED
        BY <3>1 DEF Kinds
    <2>2. CASE ~(wraps[p] > 0 /\ wraps' = Drop(wraps, p) /\ NoRefs /\ UNCHANGED <<objs, dsets>>)
      <3>1. Drops(p)
        BY <1>5, <2>2, DestroyKind DEF UnwrapObject, Usable, Open, Drops, Stays, Ends, Breaks, OneLess
      <3>2. QED
        BY <3>1 DEF Kinds
    <2>3. QED
      BY <2>1, <2>2
  <1>6. ASSUME NEW p \in Fps, GetWrapCtx(p) \/ WrapFile(p) \/ FreeWrapCtx(p)
        PROVE  Kinds
    <2>1. CASE GetWrapCtx(p) \/ WrapFile(p)
      <3>1. Wraps(p)
        BY <2>1 DEF GetWrapCtx, WrapFile, Usable, Wraps, NoRefs, counted
      <3>2. QED
        BY <3>1 DEF Kinds
    <2>2. CASE FreeWrapCtx(p)
      <3>1. Unwraps(p)
        BY <2>2 DEF FreeWrapCtx, Unwraps, NoRefs, counted
      <3>2. QED
        BY <3>1 DEF Kinds
    <2>3. QED
      BY <1>6, <2>1, <2>2
  <1>7. QED
    BY <1>1, <1>2, <1>3, <1>4, <1>5, <1>6 DEF Call, Closes, GroupClose, AttrClose, DatatypeClose

\* So is every step.
LEMMA StepKinds ==
  ASSUME CountType, [Next]_vars
  PROVE  Kinds \/ (WrappedClosed /\ \E p \in Fps : WrappedClose(p))
  <1>1. CASE \E p \in Fps : WrappedClose(p)
    BY <1>1 DEF WrappedClose
  <1>2. CASE Call /\ \A p \in Fps : ~WrappedClose(p)
    BY <1>2, CallKinds
  <1>3. CASE Finish \/ UNCHANGED vars
    BY <1>3 DEF Finish, NoRefs, handles, vars, Kinds, counted
  <1>4. QED
    BY <1>1, <1>2, <1>3 DEF Next
-----------------------------------------------------------------------------
(***************************************************************************)
(* Type correctness                                                        *)
(***************************************************************************)
\* The flags.
FlagType ==
    /\ ctx \in [Fps -> BOOLEAN]
    /\ ok \in BOOLEAN /\ aborted \in BOOLEAN /\ done \in BOOLEAN

\* Dropping a reference keeps the types of what it changes.
LEMMA DropType ==
  ASSUME CountType, NEW p \in Fps, DecRefReturning(p) \/ Destroy(p)
  PROVE  /\ files' \in [Files -> Fps \cup {None}]
         /\ life' \in [Fps -> {"new", "open", "broken", "deleted"}]
         /\ refcnt' \in [Fps -> Int] /\ fails' \in Nat
  <1>1. fails' = fails \/ fails' = fails + 1
    BY DEF DecRefReturning, Destroy, Closed, Broken, Succeed
  <1>2. QED
    BY <1>1, DecRefKind, DestroyKind DEF CountType, Drop

LEMMA DropFlags ==
  ASSUME FlagType, NEW p \in Fps, DecRefReturning(p) \/ Destroy(p)
  PROVE  ok' \in BOOLEAN /\ aborted' \in BOOLEAN
  BY Zenon DEF FlagType, DecRefReturning, Destroy, Closed, Succeed

\* Every call keeps the types of the counts.
LEMMA CountTypeCall ==
  ASSUME CountType, Call
  PROVE  CountType'
  <1>1. ASSUME NEW f \in Files, NEW p \in Fps, FileCreate(f, p) \/ FileOpen(f, p)
        PROVE  CountType'
    BY <1>1 DEF CountType, FileCreate, FileOpen, Made, NotMade, PostCreate, PostOpen, Register,
       HandedOut, Withheld, Bump, Refused, Fail, Succeed, NoRefs, handles
  <1>2. ASSUME NEW p \in Fps, FileReopen(p) \/ ObjectMake(p) \/ WrapObject(p)
        PROVE  CountType'
    BY <1>2 DEF CountType, FileReopen, ObjectMake, WrapObject, Fail, Succeed, Bump
  <1>3. ASSUME NEW p \in Fps, DatasetCreate(p) \/ DatasetOpen(p) \/ WrapDataset(p)
        PROVE  CountType'
    BY <1>3 DEF CountType, DatasetCreate, DatasetOpen, WrapDataset, NewDataset, InfoFails, Fail,
       Succeed, Bump
  <1>4. ASSUME NEW p \in Fps, FileClose(p) \/ WrappedClose(p)
        PROVE  CountType'
    BY <1>4, DropType DEF CountType, FileClose, WrappedClose, Drop
  <1>5. ASSUME NEW p \in Fps, CloseObject(p) \/ DatasetClose(p) \/ UnwrapObject(p)
        PROVE  CountType'
    <2>1. CASE Destroy(p)
      BY <1>5, <2>1, DropType DEF CountType, CloseObject, DatasetClose, UnwrapObject, Drop, NoRefs
    <2>2. CASE ~Destroy(p)
      BY <1>5, <2>2 DEF CountType, CloseObject, DatasetClose, UnwrapObject, Drop, Succeed, Fail, NoRefs
    <2>3. QED
      BY <2>1, <2>2
  <1>6. ASSUME NEW p \in Fps, GetWrapCtx(p) \/ WrapFile(p) \/ FreeWrapCtx(p)
        PROVE  CountType'
    BY <1>6 DEF CountType, GetWrapCtx, WrapFile, FreeWrapCtx, Bump, Succeed, NoRefs
  <1>7. QED
    BY <1>1, <1>2, <1>3, <1>4, <1>5, <1>6
    DEF Call, Closes, GroupClose, AttrClose, DatatypeClose

\* Every call keeps the types of the flags.
LEMMA FlagTypeCall ==
  ASSUME FlagType, Call, UNCHANGED done
  PROVE  FlagType'
  <1> USE Zenon DEF FlagType
  <1>1. ASSUME NEW f \in Files, NEW p \in Fps, FileCreate(f, p) \/ FileOpen(f, p)
        PROVE  FlagType'
    BY <1>1 DEF FileCreate, FileOpen, Made, NotMade, PostCreate, PostOpen, HandedOut, Withheld,
       Refused, Fail, Succeed, NoRefs, handles
  <1>2. ASSUME NEW p \in Fps, FileReopen(p) \/ ObjectMake(p) \/ WrapObject(p)
        PROVE  FlagType'
    BY <1>2 DEF FileReopen, ObjectMake, WrapObject, Fail, Succeed
  <1>3. ASSUME NEW p \in Fps, DatasetCreate(p) \/ DatasetOpen(p) \/ WrapDataset(p)
        PROVE  FlagType'
    BY <1>3 DEF DatasetCreate, DatasetOpen, WrapDataset, NewDataset, InfoFails, Fail, Succeed
  <1>4. ASSUME NEW p \in Fps, FileClose(p) \/ WrappedClose(p)
        PROVE  FlagType'
    BY <1>4, DropFlags DEF FileClose, WrappedClose
  <1>5. ASSUME NEW p \in Fps, CloseObject(p) \/ DatasetClose(p) \/ UnwrapObject(p)
        PROVE  FlagType'
    BY <1>5, DropFlags DEF CloseObject, DatasetClose, UnwrapObject, Fail, Succeed, NoRefs
  <1>6. ASSUME NEW p \in Fps, GetWrapCtx(p) \/ WrapFile(p) \/ FreeWrapCtx(p)
        PROVE  FlagType'
    BY <1>6 DEF GetWrapCtx, WrapFile, FreeWrapCtx, Succeed, NoRefs
  <1>7. QED
    BY <1>1, <1>2, <1>3, <1>4, <1>5, <1>6
    DEF Call, Closes, GroupClose, AttrClose, DatatypeClose

\* Every step keeps the types.
LEMMA TypeStep ==
  ASSUME TypeOK, [Next]_vars
  PROVE  TypeOK'
  <1>1. CountType /\ FlagType
    BY DEF TypeOK, CountType, FlagType
  <1>2. CASE Call /\ UNCHANGED done
    BY <1>1, <1>2, CountTypeCall, FlagTypeCall, Zenon DEF TypeOK, CountType, FlagType
  <1>3. CASE Finish
    BY <1>1, <1>3, Zenon DEF TypeOK, Finish, NoRefs, handles
  <1>4. CASE UNCHANGED vars
    BY <1>4, Zenon DEF TypeOK, vars
  <1>5. QED
    BY <1>2, <1>3, <1>4 DEF Next

\* The initial state has the types.
LEMMA InitTyped == Init => TypeOK
  <1>1. Init => CountType
    BY DEF Init, CountType
  <1>2. Init => FlagType
    BY Zenon DEF Init, FlagType
  <1>3. QED
    BY <1>1, <1>2, Zenon DEF TypeOK, CountType, FlagType

\* Type correctness, whatever calls fail and however handles are obtained:
\* a count of handles is never negative, a registered file object is one
\* (the counters and the registry of H5VL_log_filei.cpp).
THEOREM TypeCorrect == Spec => []TypeOK
  <1>1. TypeOK /\ [Next]_vars => TypeOK'
    BY TypeStep
  <1>2. QED
    BY <1>1, InitTyped, PTL DEF Spec
-----------------------------------------------------------------------------
(***************************************************************************)
(* References                                                              *)
(***************************************************************************)
\* An open file object counts its handles; one whose close failed has
\* dropped all it counted, and never comes to zero again; before it is used
\* and after it is closed nothing is held of it.  A handle out of a wrap
\* context does not count, so it has to go before the context, and the
\* context, which counts as little, before the last handle.
CountOf(p) ==
    /\ life[p] = "open" => refcnt[p] = References(p) /\ refcnt[p] > 0
    /\ life[p] = "broken" => refcnt[p] <= 0
    /\ life[p] \in {"new", "deleted"} => Held(p) = 0 /\ ~ctx[p]
    /\ life[p] = "new" => lost[p] = 0
    /\ wraps[p] > 0 => ctx[p]
CountInv == \A p \in Fps : CountOf(p)

\* The registry and the file objects point at each other.
HeldRegistered(p) ==
    p \in Open /\ Held(p) > 0 => file[p] \in Files /\ files[file[p]] = p
RegisteredOpen(f) == files[f] # None => files[f] \in Open /\ file[files[f]] = f
RegistryInv ==
    /\ \A p \in Fps : HeldRegistered(p)
    /\ \A f \in Files : RegisteredOpen(f)

Inv == CountType /\ CountInv /\ RegistryInv

\* The initial state.
LEMMA InvInit == Init => Inv
  BY DEF Init, Inv, CountType, CountInv, CountOf, RegistryInv, HeldRegistered, RegisteredOpen,
     Held, Open

\* The handles of other file objects are left alone.
LEMMA OneMoreCounts ==
  ASSUME CountType, NEW p \in Fps, OneMore(p)
  PROVE  /\ References(p)' = References(p) + 1
         /\ \A q \in Fps \ {p} : Held(q)' = Held(q) /\ References(q)' = References(q)
         /\ Held(p)' = IF lost' = lost THEN Held(p) + 1 ELSE Held(p)
  BY DEF CountType, OneMore, Bump, References, Held

LEMMA OneLessCounts ==
  ASSUME CountType, NEW p \in Fps, OneLess(p)
  PROVE  /\ References(p)' = References(p) - 1 /\ Held(p)' = Held(p) - 1 /\ lost' = lost
         /\ \A q \in Fps \ {p} : Held(q)' = Held(q) /\ References(q)' = References(q)
  BY DEF CountType, OneLess, Drop, References, Held

\* A file object that a step leaves alone keeps its counts.
LEMMA OthersCounted ==
  ASSUME CountInv, NEW q \in Fps,
         life'[q] = life[q], refcnt'[q] = refcnt[q], Held(q)' = Held(q), lost'[q] = lost[q],
         References(q)' = References(q), wraps'[q] = wraps[q], ctx'[q] = ctx[q]
  PROVE  CountOf(q)'
  BY DEF CountInv, CountOf

\* A step of any kind keeps the counts.
LEMMA CountStep ==
  ASSUME ~WrappedClosed, CountType, ctx \in [Fps -> BOOLEAN], CountInv, Kinds
  PROVE  CountInv'
  <1>1. ASSUME NEW f \in Files, NEW p \in Fps, Opens(f, p), NEW q \in Fps
        PROVE  CountOf(q)'
    <2>1. CASE q = p
      <3>1. Held(p) = 0 /\ lost[p] = 0 /\ ~ctx[p] /\ wraps[p] = 0
        BY <1>1 DEF CountInv, CountOf, Opens, CountType
      <3>2. objs[p] = 0 /\ dsets[p] = 0
        BY <3>1 DEF Held, CountType
      <3>3. /\ life'[p] = "open" /\ refcnt'[p] = 1 /\ fids'[p] = 1
            /\ objs' = objs /\ dsets' = dsets /\ lost' = lost /\ wraps' = wraps
        BY <1>1 DEF Opens, Made, HandedOut, CountType
      <3>4. References(p)' = 1
        BY <3>1, <3>2, <3>3 DEF References
      <3>5. QED
        BY <2>1, <3>1, <3>3, <3>4 DEF CountOf
    <2>2. CASE q # p
      BY <1>1, <2>2, OthersCounted DEF CountType, Opens, Made, HandedOut, References, Held
    <2>3. QED
      BY <2>1, <2>2
  <1>2. ASSUME NEW f \in Files, NEW p \in Fps, Strands(f, p), NEW q \in Fps
        PROVE  CountOf(q)'
    <2>1. CASE q = p
      <3>1. Held(p) = 0 /\ lost[p] = 0 /\ ~ctx[p] /\ wraps[p] = 0
        BY <1>2 DEF CountInv, CountOf, Strands, CountType
      <3>2. fids[p] = 0 /\ objs[p] = 0 /\ dsets[p] = 0
        BY <3>1 DEF Held, CountType
      <3>3. /\ life'[p] = "open" /\ refcnt'[p] = 1 /\ lost'[p] = 1
            /\ fids' = fids /\ objs' = objs /\ dsets' = dsets /\ wraps' = wraps
        BY <1>2, <3>1 DEF Strands, Made, Withheld, Bump, CountType
      <3>4. References(p)' = 1
        BY <3>2, <3>3 DEF References
      <3>5. QED
        BY <2>1, <3>1, <3>3, <3>4 DEF CountOf
    <2>2. CASE q # p
      BY <1>2, <2>2, OthersCounted DEF CountType, Strands, Made, Withheld, Bump, References, Held
    <2>3. QED
      BY <2>1, <2>2
  <1>3. ASSUME NEW p \in Fps, Takes(p), NEW q \in Fps
        PROVE  CountOf(q)'
    <2>1. CASE q = p
      BY <1>3, <2>1, OneMoreCounts DEF CountInv, CountOf, CountType, Takes, Bump
    <2>2. CASE q # p
      <3>1. lost'[q] = lost[q] /\ refcnt'[q] = refcnt[q]
        BY <1>3, <2>2 DEF CountType, Takes, OneMore, Bump
      <3>2. QED
        BY <1>3, <2>2, <3>1, OneMoreCounts, OthersCounted DEF Takes
    <2>3. QED
      BY <2>1, <2>2
  <1>4. ASSUME NEW p \in Fps, Drops(p), NEW q \in Fps
        PROVE  CountOf(q)'
    <2>1. lost' = lost /\ wraps' = wraps /\ ctx' = ctx /\ (q # p => life'[q] = life[q])
      BY <1>4 DEF CountType, Drops, Stays, Ends, Breaks, OneLess
    <2>2. refcnt'[p] = refcnt[p] - 1 /\ (q # p => refcnt'[q] = refcnt[q])
      BY <1>4 DEF CountType, Drops, Drop
    <2>3. CASE q # p
      <3>1. Held(q)' = Held(q) /\ References(q)' = References(q)
        BY <1>4, <2>3, OneLessCounts DEF Drops, Stays, Ends, Breaks, Held, References
      <3>2. QED
        BY <2>1, <2>2, <2>3, <3>1, OthersCounted
    <2>4. CASE q = p /\ Stays(p)
      <3>1. life'[p] = life[p] /\ life[p] \in {"open", "broken"} /\ refcnt'[p] # 0
        BY <1>4, <2>4 DEF Drops, Stays, Open
      <3>2. References(p)' = References(p) - 1
        BY <1>4, <2>4, OneLessCounts DEF Stays
      <3>3. life[p] = "open" => refcnt'[p] = References(p)' /\ refcnt'[p] > 0
        BY <2>2, <3>1, <3>2 DEF CountInv, CountOf, CountType
      <3>4. life[p] = "broken" => refcnt'[p] <= 0
        BY <2>2, <3>1 DEF CountInv, CountOf, CountType
      <3>5. QED
        BY <2>1, <2>4, <3>1, <3>3, <3>4 DEF CountInv, CountOf
    <2>5. CASE q = p /\ Ends(p)
      <3>1. life[p] = "open" /\ References(p) = 1 /\ life'[p] = "deleted"
        BY <1>4, <2>2, <2>5 DEF CountInv, CountOf, CountType, Drops, Ends, Open
      <3>2. Held(p) = 1
        <4>1. fids[p] \in Nat /\ objs[p] \in Nat /\ dsets[p] \in Nat /\ lost[p] \in Nat
          BY DEF CountType
        <4>2. fids[p] > 0 \/ objs[p] > 0 \/ dsets[p] > 0
          BY <2>5 DEF Ends, OneLess
        <4>3. QED
          BY <3>1, <4>1, <4>2 DEF References, Held
      <3>3. Held(p)' = 0
        BY <1>4, <2>5, <3>2, OneLessCounts DEF Ends
      <3>4. ~ctx[p]
        BY <1>4, <3>2 DEF Drops, NotIterated
      <3>5. QED
        BY <2>1, <2>5, <3>1, <3>3, <3>4 DEF CountInv, CountOf
    <2>6. CASE q = p /\ Breaks(p)
      BY <1>4, <2>1, <2>6 DEF CountInv, CountOf, CountType, Breaks
    <2>7. QED
      BY <1>4, <2>3, <2>4, <2>5, <2>6 DEF Drops
  <1>5. ASSUME NEW p \in Fps, Wraps(p) \/ Unwraps(p), NEW q \in Fps
        PROVE  CountOf(q)'
    <2>1. /\ life' = life /\ refcnt' = refcnt /\ lost' = lost
          /\ Held(q)' = Held(q) /\ References(q)' = References(q)
      BY <1>5 DEF Wraps, Unwraps, counted, Held, References
    <2>2. CASE q = p
      <3>1. wraps'[p] > 0 => ctx'[p]
        BY <1>5 DEF CountInv, CountOf, CountType, Wraps, Unwraps, Bump, Drop
      <3>2. life[p] \in {"new", "deleted"} => ~ctx'[p]
        BY <1>5 DEF CountInv, CountOf, Wraps, Unwraps
      <3>3. QED
        BY <2>1, <2>2, <3>1, <3>2 DEF CountInv, CountOf
    <2>3. CASE q # p
      <3>1. wraps'[q] = wraps[q] /\ ctx'[q] = ctx[q]
        BY <1>5, <2>3 DEF CountType, Wraps, Unwraps, Bump, Drop
      <3>2. QED
        BY <2>1, <3>1, OthersCounted
    <2>4. QED
      BY <2>2, <2>3
  <1>6. CASE UNCHANGED <<counted, wraps, ctx>>
    BY <1>6, OthersCounted DEF counted, References, Held, CountInv
  <1>7. QED
    BY <1>1, <1>2, <1>3, <1>4, <1>5, <1>6 DEF Kinds, CountInv

\* A step of any kind keeps the registry.
LEMMA RegistryStep ==
  ASSUME CountType, CountInv, RegistryInv, Kinds
  PROVE  RegistryInv'
  <1> USE DEF HeldRegistered, RegisteredOpen
  <1>1. ASSUME NEW f \in Files, NEW p \in Fps, Opens(f, p) \/ Strands(f, p)
        PROVE  RegistryInv'
    <2>1. /\ p \notin Open /\ Open' = Open \cup {p} /\ files[f] = None /\ p # None
          /\ file' = [file EXCEPT ![p] = f]
          /\ \A q \in Fps \ {p} : Held(q)' = Held(q)
      BY <1>1, HandlesAssumption DEF CountType, Opens, Strands, NotOpen, Made, HandedOut, Withheld,
         Open, Held
    <2>2. \/ files' = [files EXCEPT ![f] = p]
          \/ files' = files /\ Held(p)' = 0
      <3>1. CASE Strands(f, p)
        <4>1. Held(p) = 0
          BY <3>1 DEF CountInv, CountOf, Strands
        <4>2. Held(p)' = 0
          BY <3>1, <4>1 DEF Strands, Made, Withheld, Held
        <4>3. QED
          BY <3>1, <4>2 DEF Strands, Register
      <3>2. QED
        BY <1>1, <3>1 DEF Opens, Register
    <2>3. ASSUME NEW q \in Fps PROVE HeldRegistered(q)'
      <3>1. CASE q = p
        BY <2>1, <2>2, <3>1 DEF CountType
      <3>2. CASE q # p
        <4>1. HeldRegistered(q) /\ Held(q)' = Held(q) /\ file'[q] = file[q]
          BY <2>1, <3>2 DEF RegistryInv, CountType
        <4>2. q \in Open /\ Held(q) > 0 => file[q] # f
          BY <2>1, <4>1, HandlesAssumption
        <4>3. QED
          BY <2>1, <2>2, <3>2, <4>1, <4>2 DEF CountType
      <3>3. QED
        BY <3>1, <3>2
    <2>4. ASSUME NEW g \in Files PROVE RegisteredOpen(g)'
      <3>1. RegisteredOpen(g)
        BY DEF RegistryInv
      <3>2. QED
        BY <2>1, <2>2, <3>1 DEF CountType
    <2>5. QED
      BY <2>3, <2>4 DEF RegistryInv
  <1>2. ASSUME NEW p \in Fps, Takes(p)
        PROVE  RegistryInv'
    <2>1. UNCHANGED <<files, file, life>>
      BY <1>2 DEF Takes
    <2>2. \A q \in Fps \ {p} : Held(q)' = Held(q)
      BY <1>2, OneMoreCounts DEF Takes
    <2>3. Held(p) > 0
      BY <1>2 DEF Takes
    <2>4. QED
      BY <2>1, <2>2, <2>3 DEF RegistryInv, Open
  <1>3. ASSUME NEW p \in Fps, Drops(p)
        PROVE  RegistryInv'
    <2>1. \A q \in Fps \ {p} : Held(q)' = Held(q)
      BY <1>3, OneLessCounts DEF Drops, Stays, Ends, Breaks, Held
    <2>2. Held(p) > 0 /\ p \in Open /\ file' = file
      BY <1>3 DEF Drops
    <2>3. file[p] \in Files /\ files[file[p]] = p
      BY <2>2 DEF RegistryInv
    <2>4. CASE Stays(p) \/ Breaks(p)
      <3>1. files' = files /\ Open' = Open
        BY <2>2, <2>4 DEF CountType, Stays, Breaks, Open
      <3>2. ASSUME NEW q \in Fps PROVE HeldRegistered(q)'
        <4>1. HeldRegistered(q)
          BY DEF RegistryInv
        <4>2. QED
          BY <2>1, <2>2, <2>3, <3>1, <4>1
      <3>3. ASSUME NEW g \in Files PROVE RegisteredOpen(g)'
        BY <2>2, <3>1 DEF RegistryInv
      <3>4. QED
        BY <3>2, <3>3 DEF RegistryInv
    <2>5. CASE Ends(p)
      <3>1. files' = [files EXCEPT ![file[p]] = None] /\ Open' = Open \ {p}
        BY <2>2, <2>5 DEF CountType, Ends, Open
      <3>2. ASSUME NEW q \in Fps PROVE HeldRegistered(q)'
        <4>1. HeldRegistered(q)
          BY DEF RegistryInv
        <4>2. QED
          BY <2>1, <2>2, <2>3, <3>1, <4>1 DEF CountType
      <3>3. ASSUME NEW g \in Files PROVE RegisteredOpen(g)'
        <4>1. RegisteredOpen(g)
          BY DEF RegistryInv
        <4>2. QED
          BY <2>2, <2>3, <3>1, <4>1 DEF CountType
      <3>4. QED
        BY <3>2, <3>3 DEF RegistryInv
    <2>6. QED
      BY <1>3, <2>4, <2>5 DEF Drops
  <1>4. CASE UNCHANGED counted
    BY <1>4 DEF counted, RegistryInv, Open, Held
  <1>5. QED
    BY <1>1, <1>2, <1>3, <1>4 DEF Kinds, Wraps, Unwraps, counted

\* The invariant is inductive.
LEMMA InvStep ==
  ASSUME ~WrappedClosed, TypeOK, Inv, [Next]_vars
  PROVE  Inv'
  <1>1. CountType'
    BY TypeStep, Zenon DEF TypeOK, CountType
  <1>2. ctx \in [Fps -> BOOLEAN]
    BY Zenon DEF TypeOK
  <1>3. QED
    BY <1>1, <1>2, StepKinds, CountStep, RegistryStep DEF Inv

\* Hence it holds always.
LEMMA InvAlways ==
  ASSUME ~WrappedClosed
  PROVE  Spec => [](TypeOK /\ Inv)
  <1>1. Init => TypeOK /\ Inv
    BY InitTyped, InvInit
  <1>2. TypeOK /\ Inv /\ [Next]_vars => (TypeOK /\ Inv)'
    BY TypeStep, InvStep
  <1>3. QED
    BY <1>1, <1>2, PTL DEF Spec

\* The reference count of an open file is the number of handles that hold it,
\* whatever calls fail, as long as a file handle that comes out of a wrap
\* context is not closed (H5VL_log_filei_inc_ref, H5VL_log_filei_dec_ref).
THEOREM ReferencesCounted ==
  ASSUME ~WrappedClosed
  PROVE  Spec => []RefsCounted
  <1>1. Inv => RefsCounted
    BY DEF Inv, CountInv, CountOf, RefsCounted
  <1>2. QED
    BY <1>1, InvAlways, PTL

\* Under the same condition no handle and no wrap context outlives the file
\* object it points to (the delete in H5VL_log_filei_close).
THEOREM NothingDangles ==
  ASSUME ~WrappedClosed
  PROVE  Spec => []NoDangling
  <1>1. Inv => NoDangling
    BY DEF Inv, CountType, CountInv, CountOf, NoDangling
  <1>2. QED
    BY <1>1, InvAlways, PTL

\* And a file has one file object, the registered one (H5VL_log_filei_search,
\* H5VL_log_filei_register).
THEOREM OneFileObject ==
  ASSUME ~WrappedClosed
  PROVE  Spec => []OneInstance
  <1>1. Inv => OneInstance
    BY DEF Inv, RegistryInv, HeldRegistered, RegisteredOpen, OneInstance, Open
  <1>2. QED
    BY <1>1, InvAlways, PTL
-----------------------------------------------------------------------------
(***************************************************************************)
(* Nothing is counted for nobody                                           *)
(***************************************************************************)
\* What any call does to the counts, also the close of a wrapped handle.
Over(p) == life[p] = "open" => refcnt[p] <= References(p)
OverInv == \A p \in Fps : Over(p)

LEMMA OverStep ==
  ASSUME CountType, OverInv, Kinds \/ \E p \in Fps : WrappedClose(p)
  PROVE  OverInv'
  <1>1. ASSUME NEW f \in Files, NEW p \in Fps, Opens(f, p), NEW q \in Fps
        PROVE  Over(q)'
    <2>1. CASE q = p
      BY <1>1, <2>1 DEF CountType, Over, Opens, Made, HandedOut, References
    <2>2. CASE q # p
      BY <1>1, <2>2 DEF CountType, OverInv, Over, Opens, Made, HandedOut, References
    <2>3. QED
      BY <2>1, <2>2
  <1>2. ASSUME NEW f \in Files, NEW p \in Fps, Strands(f, p), NEW q \in Fps
        PROVE  Over(q)'
    <2>1. CASE q = p
      BY <1>2, <2>1 DEF CountType, Over, Strands, Made, Withheld, Bump, References
    <2>2. CASE q # p
      BY <1>2, <2>2 DEF CountType, OverInv, Over, Strands, Made, Withheld, Bump, References
    <2>3. QED
      BY <2>1, <2>2
  <1>3. ASSUME NEW p \in Fps, Takes(p), NEW q \in Fps
        PROVE  Over(q)'
    <2>1. life' = life /\ refcnt' = Bump(refcnt, p) /\ life[p] = "open"
      BY <1>3 DEF Takes
    <2>2. /\ References(p)' = References(p) + 1
          /\ q # p => References(q)' = References(q)
          /\ References(p) \in Int
      BY <1>3, OneMoreCounts DEF Takes, References, CountType
    <2>3. QED
      BY <2>1, <2>2 DEF CountType, OverInv, Over, Bump
  <1>4. ASSUME NEW p \in Fps, Drops(p), NEW q \in Fps
        PROVE  Over(q)'
    <2>1. CASE Breaks(p)
      <3>1. q # p => References(q)' = References(q)
        BY <2>1, OneLessCounts DEF Breaks, References
      <3>2. QED
        BY <1>4, <2>1, <3>1 DEF CountType, OverInv, Over, Drops, Breaks, Drop
    <2>2. CASE Stays(p) \/ Ends(p)
      <3>1. /\ References(p)' = References(p) - 1
            /\ q # p => References(q)' = References(q)
            /\ References(p) \in Int
        BY <2>2, OneLessCounts DEF Stays, Ends, References, CountType
      <3>2. refcnt' = Drop(refcnt, p) /\ (life'[q] = "open" => life[q] = "open")
        BY <1>4, <2>2 DEF CountType, Drops, Stays, Ends
      <3>3. QED
        BY <3>1, <3>2 DEF CountType, OverInv, Over, Drop
    <2>3. QED
      BY <1>4, <2>1, <2>2 DEF Drops
  <1>5. ASSUME NEW p \in Fps, WrappedClose(p), NEW q \in Fps
        PROVE  Over(q)'
    <2>1. References(q)' = References(q) /\ refcnt' = Drop(refcnt, p)
      BY <1>5, DecRefKind DEF WrappedClose, References
    <2>2. References(q) \in Int
      BY DEF References, CountType
    <2>3. life'[q] = "open" => life[q] = "open"
      BY <1>5, DecRefKind DEF CountType, WrappedClose
    <2>4. QED
      BY <2>1, <2>2, <2>3 DEF CountType, OverInv, Over, Drop
  <1>6. CASE UNCHANGED counted
    BY <1>6 DEF counted, References, OverInv, Over
  <1>7. QED
    BY <1>1, <1>2, <1>3, <1>4, <1>5, <1>6 DEF Kinds, Wraps, Unwraps, counted, OverInv, Over

\* A call leaves at most one object out of reach, and then it has failed.
LEMMA LostStep ==
  ASSUME CountType, [Next]_vars
  PROVE  \/ lost' = lost /\ fails' >= fails
         \/ /\ "plain" \in Failing \/ "post_create" \in Failing \/ "post_open" \in Failing
            /\ \E p \in Fps : lost' = Bump(lost, p) /\ fails' = fails + 1
  <1> DEFINE Kept == lost' = lost /\ fails' >= fails
             OneLost(p) ==
               /\ "plain" \in Failing \/ "post_create" \in Failing \/ "post_open" \in Failing
               /\ lost' = Bump(lost, p) /\ fails' = fails + 1
  <1> USE DEF CountType, MayFail, Fail, Succeed
  <1>1. ASSUME NEW f \in Files, NEW p \in Fps, FileCreate(f, p) \/ FileOpen(f, p)
        PROVE  Kept \/ OneLost(p)
    BY <1>1 DEF FileCreate, FileOpen, NotMade, PostCreate, PostOpen, HandedOut, Withheld, Refused,
       NoRefs
  <1>2. ASSUME NEW p \in Fps, DatasetOpen(p)
        PROVE  Kept \/ OneLost(p)
    BY <1>2 DEF DatasetOpen, NewDataset, InfoFails
  <1>3. ASSUME NEW p \in Fps, DecRefReturning(p) \/ Destroy(p)
        PROVE  fails' >= fails
    BY <1>3 DEF DecRefReturning, Destroy, Closed, Broken
  <1>4. ASSUME NEW p \in Fps, Closes(p) \/ WrappedClose(p) \/ UnwrapObject(p)
        PROVE  Kept
    BY <1>3, <1>4 DEF Closes, FileClose, GroupClose, AttrClose, DatatypeClose, CloseObject,
       DatasetClose, WrappedClose, UnwrapObject, NoRefs
  <1>5. ASSUME NEW p \in Fps,
               \/ FileReopen(p) \/ ObjectMake(p) \/ DatasetCreate(p) \/ GetWrapCtx(p)
               \/ WrapObject(p) \/ WrapDataset(p) \/ WrapFile(p) \/ FreeWrapCtx(p)
        PROVE  Kept
    BY <1>5 DEF FileReopen, ObjectMake, DatasetCreate, NewDataset, InfoFails, GetWrapCtx,
       WrapObject, WrapDataset, WrapFile, FreeWrapCtx, NoRefs
  <1>6. CASE Finish \/ UNCHANGED vars
    BY <1>6 DEF Finish, NoRefs, vars
  <1>7. Kept \/ \E p \in Fps : OneLost(p)
    BY <1>1, <1>2, <1>4, <1>5, <1>6 DEF Next, Call
  <1>8. QED
    BY <1>7

\* A reference of an open file that no handle stands for is one of a file or
\* dataset object that a failed call left out of reach, at most one for each
\* failure, whatever fails and also when wrapped handles are closed: the other
\* failing calls give back what they took (the constructors and destructors of
\* H5VL_log_obj_t, H5VL_log_file_optional).
THEOREM NothingOvercounted == Spec => []NeverOvercounted
  <1> DEFINE LostCost == \A p \in Fps : lost[p] <= fails
  <1>1. Init => OverInv /\ LostCost
    BY DEF Init, OverInv, Over
  <1>2. TypeOK /\ OverInv /\ LostCost /\ [Next]_vars => OverInv' /\ LostCost'
    <2> SUFFICES ASSUME TypeOK, OverInv, LostCost, [Next]_vars
                 PROVE  OverInv' /\ LostCost'
      OBVIOUS
    <2>1. CountType
      BY DEF TypeOK, CountType
    <2>2. Kinds \/ \E p \in Fps : WrappedClose(p)
      BY <2>1, StepKinds
    <2>3. LostCost'
      <3>1. CASE lost' = lost /\ fails' >= fails
        <4>1. fails' \in Nat
          BY TypeStep DEF TypeOK
        <4>2. QED
          BY <2>1, <3>1, <4>1 DEF CountType
      <3>2. CASE \E p \in Fps : lost' = Bump(lost, p) /\ fails' = fails + 1
        BY <2>1, <3>2 DEF CountType, Bump
      <3>3. QED
        BY <2>1, <3>1, <3>2, LostStep
    <2>4. QED
      BY <2>1, <2>2, <2>3, OverStep
  <1>3. TypeOK /\ OverInv /\ LostCost => NeverOvercounted
    BY DEF TypeOK, OverInv, Over, NeverOvercounted, References, Held
  <1> HIDE DEF LostCost
  <1>4. QED
    BY <1>1, <1>2, <1>3, TypeCorrect, PTL DEF Spec
-----------------------------------------------------------------------------
(***************************************************************************)
(* Closing, when the library below keeps its objects and the flush at      *)
(* close succeeds                                                          *)
(***************************************************************************)
Sound == "info" \notin Failing /\ "flush" \notin Failing

\* Nothing is left open below, so no close of a file fails.
NoneLeft == \A p \in Fps : left[p] = 0 /\ life[p] # "broken"

LEMMA LeftStep ==
  ASSUME "info" \notin Failing, [Next]_vars
  PROVE  left' = left
  <1>1. CASE Call
    BY <1>1 DEF Call, FileCreate, FileOpen, Made, NotMade, Refused, FileReopen, Closes, GroupClose,
       AttrClose, DatatypeClose, FileClose, CloseObject, DatasetClose, WrappedClose, ObjectMake,
       DatasetCreate, DatasetOpen, InfoFails, MayFail, GetWrapCtx, WrapObject, WrapDataset,
       WrapFile, UnwrapObject, FreeWrapCtx, NoRefs
  <1>2. CASE ~Call
    BY <1>2 DEF Next, Finish, NoRefs, vars
  <1>3. QED
    BY <1>1, <1>2

LEMMA NoneLeftStep ==
  ASSUME ~WrappedClosed, Sound, CountType, NoneLeft, [Next]_vars
  PROVE  NoneLeft'
  <1>1. left' = left
    BY LeftStep DEF Sound
  <1>2. ASSUME NEW q \in Fps PROVE life'[q] # "broken"
    BY <1>2, StepKinds DEF NoneLeft, CountType, Sound, Kinds, Opens, Strands, Made, Takes, Drops,
       Stays, Ends, Breaks, Wraps, Unwraps, counted
  <1>3. QED
    BY <1>1, <1>2 DEF NoneLeft

LEMMA NoneLeftAlways ==
  ASSUME ~WrappedClosed, Sound
  PROVE  Spec => [](TypeOK /\ Inv /\ NoneLeft)
  <1>1. Init => NoneLeft
    BY DEF Init, NoneLeft
  <1>2. Inv /\ NoneLeft /\ [Next]_vars => NoneLeft'
    BY NoneLeftStep DEF Inv
  <1>3. QED
    BY <1>1, <1>2, InvAlways, PTL DEF Spec

\* When nothing of a file is held any more it is closed, provided that no
\* wrapped handle is closed, that nothing is left open below and the flush at
\* close succeeds, and unless an object is out of reach (H5VL_log_filei_close
\* through the last H5VL_log_filei_dec_ref).
THEOREM ClosedWithTheLast ==
  ASSUME ~WrappedClosed, Sound
  PROVE  Spec => []NothingHeldIsClosed
  <1>1. CountType /\ CountInv /\ NoneLeft => NothingHeldIsClosed
    BY DEF CountType, CountInv, CountOf, NoneLeft, NothingHeldIsClosed, Open, References, Held
  <1>2. Inv => CountType /\ CountInv
    BY DEF Inv
  <1>3. QED
    BY <1>1, <1>2, NoneLeftAlways, PTL DEF Spec

\* So it is closed when nothing of it is held, with no exception, when also the
\* post-open and post-create calls and the opens of datasets of plain files
\* succeed: their failures are the only ones that put an object out of reach.
THEOREM ClosedWithoutException ==
  ASSUME ~WrappedClosed, Sound, "plain" \notin Failing,
         "post_create" \notin Failing, "post_open" \notin Failing
  PROVE  Spec => [](\A p \in Open : Held(p) > 0)
  <1> DEFINE NoneLost == \A p \in Fps : lost[p] = 0
  <1>1. Init => NoneLost
    BY DEF Init
  <1>2. TypeOK /\ NoneLost /\ [Next]_vars => NoneLost'
    <2> SUFFICES ASSUME TypeOK, NoneLost, [Next]_vars PROVE NoneLost'
      OBVIOUS
    <2>1. lost' = lost
      BY LostStep DEF TypeOK, CountType
    <2>2. QED
      BY <2>1
  <1>3. TypeOK /\ NothingHeldIsClosed /\ NoneLost => \A p \in Open : Held(p) > 0
    <2> SUFFICES ASSUME CountType, NothingHeldIsClosed, NoneLost, NEW p \in Open
                 PROVE  Held(p) > 0
      BY DEF TypeOK, CountType
    <2>1. Held(p) \in Nat /\ Held(p) # 0
      BY DEF CountType, NothingHeldIsClosed, Open, Held
    <2>2. QED
      BY <2>1
  <1> HIDE DEF NoneLost
  <1>4. QED
    BY <1>1, <1>2, <1>3, ClosedWithTheLast, TypeCorrect, PTL DEF Spec
-----------------------------------------------------------------------------
(***************************************************************************)
(* Handles implements FileSharing                                          *)
(***************************************************************************)
isOpen == [f \in Files |-> files[f] # None]
holders == [f \in Files |-> IF files[f] = None THEN 0 ELSE References(files[f])]

\* The initial states map to the initial state.
LEMMA SharingInit == Init => Sharing!Init
  BY DEF Init, Sharing!Init

\* A step that concerns one file is a step.
LEMMA FileShared ==
  ASSUME NEW f \in Files, Sharing!Acquire(f) \/ Sharing!Release(f)
  PROVE  Sharing!Next
  BY DEF Sharing!Next

\* Every kind of step maps to a step or a stutter.
LEMMA SharingStep ==
  ASSUME CountType, RegistryInv, CountInv, NoneLeft, Sound, Kinds
  PROVE  [Sharing!Next]_(Sharing!vars)
  <1> USE DEF HeldRegistered, RegisteredOpen
  <1>1. ASSUME NEW f \in Files, NEW p \in Fps, Opens(f, p) \/ Strands(f, p),
               files' = [files EXCEPT ![f] = p]
        PROVE  Sharing!OpenFile(f)
    <2>1. files[f] = None /\ p # None
      BY <1>1, HandlesAssumption DEF Opens, Strands, NotOpen
    <2>2. References(p)' = 1
      <3>1. Held(p) = 0 /\ lost[p] = 0
        BY <1>1 DEF CountInv, CountOf, Opens, Strands
      <3>2. fids[p] = 0 /\ objs[p] = 0 /\ dsets[p] = 0
        BY <3>1 DEF CountType, Held
      <3>3. objs' = objs /\ dsets' = dsets /\ fids'[p] + lost'[p] = 1
        BY <1>1, <3>1, <3>2 DEF CountType, Opens, Strands, Made, HandedOut, Withheld, Bump
      <3>4. fids'[p] \in Nat /\ lost'[p] \in Nat
        BY <1>1, <3>1, <3>2 DEF CountType, Opens, Strands, HandedOut, Withheld, Bump
      <3>5. QED
        BY <3>2, <3>3, <3>4 DEF References
    <2>3. \A g \in Files \ {f} : files[g] # None => References(files[g])' = References(files[g])
      BY <1>1 DEF CountType, RegistryInv, Opens, Strands, Made, HandedOut, Withheld, Bump,
         References, Open
    <2>4. isOpen' = [isOpen EXCEPT ![f] = TRUE]
      BY <1>1, <2>1 DEF CountType, isOpen
    <2>5. holders' = [holders EXCEPT ![f] = 1]
      BY <1>1, <2>1, <2>2, <2>3 DEF CountType, holders
    <2>6. QED
      BY <2>1, <2>4, <2>5 DEF Sharing!OpenFile, isOpen, holders
  <1>2. ASSUME NEW p \in Fps, NEW f \in Files, f = file[p], Takes(p)
        PROVE  Sharing!Acquire(f)
    <2>1. f = file[p] /\ files[f] = p /\ files' = files /\ p # None
      BY <1>2, HandlesAssumption DEF RegistryInv, Open, Takes
    <2>2. References(p)' = References(p) + 1
      BY <1>2, OneMoreCounts DEF Takes
    <2>3. \A g \in Files \ {f} :
             files[g] # None => References(files[g])' = References(files[g])
      BY <1>2, OneMoreCounts DEF CountType, RegistryInv, Takes, Open
    <2>4. isOpen' = isOpen
      BY <2>1 DEF isOpen
    <2>5. holders' = [holders EXCEPT ![f] = @ + 1]
      BY <2>1, <2>2, <2>3 DEF CountType, holders
    <2>6. QED
      BY <2>1, <2>4, <2>5 DEF Sharing!Acquire, isOpen, holders
  <1>3. ASSUME NEW p \in Fps, NEW f \in Files, f = file[p], Drops(p)
        PROVE  Sharing!Release(f)
    <2>1. f = file[p] /\ files[f] = p /\ p # None /\ life[p] = "open"
      BY <1>3, HandlesAssumption DEF RegistryInv, Open, Drops, NoneLeft
    <2>2. Stays(p) \/ Ends(p)
      BY <1>3 DEF Drops, Breaks, NoneLeft, Sound
    <2>3. /\ References(p)' = References(p) - 1
          /\ \A g \in Files \ {f} :
                files[g] # None => References(files[g])' = References(files[g])
      BY <2>1, <2>2, OneLessCounts DEF CountType, RegistryInv, Open, Stays, Ends
    <2>4. refcnt[p] = References(p) /\ refcnt[p] > 0 /\ refcnt'[p] = refcnt[p] - 1
      BY <1>3, <2>1 DEF CountType, CountInv, CountOf, Drops, Drop
    <2>5. isOpen' = [isOpen EXCEPT ![f] = refcnt[p] > 1]
      <3>1. CASE Stays(p)
        <4>1. refcnt[p] > 1 /\ files' = files
          BY <2>4, <3>1 DEF CountType, Stays
        <4>2. isOpen' = [isOpen EXCEPT ![f] = TRUE]
          BY <2>1, <4>1 DEF isOpen
        <4>3. (refcnt[p] > 1) = TRUE
          BY <4>1
        <4>4. QED
          BY <4>2, <4>3, Zenon
      <3>2. CASE Ends(p)
        <4>1. ~(refcnt[p] > 1) /\ files' = [files EXCEPT ![f] = None]
          BY <2>1, <2>4, <3>2 DEF CountType, Ends
        <4>2. isOpen' = [isOpen EXCEPT ![f] = FALSE]
          BY <2>1, <4>1 DEF isOpen, CountType
        <4>3. (refcnt[p] > 1) = FALSE
          BY <4>1
        <4>4. QED
          BY <4>2, <4>3, Zenon
      <3>3. QED
        BY <2>2, <3>1, <3>2
    <2>6. holders' = [holders EXCEPT ![f] = @ - 1]
      <3>1. CASE Stays(p)
        BY <2>1, <2>3, <3>1 DEF CountType, holders, Stays
      <3>2. CASE Ends(p)
        <4>1. files \in [Files -> Fps \cup {None}] /\ files' = [files EXCEPT ![f] = None]
          BY <2>1, <3>2 DEF CountType, Ends
        <4>2. References(p) = 1
          BY <2>4, <3>2 DEF CountType, Ends
        <4>3. holders[f] = 1 /\ files'[f] = None
          BY <2>1, <4>1, <4>2 DEF holders
        <4>4. \A g \in Files \ {f} : files'[g] = files[g]
          BY <4>1
        <4>5. \A g \in Files \ {f} : holders'[g] = holders[g]
          BY <2>3, <4>4 DEF holders
        <4>6. holders'[f] = 0
          BY <2>1, <4>3 DEF holders
        <4>7. holders' = [g \in Files |-> holders'[g]] /\ holders = [g \in Files |-> holders[g]]
          BY DEF holders
        <4> HIDE DEF holders
        <4>8. QED
          BY <2>1, <4>3, <4>5, <4>6, <4>7
      <3>3. QED
        BY <2>2, <3>1, <3>2
    <2>7. QED
      BY <2>1, <2>4, <2>5, <2>6 DEF Sharing!Release, isOpen, holders
  <1>4. CASE UNCHANGED counted
    BY <1>4 DEF counted, Sharing!vars, References
  <1>5. CASE \E f \in Files, p \in Fps : Opens(f, p) \/ Strands(f, p)
    <2>1. PICK f \in Files, p \in Fps : Opens(f, p) \/ Strands(f, p)
      BY <1>5
    <2>2. CASE files' = [files EXCEPT ![f] = p]
      <3>1. Sharing!OpenFile(f)
        BY <1>1, <2>1, <2>2
      <3>2. QED
        BY <3>1, Zenon DEF Sharing!Next
    <2>3. CASE files' = files /\ Strands(f, p)
      <3>1. \A g \in Files : files[g] # None => References(files[g])' = References(files[g])
        BY <2>3 DEF CountType, RegistryInv, Strands, Made, Withheld, Bump, References, Open
      <3>2. isOpen' = isOpen /\ holders' = holders
        BY <2>3, <3>1 DEF isOpen, holders
      <3>3. QED
        BY <3>2 DEF Sharing!vars, isOpen, holders
    <2>4. QED
      BY <2>1, <2>2, <2>3 DEF Opens, Strands, Register
  <1>6. CASE \E p \in Fps : Takes(p) \/ Drops(p)
    <2>1. PICK p \in Fps : Takes(p) \/ Drops(p)
      BY <1>6
    <2>2. PICK f \in Files : f = file[p]
      BY <2>1 DEF RegistryInv, Takes, Drops, Open
    <2>3. Sharing!Acquire(f) \/ Sharing!Release(f)
      BY <1>2, <1>3, <2>1, <2>2
    <2>4. Sharing!Next
      BY <2>3, FileShared
    <2>5. QED
      BY <2>4
  <1>7. QED
    BY <1>4, <1>5, <1>6 DEF Kinds, Wraps, Unwraps, counted

\* A file is open exactly as long as something of it is held: the reference
\* counts implement FileSharing.
THEOREM SharingImplemented ==
  ASSUME ~WrappedClosed, Sound
  PROVE  Spec => SharesFiles
  <1>1. Inv /\ NoneLeft /\ [Next]_vars => [Sharing!Next]_(Sharing!vars)
    BY StepKinds, SharingStep DEF Inv
  <1>2. QED
    BY <1>1, SharingInit, NoneLeftAlways, PTL DEF Spec, SharesFiles, Sharing!Spec
=============================================================================
