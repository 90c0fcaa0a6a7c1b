------------------------------- MODULE Handles -------------------------------
(***************************************************************************)
(* File objects and what keeps them alive, in one process.  A file is      *)
(* found in a registry while it is open and may be opened only once.  Its  *)
(* file object counts references: one for the file itself, one for every   *)
(* further handle of it, one for every group, attribute, datatype and      *)
(* dataset object.  The last reference to go flushes and closes the file,  *)
(* in whatever call that happens.  Calls of the library below may fail.    *)
(***************************************************************************)
EXTENDS Integers

CONSTANTS
    Files,       \* files on disk
    LogBased,    \* of these, the ones made by the connector
    Fps,         \* file objects; each is used once
    None,        \* no file object
    Failing,     \* the calls below that may fail
    WrappedClosed, \* a file handle obtained by wrapping is closed like others
    MaxRefs,     \* bound: handles of a file object
    MaxFails     \* bound: failures

ASSUME HandlesAssumption ==
    /\ None \notin Fps /\ LogBased \subseteq Files
    /\ Failing \subseteq {"make", "post_create", "post_open", "info", "plain", "close", "flush"}
    /\ WrappedClosed \in BOOLEAN /\ MaxRefs \in Nat /\ MaxFails \in Nat

VARIABLES
    files,       \* the registry: file object of an open file
    file,        \* the file of a file object
    life,        \* of a file object
    refcnt,      \* of a file object
    fids, objs, dsets, \* handles the application holds: files, objects, datasets
    wraps,       \* file handles that came out of a wrap context
    ctx,         \* a wrap context exists for the file object
    lost,        \* objects with a reference that nobody can reach
    left,        \* objects of the library below that were not closed
    ok,          \* the last call returned success
    aborted,     \* an exception left a destructor
    fails,       \* failures so far
    done         \* the application opens nothing more

vars == <<files, file, life, refcnt, fids, objs, dsets, wraps, ctx, lost, left, ok, aborted,
          fails, done>>
handles == <<fids, objs, dsets, wraps, ctx>>

Open == {p \in Fps : life[p] \in {"open", "broken"}}
\* Handles of the application that keep the file object alive.
Held(p) == fids[p] + objs[p] + dsets[p]

Init ==
    /\ files = [f \in Files |-> None]
    /\ file = [p \in Fps |-> None]
    /\ life = [p \in Fps |-> "new"]
    /\ refcnt = [p \in Fps |-> 0]
    /\ fids = [p \in Fps |-> 0] /\ objs = fids /\ dsets = fids /\ wraps = fids
    /\ ctx = [p \in Fps |-> FALSE]
    /\ lost = [p \in Fps |-> 0] /\ left = lost
    /\ ok = TRUE /\ aborted = FALSE /\ fails = 0 /\ done = FALSE

MayFail(call) == call \in Failing /\ fails < MaxFails
Fail == fails' = fails + 1 /\ ok' = FALSE
Succeed == UNCHANGED fails /\ ok' = TRUE
Bump(count, p) == [count EXCEPT ![p] = @ + 1]
Drop(count, p) == [count EXCEPT ![p] = @ - 1]

\* The file object is in the application's hands and calls may be made.
Usable(p) == life[p] = "open" /\ Held(p) > 0 /\ ~aborted
-----------------------------------------------------------------------------
(***************************************************************************)
(* References                                                              *)
(***************************************************************************)
\* H5VL_log_filei_close, with what it throws; an object below that is left
\* open fails the close of the file below.
CloseFails(p) == file[p] \in LogBased /\ (left[p] > 0 \/ MayFail("flush"))
Closed(p) ==
    /\ files' = [files EXCEPT ![file[p]] = None]
    /\ life' = [life EXCEPT ![p] = "deleted"]
    /\ Succeed /\ UNCHANGED aborted
\* Neither registry nor file object is cleaned up.
Broken(p) ==
    /\ life' = [life EXCEPT ![p] = "broken"]
    /\ fails' = IF left[p] > 0 THEN fails ELSE fails + 1
    /\ UNCHANGED files

\* H5VL_log_filei_dec_ref called by a function that returns the error.
DecRefReturning(p) ==
    /\ refcnt' = Drop(refcnt, p)
    /\ \/ refcnt'[p] # 0 /\ Succeed /\ UNCHANGED <<files, life, aborted>>
       \/ refcnt'[p] = 0 /\ CloseFails(p) /\ Broken(p) /\ ok' = FALSE /\ UNCHANGED aborted
       \/ refcnt'[p] = 0 /\ (left[p] = 0 \/ file[p] \notin LogBased) /\ Closed(p)

\* Wrong variant: the file is closed with its last file handle.
DestroyEarly(p) ==
    /\ refcnt' = Drop(refcnt, p)
    /\ \/ refcnt'[p] > 1 /\ Succeed /\ UNCHANGED <<files, life, aborted>>
       \/ refcnt'[p] \in {0, 1} /\ Closed(p)

\* The destructor of H5VL_log_obj_t: an exception may not leave it.
Destroy(p) ==
    /\ refcnt' = Drop(refcnt, p)
    /\ \/ refcnt'[p] # 0 /\ Succeed /\ UNCHANGED <<files, life, aborted>>
       \/ refcnt'[p] = 0 /\ CloseFails(p) /\ Broken(p) /\ ok' = FALSE /\ aborted' = TRUE
       \/ refcnt'[p] = 0 /\ (left[p] = 0 \/ file[p] \notin LogBased) /\ Closed(p)

NoRefs == UNCHANGED <<files, file, life, refcnt, lost, left, aborted>>
Refused == ok' = FALSE /\ UNCHANGED fails /\ NoRefs /\ UNCHANGED handles
-----------------------------------------------------------------------------
(***************************************************************************)
(* Files                                                                   *)
(***************************************************************************)
\* Wrong variant: the registry is not asked.
Unregistered(f) == TRUE

\* H5VL_log_filei_search finds nothing.
NotOpen(f) == files[f] = None

\* The file is opened or created below for a file object with one reference.
Made(f, p) ==
    /\ file' = [file EXCEPT ![p] = f]
    /\ life' = [life EXCEPT ![p] = "open"]
    /\ refcnt' = [refcnt EXCEPT ![p] = 1]
    /\ UNCHANGED <<objs, dsets, wraps, ctx, left, aborted>>
NotMade == MayFail("make") /\ Fail /\ NoRefs /\ UNCHANGED handles

\* H5VL_log_filei_register.
Register(f, p) == files' = [files EXCEPT ![f] = p]

\* The library has a handle of the file object when it makes the POST_OPEN
\* call, and keeps it from the application when that fails.
HandedOut(p) == fids' = [fids EXCEPT ![p] = 1] /\ Succeed /\ UNCHANGED lost
Withheld(p) == lost' = Bump(lost, p) /\ Fail /\ UNCHANGED fids

\* A file is registered at the end of post-create, but before post-open.
PostCreate(f, p) ==
    \/ Register(f, p) /\ HandedOut(p)
    \/ MayFail("post_create") /\ Withheld(p) /\ UNCHANGED files
PostOpen(p) ==
    \/ HandedOut(p)
    \/ MayFail("post_open") /\ Withheld(p)

Fresh(p) == life[p] = "new" /\ ~aborted /\ ~done

FileCreate(f, p) ==
    /\ Fresh(p) /\ f \in LogBased
    /\ IF NotOpen(f)
       THEN (Made(f, p) /\ PostCreate(f, p)) \/ NotMade
       ELSE Refused

\* The post-open call finds out whether the file is log-based.
FileOpen(f, p) ==
    /\ Fresh(p)
    /\ IF NotOpen(f)
       THEN (Made(f, p) /\ Register(f, p) /\ PostOpen(p)) \/ NotMade
       ELSE Refused

\* Wrong variant: reopening does not count.
FileReopenUncounted(p) ==
    /\ Usable(p) /\ ~done /\ fids[p] \in 1 .. MaxRefs - 1
    /\ fids' = Bump(fids, p) /\ Succeed
    /\ UNCHANGED <<files, file, life, refcnt, objs, dsets, wraps, ctx, lost, left, aborted>>

\* H5VL_FILE_REOPEN: the same object once more.
FileReopen(p) ==
    /\ Usable(p) /\ ~done /\ fids[p] \in 1 .. MaxRefs - 1
    /\ refcnt' = Bump(refcnt, p) /\ fids' = Bump(fids, p) /\ Succeed
    /\ UNCHANGED <<files, file, life, objs, dsets, wraps, ctx, lost, left, aborted>>

\* The application may not close what it iterates over.
NotIterated(p) == ctx[p] => Held(p) > 1

\* A handle whose close failed is still the application's, to try again.
FileClose(p) ==
    /\ p \in Open /\ fids[p] > 0 /\ NotIterated(p) /\ ~aborted
    /\ DecRefReturning(p)
    /\ fids' = IF ok' THEN Drop(fids, p) ELSE fids
    /\ UNCHANGED <<file, objs, dsets, wraps, ctx, lost, left>>

\* H5Iget_file_id wraps the file below and registers what it gets as a
\* handle; closing it is a close of the file.
WrappedClose(p) ==
    /\ WrappedClosed
    /\ p \in Open /\ wraps[p] > 0 /\ ~ctx[p] /\ ~aborted
    /\ DecRefReturning(p)
    /\ wraps' = IF ok' THEN Drop(wraps, p) ELSE wraps
    /\ UNCHANGED <<file, fids, objs, dsets, ctx, lost, left>>
-----------------------------------------------------------------------------
(***************************************************************************)
(* Groups, attributes, committed datatypes: the handlers have one shape.   *)
(***************************************************************************)
Makes(p) == Usable(p) /\ ~done /\ objs[p] + dsets[p] < MaxRefs

\* Wrong variant: an object whose call failed is not deleted.
ObjectMakeLeaks(p) ==
    /\ Makes(p)
    /\ \/ refcnt' = Bump(refcnt, p) /\ objs' = Bump(objs, p) /\ Succeed
       \/ MayFail("make") /\ Fail /\ refcnt' = Bump(refcnt, p) /\ UNCHANGED objs
    /\ UNCHANGED <<files, file, life, fids, dsets, wraps, ctx, lost, left, aborted>>

\* The object takes its reference, then the call below is made; when that
\* fails the object is deleted again.
ObjectMake(p) ==
    /\ Makes(p)
    /\ \/ refcnt' = Bump(refcnt, p) /\ objs' = Bump(objs, p) /\ Succeed
       \/ MayFail("make") /\ Fail /\ UNCHANGED <<refcnt, objs>>
    /\ UNCHANGED <<files, file, life, fids, dsets, wraps, ctx, lost, left, aborted>>

\* When the close below fails the object stays.
CloseObject(p) ==
    /\ life[p] = "open" /\ objs[p] > 0 /\ NotIterated(p) /\ ~aborted
    /\ \/ Destroy(p) /\ objs' = Drop(objs, p) /\ UNCHANGED <<file, lost, left>>
       \/ MayFail("close") /\ Fail /\ NoRefs /\ UNCHANGED objs
    /\ UNCHANGED <<fids, dsets, wraps, ctx>>

GroupClose(p) == CloseObject(p)
AttrClose(p) == CloseObject(p)
DatatypeClose(p) == CloseObject(p)
-----------------------------------------------------------------------------
(***************************************************************************)
(* Datasets                                                                *)
(***************************************************************************)
NewDataset(p) == refcnt' = Bump(refcnt, p) /\ dsets' = Bump(dsets, p) /\ Succeed

\* The dataset below is made, but reading or writing its internal attributes
\* fails: the object goes, the dataset below stays open.
InfoFails(p) ==
    file[p] \in LogBased /\ MayFail("info") /\ Fail /\ left' = Bump(left, p)

DatasetCreate(p) ==
    /\ Makes(p)
    /\ \/ NewDataset(p) /\ UNCHANGED left
       \/ MayFail("make") /\ Fail /\ UNCHANGED <<refcnt, dsets, left>>
       \/ InfoFails(p) /\ UNCHANGED <<refcnt, dsets>>
    /\ UNCHANGED <<files, file, life, fids, objs, wraps, ctx, lost, aborted>>

\* In a file that is not log-based the object is made before the call below,
\* and not deleted when that fails.
DatasetOpen(p) ==
    /\ Makes(p)
    /\ \/ NewDataset(p) /\ UNCHANGED <<left, lost>>
       \/ file[p] \in LogBased /\ MayFail("make") /\ Fail /\ UNCHANGED <<refcnt, dsets, left, lost>>
       \/ InfoFails(p) /\ UNCHANGED <<refcnt, dsets, lost>>
       \/ file[p] \notin LogBased /\ MayFail("plain") /\ Fail
          /\ refcnt' = Bump(refcnt, p) /\ lost' = Bump(lost, p) /\ UNCHANGED <<dsets, left>>
    /\ UNCHANGED <<files, file, life, fids, objs, wraps, ctx, aborted>>

DatasetClose(p) ==
    /\ life[p] = "open" /\ dsets[p] > 0 /\ NotIterated(p) /\ ~aborted
    /\ \/ Destroy(p) /\ dsets' = Drop(dsets, p) /\ UNCHANGED <<file, lost, left>>
       \/ MayFail("close") /\ Fail /\ NoRefs /\ UNCHANGED dsets
    /\ UNCHANGED <<fids, objs, wraps, ctx>>
-----------------------------------------------------------------------------
(***************************************************************************)
(* Wrapping: during an iteration the library below hands out its objects   *)
(* and the connector makes objects of them, from a context without a       *)
(* reference of its own.                                                   *)
(***************************************************************************)
GetWrapCtx(p) ==
    /\ Usable(p) /\ ~done /\ ~ctx[p]
    /\ ctx' = [ctx EXCEPT ![p] = TRUE] /\ Succeed
    /\ NoRefs /\ UNCHANGED <<fids, objs, dsets, wraps>>

\* Any object of a file that is not log-based, datasets and files included.
WrapObject(p) ==
    /\ ctx[p] /\ Makes(p)
    /\ refcnt' = Bump(refcnt, p) /\ objs' = Bump(objs, p) /\ Succeed
    /\ UNCHANGED <<files, file, life, fids, dsets, wraps, ctx, lost, left, aborted>>

\* A dataset below is the caller's to close when its attributes cannot be read.
WrapDataset(p) ==
    /\ ctx[p] /\ Makes(p) /\ file[p] \in LogBased
    /\ \/ NewDataset(p)
       \/ MayFail("info") /\ Fail /\ UNCHANGED <<refcnt, dsets>>
    /\ UNCHANGED <<files, file, life, fids, objs, wraps, ctx, lost, left, aborted>>

\* H5VL_log_filei_wrap: the file object itself, no reference counted.
WrapFile(p) ==
    /\ ctx[p] /\ Usable(p) /\ ~done /\ file[p] \in LogBased /\ wraps[p] = 0
    /\ wraps' = Bump(wraps, p) /\ Succeed
    /\ NoRefs /\ UNCHANGED <<fids, objs, dsets, ctx>>

UnwrapObject(p) ==
    /\ ctx[p] /\ Usable(p) /\ ~aborted
    /\ \/ objs[p] > 0 /\ NotIterated(p) /\ Destroy(p) /\ objs' = Drop(objs, p)
          /\ UNCHANGED <<file, lost, left, dsets, wraps>>
       \/ dsets[p] > 0 /\ NotIterated(p) /\ Destroy(p) /\ dsets' = Drop(dsets, p)
          /\ UNCHANGED <<file, lost, left, objs, wraps>>
       \/ wraps[p] > 0 /\ wraps' = Drop(wraps, p) /\ Succeed /\ NoRefs /\ UNCHANGED <<objs, dsets>>
    /\ UNCHANGED <<fids, ctx>>

FreeWrapCtx(p) ==
    /\ ctx[p] /\ (wraps[p] = 0 \/ WrappedClosed)
    /\ ctx' = [ctx EXCEPT ![p] = FALSE] /\ Succeed
    /\ NoRefs /\ UNCHANGED <<fids, objs, dsets, wraps>>
-----------------------------------------------------------------------------
Closes(p) == FileClose(p) \/ GroupClose(p) \/ AttrClose(p) \/ DatatypeClose(p) \/ DatasetClose(p)

Call ==
    \/ \E f \in Files, p \in Fps : FileCreate(f, p) \/ FileOpen(f, p)
    \/ \E p \in Fps :
         \/ FileReopen(p) \/ Closes(p) \/ WrappedClose(p)
         \/ ObjectMake(p) \/ DatasetCreate(p) \/ DatasetOpen(p)
         \/ GetWrapCtx(p) \/ WrapObject(p) \/ WrapDataset(p) \/ WrapFile(p)
         \/ UnwrapObject(p) \/ FreeWrapCtx(p)

Finish == ~done /\ done' = TRUE /\ UNCHANGED <<ok, fails>> /\ NoRefs /\ UNCHANGED handles

Next == (Call /\ UNCHANGED done) \/ Finish

Spec == Init /\ [][Next]_vars

\* The application closes what it has opened and ends its iterations.
Fairness ==
    \A p \in Fps :
      /\ WF_vars(FileClose(p) /\ UNCHANGED done)
      /\ WF_vars(CloseObject(p) /\ UNCHANGED done)
      /\ WF_vars(DatasetClose(p) /\ UNCHANGED done)
      /\ WF_vars(wraps[p] > 0 /\ UnwrapObject(p) /\ UNCHANGED done)
      /\ WF_vars(FreeWrapCtx(p) /\ UNCHANGED done)

FairSpec == Spec /\ Fairness
-----------------------------------------------------------------------------
(***************************************************************************)
(* Properties                                                              *)
(***************************************************************************)
\* Counts, the registry and the life of every file object are what they are
\* said to be.
TypeOK ==
    /\ files \in [Files -> Fps \cup {None}]
    /\ file \in [Fps -> Files \cup {None}]
    /\ life \in [Fps -> {"new", "open", "broken", "deleted"}]
    /\ refcnt \in [Fps -> Int]
    /\ fids \in [Fps -> Nat] /\ objs \in [Fps -> Nat] /\ dsets \in [Fps -> Nat]
    /\ wraps \in [Fps -> Nat] /\ ctx \in [Fps -> BOOLEAN]
    /\ lost \in [Fps -> Nat] /\ left \in [Fps -> Nat]
    /\ ok \in BOOLEAN /\ aborted \in BOOLEAN /\ fails \in Nat /\ done \in BOOLEAN

\* Handles that hold a reference, reachable or lost.
References(p) == fids[p] + objs[p] + dsets[p] + lost[p]

\* The reference count of an open file object is the number of handles that
\* hold it, through failed calls, reopening and wrapping.
RefsCounted == \A p \in Fps : life[p] = "open" => refcnt[p] = References(p) /\ refcnt[p] > 0

\* Whatever fails and however handles are obtained: a reference that no handle
\* of the application stands for, and that keeps its file open for ever, is one
\* of a file object whose post-create or post-open call failed or of a dataset
\* object whose open in a plain file did, and every such failure costs at most
\* one.  The other failing calls give back what they took.
NeverOvercounted ==
    \A p \in Fps :
        /\ life[p] = "open" => refcnt[p] <= Held(p) + lost[p]
        /\ lost[p] <= fails

\* No handle of the application, and no wrap context, outlives its file object.
NoDangling == \A p \in Fps : life[p] \in {"new", "deleted"} => Held(p) = 0 /\ wraps[p] = 0 /\ ~ctx[p]

\* The file objects the application holds anything of are the registered ones,
\* so a file has one of them at a time; and what is registered is open.
OneInstance ==
    /\ \A p \in Open : Held(p) > 0 => files[file[p]] = p
    /\ \A f \in Files : files[f] # None => files[f] \in Open /\ file[files[f]] = f

\* When the application has let go of everything, the file is closed and its
\* name free to be opened again, unless a failed call left an object behind.
NothingHeldIsClosed == \A p \in Open : Held(p) = 0 => lost[p] > 0

\* A failure below is returned to the caller; it never ends the process.
NeverAborted == ~aborted

\* An application that closes all it has ends with every file closed in which no
\* failed call left an object behind.
FilesClosed == done ~> \A p \in Open : lost[p] > 0

Sharing == INSTANCE FileSharing WITH
    open <- [f \in Files |-> files[f] # None],
    holders <- [f \in Files |-> IF files[f] = None THEN 0 ELSE References(files[f])]

\* A file is open exactly as long as something of it is held, by the application
\* or, after a failed call, by an object out of its reach.
SharesFiles == Sharing!Spec
=============================================================================
