-------------------------------- MODULE Config --------------------------------
(***************************************************************************)
(* Where the settings of a file come from: the connector's properties on   *)
(* the application's property lists, the environment, and the attribute    *)
(* _int_att the file was created with.  An application changes properties  *)
(* and variables, and has one file created, written, closed, lost in a     *)
(* crash and opened again.  What a session writes can be read only by a    *)
(* session that has the same settings, so it matters which source wins.    *)
(***************************************************************************)
EXTENDS Integers, FiniteSets

CONSTANTS
    None,          \* a property not inserted, a variable not set, no attribute
    Counts,        \* numbers of subfiles asked for
    Sizes,         \* sizes of the index buffer
    NP, Nodes,     \* processes, and nodes they run on
    MaxChanges,    \* bound: changes of properties and variables
    MaxSessions    \* bound: sessions on the file

OFF == 0          \* H5VL_LOG_SUBFILING_OFF
UNLIMITED == -1   \* LOG_VOL_BSIZE_UNLIMITED
\* The configuration read as a number of groups: it has bit 0x200 set.
AsNumber == 512
ASSUME ConfigAssumption ==
    /\ Counts \subseteq Int /\ Sizes \subseteq Nat
    /\ NP \in 1 .. AsNumber /\ Nodes \in 1 .. NP
    /\ MaxChanges \in Nat /\ MaxSessions \in Nat

VARIABLES
    plist,    \* the connector's properties on the application's lists
    env,      \* the environment
    file,     \* what is in storage
    sess,     \* the open file object (H5VL_log_file_t)
    passed,   \* connector properties on the three lists last passed below
    nchange, nsess

vars == <<plist, env, file, sess, passed, nchange, nsess>>

Classes == {"fapl", "fcpl", "dxpl"}
Flags == {"MERGE", "ENCODE", "DEFLATE", "SHARE", "PASSTHRU",
          "ALIGN", "SUBFILING", "SINGLE"}
\* A file without the attribute is told from every file with one.
ASSUME NoneAssumption == None \notin [config : SUBSET Flags, ngroup : 1 .. NP]
-----------------------------------------------------------------------------
(* The properties.  The application keeps one list of each class, and a    *)
(* property can only be inserted in a list of its class.                   *)

\* A setter refuses a list of another class.
SetIn(class, l, p, v) == IF l = class THEN [plist EXCEPT ![p] = v] ELSE plist
\* A getter answers the default for one.
GetFrom(class, l, p, default) ==
    IF l # class \/ plist[p] = None THEN default ELSE plist[p]

H5Pset_buffered(l, v)            == SetIn("dxpl", l, "buffered", v)
H5Pget_buffered(l)               == GetFrom("dxpl", l, "buffered", FALSE)
\* These three return success before they do anything.
H5Pset_nb_buffer_size(l, v)      == plist
H5Pset_idx_buffer_size(l, v)     == plist
H5Pset_meta_merge(l, v)          == plist
H5Pget_nb_buffer_size(l)         == GetFrom("fapl", l, "nb_buffer_size", UNLIMITED)
H5Pget_idx_buffer_size(l)        == GetFrom("fapl", l, "idx_buffer_size", UNLIMITED)
H5Pget_meta_merge(l)             == GetFrom("fapl", l, "meta_merge", FALSE)
H5Pset_meta_share(l, v)          == SetIn("fapl", l, "meta_share", v)
\* Sharing is on unless the application turns it off.
H5Pget_meta_share(l)             == GetFrom("fapl", l, "meta_share", TRUE)
H5Pset_meta_zip(l, v)            == SetIn("fapl", l, "meta_zip", v)
H5Pget_meta_zip(l)               == GetFrom("fapl", l, "meta_zip", FALSE)
H5Pset_sel_encoding(l, v)        == SetIn("fapl", l, "sel_encoding", v)
H5Pget_sel_encoding(l)           == GetFrom("fapl", l, "sel_encoding", "offset")
H5Pset_data_layout(l, v)         == SetIn("fcpl", l, "data_layout", v)
H5Pget_data_layout(l)            == GetFrom("fcpl", l, "data_layout", "contig")
H5Pset_subfiling(l, n)           == SetIn("fcpl", l, "subfiling", n)
H5Pget_subfiling(l)              == GetFrom("fcpl", l, "subfiling", OFF)
H5Pset_single_subfile_read(l, v) == SetIn("fcpl", l, "single_subfile_read", v)
H5Pget_single_subfile_read(l)    == GetFrom("fcpl", l, "single_subfile_read", FALSE)
H5Pset_passthru(l, v)            == SetIn("fapl", l, "passthru", v)
\* The one getter that fails on a list of another class.
H5Pget_passthru(l) == IF l = "fapl" THEN GetFrom(l, l, "passthru", FALSE) ELSE None

Props(class) ==
    CASE class = "fapl" -> {"nb_buffer_size", "idx_buffer_size", "meta_merge", "meta_share",
                            "meta_zip", "sel_encoding", "passthru"}
      [] class = "fcpl" -> {"data_layout", "subfiling", "single_subfile_read"}
      [] class = "dxpl" -> {"buffered"}
AllProps == UNION {Props(c) : c \in Classes}

Changing(lists, e) ==
    /\ plist' = lists
    /\ env' = e
    /\ nchange' = nchange + (IF <<lists, e>> = <<plist, env>> THEN 0 ELSE 1)
    /\ nchange' =< MaxChanges

\* The application calls a setter, with a list of any class.
SetProperty ==
    /\ \E l \in Classes :
         \/ \E v \in BOOLEAN :
              \E lists \in {H5Pset_buffered(l, v), H5Pset_meta_merge(l, v),
                            H5Pset_meta_share(l, v), H5Pset_meta_zip(l, v),
                            H5Pset_single_subfile_read(l, v), H5Pset_passthru(l, v)} :
                 Changing(lists, env)
         \/ \E s \in Sizes :
              \E lists \in {H5Pset_nb_buffer_size(l, s), H5Pset_idx_buffer_size(l, s)} :
                 Changing(lists, env)
         \/ \E enc \in {"canonical", "offset"} : Changing(H5Pset_sel_encoding(l, enc), env)
         \/ \E lay \in {"contig", "chunk_aligned"} : Changing(H5Pset_data_layout(l, lay), env)
         \/ \E n \in Counts : Changing(H5Pset_subfiling(l, n), env)
    /\ UNCHANGED <<file, sess, passed, nsess>>

\* The environment of the next call.  A Boolean stands for the one value the
\* code looks for (TRUE: "1", not "canonical", "align") against any other.
EnvVars == {"MERGE", "SHARE", "DEFLATE", "ENCODE", "SINGLE", "PASSTHRU", "ALIGN",
            "NSUBFILES", "IDX_BSIZE", "INDEX_TYPE"}
ValuesOf(x) ==
    CASE x = "NSUBFILES"  -> Counts
      [] x = "IDX_BSIZE"  -> Sizes
      [] x = "INDEX_TYPE" -> {"compact", "list"}
      [] OTHER            -> BOOLEAN
SetEnv ==
    /\ \E x \in EnvVars : \E v \in ValuesOf(x) \cup {None} :
         Changing(plist, [env EXCEPT ![x] = v])
    /\ UNCHANGED <<file, sess, passed, nsess>>
-----------------------------------------------------------------------------
(* Settings of a file object.                                              *)

\* A variable that is set decides; otherwise what was asked so far does.
Overridden(asked, x) == IF env[x] = None THEN asked ELSE env[x]

Asked == [MERGE    |-> H5Pget_meta_merge("fapl"),
          SHARE    |-> H5Pget_meta_share("fapl"),
          DEFLATE  |-> H5Pget_meta_zip("fapl"),
          ENCODE   |-> H5Pget_sel_encoding("fapl") = "offset",
          SINGLE   |-> H5Pget_single_subfile_read("fapl"),
          PASSTHRU |-> H5Pget_passthru("fapl")]

ParseFapl(config) ==
    (config \ DOMAIN Asked) \cup
    {f \in DOMAIN Asked : Overridden(f \in config \/ Asked[f], f)}
MbufSize == Overridden(H5Pget_idx_buffer_size("fapl"), "IDX_BSIZE")
IndexType == Overridden("compact", "INDEX_TYPE")

\* H5VL_LOG_DATA_LAYOUT=align turns the aligned layout off, another value on.
AlignAsked == IF env["ALIGN"] = None THEN H5Pget_data_layout("fcpl") = "chunk_aligned"
                                     ELSE ~env["ALIGN"]
NgroupAsked == Overridden(H5Pget_subfiling("fcpl"), "NSUBFILES")
ParseFcpl(config) ==
    config \cup (IF AlignAsked THEN {"ALIGN"} ELSE {})
           \cup (IF NgroupAsked # OFF THEN {"SUBFILING"} ELSE {})

\* Wrong variant: A property added later is missing from the names.
StrippedAllButLast ==
    {"nb_buffer_size", "idx_buffer_size", "meta_merge", "meta_share", "meta_zip",
     "sel_encoding", "data_layout", "subfiling", "single_subfile_read"}

\* The properties removed from a copy of a list of a file before it goes below.
Stripped == {"nb_buffer_size", "idx_buffer_size", "meta_merge", "meta_share", "meta_zip",
             "sel_encoding", "data_layout", "subfiling", "single_subfile_read", "passthru"}
AsIs(l) == {p \in Props(l) : plist[p] # None}
UnderPlist(l) == AsIs(l) \ Stripped

\* Groups that calc_node_rank makes when n are asked for.
Groups(n) == CASE n > NP      -> NP
               [] n \in 1..NP -> n
               [] OTHER       -> Nodes

NoSession == [st |-> "none", log |-> FALSE, new |-> FALSE, ro |-> FALSE, config |-> {},
              ngroup |-> OFF, mbuf_size |-> UNLIMITED, index_type |-> "compact"]
End == sess' = NoSession

\* H5Fcreate truncates the file below; the attribute comes with PostCreate.
\* The transfer list of a call goes below as it is.
FileCreate ==
    /\ sess.st = "none" /\ nsess < MaxSessions
    /\ file' = [there |-> TRUE, attr |-> None, entries |-> {}]
    /\ sess' = [st |-> "made", log |-> TRUE, new |-> TRUE, ro |-> FALSE,
                config |-> ParseFcpl(ParseFapl({})), ngroup |-> NgroupAsked,
                mbuf_size |-> MbufSize, index_type |-> IndexType]
    /\ passed' = UnderPlist("fapl") \cup UnderPlist("fcpl") \cup AsIs("dxpl")
    /\ nsess' = nsess + 1
    /\ UNCHANGED <<plist, env, nchange>>

FileOpen ==
    /\ sess.st = "none" /\ nsess < MaxSessions /\ file.there
    /\ \E ro \in BOOLEAN :
         sess' = [st |-> "made", log |-> TRUE, new |-> FALSE, ro |-> ro,
                  config |-> ParseFapl({}), ngroup |-> OFF,
                  mbuf_size |-> MbufSize, index_type |-> IndexType]
    /\ passed' = UnderPlist("fapl") \cup AsIs("dxpl")
    /\ nsess' = nsess + 1
    /\ UNCHANGED <<plist, env, nchange, file>>

Opening(new) == sess.st = "made" /\ sess.new = new

\* Wrong variant: The attribute is left to the close.
PostCreateNoAttr ==
    /\ Opening(TRUE)
    /\ sess' = [sess EXCEPT !.st = "ready", !.ngroup =
                    IF "SUBFILING" \in sess.config THEN Groups(sess.ngroup) ELSE 1]
    /\ UNCHANGED <<plist, env, nchange, nsess, passed, file>>

\* Aligned layout needs the stripes, which are looked up in a file handle that
\* is not open yet (fp->fh): found, not found, or an error.
\* Subfiles are never aligned.
PostCreate ==
    /\ Opening(TRUE)
    /\ \E striped \in BOOLEAN :
         LET config == IF striped /\ "SUBFILING" \notin sess.config
                       THEN sess.config ELSE sess.config \ {"ALIGN"}
             split == "SUBFILING" \in sess.config \/ (striped /\ "ALIGN" \in sess.config)
             ngroup == IF split THEN Groups(sess.ngroup) ELSE 1
         IN /\ sess' = [sess EXCEPT !.st = "ready", !.config = config, !.ngroup = ngroup]
            /\ file' = [file EXCEPT !.attr = [config |-> config, ngroup |-> ngroup]]
    /\ UNCHANGED <<plist, env, nchange, nsess, passed>>

\* The lookup of the stripes fails, or a subfile, the log group or the file
\* handle cannot be had.
PostFails ==
    /\ \E new \in BOOLEAN : Opening(new)
    /\ End
    /\ UNCHANGED <<plist, env, nchange, nsess, passed, file>>

\* A file without the attribute is left to the library.
PostOpenPlain ==
    /\ Opening(FALSE) /\ file.attr = None
    /\ sess' = [sess EXCEPT !.st = "ready", !.log = FALSE]
    /\ UNCHANGED <<plist, env, nchange, nsess, passed, file>>

\* Wrong variant: The properties and variables of this session decide.
PostOpenKeepsParsed ==
    /\ Opening(FALSE) /\ file.attr # None
    /\ sess' = [sess EXCEPT !.st = "ready", !.ngroup = 1,
                    !.config = sess.config \cup (file.attr.config \cap {"SUBFILING"})]
    /\ UNCHANGED <<plist, env, nchange, nsess, passed, file>>

\* Wrong variant: The number read is taken for the number of groups.
PostOpenUncounted ==
    /\ Opening(FALSE) /\ file.attr # None
    /\ sess' = [sess EXCEPT !.st = "ready", !.config = file.attr.config, !.ngroup =
                    IF "SUBFILING" \in file.attr.config THEN AsNumber ELSE 1]
    /\ UNCHANGED <<plist, env, nchange, nsess, passed, file>>

\* The file's configuration replaces the one parsed.  The number of groups is
\* taken from the same word of the attribute.
PostOpen ==
    /\ Opening(FALSE) /\ file.attr # None
    /\ LET sub == "SUBFILING" \in file.attr.config
           ngroup == IF sub THEN Groups(AsNumber) ELSE 1
       IN IF sub /\ ngroup > file.attr.ngroup
          THEN End    \* some process finds no subfile of its number
          ELSE sess' = [sess EXCEPT !.st = "ready", !.ngroup = ngroup, !.config =
                            IF sub THEN file.attr.config \ {"ALIGN"} ELSE file.attr.config]
    /\ UNCHANGED <<plist, env, nchange, nsess, passed, file>>

\* H5VL_NATIVE_FILE_POST_OPEN, which the library sends after either call.
FileOptional == PostCreate \/ PostFails \/ PostOpenPlain \/ PostOpen
-----------------------------------------------------------------------------
(* Using it.                                                               *)

\* A metadata entry reaches the file: where, whether its selections refer to
\* an entry before it, whether they are encoded as offsets.
Write ==
    /\ sess.st = "ready" /\ sess.log /\ ~sess.ro
    /\ \E share, encode \in BOOLEAN :
         /\ share => "SHARE" \in sess.config
         /\ encode => "ENCODE" \in sess.config
         /\ file' = [file EXCEPT !.entries = @ \cup
                       {[share |-> share, encode |-> encode,
                         sub |-> "SUBFILING" \in sess.config]}]
    /\ UNCHANGED <<plist, env, nchange, nsess, passed, sess>>

\* A list from the library below has none of the connector's properties.
Fresh(class) == [p \in AllProps |-> IF p \in Props(class) THEN None ELSE plist[p]]

\* H5Fget_create_plist.
FileGetFcpl ==
    /\ sess.st = "ready"
    /\ Changing(IF "SUBFILING" \in sess.config
                THEN [Fresh("fcpl") EXCEPT !["subfiling"] = sess.ngroup]
                ELSE Fresh("fcpl"), env)
    /\ UNCHANGED <<file, sess, passed, nsess>>

\* H5Fget_access_plist asks the file in fp->sfp, which a plain file does not
\* have.  Setting meta_merge has no effect.
FileGetFapl ==
    /\ sess.st = "ready" /\ sess.log
    /\ Changing([Fresh("fapl") EXCEPT
           !["sel_encoding"] = IF "ENCODE" \in sess.config THEN "offset" ELSE None,
           !["meta_zip"] = IF "DEFLATE" \in sess.config THEN TRUE ELSE None,
           !["meta_share"] = IF "SHARE" \in sess.config THEN TRUE ELSE None], env)
    /\ UNCHANGED <<file, sess, passed, nsess>>

Close ==
    /\ sess.st = "ready"
    /\ file' = IF sess.log /\ ~sess.ro
               THEN [file EXCEPT !.attr = [config |-> sess.config, ngroup |-> sess.ngroup]]
               ELSE file
    /\ End
    /\ UNCHANGED <<plist, env, nchange, nsess, passed>>

Crash ==
    /\ sess.st # "none"
    /\ End
    /\ UNCHANGED <<plist, env, nchange, nsess, passed, file>>
-----------------------------------------------------------------------------
Init ==
    /\ plist = [p \in AllProps |-> None]
    /\ env = [x \in EnvVars |-> None]
    /\ file \in [there : BOOLEAN, attr : {None}, entries : {{}}]
    /\ sess = NoSession
    /\ passed = {}
    /\ nchange = 0 /\ nsess = 0

Next ==
    \/ SetProperty \/ SetEnv
    \/ FileCreate \/ FileOpen \/ FileOptional
    \/ Write \/ FileGetFcpl \/ FileGetFapl \/ Close \/ Crash

Spec == Init /\ [][Next]_vars
-----------------------------------------------------------------------------
Config == SUBSET Flags
Entry == [share : BOOLEAN, encode : BOOLEAN, sub : BOOLEAN]

PropValues(p) ==
    CASE p \in {"nb_buffer_size", "idx_buffer_size"} -> Nat
      [] p = "subfiling"    -> Int
      [] p = "sel_encoding" -> {"offset", "canonical"}
      [] p = "data_layout"  -> {"contig", "chunk_aligned"}
      [] OTHER              -> BOOLEAN

\* The number of groups of an open file is one its processes form, whatever
\* was asked for by a property, a variable or the attribute (fp->ngroup).
TypeOK ==
    /\ \A p \in AllProps : plist[p] \in {None} \cup PropValues(p)
    /\ \A x \in EnvVars : env[x] \in ValuesOf(x) \cup {None}
    /\ file.there \in BOOLEAN /\ file.entries \subseteq Entry
    /\ file.attr \in {None} \cup [config : Config, ngroup : 1 .. NP]
    /\ sess.st \in {"none", "made", "ready"} /\ sess.config \in Config
    /\ sess.st = "ready" /\ sess.log => sess.ngroup \in 1 .. NP

\* Whatever the lists and the environment say when a file is opened again, and
\* after any crash, the session is one that can read what the file holds: it
\* looks in the subfiles or in the file, keeps the cache that entries which
\* refer to others need (parse_block), and has the steps that decode selections
\* encoded as offsets (dsteps).
EntriesReadable ==
    sess.st = "ready" /\ file.entries # {} =>
        /\ sess.log
        /\ \A e \in file.entries :
              /\ e.share => "SHARE" \in sess.config
              /\ e.encode => "ENCODE" \in sess.config
              /\ e.sub = ("SUBFILING" \in sess.config)

\* The library below never gets a file's list with a property it does not know
\* (get_under_plist lists the names once more, apart from the setters).  Nothing
\* is said of transfer lists, which nobody strips.
FileListsStripped == passed \cap (Props("fapl") \cup Props("fcpl")) = {}

\* A file keeps the configuration it was created with: sessions that open it
\* with other properties or another environment do not change what the next
\* close writes (_int_att).  post_open takes the whole configuration from the
\* attribute, after the lists and the environment are parsed.
ConfigKept ==
    [][file.attr # None /\ file'.attr # None => file'.attr.config = file.attr.config]_vars
=============================================================================
