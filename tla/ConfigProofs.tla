------------------------------ MODULE ConfigProofs ------------------------------
(***************************************************************************)
(* Theorems about Config, for every number of processes and nodes, every   *)
(* set of counts and sizes asked for and every bound: the settings of a    *)
(* file are those it was created with, and a session can read what the     *)
(* file holds.                                                             *)
(***************************************************************************)
EXTENDS Config, TLAPS

Attribute == [config : Config, ngroup : 1 .. NP]

Session == [st : {"none", "made", "ready"}, log : BOOLEAN, new : BOOLEAN, ro : BOOLEAN,
            config : Config, ngroup : Int, mbuf_size : Int, index_type : {"compact", "list"}]

ListsOK == DOMAIN plist = AllProps /\ \A p \in AllProps : plist[p] \in {None} \cup PropValues(p)
EnvOK == DOMAIN env = EnvVars /\ \A x \in EnvVars : env[x] \in ValuesOf(x) \cup {None}
FileOK ==
    file \in [there : BOOLEAN, attr : {None} \cup Attribute, entries : SUBSET Entry]
SessOK == sess \in Session /\ (sess.st = "ready" /\ sess.log => sess.ngroup \in 1 .. NP)

TypeInv == ListsOK /\ EnvOK /\ FileOK /\ SessOK

LEMMA TypeInvOK == TypeInv => TypeOK
  BY DEF TypeInv, ListsOK, EnvOK, FileOK, SessOK, Session, Attribute, TypeOK

\* The processes form at least one group and at most as many as they are
\* (calc_node_rank).
LEMMA GroupsType ==
  ASSUME NEW n \in Int
  PROVE  Groups(n) \in 1 .. NP
  BY ConfigAssumption DEF Groups, AsNumber

\* A property is set to a value it can have, on a list of its class.
LEMMA SetInType ==
  ASSUME ListsOK, NEW class, NEW l, NEW p \in AllProps, NEW v \in PropValues(p),
         plist' = SetIn(class, l, p, v)
  PROVE  ListsOK'
  BY DEF SetIn, ListsOK

LEMMA TypeSetProperty == ASSUME TypeInv, SetProperty PROVE ListsOK'
  <1>1. \/ plist' = plist
        \/ \E l \in Classes, v \in BOOLEAN :
             plist' \in {H5Pset_buffered(l, v), H5Pset_meta_share(l, v), H5Pset_meta_zip(l, v),
                        H5Pset_single_subfile_read(l, v), H5Pset_passthru(l, v)}
        \/ \E l \in Classes, enc \in {"canonical", "offset"} : plist' = H5Pset_sel_encoding(l, enc)
        \/ \E l \in Classes, lay \in {"contig", "chunk_aligned"} : plist' = H5Pset_data_layout(l, lay)
        \/ \E l \in Classes, n \in Counts : plist' = H5Pset_subfiling(l, n)
    BY DEF SetProperty, Changing, H5Pset_meta_merge, H5Pset_nb_buffer_size, H5Pset_idx_buffer_size
  <1>2. {"buffered", "meta_zip", "sel_encoding", "data_layout", "subfiling",
         "single_subfile_read", "passthru", "meta_share"} \subseteq AllProps
    BY DEF AllProps, Classes, Props
  <1>3. ListsOK
    BY DEF TypeInv
  <1>4. CASE plist' = plist
    BY <1>3, <1>4 DEF ListsOK
  <1>5. ASSUME NEW l \in Classes, NEW v \in BOOLEAN,
               plist' \in {H5Pset_buffered(l, v), H5Pset_meta_share(l, v), H5Pset_meta_zip(l, v),
                          H5Pset_single_subfile_read(l, v), H5Pset_passthru(l, v)}
        PROVE  ListsOK'
    <2>1. /\ v \in PropValues("buffered") /\ v \in PropValues("meta_zip")
          /\ v \in PropValues("single_subfile_read") /\ v \in PropValues("passthru")
          /\ v \in PropValues("meta_share")
      BY DEF PropValues
    <2>2. CASE plist' = H5Pset_buffered(l, v)
      BY <1>2, <1>3, <2>1, <2>2, SetInType DEF H5Pset_buffered
    <2>3. CASE plist' = H5Pset_meta_zip(l, v)
      BY <1>2, <1>3, <2>1, <2>3, SetInType DEF H5Pset_meta_zip
    <2>4. CASE plist' = H5Pset_single_subfile_read(l, v)
      BY <1>2, <1>3, <2>1, <2>4, SetInType DEF H5Pset_single_subfile_read
    <2>5. CASE plist' = H5Pset_passthru(l, v)
      BY <1>2, <1>3, <2>1, <2>5, SetInType DEF H5Pset_passthru
    <2>6. CASE plist' = H5Pset_meta_share(l, v)
      BY <1>2, <1>3, <2>1, <2>6, SetInType DEF H5Pset_meta_share
    <2>7. QED
      BY <1>5, <2>2, <2>3, <2>4, <2>5, <2>6
  <1>6. ASSUME NEW l \in Classes, NEW enc \in {"canonical", "offset"}, plist' = H5Pset_sel_encoding(l, enc)
        PROVE  ListsOK'
    <2>1. enc \in PropValues("sel_encoding")
      BY DEF PropValues
    <2>2. QED
      BY <1>2, <1>3, <1>6, <2>1, SetInType DEF H5Pset_sel_encoding
  <1>7. ASSUME NEW l \in Classes, NEW lay \in {"contig", "chunk_aligned"}, plist' = H5Pset_data_layout(l, lay)
        PROVE  ListsOK'
    <2>1. lay \in PropValues("data_layout")
      BY DEF PropValues
    <2>2. QED
      BY <1>2, <1>3, <1>7, <2>1, SetInType DEF H5Pset_data_layout
  <1>8. ASSUME NEW l \in Classes, NEW n \in Counts, plist' = H5Pset_subfiling(l, n)
        PROVE  ListsOK'
    <2>1. n \in PropValues("subfiling")
      BY ConfigAssumption DEF PropValues
    <2>2. QED
      BY <1>2, <1>3, <1>8, <2>1, SetInType DEF H5Pset_subfiling
  <1>9. QED
    BY <1>1, <1>4, <1>5, <1>6, <1>7, <1>8

\* A list that comes from the library below and from the open file.
LEMMA FreshType ==
  ASSUME ListsOK, NEW class \in Classes
  PROVE  /\ DOMAIN Fresh(class) = AllProps
         /\ \A p \in AllProps : Fresh(class)[p] \in {None} \cup PropValues(p)
  BY DEF ListsOK, Fresh

LEMMA TypeGetPlist == ASSUME TypeInv, FileGetFcpl \/ FileGetFapl PROVE ListsOK'
  <1>1. sess.ngroup \in PropValues("subfiling")
    BY DEF TypeInv, SessOK, Session, PropValues
  <1>2. /\ "offset" \in PropValues("sel_encoding") /\ TRUE \in PropValues("meta_zip")
        /\ TRUE \in PropValues("meta_share")
    BY DEF PropValues
  <1>3. CASE FileGetFcpl
    <2>1. \/ plist' = Fresh("fcpl")
          \/ plist' = [Fresh("fcpl") EXCEPT !["subfiling"] = sess.ngroup]
      BY <1>3 DEF FileGetFcpl, Changing
    <2>2. "fcpl" \in Classes
      BY DEF Classes
    <2>3. QED
      BY <1>1, <2>1, <2>2, FreshType DEF TypeInv, ListsOK
  <1>4. CASE FileGetFapl
    <2>1. plist' = [Fresh("fapl") EXCEPT
             !["sel_encoding"] = IF "ENCODE" \in sess.config THEN "offset" ELSE None,
             !["meta_zip"] = IF "DEFLATE" \in sess.config THEN TRUE ELSE None,
             !["meta_share"] = IF "SHARE" \in sess.config THEN TRUE ELSE None]
      BY <1>4 DEF FileGetFapl, Changing
    <2>2. "fapl" \in Classes
      BY DEF Classes
    <2>3. QED
      BY <1>2, <2>1, <2>2, FreshType DEF TypeInv, ListsOK
  <1>5. QED
    BY <1>3, <1>4

LEMMA TypeSetEnv == ASSUME TypeInv, SetEnv PROVE EnvOK'
  <1>1. PICK x \in EnvVars :
          \E v \in ValuesOf(x) \cup {None} : env' = [env EXCEPT ![x] = v]
    BY DEF SetEnv, Changing
  <1>2. PICK v \in ValuesOf(x) \cup {None} : env' = [env EXCEPT ![x] = v]
    BY <1>1
  <1>3. QED
    BY <1>2 DEF TypeInv, EnvOK

\* What is asked for by the lists and the environment.
LEMMA AskedTypes ==
  ASSUME TypeInv
  PROVE  NgroupAsked \in Int /\ MbufSize \in Int /\ IndexType \in {"compact", "list"}
  <1>1. /\ plist["subfiling"] \in {None} \cup Int
        /\ plist["idx_buffer_size"] \in {None} \cup Nat
    <2>1. "subfiling" \in AllProps /\ "idx_buffer_size" \in AllProps
      BY DEF AllProps, Classes, Props
    <2>2. PropValues("subfiling") = Int /\ PropValues("idx_buffer_size") = Nat
      BY DEF PropValues
    <2>3. QED
      BY <2>1, <2>2 DEF TypeInv, ListsOK
  <1>2. /\ env["NSUBFILES"] \in Counts \cup {None} /\ env["IDX_BSIZE"] \in Sizes \cup {None}
        /\ env["INDEX_TYPE"] \in {"compact", "list"} \cup {None}
    <2>1. "NSUBFILES" \in EnvVars /\ "IDX_BSIZE" \in EnvVars /\ "INDEX_TYPE" \in EnvVars
      BY DEF EnvVars
    <2>2. /\ ValuesOf("NSUBFILES") = Counts /\ ValuesOf("IDX_BSIZE") = Sizes
          /\ ValuesOf("INDEX_TYPE") = {"compact", "list"}
      BY DEF ValuesOf
    <2>3. QED
      BY <2>1, <2>2 DEF TypeInv, EnvOK
  <1>3. H5Pget_subfiling("fcpl") \in Int /\ H5Pget_idx_buffer_size("fapl") \in Int
    BY <1>1 DEF H5Pget_subfiling, H5Pget_idx_buffer_size, GetFrom, OFF, UNLIMITED
  <1>4. NgroupAsked \in Int
    BY <1>2, <1>3, ConfigAssumption DEF NgroupAsked, Overridden
  <1>5. MbufSize \in Int
    <2>1. env["IDX_BSIZE"] # None => env["IDX_BSIZE"] \in Int
      <3>1. Sizes \subseteq Int
        BY ConfigAssumption
      <3>2. QED
        BY <1>2, <3>1
    <2>2. QED
      BY <1>3, <2>1 DEF MbufSize, Overridden
  <1>6. IndexType \in {"compact", "list"}
    BY <1>2 DEF IndexType, Overridden
  <1>7. QED
    BY <1>4, <1>5, <1>6

\* A configuration that is parsed has flags of the connector only; a list for
\* opening a file cannot ask for subfiles.
LEMMA ParsedTypes ==
  /\ ParseFapl({}) \in Config /\ ParseFcpl(ParseFapl({})) \in Config
  /\ "SUBFILING" \notin ParseFapl({})
  <1>1. ParseFapl({}) \subseteq {"MERGE", "SHARE", "DEFLATE", "ENCODE", "SINGLE", "PASSTHRU"}
    BY DEF ParseFapl, Asked
  <1>2. QED
    BY <1>1 DEF ParseFcpl, Config, Flags

LEMMA NoSessionType == NoSession \in Session
  BY DEF NoSession, Session, Config, OFF, UNLIMITED

\* The session that a call leaves, and the file.
LEMMA TypeMade ==
  ASSUME TypeInv, FileCreate \/ FileOpen
  PROVE  FileOK' /\ SessOK'
  <1>1. CASE FileCreate
    <2>1. file' = [there |-> TRUE, attr |-> None, entries |-> {}]
      BY <1>1 DEF FileCreate
    <2>2. sess' = [st |-> "made", log |-> TRUE, new |-> TRUE, ro |-> FALSE,
                config |-> ParseFcpl(ParseFapl({})), ngroup |-> NgroupAsked,
                mbuf_size |-> MbufSize, index_type |-> IndexType]
      BY <1>1 DEF FileCreate
    <2>3. QED
      BY <2>1, <2>2, AskedTypes, ParsedTypes DEF FileOK, SessOK, Session
  <1>2. CASE FileOpen
    <2>1. PICK ro \in BOOLEAN :
            sess' = [st |-> "made", log |-> TRUE, new |-> FALSE, ro |-> ro,
                     config |-> ParseFapl({}), ngroup |-> OFF,
                     mbuf_size |-> MbufSize, index_type |-> IndexType]
      BY <1>2 DEF FileOpen
    <2>2. OFF \in Int /\ file' = file
      BY <1>2 DEF FileOpen, OFF
    <2>3. QED
      BY <2>1, <2>2, AskedTypes, ParsedTypes DEF TypeInv, FileOK, SessOK, Session
  <1>3. QED
    BY <1>1, <1>2

\* What PostCreate and PostOpen leave.
LEMMA PostCreateEffect ==
  ASSUME TypeInv, PostCreate
  PROVE  \E config \in Config, ngroup \in 1 .. NP :
            /\ sess.st = "made" /\ sess.new
            /\ sess' = [sess EXCEPT !.st = "ready", !.config = config, !.ngroup = ngroup]
            /\ file' = [file EXCEPT !.attr = [config |-> config, ngroup |-> ngroup]]
            /\ "SUBFILING" \in config => "ALIGN" \notin config
  <1>1. PICK striped \in BOOLEAN :
         LET config == IF striped /\ "SUBFILING" \notin sess.config
                       THEN sess.config ELSE sess.config \ {"ALIGN"}
             split == "SUBFILING" \in sess.config \/ (striped /\ "ALIGN" \in sess.config)
             ngroup == IF split THEN Groups(sess.ngroup) ELSE 1
         IN /\ sess' = [sess EXCEPT !.st = "ready", !.config = config, !.ngroup = ngroup]
            /\ file' = [file EXCEPT !.attr = [config |-> config, ngroup |-> ngroup]]
    BY DEF PostCreate
  <1> DEFINE config == IF striped /\ "SUBFILING" \notin sess.config
                       THEN sess.config ELSE sess.config \ {"ALIGN"}
             split == "SUBFILING" \in sess.config \/ (striped /\ "ALIGN" \in sess.config)
             ngroup == IF split THEN Groups(sess.ngroup) ELSE 1
  <1>2. config \in Config /\ ("SUBFILING" \in config => "ALIGN" \notin config)
    BY DEF TypeInv, SessOK, Session, Config
  <1>3. ngroup \in 1 .. NP
    <2>1. sess.ngroup \in Int /\ 1 \in 1 .. NP
      BY ConfigAssumption DEF TypeInv, SessOK, Session, AsNumber
    <2>2. QED
      BY <2>1, GroupsType
  <1>4. /\ sess' = [sess EXCEPT !.st = "ready", !.config = config, !.ngroup = ngroup]
        /\ file' = [file EXCEPT !.attr = [config |-> config, ngroup |-> ngroup]]
    BY <1>1
  <1>5. sess.st = "made" /\ sess.new
    BY DEF PostCreate, Opening, TypeInv, SessOK, Session
  <1> HIDE DEF config, ngroup
  <1>6. QED
    BY <1>2, <1>3, <1>4, <1>5

LEMMA PostOpenEffect ==
  ASSUME TypeInv, PostOpen
  PROVE  /\ sess.st = "made" /\ file.attr # None /\ file' = file
         /\ \/ sess' = NoSession
            \/ \E ngroup \in 1 .. NP :
                 sess' = [sess EXCEPT !.st = "ready", !.ngroup = ngroup,
                    !.config = IF "SUBFILING" \in file.attr.config
                               THEN file.attr.config \ {"ALIGN"} ELSE file.attr.config]
  <1>1. Groups(AsNumber) \in 1 .. NP /\ 1 \in 1 .. NP
    BY GroupsType, ConfigAssumption DEF AsNumber
  <1>2. QED
    BY <1>1 DEF PostOpen, Opening, End

LEMMA TypePost ==
  ASSUME TypeInv, PostCreate \/ PostOpen
  PROVE  FileOK' /\ SessOK'
  <1>1. CASE PostCreate
    <2>1. PICK config \in Config, ngroup \in 1 .. NP :
            /\ sess' = [sess EXCEPT !.st = "ready", !.config = config, !.ngroup = ngroup]
            /\ file' = [file EXCEPT !.attr = [config |-> config, ngroup |-> ngroup]]
      BY <1>1, PostCreateEffect
    <2>2. [config |-> config, ngroup |-> ngroup] \in Attribute /\ ngroup \in Int
      BY ConfigAssumption DEF Attribute
    <2>3. QED
      BY <2>1, <2>2 DEF TypeInv, FileOK, SessOK, Session
  <1>2. CASE PostOpen
    <2>1. file' = file /\ file.attr \in Attribute
      BY <1>2, PostOpenEffect DEF TypeInv, FileOK
    <2>2. CASE sess' = NoSession
      BY <2>1, <2>2, NoSessionType DEF NoSession, TypeInv, FileOK, SessOK
    <2>3. ASSUME NEW ngroup \in 1 .. NP,
                 sess' = [sess EXCEPT !.st = "ready", !.ngroup = ngroup,
                    !.config = IF "SUBFILING" \in file.attr.config
                               THEN file.attr.config \ {"ALIGN"} ELSE file.attr.config]
          PROVE  FileOK' /\ SessOK'
      <3> DEFINE c == IF "SUBFILING" \in file.attr.config
                      THEN file.attr.config \ {"ALIGN"} ELSE file.attr.config
      <3>1. c \in Config /\ ngroup \in Int
        BY <2>1, ConfigAssumption DEF Attribute, Config
      <3>2. sess' = [sess EXCEPT !.st = "ready", !.ngroup = ngroup, !.config = c]
        BY <2>3
      <3> HIDE DEF c
      <3>3. QED
        BY <2>1, <3>1, <3>2 DEF TypeInv, FileOK, SessOK, Session
    <2>4. QED
      BY <1>2, <2>2, <2>3, PostOpenEffect
  <1>3. QED
    BY <1>1, <1>2

LEMMA TypeUse ==
  ASSUME TypeInv, Write \/ Close \/ Crash \/ PostFails \/ PostOpenPlain
  PROVE  FileOK' /\ SessOK'
  <1>1. CASE Write
    <2>1. PICK share \in BOOLEAN, encode \in BOOLEAN :
            file' = [file EXCEPT !.entries = @ \cup
                       {[share |-> share, encode |-> encode,
                         sub |-> "SUBFILING" \in sess.config]}]
      BY <1>1 DEF Write
    <2>2. [share |-> share, encode |-> encode, sub |-> "SUBFILING" \in sess.config] \in Entry
      BY DEF Entry
    <2>3. FileOK'
      BY <2>1, <2>2 DEF TypeInv, FileOK
    <2>4. QED
      BY <1>1, <2>3 DEF Write, TypeInv, SessOK
  <1>2. CASE Close
    <2>1. sess.st = "ready" /\ sess' = NoSession
      BY <1>2 DEF Close, End
    <2>2. sess.log => [config |-> sess.config, ngroup |-> sess.ngroup] \in Attribute
      BY <2>1 DEF TypeInv, SessOK, Session, Attribute
    <2>3. FileOK'
      BY <1>2, <2>2 DEF Close, TypeInv, FileOK
    <2>4. QED
      BY <2>1, <2>3, NoSessionType DEF SessOK, NoSession
  <1>3. CASE Crash \/ PostFails
    <2>1. file' = file /\ sess' = NoSession /\ NoSession.st # "ready"
      BY <1>3 DEF Crash, PostFails, End, NoSession
    <2>2. QED
      BY <2>1, NoSessionType DEF TypeInv, FileOK, SessOK
  <1>4. CASE PostOpenPlain
    BY <1>4 DEF PostOpenPlain, TypeInv, FileOK, SessOK, Session
  <1>5. QED
    BY <1>1, <1>2, <1>3, <1>4

LEMMA TypeStep == TypeInv /\ [Next]_vars => TypeInv'
  <1> SUFFICES ASSUME TypeInv, [Next]_vars PROVE TypeInv'
    OBVIOUS
  <1>1. CASE SetProperty \/ SetEnv
    <2>1. file' = file /\ sess' = sess /\ (SetProperty => env' = env) /\ (SetEnv => plist' = plist)
      BY <1>1 DEF SetProperty, SetEnv, Changing
    <2>2. QED
      BY <1>1, <2>1, TypeSetProperty, TypeSetEnv DEF TypeInv, ListsOK, EnvOK, FileOK, SessOK
  <1>2. CASE FileGetFcpl \/ FileGetFapl
    <2>1. file' = file /\ sess' = sess /\ env' = env
      BY <1>2 DEF FileGetFcpl, FileGetFapl, Changing
    <2>2. QED
      BY <1>2, <2>1, TypeGetPlist DEF TypeInv, EnvOK, FileOK, SessOK
  <1>3. CASE FileCreate \/ FileOpen \/ FileOptional \/ Write \/ Close \/ Crash
    <2>1. UNCHANGED <<plist, env>>
      BY <1>3 DEF FileCreate, FileOpen, FileOptional, PostCreate, PostFails, PostOpenPlain,
         PostOpen, Write, Close, Crash
    <2>2. ListsOK' /\ EnvOK'
      BY <2>1 DEF TypeInv, ListsOK, EnvOK
    <2>3. FileOK' /\ SessOK'
      BY <1>3, TypeMade, TypePost, TypeUse DEF FileOptional
    <2>4. QED
      BY <2>2, <2>3 DEF TypeInv
  <1>4. CASE UNCHANGED vars
    BY <1>4 DEF vars, TypeInv, ListsOK, EnvOK, FileOK, SessOK
  <1>5. QED
    BY <1>1, <1>2, <1>3, <1>4 DEF Next

LEMMA TypeInit == Init => TypeInv
  <1> SUFFICES ASSUME Init PROVE TypeInv
    OBVIOUS
  <1>1. ListsOK /\ EnvOK
    BY DEF Init, ListsOK, EnvOK
  <1>2. FileOK
    BY DEF Init, FileOK
  <1>3. SessOK
    BY NoSessionType DEF Init, SessOK, NoSession
  <1>4. QED
    BY <1>1, <1>2, <1>3 DEF TypeInv

\* The settings of a session are of their types, and the groups of an open
\* file are some that its processes form, whatever was asked for.
THEOREM ConfigTypes == Spec => []TypeOK
  <1>1. Spec => []TypeInv
    BY TypeInit, TypeStep, PTL DEF Spec
  <1>2. QED
    BY <1>1, TypeInvOK, PTL
-----------------------------------------------------------------------------
\* Every property of the lists of a file is one that is removed; those of the
\* transfer lists are others.
LEMMA NothingBelow ==
  /\ UnderPlist("fapl") = {} /\ UnderPlist("fcpl") = {}
  /\ AsIs("dxpl") \cap (Props("fapl") \cup Props("fcpl")) = {}
  <1>1. /\ Props("fapl") \subseteq Stripped /\ Props("fcpl") \subseteq Stripped
        /\ Props("dxpl") \cap (Props("fapl") \cup Props("fcpl")) = {}
    BY DEF Props, Stripped
  <1>2. QED
    BY <1>1 DEF UnderPlist, AsIs

\* The library below never gets an access or creation list of a file with a
\* property of the connector: the names that get_under_plist removes are all
\* those the setters for these lists insert, meta_share among them.
THEOREM NonePassed == Spec => []FileListsStripped
  <1>1. Init => FileListsStripped
    BY DEF Init, FileListsStripped
  <1>2. FileListsStripped /\ [Next]_vars => FileListsStripped'
    <2> SUFFICES ASSUME FileListsStripped, [Next]_vars PROVE FileListsStripped'
      OBVIOUS
    <2>1. CASE FileCreate \/ FileOpen
      <3>1. passed' \in {UnderPlist("fapl") \cup UnderPlist("fcpl") \cup AsIs("dxpl"),
                         UnderPlist("fapl") \cup AsIs("dxpl")}
        BY <2>1 DEF FileCreate, FileOpen
      <3>2. passed' = AsIs("dxpl")
        BY <3>1, NothingBelow
      <3>3. QED
        BY <3>2, NothingBelow DEF FileListsStripped
    <2>2. CASE ~(FileCreate \/ FileOpen)
      <3>1. passed' = passed
        BY <2>2 DEF Next, vars, SetProperty, SetEnv, Changing, FileOptional, PostCreate,
           PostFails, PostOpenPlain, PostOpen, Write, FileGetFcpl, FileGetFapl, Close, Crash
      <3>2. QED
        BY <3>1 DEF FileListsStripped
    <2>3. QED
      BY <2>1, <2>2
  <1>3. QED
    BY <1>1, <1>2, PTL DEF Spec
-----------------------------------------------------------------------------
(***************************************************************************)
(* The configuration of an open file is the one in the file.  It is in two *)
(* places: a session takes it from the attribute, and the close writes it  *)
(* back.                                                                   *)
(***************************************************************************)
\* Configuration c can read the entries of the file.
Reads(c, entries) ==
    \A e \in entries :
        /\ e.share => "SHARE" \in c
        /\ e.encode => "ENCODE" \in c
        /\ e.sub = ("SUBFILING" \in c)

KeptInv ==
    /\ file.attr = None => file.entries = {}
    /\ file.attr # None => Reads(file.attr.config, file.entries)
    /\ file.attr # None /\ "SUBFILING" \in file.attr.config => "ALIGN" \notin file.attr.config
    /\ sess.st = "made" => sess.log /\ (sess.new => file.attr = None)
    /\ sess.st = "ready" /\ sess.log => file.attr # None /\ sess.config = file.attr.config
    /\ sess.st = "ready" /\ ~sess.log => file.attr = None

LEMMA AttributeNotNone ==
  ASSUME NEW config \in Config, NEW ngroup \in 1 .. NP
  PROVE  [config |-> config, ngroup |-> ngroup] # None
  BY NoneAssumption DEF Config

\* Nothing is in a file whose attribute is written for the first time.
LEMMA KeptPostCreate ==
  ASSUME TypeInv, KeptInv, PostCreate
  PROVE  KeptInv' /\ file.attr = None
  <1>1. PICK config \in Config, ngroup \in 1 .. NP :
          /\ sess.st = "made" /\ sess.new
          /\ sess' = [sess EXCEPT !.st = "ready", !.config = config, !.ngroup = ngroup]
          /\ file' = [file EXCEPT !.attr = [config |-> config, ngroup |-> ngroup]]
          /\ "SUBFILING" \in config => "ALIGN" \notin config
    BY PostCreateEffect
  <1>2. file.attr = None /\ file.entries = {} /\ sess.log
    BY <1>1 DEF KeptInv
  <1>3. file'.attr = [config |-> config, ngroup |-> ngroup] /\ file'.entries = {}
    BY <1>1, <1>2 DEF TypeInv, FileOK
  <1>4. file'.attr # None /\ file'.attr.config = config
    BY <1>3, AttributeNotNone
  <1>5. sess'.st = "ready" /\ sess'.config = config /\ sess'.log = sess.log
    BY <1>1 DEF TypeInv, SessOK, Session
  <1>6. QED
    BY <1>1, <1>2, <1>3, <1>4, <1>5 DEF KeptInv, Reads

\* A session that opens a file has the file's configuration.
LEMMA KeptPostOpen ==
  ASSUME TypeInv, KeptInv, PostOpen
  PROVE  KeptInv' /\ file' = file
  <1>1. /\ sess.st = "made" /\ file.attr # None /\ file' = file /\ sess.log
        /\ \/ sess' = NoSession
           \/ \E ngroup \in 1 .. NP :
                sess' = [sess EXCEPT !.st = "ready", !.ngroup = ngroup,
                   !.config = IF "SUBFILING" \in file.attr.config
                              THEN file.attr.config \ {"ALIGN"} ELSE file.attr.config]
    BY PostOpenEffect DEF KeptInv
  <1>2. CASE sess' = NoSession
    BY <1>1, <1>2 DEF KeptInv, NoSession
  <1>3. ASSUME NEW ngroup \in 1 .. NP,
               sess' = [sess EXCEPT !.st = "ready", !.ngroup = ngroup,
                   !.config = IF "SUBFILING" \in file.attr.config
                              THEN file.attr.config \ {"ALIGN"} ELSE file.attr.config]
        PROVE  KeptInv'
    <2>1. (IF "SUBFILING" \in file.attr.config
           THEN file.attr.config \ {"ALIGN"} ELSE file.attr.config) = file.attr.config
      BY <1>1 DEF KeptInv
    <2>2. sess'.st = "ready" /\ sess'.log = sess.log /\ sess'.config = file.attr.config
      BY <1>3, <2>1 DEF TypeInv, SessOK, Session
    <2>3. QED
      BY <1>1, <2>2 DEF KeptInv
  <1>4. QED
    BY <1>1, <1>2, <1>3

\* A session writes only what its configuration allows.
LEMMA KeptWrite == ASSUME TypeInv, KeptInv, Write PROVE KeptInv' /\ file'.attr = file.attr
  <1>1. PICK e \in Entry :
          /\ file' = [file EXCEPT !.entries = @ \cup {e}]
          /\ e.share => "SHARE" \in sess.config
          /\ e.encode => "ENCODE" \in sess.config
          /\ e.sub = ("SUBFILING" \in sess.config)
    <2>1. PICK share \in BOOLEAN, encode \in BOOLEAN :
            /\ share => "SHARE" \in sess.config
            /\ encode => "ENCODE" \in sess.config
            /\ file' = [file EXCEPT !.entries = @ \cup
                          {[share |-> share, encode |-> encode,
                            sub |-> "SUBFILING" \in sess.config]}]
      BY DEF Write
    <2> DEFINE e == [share |-> share, encode |-> encode, sub |-> "SUBFILING" \in sess.config]
    <2>2. /\ e \in Entry /\ file' = [file EXCEPT !.entries = @ \cup {e}]
          /\ e.share = share /\ e.encode = encode /\ e.sub = ("SUBFILING" \in sess.config)
      BY <2>1 DEF Entry
    <2> HIDE DEF e
    <2>3. QED
      BY <2>1, <2>2
  <1>2. sess.st = "ready" /\ sess.log /\ sess' = sess
    BY DEF Write
  <1>3. file'.attr = file.attr /\ file'.entries = file.entries \cup {e}
    BY <1>1 DEF TypeInv, FileOK
  <1>4. file.attr # None /\ sess.config = file.attr.config
    BY <1>2 DEF KeptInv
  <1>5. Reads(file.attr.config, file.entries \cup {e})
    BY <1>1, <1>4 DEF KeptInv, Reads
  <1>6. QED
    BY <1>2, <1>3, <1>4, <1>5 DEF KeptInv

\* The close writes back the configuration of the session.
LEMMA KeptClose ==
  ASSUME TypeInv, KeptInv, Close
  PROVE  KeptInv' /\ (file.attr # None => file'.attr.config = file.attr.config)
  <1>1. sess.st = "ready" /\ sess' = NoSession
    BY DEF Close, End
  <1>2. CASE sess.log /\ ~sess.ro
    <2>1. /\ file'.attr = [config |-> sess.config, ngroup |-> sess.ngroup]
          /\ file'.entries = file.entries
      BY <1>2 DEF Close, TypeInv, FileOK
    <2>2. sess.config \in Config /\ sess.ngroup \in 1 .. NP
      BY <1>1, <1>2 DEF TypeInv, SessOK, Session
    <2>3. file'.attr # None /\ file'.attr.config = sess.config
      BY <2>1, <2>2, AttributeNotNone
    <2>4. file.attr # None /\ sess.config = file.attr.config
      BY <1>1, <1>2 DEF KeptInv
    <2>5. QED
      BY <1>1, <2>1, <2>3, <2>4 DEF KeptInv, NoSession
  <1>3. CASE ~(sess.log /\ ~sess.ro)
    BY <1>1, <1>3 DEF Close, KeptInv, NoSession
  <1>4. QED
    BY <1>2, <1>3

LEMMA KeptStep ==
  ASSUME TypeInv, KeptInv, [Next]_vars
  PROVE  /\ KeptInv'
         /\ file.attr # None /\ file'.attr # None => file'.attr.config = file.attr.config
  <1>1. CASE SetProperty \/ SetEnv \/ FileGetFcpl \/ FileGetFapl \/ UNCHANGED vars
    <2>1. file' = file /\ sess' = sess
      BY <1>1 DEF SetProperty, SetEnv, Changing, FileGetFcpl, FileGetFapl, vars
    <2>2. QED
      BY <2>1 DEF KeptInv
  <1>2. CASE FileCreate
    <2>1. file'.attr = None /\ file'.entries = {} /\ sess'.st = "made" /\ sess'.log
      BY <1>2 DEF FileCreate
    <2>2. QED
      BY <2>1 DEF KeptInv
  <1>3. CASE FileOpen
    <2>1. file' = file /\ sess'.st = "made" /\ sess'.log /\ ~sess'.new
      BY <1>3 DEF FileOpen
    <2>2. QED
      BY <2>1 DEF KeptInv
  <1>4. CASE PostFails \/ Crash
    <2>1. file' = file /\ sess' = NoSession
      BY <1>4 DEF PostFails, Crash, End
    <2>2. NoSession.st = "none"
      BY DEF NoSession
    <2>3. QED
      BY <2>1, <2>2 DEF KeptInv
  <1>5. CASE PostOpenPlain
    <2>1. file' = file /\ file.attr = None /\ sess' = [sess EXCEPT !.st = "ready", !.log = FALSE]
      BY <1>5 DEF PostOpenPlain
    <2>2. sess'.st = "ready" /\ ~sess'.log
      BY <2>1 DEF TypeInv, SessOK, Session
    <2>3. QED
      BY <2>1, <2>2 DEF KeptInv
  <1>6. CASE PostCreate \/ PostOpen
    BY <1>6, KeptPostCreate, KeptPostOpen
  <1>7. CASE Write \/ Close
    BY <1>7, KeptWrite, KeptClose
  <1>8. QED
    BY <1>1, <1>2, <1>3, <1>4, <1>5, <1>6, <1>7 DEF Next, FileOptional

LEMMA KeptInit == Init => KeptInv
  BY DEF Init, KeptInv, NoSession

LEMMA KeptAlways == Spec => [](TypeInv /\ KeptInv)
  <1>1. TypeInv /\ KeptInv /\ [Next]_vars => TypeInv' /\ KeptInv'
    BY TypeStep, KeptStep
  <1>2. QED
    BY <1>1, TypeInit, KeptInit, PTL DEF Spec

\* Whatever the lists and the environment say when a file is opened again, and
\* after a crash at any point, the session is one that can read what the file
\* holds, because it takes the configuration of the file.
THEOREM OpenedReadable == Spec => []EntriesReadable
  <1>1. TypeInv /\ KeptInv => EntriesReadable
    BY DEF KeptInv, Reads, EntriesReadable, TypeInv, SessOK, Session
  <1>2. QED
    BY <1>1, KeptAlways, PTL

\* A file keeps the configuration it was created with, whatever later sessions
\* ask for: a close writes the one that the open has read.
THEOREM ConfigurationKept == Spec => ConfigKept
  <1>1. TypeInv /\ KeptInv /\ [Next]_vars =>
          [file.attr # None /\ file'.attr # None => file'.attr.config = file.attr.config]_vars
    BY KeptStep
  <1>2. QED
    BY <1>1, KeptAlways, PTL DEF Spec, ConfigKept
=============================================================================
