------------------------------- MODULE MCNames -------------------------------
(* Instances of Names: a name of the connector used by the application too,  *)
(* an ordinary name, one that starts with an upper-case letter.              *)
EXTENDS Names

UserID    == [us |-> 1, b |-> "ID"]
UserLog   == [us |-> 1, b |-> "LOG"]
LowerName == [us |-> 0, b |-> "x"]
UpperName == [us |-> 0, b |-> "X"]

MCUpper == {"X", "ID", "LOG"}
MCNames == {UserID, UserLog, LowerName, UpperName}

\* Attributes and links do not touch each other: a use makes calls on either.
\* Attributes under a name of the connector's own, with the calls that adjust names.
OwnName == [logBased |-> TRUE, names |-> {UserID, LowerName},
            handles |-> Handle \ {[obj |-> Root, type |-> "group"]},
            calls |-> {"openat", "infoat"}, orders |-> {"crt"}, byPath |-> {FALSE}]

\* Ordinary names of attributes, with calls that do not adjust names as well.
Letters == [OwnName EXCEPT !.names = {LowerName, UpperName},
                           !.calls = {"openat", "infoat", "nameat", "info", "rename"}]

\* Links under the name of the connector's group; under ordinary names, by path, too.
OwnGroup  == [OwnName EXCEPT !.names = {UserLog, LowerName}, !.handles = {}, !.calls = {"links"}]
LinkPaths == [OwnGroup EXCEPT !.names = {UpperName, LowerName}, !.byPath = BOOLEAN]

\* A file that is not log-based: all calls, any name, on a group.
Logless == [logBased |-> FALSE, names |-> {UserID, LowerName},
            handles |-> {[obj |-> Group, type |-> "group"]},
            calls |-> {"openat", "opendec", "infoat", "nameat", "info", "rename", "deleteat",
                       "iterfrom"},
            orders |-> {"crt", "name"}, byPath |-> {FALSE}]
LoglessLinks == [Logless EXCEPT !.handles = {}, !.calls = {"links", "again", "linkcount"},
                                !.byPath = BOOLEAN]

MCUses == {OwnName, OwnGroup, LinkPaths, Letters, Logless, LoglessLinks}
ASSUME \A u \in MCUses : Careful(u) /\ Unseen(u)

\* Uses in which the connector shows; README, Divergences.
OnlyCalls(u, cs) == [u EXCEPT !.calls = cs]
RenamesOwn    == {OnlyCalls(OwnName, {"rename", "deleteat"})}
OpensFromEnd  == {OnlyCalls(OwnName, {"openat", "opendec"})}
AsksName      == {OnlyCalls(OwnName, {"nameat"})}
AsksInfo      == {OnlyCalls(OwnName, {"info"})}
OrdersByName  == {[OnlyCalls(Letters, {"openat"}) EXCEPT !.orders = {"name"}]}
RootAsGroup   == {[OnlyCalls(Letters, {"openat"}) EXCEPT
                     !.handles = {[obj |-> Root, type |-> "group"]}]}
LoglessAttrs  == {[OnlyCalls(Letters, {"openat", "infoat"}) EXCEPT !.logBased = FALSE]}
PathsToGroup  == {[OwnGroup EXCEPT !.byPath = BOOLEAN]}
IteratesFrom  == {OnlyCalls(OwnName, {"iterfrom"})}
CountsLinks   == {OnlyCalls(OwnGroup, {"links", "linkcount"})}
=============================================================================
