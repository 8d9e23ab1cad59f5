----------------------------- MODULE MCSettings ----------------------------
(* Small instances of Settings for TLC. *)
EXTENDS Settings

CONSTANTS a, b, info, debug, p1, p2, home, other

SomeLists == {<<>>, <<a>>, <<b, b>>}
YamlDoc   == [list |-> <<a>>, level |-> info, port |-> p1,
              path |-> home]
=============================================================================
