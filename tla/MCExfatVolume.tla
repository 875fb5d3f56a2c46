--------------------------- MODULE MCExfatVolume ---------------------------
(***************************************************************************)
(* A volume of nine clusters of four entries, on sectors half as large,    *)
(* and trees that fill it, that leave one cluster over, and that do not    *)
(* fit by one cluster.  A directory has three clusters at most.            *)
(***************************************************************************)
EXTENDS ExfatVolume

MCUnits == [n \in {"a", "A", "b", "long", ":"} |-> IF n = "long" THEN 16 ELSE 1]
MCUp    == [n \in DOMAIN MCUnits |-> IF n = "A" THEN "a" ELSE n]

Dir(path)         == [path |-> path, dir |-> TRUE, bytes |-> 0]
File(path, bytes) == [path |-> path, dir |-> FALSE, bytes |-> bytes]

\* The tree whose volume takes two harms: a link and what would hide it.
Crossed == <<Dir(<<"a">>), File(<<"a", "A">>, 1)>>

MCTrees ==
  { <<>>,
    <<Dir(<<"a">>), File(<<"a", "b">>, 129)>>,
    <<Dir(<<"a">>), Dir(<<"a", "b">>), File(<<"b">>, 0)>>,
    <<File(<<"long">>, 32)>>,
    <<File(<<"a">>, 0), File(<<"b">>, 0), File(<<"long">>, 0)>>,  \* with a label, too large a root
    <<File(<<"b">>, 640)>>,                        \* fills the heap, without a label
    <<File(<<"b">>, 641)>>,                        \* one cluster too many
    Crossed,
    <<File(<<"A">>, 1), File(<<"a">>, 1)>>,        \* one name in upper case
    <<File(<<":">>, 1)>> }

MCHarm == [t \in MCTrees |-> IF t = Crossed THEN 2 ELSE 1]

=============================================================================
