---------------------------- MODULE MCTrustWalk -----------------------------
(* /x is a directory a with a subdirectory b, two files and a link m; /y is *)
(* a link l, /z is missing.  The targets of the links vary.                 *)
EXTENDS TrustWalk

MCEntry ==
    [d \in Dirs |->
        CASE d = "root" -> [x |-> "a", y |-> "l", z |-> NoEntry]
          [] d = "a"    -> [x |-> "b", y |-> "m", z |-> "g"]
          [] d = "b"    -> [x |-> "h", y |-> NoEntry, z |-> "lock"]]

Abs(c) == [abs |-> TRUE, comps |-> c]
Rel(c) == [abs |-> FALSE, comps |-> c]

\* To a directory, a file below, a file beside by "..", each other, itself.
TargetsOfL == {Rel(<<"x">>), Abs(<<"x", "x">>), Abs(<<"x", "y">>), Rel(<<"y">>), Rel(<<Dot>>), Rel(<<"x", "z", DotDot, "z">>)}
TargetsOfM == {Rel(<<"x", "x">>), Rel(<<DotDot, "x", "z">>), Rel(<<DotDot, "z">>), Abs(<<"y", "x">>), Rel(<<DotDot>>)}

MCLayouts ==
    {[entry |-> MCEntry, target |-> [k \in Links |-> IF k = "l" THEN p ELSE q]] :
        p \in TargetsOfL, q \in TargetsOfM}

MCPaths == UNION {[1..n -> Components] : n \in 1..3}
=============================================================================
