---------------------------- MODULE MCFrontEnds -----------------------------
(***************************************************************************)
(* Words for model checking FrontEnds: of each kind, those the code treats *)
(* differently and those at the limits.  With 256 unsigned longs and 128   *)
(* ints, 129 is cut down to 1, 127 to -1, and 300 reads as 255.            *)
(***************************************************************************)
EXTENDS FrontEnds

\* a build with the stubs, a machine with one node, two with two nodes; on the
\* last the array of ids just fills its block, as for seven nodes in the code
MCMachines ==
    {[max |-> -1, stubs |-> TRUE, maps |-> {}, room |-> TRUE],
     [max |-> 0, stubs |-> FALSE, maps |-> {Key("a")}, room |-> TRUE],
     [max |-> 1, stubs |-> FALSE, maps |-> {Key("b")}, room |-> TRUE],
     [max |-> 1, stubs |-> FALSE, maps |-> {}, room |-> FALSE]}

MCSegNames   == {Key("a"), Key("b")}
MCChildren   == {Key("c")}
MCOnlineCpus == {0, 3}

MCSizeWords   == {Num(3, "k"), Num(3, "?")}
MCSecondWords == {Num(1, ""), Num(127, ""), Num(300, "")}
MCSignalWords == {Num(9, ""), Num(0, ""), Num(32, ""), Num(127, ""), Key("USR1"), Key("HUP")}

MCRangeArgs  == {<<>>, <<Num(0, ""), Star>>, <<Num(1, "p"), Num(255, "")>>, <<Num(4, "")>>}
MCShareArgs  == {<<>>, <<Key("shared")>>, <<Key("private"), Key("x")>>}
MCAccessArgs == {<<>>, <<Key("wide")>>, <<Key("x")>>}
MCOptionArgs == {<<>>, <<Key("shared"), Addr(7)>>, <<After(Key("b")), Equals>>, <<Equals>>}
MCProtArgs   == {<<Key("read"), Key("none"), Key("write")>>, <<Key("x"), Key("exec")>>}

Lists == {Num(1, ""), List(<<1, 0>>, ""), Num(2, ""), Num(40, ""), Num(127, ""), Num(129, "")}

MCPolicyArgs ==
    {<<Pol("bind", f), w>> : f \in {<<>>, <<"move", "all">>, <<"all">>}, w \in Lists}
    \cup {<<Pol(p, <<>>), Star>> : p \in {"default", "preferred", "bind", "interleaved", "noop"}}
    \cup {<<>>, <<Star>>, <<Num(1, "")>>, <<Pol("other", <<>>), Num(1, "")>>, <<Pol("", <<>>)>>,
          <<Pol("preferred", <<>>)>>}

MCNodeArgs ==
    {<<>>, <<Key("x")>>} \cup {<<w>> : w \in Lists} \cup {<<Num(0, ""), w>> : w \in Lists}

MCMemArgs ==
    {<<>>, <<Mask(<<1>>, TRUE, "")>>, <<Mask(<<4>>, TRUE, "")>>, <<Mask(<<0>>, TRUE, "")>>}
    \cup {<<w>> : w \in Lists}

MCCpuArgs ==
    {<<>>, <<Num(3, "")>>, <<List(<<0, 5>>, "")>>, <<Num(127, "")>>, <<Num(4, "?")>>}
    \cup {<<Mask(chunks, TRUE, "")>> :
             chunks \in {<<1>>, <<2, 1>>, <<0, 2, 0>>, <<1, 2, 3>>, <<0, 1, 0, 0>>,
                         <<1, 0, 0, 0>>, <<5>>}}
    \cup {<<Mask(<<2, 0>>, TRUE, ",")>>, <<Mask(<<1>>, TRUE, "?")>>, <<Mask(<<1, 1>>, FALSE, "")>>}

=============================================================================
