------------------------------ MODULE MCAodvv2 ------------------------------
(***************************************************************************)
(* Routers in a line a - b - c, all three of them in range of each other,  *)
(* or with two relays b and c between a and d.  The metric limit is one    *)
(* less than the modulus of a byte, as in the firmware.                    *)
(***************************************************************************)
EXTENDS Aodvv2

MCNodes == {"a", "b", "c", "d"}
MCNet == [n \in MCNodes |-> n \o "/64"]
MCHost == [n \in MCNodes |-> n \o "::1"]

\* What the stack may hold where aodvv2_find_route does not write.
Zeroed == {NoAddr}
Garbage == {NoAddr, "garbage"}

\* A NIB that has room, and one that at times has not.
HasRoom == {TRUE}
MayRefuse == {TRUE, FALSE}

Line == {<<"a", "b">>, <<"b", "c">>}
Triangle == Line \cup {<<"a", "c">>}
Diamond == {<<"a", "b">>, <<"a", "c">>, <<"b", "d">>, <<"c", "d">>}

\* Discoveries in both directions at a time.
Crossing == [links |-> Line, senders |-> {<<"a", "c">>, <<"c", "a">>},
             packets |-> 2, time |-> 0, adds |-> HasRoom]

\* Floods that come back to their origin over two paths.
Flooding == [links |-> Triangle, senders |-> {<<"a", "c">>, <<"a", "b">>},
             packets |-> 2, time |-> 0, adds |-> HasRoom]

\* Copies that come over two relays.
TwoRelays == [links |-> Diamond, senders |-> {<<"a", "d">>},
              packets |-> 1, time |-> 0, adds |-> HasRoom]

\* Routes expire between one discovery and the next.
Ageing == [links |-> Line, senders |-> {<<"a", "c">>, <<"a", "b">>},
           packets |-> 3, time |-> 4, adds |-> HasRoom]

\* The first discovery of two routers; two of a single one.
FirstOnes == [links |-> Line, senders |-> {<<"a", "c">>, <<"c", "b">>},
              packets |-> 2, time |-> 0, adds |-> HasRoom]
Repeated == [links |-> Line, senders |-> {<<"a", "c">>, <<"a", "b">>},
             packets |-> 2, time |-> 0, adds |-> HasRoom]

\* A NIB that refuses entries: in a flood whose copies take two paths, and for
\* destinations that have an old entry.
CrowdedFlood == [links |-> Triangle, senders |-> {<<"a", "c">>},
                 packets |-> 1, time |-> 0, adds |-> MayRefuse]
CrowdedAgeing == [links |-> Line, senders |-> {<<"a", "b">>},
                  packets |-> 3, time |-> 4, adds |-> MayRefuse]

DiscoveryScenarios == {Crossing, Flooding, TwoRelays, Ageing, CrowdedFlood, CrowdedAgeing}
ReleaseScenarios == {FirstOnes}
RepeatScenarios == {Repeated}
=============================================================================
