------------------------ MODULE MCGatewayController ------------------------
(* Small instances of GatewayController for TLC.                           *)
EXTENDS GatewayController, TLC

CONSTANTS leader, g1, g2, m1, o1, o2, l1, l2, l3, d1, d2

MCKeys == CrKeys \cup DepKeys \cup SrcKeys \cup MapKeys

Asked(r, o, l, R) == [replicas |-> r, opts |-> o, lit |-> l, refs |-> R]

(* Specs to begin with and to edit into, one aspect at a time; where l3 is *)
(* panicking, getMergedConfig panics on the last one of each.              *)
Sourced == {Asked(1, o1, l1, {m1})}
Entered == {Asked(1, o1, l1, {m1}), Asked(2, o1, l1, {m1}), Asked(1, o2, l3, {})}
Edited  == {Asked(1, o1, l1, {}), Asked(2, o1, l1, {}), Asked(1, o2, l2, {}),
            Asked(1, o2, l3, {})}

(* Specs that differ in the replica count and in more.                     *)
Plain == {Asked(1, o1, l1, {}), Asked(1, o1, l2, {})}
Whole == {Asked(1, o1, l1, {}), Asked(2, o2, l2, {})}
Mixed == {Asked(1, o1, l1, {m1}), Asked(2, o2, l2, {})}

(* A gateway whose source is a config map with the name of a gateway.      *)
Clash == {Asked(1, o1, l1, {g1})}
=============================================================================
