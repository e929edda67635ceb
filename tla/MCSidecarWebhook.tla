--------------------------- MODULE MCSidecarWebhook ---------------------------
(* Small instances of SidecarWebhook for TLC.                              *)
EXTENDS SidecarWebhook, TLC

CONSTANTS a1, a2, r1, r2, i1, i2, e1, p1, p2

MCKeys == AppKeys \cup ServiceKeys \cup ConfigKeys

Entry(t, o) == [type |-> t, order |-> o, header |-> Unset]
Web(o)      == [type |-> "web", order |-> o, header |-> "literal"]
Ask(i, e, c, p) == [img |-> i, env |-> e, conf |-> c, port |-> p]

c1 == {Entry("configmap", 1)}
c2 == {Web(1), Entry("oidc_registration", 2)}

(* Deployments and slots are interchangeable.                              *)
Alike == Permutations({a1, a2}) \cup Permutations({r1, r2})

(* Annotations that createObjects takes, in all four aspects.              *)
Simple == {Ask(i1, Unset, c1, p1)}
Ports  == {Ask(i1, Unset, c1, p1), Ask(i1, Unset, c1, p2)}
Confs  == {Ask(i1, Unset, c1, Unset), Ask(i1, Unset, c2, Unset)}
Both   == {Ask(i1, Unset, c1, p1), Ask(i1, Unset, c2, Unset)}
All    == {Ask(i1, Unset, c1, p1), Ask(i2, e1, c1, Unset),
           Ask(i1, Unset, c2, p1), Ask(i2, Unset, c2, p2)}

(* Annotations it refuses: no image, two registrations, no order, and an   *)
(* unknown type of source or of header.                                    *)
Broken == {Ask(Unset, Unset, c1, p1),
           Ask(i1, Unset, {Entry("oidc_registration", 1), Entry("oidc_registration", 2)}, p1),
           Ask(i1, Unset, {Entry("configmap", Unset)}, p1),
           Ask(i1, Unset, {Entry("literal", 1)}, p1),
           Ask(i1, Unset, {[Web(1) EXCEPT !.header = "cookie"]}, p1)}
Mixed  == All \cup Broken
=============================================================================
