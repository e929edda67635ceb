-------------------------- MODULE MCOidcRegistration --------------------------
(* Small instances of OidcRegistration for TLC.                            *)
EXTENDS OidcRegistration, TLC

Given0   == [ba |-> FALSE, initial |-> FALSE, retrieval |-> FALSE, other |-> FALSE]
Both     == [Given0 EXCEPT !.ba = TRUE, !.initial = TRUE]
Other    == [Given0 EXCEPT !.other = TRUE]
NoData   == {Given0}
Token    == {[Given0 EXCEPT !.retrieval = TRUE]}
SomeData == {[Given0 EXCEPT !.retrieval = TRUE], [Given0 EXCEPT !.initial = TRUE],
             Both, Other}

(* With the data to retrieve a token, with none of the data for an         *)
(* authorization, and without any data at all.                             *)
Kinds    == Token \cup NoData \cup {Other}
=============================================================================
