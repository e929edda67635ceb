---------------------------- MODULE ConfigMeaning ----------------------------
(***************************************************************************)
(* What the documentation says of the merge of ConfigMerge, by the meaning *)
(* of documents.                                                           *)
(***************************************************************************)
EXTENDS ConfigMerge

(* A merge by the meaning of documents, which knows only one type of map:  *)
(* maps are merged, lists are joined, and of all else the later one wins.  *)
RECURSIVE Joined(_, _)
Joined(old, new) ==
    IF old.kind = "list" /\ new.kind = "list" THEN List(old.val \o new.val)
    ELSE IF IsMap(old) /\ IsMap(new)
    THEN StringMap([key \in DOMAIN old.val \cup DOMAIN new.val |->
            IF key \notin DOMAIN new.val THEN old.val[key]
            ELSE Joined(Get(old, key), new.val[key])])
    ELSE new

RECURSIVE JoinedFrom(_, _)
JoinedFrom(m, i) ==
    IF i > Len(entries) THEN m
    ELSE JoinedFrom(IF entries[i].type \in {"literal", "configmap", "web"}
                    THEN Joined(m, Yields(entries[i])) ELSE m, i + 1)

(* Two documents say the same, whatever the types of their maps, the order *)
(* of their lists and how often an element is in them.                     *)
RECURSIVE Meaning(_)
Meaning(v) ==
    CASE IsMap(v) -> [key \in DOMAIN v.val |-> Meaning(v.val[key])]
      [] v.kind = "list" -> {Meaning(v.val[i]) : i \in DOMAIN v.val}
      [] OTHER -> v.val

(* What is merged is what the sources say, all of them: none that cannot   *)
(* be read is left out.  ("If duplicate entries are defined in more than   *)
(* one location, the final location will contain the value that will be    *)
(* used in the master configuration.  The only exception to this is when   *)
(* the entries are array entries.  In this case the final merged config    *)
(* will contain all of the configured entries.")                           *)
MergesWhatSourcesSay ==
    pc = "done" /\ oidcRegs = 0 =>
        /\ \A i \in Sources : Readable(entries[i])
        /\ Meaning(master) = Meaning(JoinedFrom(StringMap(<<>>), 1))

(* "If the existing identity provider is an OIDC provider, the new client  *)
(* ID and secret along with the discovery endpoint will be merged into the *)
(* existing OIDC identity configuration": its other settings stay.         *)
OidcSettingsStay ==
    pc = "done" /\ oidcRegs = 1 =>
        LET before == Get(JoinedFrom(StringMap(<<>>), 1), "identity")
        IN  IsMap(before) /\ IsMap(Get(before, "oidc")) =>
                \A key \in DOMAIN Get(before, "oidc").val \ DOMAIN Settings :
                    Meaning(Get(Oidc(master), key)) = Meaning(Get(Oidc(
                        JoinedFrom(StringMap(<<>>), 1)), key))
=============================================================================
