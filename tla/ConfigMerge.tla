----------------------------- MODULE ConfigMerge -----------------------------
(***************************************************************************)
(* The merge of the configuration sources: getMergedConfig for a gateway,  *)
(* createIAGConfig and mergeIAGConfig for a sidecar, whose sources come    *)
(* out of a Go map in whatever order, and are sorted first.                *)
(*                                                                         *)
(* A YAML document is a tree of leaves, lists and maps.  The Go types of   *)
(* the maps matter: the decoder makes the top of a document a map of       *)
(* strings and every map below it a map of interfaces, and                 *)
(* mergeMapsRecursive tells the two apart.                                 *)
(*                                                                         *)
(* What its recursive functions call for the maps below is a constant of   *)
(* the module, for which an instance gives what the function itself does:  *)
(* MergeMaps for MergeBelow, StringKeys for KeysBelow.                     *)
(***************************************************************************)
EXTENDS Naturals, Sequences, FiniteSets

CONSTANTS
    Lists,    \* configurations of gateways, lists of entries, see ListsAssumption
    Sidecars, \* configurations of sidecars, as getConfigElements returns them
    MergeBelow(_, _), \* mergeMapsRecursive, called by itself
    KeysBelow(_),     \* validateStringKeysFrom..., called by themselves
    Nil,      \* what a Go map yields for a key that it does not have
    NoKey,    \* the document of a config map that lacks the data key
    Endpoint, \* discoveryEndpoint of the registration
    Client    \* reference to the credentials the registration leaves in the secret

(* type: literal, configmap, web, oidc_registration; doc: the document it  *)
(* has, Nil when the source cannot be had or what it has is no YAML map,   *)
(* NoKey for a config map that is there but lacks the data key; headers:   *)
(* those of a web source; order: that of a source of a sidecar.            *)
Kinds == {"literal", "configmap", "web", "oidc_registration"}
ASSUME ListsAssumption ==
    \A list \in Lists \cup Sidecars :
        /\ list \in Seq({list[i] : i \in DOMAIN list})
        /\ \A i \in DOMAIN list :
            /\ DOMAIN list[i] = {"type", "doc", "headers", "order"}
            /\ list[i].order \in Nat
            /\ \A h \in list[i].headers : DOMAIN h = {"type", "name", "value", "key"}

ASSUME DocumentsAssumption ==
    \A list \in Lists \cup Sidecars : \A i \in DOMAIN list :
        LET doc == list[i].doc
        IN  doc \notin {Nil, NoKey} => \A key \in DOMAIN doc.val :
                doc.val[key].kind = "list" =>
                    LET s == doc.val[key].val IN s \in Seq({s[j] : j \in DOMAIN s})

Nothing      == [kind |-> "nil", val |-> Nil]
Leaf(x)      == [kind |-> "leaf", val |-> x]
List(s)      == [kind |-> "list", val |-> s]
AnyMap(f)    == [kind |-> "any", val |-> f]      \* map[interface{}]interface{}
StringMap(f) == [kind |-> "string", val |-> f]   \* map[string]interface{}

IsMap(v) == v.kind \in {"any", "string"}
Get(m, key) == IF IsMap(m) /\ key \in DOMAIN m.val THEN m.val[key] ELSE Nothing

(* mergeMapsRecursive and, for one key of both maps, the body of its loop: *)
(* reflect.DeepEqual, then a case for each type of the new value.          *)
ConcatOrKeep(s, t) == s
Concat(s, t) == s \o t

MergeValuesFirst(old, new) ==
    IF old = new THEN new
    ELSE IF old.kind = "any" /\ new.kind = "any" THEN MergeBelow(old, new)
    ELSE IF old.kind = "list" /\ new.kind = "list" THEN List(Concat(new.val, old.val))
    ELSE IF old.kind = "nil" THEN new ELSE old
MergeValues(old, new) ==
    IF old = new THEN new
    ELSE IF old.kind = "any" /\ new.kind = "any" THEN MergeBelow(old, new)
    ELSE IF old.kind = "list" /\ new.kind = "list" THEN List(Concat(new.val, old.val))
    ELSE new
MergeMaps(old, new) ==
    StringMap([key \in DOMAIN old.val \cup DOMAIN new.val |->
        IF key \in DOMAIN new.val THEN MergeValues(Get(old, key), new.val[key])
                                  ELSE old.val[key]])

(* validateStringKeysFromString and validateStringKeysFromInterface: every *)
(* map becomes one of strings, except in a list of lists.                  *)
StringKeys(v) ==
    CASE IsMap(v) ->
            StringMap([key \in DOMAIN v.val |-> KeysBelow(v.val[key])])
      [] v.kind = "list" ->
            List([i \in DOMAIN v.val |->
                IF v.val[i].kind = "list" THEN v.val[i] ELSE KeysBelow(v.val[i])])
      [] OTHER -> v

VARIABLES
    model,    \* is it the configuration of a gateway or of a sidecar?
    entries,  \* the configuration entries
    next,     \* how many of them have been looked at
    oidcRegs, \* how many registrations were among them
    master,   \* what the sources are merged into
    pc

vars == <<model, entries, next, oidcRegs, master, pc>>

Init ==
    /\ \/ model = "gateway" /\ entries \in Lists /\ pc = "merging"
       \/ model = "sidecar" /\ entries \in Sidecars /\ pc = "unsorted"
    /\ next = 0 /\ oidcRegs = 0
    /\ master = StringMap(<<>>)

(* sort.SliceStable by the order of the entries: how many come up to i,    *)
(* and which one comes at p.                                               *)
Place(s, i) == Cardinality({j \in DOMAIN s :
    s[j].order < s[i].order \/ (s[j].order = s[i].order /\ j <= i)})
At(s, p) == CHOOSE i \in DOMAIN s : Place(s, i) = p
SortedNot(s) == s
Sorted(s) == [p \in DOMAIN s |-> s[At(s, p)]]

SortEntries ==
    /\ pc = "unsorted" /\ pc' = "merging"
    /\ entries' = Sorted(entries)
    /\ UNCHANGED <<model, next, oidcRegs, master>>

Entry == entries[next + 1]
Left  == pc = "merging" /\ next < Len(entries)
Step  == next' = next + 1 /\ UNCHANGED <<model, entries>>
Fail  == pc' = "failed" /\ UNCHANGED <<oidcRegs, master>>

(* handleWebEntryMerge asks a source only with all its headers: each has a *)
(* name and a value, which for a header of type secret names the secret    *)
(* that has the key.                                                       *)
Sendable(h) ==
    /\ h.type \in {"literal", "secret"} /\ h.name # Nil /\ h.value # Nil
    /\ h.type = "secret" => h.key # Nil
Readable(e) == e.doc # Nil /\ (e.type = "web" => \A h \in e.headers : Sendable(h))

(* Data of a config map is a Go map: a key that is not there yields the    *)
(* empty string, which is an empty document, and no error.                 *)
Yields(e) == IF e.doc = NoKey THEN StringMap(<<>>) ELSE e.doc

(* A source that can be read is merged: handleYamlDataMerge.  A source     *)
(* that cannot, or is no YAML map, ends the merge.                         *)
MergeReadable ==
    /\ Left /\ Entry.type \in {"literal", "configmap", "web"}
    /\ Step
    /\ master' = IF Readable(Entry) THEN MergeMaps(master, Yields(Entry)) ELSE master
    /\ UNCHANGED <<oidcRegs, pc>>
MergeSource ==
    /\ Left /\ Entry.type \in {"literal", "configmap", "web"}
    /\ Step
    /\ \/ ~Readable(Entry) /\ Fail
       \/ /\ Readable(Entry)
          /\ master' = MergeMaps(master, Yields(Entry))
          /\ UNCHANGED <<oidcRegs, pc>>

(* A registration is put off to the end, and a second one is an error.     *)
NoteRegistration ==
    /\ Left /\ Entry.type = "oidc_registration"
    /\ Step
    /\ \/ oidcRegs = 1 /\ Fail
       \/ oidcRegs = 0 /\ oidcRegs' = 1 /\ UNCHANGED <<master, pc>>

(* getMergedConfig passes over a type it does not know.                    *)
SkipEntry ==
    /\ Left /\ Entry.type \notin Kinds
    /\ Step /\ UNCHANGED <<oidcRegs, master, pc>>

Settings == [discovery_endpoint |-> Leaf(Endpoint), client |-> Leaf(Client)]
OidcDocument == StringMap([identity |-> AnyMap([oidc |-> AnyMap(Settings)])])

(* handleOidcEntryMerge, once the client is registered: an OIDC identity   *)
(* that is there is updated, else one is merged.                           *)
WithSettings(m) ==
    StringMap([key \in DOMAIN m.val \cup DOMAIN Settings |->
        IF key \in DOMAIN Settings THEN Settings[key] ELSE m.val[key]])
WithClient(identity) == StringMap([identity.val EXCEPT !["oidc"] = WithSettings(@)])
HasOidc(m) == LET identity == Get(m, "identity")
              IN  identity.kind = "any" /\ Get(identity, "oidc").kind = "any"

AddClientFirst(m) == MergeMaps(OidcDocument, m)
AddClient(m) ==
    IF HasOidc(m)
    THEN [m EXCEPT !.val["identity"] = WithClient(@)]
    ELSE MergeMaps(m, OidcDocument)

Register ==
    /\ pc = "merging" /\ next = Len(entries)
    /\ \/ /\ oidcRegs = 0 /\ master' = StringKeys(master) /\ pc' = "done"
       \/ /\ oidcRegs = 1 /\ master' = StringKeys(AddClient(master)) /\ pc' = "done"
       \/ /\ oidcRegs = 1 /\ pc' = "failed" /\ UNCHANGED master
    /\ UNCHANGED <<model, entries, next, oidcRegs>>

Next == SortEntries \/ MergeSource \/ NoteRegistration \/ SkipEntry \/ Register

Spec == Init /\ [][Next]_vars

-----------------------------------------------------------------------------
(* What the documentation says of it.                                      *)

Sources == {i \in DOMAIN entries : entries[i].type \in {"literal", "configmap", "web"}}

(* Of the sources that give a setting plain values the last one in the     *)
(* list wins, whatever stands between them.  ("If duplicate entries are    *)
(* defined in more than one location, the final location will contain the  *)
(* value that will be used in the master configuration.")                  *)
Says(key) == {i \in Sources : key \in DOMAIN Yields(entries[i]).val}
LastSourceWins ==
    pc = "done" =>
        \A key \in UNION {DOMAIN Yields(entries[i]).val : i \in Sources} :
            (\A i \in Says(key) : Yields(entries[i]).val[key].kind = "leaf")
            /\ (oidcRegs = 1 => key # "identity") =>
                \E i \in Says(key) :
                    /\ Get(master, key) = Yields(entries[i]).val[key]
                    /\ \A j \in Says(key) : j <= i

(* The order of the sources of a sidecar decides, not the order in which   *)
(* the map of its annotations yields them: of those that give a setting a  *)
(* plain value, one of the highest order wins.  ("Later merges will        *)
(* overwrite any earlier values.")                                         *)
HighestOrderWins ==
    pc = "done" /\ model = "sidecar" =>
        \A key \in UNION {DOMAIN Yields(entries[i]).val : i \in Sources} :
            (\A i \in Says(key) : Yields(entries[i]).val[key].kind = "leaf")
            /\ (oidcRegs = 1 => key # "identity") =>
                \E i \in Says(key) :
                    /\ Get(master, key) = Yields(entries[i]).val[key]
                    /\ \A j \in Says(key) : entries[j].order <= entries[i].order

(* No configuration is made when a source could not be read or was no     *)
(* YAML map; one that is made has the settings that the sources have at    *)
(* the top of their documents, all of them and no others, but for the      *)
(* identity of a registration.  (What is below the top may be lost, see    *)
(* MCThreeSources.cfg, and a config map without its data key counts as a   *)
(* source that says nothing, see NoKeyMissing.)                            *)
TopLevelKept ==
    pc = "done" =>
        /\ \A i \in Sources : Readable(entries[i])
        /\ DOMAIN master.val = (UNION {DOMAIN Yields(entries[i]).val : i \in Sources})
                               \cup (IF oidcRegs = 1 THEN {"identity"} ELSE {})

(* A configuration is made only of config maps that have the data key,     *)
(* "the config map YAML entry that contains the IBM Application Gateway    *)
(* configuration", which is "required for configmap type".                 *)
NoKeyMissing == pc = "done" => \A i \in Sources : entries[i].doc # NoKey

Oidc(m) == Get(Get(m, "identity"), "oidc")

(* The registered client is what the gateway uses: "this is to ensure that *)
(* the newly registered OIDC client is not overwritten by other sources",  *)
(* whatever they define, and wherever in the list the registration stands. *)
RegisteredClientWins ==
    pc = "done" /\ oidcRegs = 1 =>
        \A key \in DOMAIN Settings : Get(Oidc(master), key) = Settings[key]

(* "If the existing identity provider is not an OIDC provider it will be   *)
(* removed and the new OIDC identity provider will be used instead."       *)
OnlyOidcProvider ==
    pc = "done" /\ oidcRegs = 1 => DOMAIN Get(master, "identity").val = {"oidc"}
=============================================================================
