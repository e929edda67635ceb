---------------------------- MODULE MCConfigMerge ----------------------------
(* Small instances of ConfigMerge for TLC.                                 *)
EXTENDS ConfigMeaning, TLC

CONSTANTS x, y, idp

(* What MergeMaps and StringKeys call for the maps below: themselves.  The *)
(* LETs keep TLC's statistics from following them without end.             *)
MergeTrees(old, new) == LET merged == MergeMaps(old, new) IN merged
KeysOfTree(v)        == LET keyed == StringKeys(v) IN keyed

Scalars  == {Leaf(x), Leaf(y)}
Arrays   == {List(<<Leaf(x)>>), List(<<Leaf(y)>>), List(<<AnyMap("port" :> Leaf(x))>>)}
Inner    == UNION {[K -> Scalars \cup Arrays] : K \in SUBSET {"a", "b"}}
Subtrees == {AnyMap(f) : f \in Inner} \cup {AnyMap("a" :> AnyMap(f)) : f \in Inner}

(* Documents of up to three levels, with one top entry.                    *)
Tops == {StringMap("server" :> v) : v \in Scalars \cup Arrays \cup Subtrees}

Identities ==
    {StringMap(<<>>), StringMap("identity" :> Leaf(x)),
     StringMap("identity" :> AnyMap("ldap" :> Leaf(x))),
     StringMap("identity" :> AnyMap("oidc" :> Leaf(x))),
     StringMap("identity" :> AnyMap("oidc" :> AnyMap("client" :> Leaf(idp)))),
     StringMap("identity" :> AnyMap("oidc" :> AnyMap("scopes" :> List(<<Leaf(x)>>)))),
     StringMap("identity" :> AnyMap("oidc" :> AnyMap("scopes" :> List(<<Leaf(y)>>)))),
     StringMap("identity" :> AnyMap(("oidc" :> AnyMap("client" :> Leaf(idp)))
                                    @@ ("ldap" :> Leaf(x))))}

Source(t, d) == [type |-> t, doc |-> d, headers |-> {}, order |-> 0]
Literal(d)   == Source("literal", d)
Registration == Source("oidc_registration", Nil)

TwoSources   == {<<Literal(c), Literal(d)>> : c, d \in Tops}
ThreeSources == {<<Literal(c), Literal(d), Literal(e)>> : c, d, e \in
                    {StringMap("server" :> AnyMap(k :> Leaf(x))) : k \in {"a", "b", "c"}}}

(* Sources of all types before and after a registration, or two of them,   *)
(* some that cannot be read and one of no known type.                      *)
AnyIdentity == {Source(t, d) : t \in {"literal", "web"}, d \in Identities \cup {Nil}}
               \cup {Source("configmap", NoKey), Source("file", Nil), Registration}
Registered == {<<c, Registration, d>> : c, d \in AnyIdentity}

(* Web sources with headers, some of which cannot be sent.                 *)
Header(t, n, v, k) == [type |-> t, name |-> n, value |-> v, key |-> k]
Headers == {Header("literal", x, y, Nil), Header("secret", x, y, idp),
            Header("secret", x, y, Nil), Header("literal", Nil, y, Nil),
            Header("literal", x, Nil, Nil), Header("cookie", x, y, Nil)}
Authorized == {<<[Source("web", StringMap("server" :> Leaf(x))) EXCEPT !.headers = h]>> :
                  h \in {{}} \cup {{g, h} : g, h \in Headers}}

(* Three sources with plain values and arrays, any of which cannot be read *)
(* or is a config map without its data key.                                *)
Partial == {Literal(StringMap(k :> v)) : k \in {"server", "logging"}, v \in {Leaf(x)} \cup Arrays}
           \cup {Source("configmap", d) : d \in {Nil, NoKey}} \cup {Source("web", Nil)}
PartialLists == {<<c, d, e>> : c, d, e \in Partial}

AllLists == TwoSources \cup Registered \cup Authorized \cup PartialLists

(* The sources of a sidecar, orders of which may be equal, as they come    *)
(* out of a Go map; and such with a registration among them.               *)
Ordered == {[Source(t, StringMap("server" :> Leaf(v))) EXCEPT !.order = o] :
               t \in {"configmap", "web"}, v \in {x, y, idp}, o \in 1..3}
OidcClient  == StringMap("identity" :> AnyMap("oidc" :> AnyMap("client" :> Leaf(idp))))
Identity(o) == [Source("configmap", OidcClient) EXCEPT !.order = o]
AllSidecars ==
    {<<c, d, e>> : c, d, e \in {e \in Ordered : e.type = "configmap"}}
    \cup {<<c, [Registration EXCEPT !.order = o], d>> :
             c \in {Identity(n) : n \in 1..3}, d \in Ordered, o \in 1..3}

OneProvider  == {<<Literal(c), Registration>> : c \in Identities}
OidcSetting(k) == StringMap("identity" :> AnyMap("oidc" :> AnyMap(k :> Leaf(x))))
TwoProviders == {<<Literal(c), Literal(d), Registration>> : c, d \in
                    {OidcSetting(k) : k \in {"scopes", "pkce"}}}

(* Config maps that lack the data key of the entry that names them.        *)
Keyless == {<<c, d>> : c, d \in {e \in Partial : e.type # "web"}}

NoSidecars == {}
=============================================================================
