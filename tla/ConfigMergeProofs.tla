-------------------------- MODULE ConfigMergeProofs --------------------------
(* What holds of ConfigMerge for any documents and any lists of sources.   *)
EXTENDS ConfigMerge, FiniteSetTheorems, TLAPS

(* The two constants are the functions they stand for.                     *)
KeysRecursive  == \A v : KeysBelow(v) = StringKeys(v)
MergeRecursive == \A old, new : MergeBelow(old, new) = MergeMaps(old, new)

-----------------------------------------------------------------------------
(* The sort of createIAGConfig.                                            *)

(* A list of sources with orders.                                          *)
Sortable(s) ==
    /\ Len(s) \in Nat /\ DOMAIN s = 1..Len(s)
    /\ \A i \in DOMAIN s : s[i].order \in Nat

(* Source i comes before source j: among equals, as they came.             *)
Precedes(s, i, j) ==
    s[i].order < s[j].order \/ (s[i].order = s[j].order /\ i < j)

UpTo(s, i) ==
    {j \in DOMAIN s : s[j].order < s[i].order \/ (s[j].order = s[i].order /\ j <= i)}

LEMMA UpToFinite ==
    ASSUME NEW s, Sortable(s), NEW i \in DOMAIN s
    PROVE  /\ IsFiniteSet(UpTo(s, i)) /\ Place(s, i) = Cardinality(UpTo(s, i))
           /\ Place(s, i) \in DOMAIN s
<1>1. Place(s, i) = Cardinality(UpTo(s, i)) BY DEF Place, UpTo
<1>2. IsFiniteSet(1..Len(s)) /\ Cardinality(1..Len(s)) = Len(s)
  <2>1. 1 \in Int /\ Len(s) \in Int /\ Len(s) \in Nat BY DEF Sortable
  <2>2. /\ IsFiniteSet(1..Len(s))
        /\ Cardinality(1..Len(s)) = IF 1 > Len(s) THEN 0 ELSE Len(s) - 1 + 1
    BY <2>1, FS_Interval
  <2>3. QED BY <2>1, <2>2
<1>3. UpTo(s, i) \in SUBSET (1..Len(s)) /\ i \in UpTo(s, i) BY DEF UpTo, Sortable
<1>4. IsFiniteSet(UpTo(s, i)) /\ Cardinality(UpTo(s, i)) <= Len(s)
  BY <1>2, <1>3, FS_Subset
<1>5. Cardinality(UpTo(s, i)) \in Nat BY <1>4, FS_CardinalityType
<1>6. Cardinality(UpTo(s, i)) # 0 BY <1>3, <1>4, FS_EmptySet
<1>7. QED BY <1>1, <1>4, <1>5, <1>6 DEF Sortable

LEMMA PlacesAgree ==
    ASSUME NEW s, Sortable(s), NEW i \in DOMAIN s, NEW j \in DOMAIN s, Precedes(s, i, j)
    PROVE  Place(s, i) < Place(s, j)
<1>1. i \in Nat /\ j \in Nat /\ s[i].order \in Nat /\ s[j].order \in Nat BY DEF Sortable
<1>2. UpTo(s, i) \in SUBSET UpTo(s, j)
  <2> SUFFICES ASSUME NEW k \in UpTo(s, i) PROVE k \in UpTo(s, j) OBVIOUS
  <2>1. k \in DOMAIN s /\ k \in Nat /\ s[k].order \in Nat BY DEF UpTo, Sortable
  <2>2. QED BY <1>1, <2>1 DEF UpTo, Precedes
<1>3. j \in UpTo(s, j) /\ j \notin UpTo(s, i) BY <1>1 DEF UpTo, Precedes
<1>4. Cardinality(UpTo(s, i)) <= Cardinality(UpTo(s, j))
      /\ Cardinality(UpTo(s, i)) # Cardinality(UpTo(s, j))
  BY <1>2, <1>3, UpToFinite, FS_Subset
<1>5. Place(s, i) \in Nat /\ Place(s, j) \in Nat BY UpToFinite DEF Sortable
<1>6. QED BY <1>4, <1>5, UpToFinite

LEMMA PlacesDiffer ==
    ASSUME NEW s, Sortable(s), NEW i \in DOMAIN s, NEW j \in DOMAIN s
    PROVE  /\ i = j \/ Precedes(s, i, j) \/ Precedes(s, j, i)
           /\ Place(s, i) = Place(s, j) => i = j
<1>1. i \in Nat /\ j \in Nat /\ s[i].order \in Nat /\ s[j].order \in Nat BY DEF Sortable
<1>2. i = j \/ Precedes(s, i, j) \/ Precedes(s, j, i) BY <1>1 DEF Precedes
<1>3. Place(s, i) \in Nat /\ Place(s, j) \in Nat
  <2>1. Place(s, i) \in DOMAIN s /\ Place(s, j) \in DOMAIN s BY UpToFinite
  <2>2. QED BY <2>1 DEF Sortable
<1>4. QED BY <1>2, <1>3, PlacesAgree

(* Every place is somebody's.                                              *)
LEMMA PlacesTaken ==
    ASSUME NEW s, Sortable(s), NEW p \in DOMAIN s
    PROVE  At(s, p) \in DOMAIN s /\ Place(s, At(s, p)) = p
<1> DEFINE D == 1..Len(s)
           f == [i \in D |-> Place(s, i)]
<1>1. DOMAIN s = D BY DEF Sortable
<1>2. IsFiniteSet(D) BY FS_Interval DEF Sortable
<1>3. f \in Injection(D, D)
  <2>1. f \in [D -> D] BY <1>1, UpToFinite
  <2>2. \A i, j \in D : f[i] = f[j] => i = j BY <1>1, PlacesDiffer
  <2>3. QED BY <2>1, <2>2 DEF Injection, IsInjective
<1>4. f \in Surjection(D, D)
  <2> HIDE DEF f, D
  <2>1. QED BY <1>2, <1>3, FS_Injection
<1>5. \E i \in D : f[i] = p BY <1>1, <1>4 DEF Surjection
<1>6. \E i \in DOMAIN s : Place(s, i) = p BY <1>1, <1>5
<1>7. QED BY <1>6 DEF At

(* The sort leaves out no source and makes up none, puts them in the order *)
(* they ask for, and those that ask for the same in the order they came.   *)
THEOREM SortingIsStable ==
    ASSUME NEW s, Sortable(s)
    PROVE  /\ DOMAIN Sorted(s) = DOMAIN s
           /\ \A p \in DOMAIN s : At(s, p) \in DOMAIN s /\ Sorted(s)[p] = s[At(s, p)]
           /\ \A i \in DOMAIN s : \E p \in DOMAIN s : At(s, p) = i
           /\ \A p, q \in DOMAIN s : p < q => Precedes(s, At(s, p), At(s, q))
<1>1. DOMAIN Sorted(s) = DOMAIN s BY DEF Sorted
<1>2. \A p \in DOMAIN s : At(s, p) \in DOMAIN s /\ Sorted(s)[p] = s[At(s, p)]
  BY PlacesTaken DEF Sorted
<1>3. ASSUME NEW i \in DOMAIN s PROVE \E p \in DOMAIN s : At(s, p) = i
  <2>1. Place(s, i) \in DOMAIN s BY UpToFinite
  <2>2. At(s, Place(s, i)) = i BY <2>1, PlacesTaken, PlacesDiffer
  <2>3. QED BY <2>1, <2>2
<1>4. ASSUME NEW p \in DOMAIN s, NEW q \in DOMAIN s, p < q
      PROVE  Precedes(s, At(s, p), At(s, q))
  <2>1. /\ At(s, p) \in DOMAIN s /\ Place(s, At(s, p)) = p
        /\ At(s, q) \in DOMAIN s /\ Place(s, At(s, q)) = q
    BY PlacesTaken
  <2>2. p \in Nat /\ q \in Nat BY DEF Sortable
  <2>3. At(s, p) # At(s, q) BY <1>4, <2>1, <2>2
  <2>4. ~Precedes(s, At(s, q), At(s, p)) BY <1>4, <2>1, <2>2, PlacesAgree
  <2>5. QED BY <2>1, <2>3, <2>4, PlacesDiffer
<1>5. QED BY <1>1, <1>2, <1>3, <1>4

-----------------------------------------------------------------------------
(* What has been merged so far.                                            *)

ListInv ==
    /\ Sortable(entries) /\ next \in 0..Len(entries) /\ oidcRegs \in {0, 1}
    /\ master = StringMap(master.val)
    /\ pc \in {"unsorted", "merging", "done", "failed"}
    /\ pc = "unsorted" => next = 0
    /\ pc = "done" => next = Len(entries)

(* Who comes later asks for no lower an order.                             *)
OrderInv ==
    model = "sidecar" /\ pc # "unsorted" =>
        \A i, j \in DOMAIN entries : i < j => entries[i].order <= entries[j].order

(* A source that cannot be read ends the merge.                            *)
ReadInv == pc # "failed" => \A i \in Sources : i <= next => Readable(entries[i])

(* Of a setting that has plain values only the last one is in the master   *)
(* document.  The registration may change the identity.                    *)
SaidSoFar(key) == {i \in Says(key) : i <= next}
LastSays(key) ==
    (\A i \in SaidSoFar(key) : Yields(entries[i]).val[key].kind = "leaf") =>
        IF SaidSoFar(key) = {} THEN key \notin DOMAIN master.val
        ELSE \E i \in SaidSoFar(key) :
                 /\ key \in DOMAIN master.val /\ master.val[key] = Yields(entries[i]).val[key]
                 /\ \A j \in SaidSoFar(key) : j <= i
LastInv ==
    pc # "failed" =>
        \A key : (pc = "done" /\ oidcRegs = 1 => key # "identity") => LastSays(key)

MergeInv == ListInv /\ OrderInv /\ ReadInv /\ LastInv

LEMMA MergeInvInit == Init => MergeInv
<1> SUFFICES ASSUME Init PROVE MergeInv OBVIOUS
<1>1. entries \in Lists \cup Sidecars /\ next = 0 /\ oidcRegs = 0 BY DEF Init
<1>2. Sortable(entries)
  <2>1. entries \in Seq({entries[i] : i \in DOMAIN entries}) BY <1>1, ListsAssumption
  <2>2. Len(entries) \in Nat /\ DOMAIN entries = 1..Len(entries) BY <2>1
  <2>3. QED BY <1>1, <2>2, ListsAssumption DEF Sortable
<1>3. master = StringMap(<<>>) /\ master.val = <<>> BY DEF Init, StringMap
<1>4. ListInv BY <1>1, <1>2, <1>3 DEF ListInv, Sortable, Init
<1>5. \A i \in Sources : ~(i <= next) BY <1>1, <1>2 DEF Sources, Sortable
<1>6. \A key : SaidSoFar(key) = {} BY <1>5 DEF SaidSoFar, Says
<1>7. \A key : LastSays(key)
  <2>1. \A key : key \notin DOMAIN master.val BY <1>3
  <2>2. QED BY <1>6, <2>1 DEF LastSays
<1>8. OrderInv BY DEF OrderInv, Init
<1>9. QED BY <1>4, <1>5, <1>7, <1>8 DEF MergeInv, ReadInv, LastInv

LEMMA ListShape ==
    ASSUME MergeInv
    PROVE  DOMAIN entries = 1..Len(entries) /\ Len(entries) \in Nat /\ next \in Nat
<1>1. ListInv BY DEF MergeInv
<1>2. Sortable(entries) /\ next \in 0..Len(entries) BY <1>1, Zenon DEF ListInv
<1>3. Len(entries) \in Nat /\ DOMAIN entries = 1..Len(entries) BY <1>2, Zenon DEF Sortable
<1>4. QED BY <1>2, <1>3

(* A plain value replaces whatever was there.                              *)
LEMMA LeafWins ==
    ASSUME NEW old, NEW new, new.kind = "leaf"
    PROVE  MergeValues(old, new) = new
BY DEF MergeValues

(* What a source adds, it adds after the others.                           *)
LEMMA SaidNext ==
    ASSUME Left, next \in Nat, DOMAIN entries = 1..Len(entries), Len(entries) \in Nat,
           next' = next + 1, entries' = entries, NEW key
    PROVE  /\ next + 1 \in DOMAIN entries
           /\ SaidSoFar(key)' = SaidSoFar(key) \cup
                  (IF next + 1 \in Sources /\ key \in DOMAIN Yields(Entry).val
                   THEN {next + 1} ELSE {})
           /\ Sources' = Sources
           /\ \A i \in Sources : i <= next + 1 => i <= next \/ i = next + 1
           /\ \A i \in SaidSoFar(key) : i \in Nat /\ i <= next
<1>1. next + 1 \in DOMAIN entries BY DEF Left
<1>2. Sources' = Sources /\ Says(key)' = Says(key) BY DEF Sources, Says
<1>3. \A i \in Says(key) : i \in Nat BY DEF Says, Sources
<1>4. \A i \in DOMAIN entries : i <= next + 1 <=> i <= next \/ i = next + 1 OBVIOUS
<1>5. next + 1 \in Says(key) <=> next + 1 \in Sources /\ key \in DOMAIN Yields(Entry).val
  BY DEF Says, Entry
<1>6. Says(key) \subseteq DOMAIN entries BY DEF Says, Sources
<1>7. SaidSoFar(key)' = {i \in Says(key) : i <= next + 1} BY <1>2 DEF SaidSoFar
<1>8. {i \in Says(key) : i <= next + 1} =
          SaidSoFar(key) \cup (IF next + 1 \in Says(key) THEN {next + 1} ELSE {})
  BY <1>4, <1>6 DEF SaidSoFar
<1>9. QED BY <1>1, <1>2, <1>3, <1>4, <1>5, <1>7, <1>8 DEF SaidSoFar, Sources

(* The registration changes nothing but the identity.                      *)
LEMMA OtherSettingsStay ==
    ASSUME master = StringMap(master.val), NEW key, key # "identity"
    PROVE  LET m == AddClient(master)
           IN  /\ m = StringMap(m.val)
               /\ key \in DOMAIN m.val <=> key \in DOMAIN master.val
               /\ key \in DOMAIN master.val => m.val[key] = master.val[key]
<1> DEFINE m == AddClient(master)
           changed == [master.val EXCEPT !["identity"] = WithClient(@)]
<1>1. CASE HasOidc(master)
  <2>1. m = [master EXCEPT !.val["identity"] = WithClient(@)]
    BY <1>1 DEF AddClient
  <2>2. m = StringMap(changed) BY <2>1 DEF StringMap
  <2>3. m.val = changed BY <2>2 DEF StringMap
  <2>4. DOMAIN changed = DOMAIN master.val
        /\ (key \in DOMAIN master.val => changed[key] = master.val[key])
    OBVIOUS
  <2>5. QED BY <2>2, <2>3, <2>4
<1>2. CASE ~HasOidc(master)
  <2> DEFINE d == OidcDocument
             f == [k \in DOMAIN master.val \cup DOMAIN d.val |->
                      IF k \in DOMAIN d.val THEN MergeValues(Get(master, k), d.val[k])
                                            ELSE master.val[k]]
  <2>1. DOMAIN d.val = {"identity"} BY DEF OidcDocument, StringMap
  <2>2. m = StringMap(f) BY <1>2 DEF AddClient, MergeMaps
  <2>3. m.val = f BY <2>2 DEF StringMap
  <2> HIDE DEF d
  <2>4. DOMAIN f = DOMAIN master.val \cup {"identity"}
        /\ (key \in DOMAIN master.val => f[key] = master.val[key])
    BY <2>1
  <2>5. QED BY <2>2, <2>3, <2>4
<1>3. QED BY <1>1, <1>2

LEMMA SortKeeps ==
    ASSUME MergeInv, SortEntries
    PROVE  MergeInv'
<1>1. Sortable(entries) /\ next = 0 /\ next' = 0 /\ pc' = "merging" /\ entries' = Sorted(entries)
      /\ master' = master /\ oidcRegs' = oidcRegs
  BY DEF MergeInv, ListInv, SortEntries
<1>2. /\ DOMAIN entries' = DOMAIN entries
      /\ \A p \in DOMAIN entries :
            At(entries, p) \in DOMAIN entries /\ entries'[p] = entries[At(entries, p)]
      /\ \A p, q \in DOMAIN entries :
            p < q => Precedes(entries, At(entries, p), At(entries, q))
  BY <1>1, SortingIsStable
<1>3. Sortable(entries')
  <2>1. entries' \in Seq({entries[i] : i \in DOMAIN entries}) /\ Len(entries') = Len(entries)
    <3>1. Len(entries) \in Nat /\ DOMAIN entries = 1..Len(entries) BY <1>1 DEF Sortable
    <3>2. entries' \in [1..Len(entries) -> {entries[i] : i \in DOMAIN entries}]
      BY <1>1, <1>2, <3>1 DEF Sorted
    <3> HIDE <1>1
    <3>3. QED BY <3>1, <3>2
  <2>2. QED BY <1>1, <1>2, <2>1 DEF Sortable
<1>4. OrderInv'
  <2>1. ASSUME NEW p \in DOMAIN entries', NEW q \in DOMAIN entries', p < q
        PROVE  entries'[p].order <= entries'[q].order
    <3>1. Precedes(entries, At(entries, p), At(entries, q))
      BY <1>2, <2>1
    <3>2. entries'[p].order \in Nat /\ entries'[q].order \in Nat BY <1>3, <2>1 DEF Sortable
    <3>3. QED BY <1>2, <2>1, <3>1, <3>2 DEF Precedes
  <2>2. QED BY <2>1 DEF OrderInv
<1>5. ListInv' BY <1>1, <1>2, <1>3 DEF MergeInv, ListInv, Sortable
<1>6. ReadInv' /\ \A key : SaidSoFar(key)' = {} /\ SaidSoFar(key) = {}
  <2>1. \A i \in Sources : ~(i <= next)
    BY <1>1 DEF Sources, Sortable
  <2>2. \A i \in Sources' : ~(i <= next')
    BY <1>1, <1>3 DEF Sources, Sortable
  <2>3. QED BY <2>1, <2>2 DEF ReadInv, SaidSoFar, Says
<1>7. ASSUME NEW key PROVE LastSays(key)'
  <2>1. LastSays(key) BY <1>1 DEF MergeInv, LastInv, SortEntries
  <2>2. key \notin DOMAIN master.val BY <1>6, <2>1 DEF LastSays
  <2>3. QED BY <1>1, <1>6, <2>2 DEF LastSays
<1>8. LastInv' BY <1>7 DEF LastInv
<1>9. QED BY <1>4, <1>5, <1>6, <1>8 DEF MergeInv

(* An entry that is passed over leaves the master document as it was.      *)
LEMMA PassingKeeps ==
    ASSUME MergeInv, NoteRegistration \/ SkipEntry
    PROVE  MergeInv'
<1>1. /\ Left /\ next' = next + 1 /\ entries' = entries /\ model' = model
      /\ next + 1 \notin Sources /\ pc = "merging" /\ pc' \in {"merging", "failed"}
      /\ oidcRegs' \in {0, 1} /\ master' = master
  BY DEF NoteRegistration, SkipEntry, Step, Fail, Left, Sources, Entry, Kinds, MergeInv, ListInv
<1>2. DOMAIN entries = 1..Len(entries) /\ Len(entries) \in Nat /\ next \in Nat
  BY ListShape
<1>3. ListInv'
  <2>1. next' \in 0..Len(entries) BY <1>1, <1>2 DEF Left
  <2>2. QED BY <1>1, <2>1 DEF MergeInv, ListInv
<1>4. OrderInv' BY <1>1 DEF MergeInv, OrderInv
<1>5. Sources' = Sources BY <1>1, <1>2, SaidNext
<1>6. \A i \in Sources : i <= next + 1 => i <= next BY <1>1, <1>2, SaidNext
<1>7. ReadInv' BY <1>1, <1>5, <1>6 DEF MergeInv, ReadInv, Readable, Sendable
<1>8. ASSUME NEW key, pc' # "failed" PROVE LastSays(key)'
  <2>1. LastSays(key) BY <1>1, <1>8 DEF MergeInv, LastInv
  <2>2. SaidSoFar(key)' = SaidSoFar(key) BY <1>1, <1>2, SaidNext
  <2>3. QED BY <1>1, <2>1, <2>2 DEF LastSays
<1>9. LastInv' BY <1>1, <1>8 DEF LastInv
<1>10. QED BY <1>3, <1>4, <1>7, <1>9 DEF MergeInv

LEMMA MergingKeeps ==
    ASSUME MergeInv, MergeSource
    PROVE  MergeInv'
<1>1. /\ Left /\ next' = next + 1 /\ entries' = entries /\ model' = model
      /\ pc = "merging" /\ pc' \in {"merging", "failed"} /\ oidcRegs' = oidcRegs
      /\ Entry.type \in {"literal", "configmap", "web"}
      /\ \/ pc' = "failed" /\ master' = master
         \/ Readable(Entry) /\ pc' = "merging" /\ master' = MergeMaps(master, Yields(Entry))
  BY DEF MergeSource, Step, Fail, Left
<1>2. DOMAIN entries = 1..Len(entries) /\ Len(entries) \in Nat /\ next \in Nat
  BY ListShape
<1>3. master' = StringMap(master'.val)
  <2>1. CASE master' = master BY <2>1 DEF MergeInv, ListInv
  <2>2. CASE master' = MergeMaps(master, Yields(Entry))
    BY <2>2 DEF MergeMaps, StringMap
  <2>3. QED BY <1>1, <2>1, <2>2
<1>4. ListInv'
  <2>1. next' \in 0..Len(entries) BY <1>1, <1>2 DEF Left
  <2>2. QED BY <1>1, <1>3, <2>1 DEF MergeInv, ListInv
<1>5. OrderInv' BY <1>1 DEF MergeInv, OrderInv
<1>6. CASE pc' = "failed"
  BY <1>4, <1>5, <1>6 DEF MergeInv, ReadInv, LastInv
<1>7. CASE pc' = "merging"
  <2>1. Readable(Entry) /\ master' = MergeMaps(master, Yields(Entry))
        /\ next + 1 \in DOMAIN entries /\ next + 1 \in Sources
    <3>1. next + 1 \in DOMAIN entries BY <1>1, <1>2, SaidNext
    <3>2. QED BY <1>1, <1>7, <3>1 DEF Sources, Entry
  <2>2. ReadInv'
    <3>1. Sources' = Sources /\ \A i \in Sources : i <= next + 1 => i <= next \/ i = next + 1
      BY <1>1, <1>2, SaidNext
    <3>2. \A i \in Sources : i <= next => Readable(entries[i])
      BY <1>1 DEF MergeInv, ReadInv
    <3>3. \A i \in Sources : i <= next + 1 => Readable(entries[i])
      BY <2>1, <3>1, <3>2 DEF Entry
    <3>4. QED BY <1>1, <3>1, <3>3 DEF ReadInv, Readable, Sendable
  <2>3. ASSUME NEW key PROVE LastSays(key)'
    <3> DEFINE before == SaidSoFar(key)
               leaf(i) == Yields(entries[i]).val[key].kind = "leaf"
    <3>1. LastSays(key) BY <1>1 DEF MergeInv, LastInv
    <3>2. SaidSoFar(key)' = before \cup
              (IF key \in DOMAIN Yields(Entry).val THEN {next + 1} ELSE {})
      BY <1>1, <1>2, <2>1, SaidNext
    <3>3. \A i \in before : i \in Nat /\ i <= next BY <1>1, <1>2, SaidNext
    <3>4. DOMAIN master'.val = DOMAIN master.val \cup DOMAIN Yields(Entry).val
          /\ \A k \in DOMAIN master'.val :
                master'.val[k] = IF k \in DOMAIN Yields(Entry).val
                                 THEN MergeValues(Get(master, k), Yields(Entry).val[k])
                                 ELSE master.val[k]
      BY <2>1 DEF MergeMaps, StringMap
    <3>5. SUFFICES ASSUME \A i \in SaidSoFar(key)' : leaf(i)
                   PROVE  IF SaidSoFar(key)' = {} THEN key \notin DOMAIN master'.val
                          ELSE \E i \in SaidSoFar(key)' :
                              /\ key \in DOMAIN master'.val
                              /\ master'.val[key] = Yields(entries[i]).val[key]
                              /\ \A j \in SaidSoFar(key)' : j <= i
      BY <1>1 DEF LastSays
    <3>6. CASE key \in DOMAIN Yields(Entry).val
      <4>1. next + 1 \in SaidSoFar(key)' BY <3>2, <3>6
      <4>2. Yields(Entry).val[key].kind = "leaf" BY <3>5, <4>1 DEF Entry
      <4>3. master'.val[key] = Yields(entries[next + 1]).val[key]
            /\ key \in DOMAIN master'.val
        BY <3>4, <3>6, <4>2, LeafWins DEF Entry
      <4>4. \A j \in SaidSoFar(key)' : j <= next + 1
        BY <1>2, <3>2, <3>3, <3>6
      <4>5. QED BY <4>1, <4>3, <4>4
    <3>7. CASE key \notin DOMAIN Yields(Entry).val
      <4>1. SaidSoFar(key)' = before BY <3>2, <3>7
      <4>2. key \in DOMAIN master'.val <=> key \in DOMAIN master.val
        BY <3>4, <3>7
      <4>3. key \in DOMAIN master.val => master'.val[key] = master.val[key]
        BY <3>4, <3>7
      <4>4. \A i \in before : leaf(i) BY <3>5, <4>1
      <4>5. QED BY <3>1, <4>1, <4>2, <4>3, <4>4 DEF LastSays
    <3>8. QED BY <3>6, <3>7
  <2>4. LastInv' BY <2>3 DEF LastInv
  <2>5. QED BY <1>4, <1>5, <2>2, <2>4 DEF MergeInv
<1>8. QED BY <1>1, <1>6, <1>7

LEMMA RegisterKeeps ==
    ASSUME KeysRecursive, MergeInv, Register
    PROVE  MergeInv'
<1>1. /\ next' = next /\ entries' = entries /\ model' = model /\ oidcRegs' = oidcRegs
      /\ pc = "merging" /\ pc' \in {"done", "failed"} /\ next = Len(entries)
      /\ \/ pc' = "failed" /\ master' = master
         \/ pc' = "done" /\ oidcRegs = 0 /\ master' = StringKeys(master)
         \/ pc' = "done" /\ oidcRegs = 1 /\ master' = StringKeys(AddClient(master))
  BY DEF Register
<1>2. master = StringMap(master.val) BY DEF MergeInv, ListInv
<1>3. OrderInv' BY <1>1 DEF MergeInv, OrderInv
<1>4. CASE pc' = "failed"
  <2>1. ListInv' BY <1>1, <1>4 DEF MergeInv, ListInv
  <2>2. QED BY <1>3, <1>4, <2>1 DEF MergeInv, ReadInv, LastInv
<1>5. CASE pc' = "done"
  <2> DEFINE m == IF oidcRegs = 0 THEN master ELSE AddClient(master)
  <2>1. master' = StringKeys(m) BY <1>1, <1>5
  <2>2. m = StringMap(m.val) BY <1>2, OtherSettingsStay
  <2>3. master' = StringMap([key \in DOMAIN m.val |-> KeysBelow(m.val[key])])
    <3> HIDE DEF m
    <3>1. m.kind = "string" BY <2>2 DEF StringMap
    <3>2. IsMap(m) /\ m.kind # "list" BY <3>1 DEF IsMap
    <3>3. QED BY <2>1, <3>2 DEF StringKeys
  <2>4. master' = StringMap(master'.val)
        /\ master'.val = [key \in DOMAIN m.val |-> KeysBelow(m.val[key])]
    <3> HIDE DEF m
    <3>1. QED BY <2>3 DEF StringMap
  <2>5. ListInv' BY <1>1, <1>5, <2>4 DEF MergeInv, ListInv
  <2>6. ReadInv' BY <1>1 DEF MergeInv, ReadInv, Sources, Readable, Sendable
  <2>7. ASSUME NEW key, oidcRegs = 1 => key # "identity" PROVE LastSays(key)'
    <3>1. LastSays(key) BY <1>1 DEF MergeInv, LastInv
    <3>2. SaidSoFar(key)' = SaidSoFar(key) BY <1>1 DEF SaidSoFar, Says, Sources
    <3>3. key \in DOMAIN m.val <=> key \in DOMAIN master.val
      BY <1>1, <1>2, <2>7, OtherSettingsStay DEF MergeInv, ListInv
    <3>4. key \in DOMAIN master.val => m.val[key] = master.val[key]
      BY <1>1, <1>2, <2>7, OtherSettingsStay DEF MergeInv, ListInv
    <3> HIDE DEF m
    <3>5. key \in DOMAIN master'.val <=> key \in DOMAIN master.val
      BY <2>4, <3>3
    <3>6. ASSUME key \in DOMAIN master.val, master.val[key].kind = "leaf"
          PROVE  master'.val[key] = master.val[key]
      <4>1. master'.val[key] = KeysBelow(master.val[key]) BY <2>4, <3>3, <3>4, <3>6
      <4>2. KeysBelow(master.val[key]) = StringKeys(master.val[key]) BY DEF KeysRecursive
      <4>3. StringKeys(master.val[key]) = master.val[key] BY <3>6 DEF StringKeys, IsMap
      <4>4. QED BY <4>1, <4>2, <4>3
    <3>7. QED BY <1>1, <3>1, <3>2, <3>5, <3>6 DEF LastSays
  <2>8. LastInv' BY <1>1, <1>5, <2>7 DEF LastInv
  <2>9. QED BY <1>3, <2>5, <2>6, <2>8 DEF MergeInv
<1>6. QED BY <1>1, <1>4, <1>5

LEMMA MergeInvStep == ASSUME KeysRecursive, MergeInv, [Next]_vars PROVE MergeInv'
<1>1. CASE UNCHANGED vars
  <2>1. /\ model' = model /\ entries' = entries /\ next' = next /\ oidcRegs' = oidcRegs
        /\ master' = master /\ pc' = pc
    BY <1>1 DEF vars
  <2>2. ListInv' /\ OrderInv' BY <2>1 DEF MergeInv, ListInv, OrderInv
  <2>3. ReadInv' BY <2>1 DEF MergeInv, ReadInv, Sources, Readable, Sendable
  <2>4. \A key : LastSays(key)' <=> LastSays(key)
    BY <2>1 DEF LastSays, SaidSoFar, Says, Sources
  <2>5. LastInv' BY <2>1, <2>4 DEF MergeInv, LastInv
  <2>6. QED BY <2>2, <2>3, <2>5 DEF MergeInv
<1>2. QED BY <1>1, SortKeeps, MergingKeeps, PassingKeeps, RegisterKeeps DEF Next

LEMMA MergeInvAlways == ASSUME KeysRecursive PROVE Spec => []MergeInv
<1>1. Init => MergeInv BY MergeInvInit
<1>2. MergeInv /\ [Next]_vars => MergeInv' BY MergeInvStep
<1>3. QED BY <1>1, <1>2, PTL DEF Spec

LEMMA LastOfSays ==
    ASSUME MergeInv, pc = "done",
           NEW key \in UNION {DOMAIN Yields(entries[i]).val : i \in Sources},
           \A i \in Says(key) : Yields(entries[i]).val[key].kind = "leaf",
           oidcRegs = 1 => key # "identity"
    PROVE  \E i \in Says(key) :
               /\ Get(master, key) = Yields(entries[i]).val[key]
               /\ \A j \in Says(key) :
                     /\ j <= i
                     /\ model = "sidecar" => entries[j].order <= entries[i].order
<1>1. next = Len(entries) /\ DOMAIN entries = 1..Len(entries)
      /\ \A i \in DOMAIN entries : entries[i].order \in Nat
  BY DEF MergeInv, ListInv, Sortable
<1>2. Says(key) \subseteq DOMAIN entries /\ Says(key) # {} BY DEF Says, Sources
<1>3. SaidSoFar(key) = Says(key) BY <1>1, <1>2 DEF SaidSoFar
<1>4. LastSays(key) BY DEF MergeInv, LastInv
<1>5. PICK i \in Says(key) :
            /\ key \in DOMAIN master.val /\ master.val[key] = Yields(entries[i]).val[key]
            /\ \A j \in Says(key) : j <= i
  BY <1>2, <1>3, <1>4 DEF LastSays
<1>6. Get(master, key) = Yields(entries[i]).val[key]
  <2>1. master = StringMap(master.val) BY DEF MergeInv, ListInv
  <2>2. master.kind = "string" BY <2>1 DEF StringMap
  <2>3. IsMap(master) BY <2>2 DEF IsMap
  <2>4. QED BY <1>5, <2>3 DEF Get
<1>7. ASSUME NEW j \in Says(key), model = "sidecar"
      PROVE  entries[j].order <= entries[i].order
  <2>1. i \in DOMAIN entries /\ j \in DOMAIN entries /\ i \in Nat /\ j \in Nat
    BY <1>1, <1>2
  <2>2. j = i \/ j < i BY <1>5, <2>1
  <2>3. CASE j = i BY <1>1, <2>1, <2>3
  <2>4. CASE j < i BY <1>7, <2>1, <2>4 DEF MergeInv, OrderInv
  <2>5. QED BY <2>2, <2>3, <2>4
<1>8. QED BY <1>5, <1>6, <1>7

(* The last of the sources that give a setting plain values wins, for any  *)
(* list of sources and any documents.                                      *)
THEOREM LastSourceAlwaysWins == ASSUME KeysRecursive PROVE Spec => []LastSourceWins
<1>1. MergeInv => LastSourceWins BY LastOfSays DEF LastSourceWins
<1>2. QED BY <1>1, MergeInvAlways, PTL

(* Of the sources of a sidecar that give a setting a plain value, one of   *)
(* the highest order wins, whatever the sources, the documents they yield  *)
(* and the order in which the Go map of the annotations yields them: the   *)
(* sort is by order, and stable, and a plain value that comes later wins.  *)
THEOREM HighestOrderAlwaysWins == ASSUME KeysRecursive PROVE Spec => []HighestOrderWins
<1>1. MergeInv => HighestOrderWins BY LastOfSays DEF HighestOrderWins
<1>2. QED BY <1>1, MergeInvAlways, PTL

-----------------------------------------------------------------------------
(* The registered client.                                                  *)

HoldsClient(m) ==
    /\ IsMap(m) /\ "identity" \in DOMAIN m.val
    /\ LET identity == m.val["identity"]
       IN  /\ IsMap(identity) /\ "oidc" \in DOMAIN identity.val
           /\ LET oidc == identity.val["oidc"]
              IN  /\ IsMap(oidc)
                  /\ \A key \in DOMAIN Settings :
                        key \in DOMAIN oidc.val /\ oidc.val[key] = Settings[key]

LEMMA MapOf ==
    ASSUME NEW f
    PROVE  /\ IsMap(StringMap(f)) /\ StringMap(f).val = f
           /\ IsMap(AnyMap(f)) /\ AnyMap(f).val = f /\ AnyMap(f).kind = "any"
BY DEF IsMap, StringMap, AnyMap

(* The registration leaves the client where the gateway looks for it,      *)
(* whatever the other sources have put there.                              *)
LEMMA ClientAdded ==
    ASSUME MergeRecursive, NEW m, m = StringMap(m.val)
    PROVE  HoldsClient(AddClient(m))
<1> DEFINE identity == Get(m, "identity")
           oidc     == Get(identity, "oidc")
<1>0. IsMap(m) /\ Nothing.kind # "any"
  <2>1. IsMap(m) BY MapOf
  <2>2. QED BY <2>1 DEF Nothing
<1>1. CASE HasOidc(m)
  <2> DEFINE changed == [identity.val EXCEPT !["oidc"] = WithSettings(@)]
             f       == [m.val EXCEPT !["identity"] = WithClient(@)]
  <2>1. identity.kind = "any" /\ oidc.kind = "any" BY <1>1 DEF HasOidc
  <2>2. "identity" \in DOMAIN m.val /\ identity = m.val["identity"]
    BY <1>0, <2>1 DEF Get
  <2>3. "oidc" \in DOMAIN identity.val /\ oidc = identity.val["oidc"]
    <3> HIDE DEF identity
    <3>1. QED BY <1>0, <2>1 DEF Get
  <2>4. AddClient(m) = [m EXCEPT !.val["identity"] = WithClient(@)]
    BY <1>1 DEF AddClient
  <2>5. AddClient(m) = StringMap(f) BY <2>4 DEF StringMap
  <2>6. IsMap(AddClient(m)) /\ AddClient(m).val = f
    <3> HIDE DEF f
    <3>1. QED BY <2>5, MapOf
  <2>7. "identity" \in DOMAIN f /\ f["identity"] = StringMap(changed)
    <3>1. "identity" \in DOMAIN f
          /\ f["identity"] = WithClient(m.val["identity"])
      <4> HIDE DEF identity
      <4>1. QED BY <2>2
    <3> HIDE DEF f, identity
    <3>2. QED BY <2>2, <3>1 DEF WithClient
  <2>8. "oidc" \in DOMAIN changed /\ changed["oidc"] = WithSettings(oidc)
    <3> HIDE DEF identity, oidc
    <3>1. QED BY <2>3
  <2> HIDE DEF f, changed, identity, oidc
  <2>9. IsMap(f["identity"]) /\ f["identity"].val = changed BY <2>7, MapOf
  <2>10. /\ IsMap(WithSettings(oidc))
         /\ \A key \in DOMAIN Settings :
               key \in DOMAIN WithSettings(oidc).val /\ WithSettings(oidc).val[key] = Settings[key]
    <3> DEFINE g == [key \in DOMAIN oidc.val \cup DOMAIN Settings |->
                       IF key \in DOMAIN Settings THEN Settings[key] ELSE oidc.val[key]]
    <3>1. WithSettings(oidc) = StringMap(g) BY DEF WithSettings
    <3>2. \A key \in DOMAIN Settings : key \in DOMAIN g /\ g[key] = Settings[key] OBVIOUS
    <3> HIDE DEF g
    <3>3. QED BY <3>1, <3>2, MapOf
  <2>11. QED BY <2>6, <2>7, <2>8, <2>9, <2>10 DEF HoldsClient
<1>2. CASE ~HasOidc(m)
  <2> DEFINE new  == AnyMap([oidc |-> AnyMap(Settings)])
             f    == [key \in DOMAIN m.val \cup DOMAIN OidcDocument.val |->
                        IF key \in DOMAIN OidcDocument.val
                        THEN MergeValues(Get(m, key), OidcDocument.val[key])
                        ELSE m.val[key]]
  <2>1. DOMAIN OidcDocument.val = {"identity"} /\ OidcDocument.val["identity"] = new
    BY DEF OidcDocument, StringMap
  <2>2. AddClient(m) = StringMap(f) BY <1>2 DEF AddClient, MergeMaps
  <2>3. IsMap(AddClient(m)) /\ AddClient(m).val = f
    <3> HIDE DEF f
    <3>1. QED BY <2>2, MapOf
  <2>4. "identity" \in DOMAIN f /\ f["identity"] = MergeValues(identity, new)
    <3> HIDE DEF new
    <3>1. QED BY <2>1
  <2>5. /\ IsMap(new) /\ new.kind = "any" /\ "oidc" \in DOMAIN new.val
        /\ DOMAIN new.val = {"oidc"} /\ new.val["oidc"] = AnyMap(Settings)
    <3>1. new.val = [oidc |-> AnyMap(Settings)] /\ IsMap(new) /\ new.kind = "any"
      BY MapOf
    <3> HIDE DEF new
    <3>2. QED BY <3>1
  <2> HIDE DEF f, new
  <2>6. CASE identity.kind # "any" \/ identity = new
    <3>1. f["identity"] = new BY <2>4, <2>5, <2>6 DEF MergeValues
    <3>2. QED BY <2>3, <2>4, <2>5, <3>1, MapOf DEF HoldsClient
  <2>7. CASE identity.kind = "any" /\ identity # new
    <3> DEFINE g == [key \in DOMAIN identity.val \cup DOMAIN new.val |->
                       IF key \in DOMAIN new.val
                       THEN MergeValues(Get(identity, key), new.val[key])
                       ELSE identity.val[key]]
    <3>1. f["identity"] = MergeBelow(identity, new) BY <2>4, <2>5, <2>7 DEF MergeValues
    <3>2. f["identity"] = MergeMaps(identity, new) BY <3>1 DEF MergeRecursive
    <3>3. f["identity"] = StringMap(g) BY <3>2 DEF MergeMaps
    <3>4. "oidc" \in DOMAIN g /\ g["oidc"] = MergeValues(oidc, AnyMap(Settings))
      <4> HIDE DEF identity
      <4>1. QED BY <2>5
    <3>5. oidc.kind # "any" BY <1>2, <2>7 DEF HasOidc
    <3> HIDE DEF g, oidc
    <3>6. g["oidc"] = AnyMap(Settings)
      BY <3>4, <3>5 DEF MergeValues, AnyMap
    <3>7. IsMap(f["identity"]) /\ f["identity"].val = g BY <3>3, MapOf
    <3>8. QED BY <2>3, <2>4, <3>4, <3>6, <3>7, MapOf DEF HoldsClient
  <2>8. QED BY <2>6, <2>7
<1>3. QED BY <1>1, <1>2

(* The keys below a map become strings, and nothing else of it changes.    *)
LEMMA KeysBelowMap ==
    ASSUME KeysRecursive, NEW m, IsMap(m)
    PROVE  /\ IsMap(StringKeys(m)) /\ DOMAIN StringKeys(m).val = DOMAIN m.val
           /\ \A key \in DOMAIN m.val : StringKeys(m).val[key] = StringKeys(m.val[key])
<1> DEFINE f == [key \in DOMAIN m.val |-> KeysBelow(m.val[key])]
<1>1. m.kind # "list" BY DEF IsMap
<1>2. StringKeys(m) = StringMap(f) BY <1>1 DEF StringKeys
<1>3. DOMAIN f = DOMAIN m.val /\ \A key \in DOMAIN m.val : f[key] = StringKeys(m.val[key])
  BY DEF KeysRecursive
<1> HIDE DEF f
<1>4. QED BY <1>2, <1>3, MapOf

LEMMA KeysKeepClient ==
    ASSUME KeysRecursive, NEW m, HoldsClient(m)
    PROVE  HoldsClient(StringKeys(m))
<1> DEFINE identity == m.val["identity"]
           oidc     == identity.val["oidc"]
<1>1. /\ IsMap(m) /\ "identity" \in DOMAIN m.val
      /\ IsMap(identity) /\ "oidc" \in DOMAIN identity.val
      /\ IsMap(oidc)
      /\ \A key \in DOMAIN Settings : key \in DOMAIN oidc.val /\ oidc.val[key] = Settings[key]
  BY DEF HoldsClient
<1> HIDE DEF oidc
<1>2. oidc = identity.val["oidc"] BY DEF oidc
<1> HIDE DEF identity
<1>3. identity = m.val["identity"] BY DEF identity
<1>4. /\ IsMap(StringKeys(m)) /\ "identity" \in DOMAIN StringKeys(m).val
      /\ StringKeys(m).val["identity"] = StringKeys(identity)
  BY <1>1, <1>3, KeysBelowMap
<1>5. /\ IsMap(StringKeys(identity)) /\ "oidc" \in DOMAIN StringKeys(identity).val
      /\ StringKeys(identity).val["oidc"] = StringKeys(oidc)
  BY <1>1, <1>2, KeysBelowMap
<1>6. ASSUME NEW key \in DOMAIN Settings
      PROVE  key \in DOMAIN StringKeys(oidc).val /\ StringKeys(oidc).val[key] = Settings[key]
  <2>1. key \in DOMAIN StringKeys(oidc).val
        /\ StringKeys(oidc).val[key] = StringKeys(Settings[key])
    BY <1>1, KeysBelowMap
  <2>2. Settings[key].kind = "leaf" BY DEF Settings, Leaf
  <2>3. StringKeys(Settings[key]) = Settings[key] BY <2>2 DEF StringKeys, IsMap
  <2>4. QED BY <2>1, <2>3
<1>7. IsMap(StringKeys(oidc)) BY <1>1, KeysBelowMap
<1>8. QED BY <1>4, <1>5, <1>6, <1>7 DEF HoldsClient

LEMMA ClientFound ==
    ASSUME NEW m, HoldsClient(m), NEW key \in DOMAIN Settings
    PROVE  Get(Oidc(m), key) = Settings[key]
<1>1. Get(m, "identity") = m.val["identity"] BY DEF HoldsClient, Get
<1>2. Oidc(m) = m.val["identity"].val["oidc"] BY <1>1 DEF HoldsClient, Get, Oidc
<1>3. QED BY <1>2 DEF HoldsClient, Get

ClientInv ==
    /\ master = StringMap(master.val)
    /\ pc = "done" /\ oidcRegs = 1 => HoldsClient(master)

(* The registered client is what the gateway uses, whatever the sources    *)
(* define, of whatever type it is, before the registration or after it.    *)
THEOREM RegisteredClientAlwaysWins ==
    ASSUME KeysRecursive, MergeRecursive PROVE Spec => []RegisteredClientWins
<1>1. Init => ClientInv
  <2>1. \A f : StringMap(f) = StringMap(StringMap(f).val) BY DEF StringMap
  <2>2. QED BY <2>1 DEF Init, ClientInv
<1>2. MergeInv /\ MergeInv' /\ ClientInv /\ [Next]_vars => ClientInv'
  <2> SUFFICES ASSUME MergeInv, MergeInv', ClientInv, [Next]_vars PROVE ClientInv' OBVIOUS
  <2>1. master' = StringMap(master'.val) BY DEF MergeInv, ListInv
  <2>2. SUFFICES ASSUME pc' = "done", oidcRegs' = 1 PROVE HoldsClient(master')
    BY <2>1 DEF ClientInv
  <2>3. \/ pc = "done" /\ oidcRegs = 1 /\ master' = master
        \/ master' = StringKeys(AddClient(master))
    BY <2>2 DEF Next, vars, SortEntries, MergeSource, NoteRegistration, SkipEntry, Register,
                Left, Fail
  <2>4. CASE pc = "done" /\ oidcRegs = 1 /\ master' = master BY <2>4 DEF ClientInv
  <2>5. CASE master' = StringKeys(AddClient(master))
    <3>1. HoldsClient(AddClient(master)) BY ClientAdded DEF ClientInv
    <3>2. QED BY <2>5, <3>1, KeysKeepClient
  <2>6. QED BY <2>3, <2>4, <2>5
<1>3. ClientInv => RegisteredClientWins BY ClientFound DEF ClientInv, RegisteredClientWins
<1>4. QED BY <1>1, <1>2, <1>3, MergeInvAlways, PTL DEF Spec

-----------------------------------------------------------------------------
(* The settings at the top of the master document.                         *)

(* The settings of the master document are those of the sources so far.    *)
SettingInv ==
    pc # "failed" =>
        \A key : key \in DOMAIN master.val <=>
            \/ SaidSoFar(key) # {}
            \/ pc = "done" /\ oidcRegs = 1 /\ key = "identity"

(* The registration leaves an identity, and no other settings than before. *)
LEMMA SettingsAfterClient ==
    ASSUME NEW m, m = StringMap(m.val)
    PROVE  /\ AddClient(m) = StringMap(AddClient(m).val)
           /\ DOMAIN AddClient(m).val = DOMAIN m.val \cup {"identity"}
<1>1. CASE HasOidc(m)
  <2> DEFINE f == [m.val EXCEPT !["identity"] = WithClient(@)]
  <2>1. AddClient(m) = [m EXCEPT !.val["identity"] = WithClient(@)] BY <1>1 DEF AddClient
  <2>2. AddClient(m) = StringMap(f) BY <2>1 DEF StringMap
  <2>3. AddClient(m).val = f /\ DOMAIN f = DOMAIN m.val
    <3>1. DOMAIN f = DOMAIN m.val OBVIOUS
    <3> HIDE DEF f
    <3>2. QED BY <2>2, <3>1, MapOf
  <2>4. "identity" \in DOMAIN m.val
    <3>1. Nothing.kind # "any" BY DEF Nothing
    <3>2. QED BY <1>1, <3>1 DEF HasOidc, Get
  <2> HIDE DEF f
  <2>5. QED BY <2>2, <2>3, <2>4
<1>2. CASE ~HasOidc(m)
  <2> DEFINE f == [key \in DOMAIN m.val \cup DOMAIN OidcDocument.val |->
                      IF key \in DOMAIN OidcDocument.val
                      THEN MergeValues(Get(m, key), OidcDocument.val[key])
                      ELSE m.val[key]]
  <2>1. DOMAIN OidcDocument.val = {"identity"} BY DEF OidcDocument, StringMap
  <2>2. AddClient(m) = StringMap(f) BY <1>2 DEF AddClient, MergeMaps
  <2>3. DOMAIN f = DOMAIN m.val \cup {"identity"} BY <2>1
  <2> HIDE DEF f
  <2>4. AddClient(m).val = f BY <2>2, MapOf
  <2>5. QED BY <2>2, <2>3, <2>4
<1>3. QED BY <1>1, <1>2

(* What the merge of a source and the end of the merge do to the settings. *)
LEMMA SourceMerged ==
    ASSUME MergeInv, MergeSource, pc' # "failed"
    PROVE  /\ pc = "merging" /\ pc' = "merging" /\ next' = next + 1 /\ Readable(Entry)
           /\ next + 1 \in Sources /\ entries' = entries
           /\ DOMAIN master'.val = DOMAIN master.val \cup DOMAIN Yields(Entry).val
           /\ \A k \in DOMAIN Yields(Entry).val :
                 master'.val[k] = MergeValues(Get(master, k), Yields(Entry).val[k])
           /\ \A k \in DOMAIN master.val \ DOMAIN Yields(Entry).val :
                 master'.val[k] = master.val[k]
           /\ \A key : SaidSoFar(key)' = SaidSoFar(key) \cup
                  (IF key \in DOMAIN Yields(Entry).val THEN {next + 1} ELSE {})
<1>1. /\ Left /\ pc = "merging" /\ pc' = "merging" /\ next' = next + 1 /\ entries' = entries
      /\ Readable(Entry) /\ Entry.type \in {"literal", "configmap", "web"}
      /\ master' = MergeMaps(master, Yields(Entry))
  BY DEF MergeSource, Step, Fail, Left
<1>2. DOMAIN entries = 1..Len(entries) /\ Len(entries) \in Nat /\ next \in Nat
  BY ListShape
<1>3. next + 1 \in Sources
  <2>1. next + 1 \in DOMAIN entries BY <1>1, <1>2, SaidNext
  <2>2. QED BY <1>1, <2>1 DEF Sources, Entry
<1> DEFINE f == [key \in DOMAIN master.val \cup DOMAIN Yields(Entry).val |->
                    IF key \in DOMAIN Yields(Entry).val
                    THEN MergeValues(Get(master, key), Yields(Entry).val[key])
                    ELSE master.val[key]]
<1>4. master' = StringMap(f) BY <1>1 DEF MergeMaps
<1>5. master'.val = f BY <1>4 DEF StringMap
<1>6. \A key : SaidSoFar(key)' = SaidSoFar(key) \cup
          (IF key \in DOMAIN Yields(Entry).val THEN {next + 1} ELSE {})
  BY <1>1, <1>2, <1>3, SaidNext
<1>7. QED BY <1>1, <1>3, <1>5, <1>6

LEMMA MergeEnded ==
    ASSUME KeysRecursive, MergeInv, Register, pc' = "done"
    PROVE  /\ pc = "merging" /\ entries' = entries /\ oidcRegs' = oidcRegs
           /\ \A key : SaidSoFar(key)' = SaidSoFar(key)
           /\ DOMAIN master'.val = DOMAIN master.val
                  \cup (IF oidcRegs = 1 THEN {"identity"} ELSE {})
           /\ \A key \in DOMAIN master.val :
                 (oidcRegs = 1 => key # "identity")
                     => master'.val[key] = StringKeys(master.val[key])
<1> DEFINE m == IF oidcRegs = 0 THEN master ELSE AddClient(master)
<1>1. /\ pc = "merging" /\ entries' = entries /\ oidcRegs' = oidcRegs /\ next' = next
      /\ master' = StringKeys(m) /\ oidcRegs \in {0, 1}
      /\ master = StringMap(master.val)
  BY DEF Register, MergeInv, ListInv
<1>2. /\ m = StringMap(m.val)
      /\ DOMAIN m.val = DOMAIN master.val \cup (IF oidcRegs = 1 THEN {"identity"} ELSE {})
  BY <1>1, SettingsAfterClient
<1>3. ASSUME NEW key \in DOMAIN master.val, oidcRegs = 1 => key # "identity"
      PROVE  m.val[key] = master.val[key]
  BY <1>1, <1>3, OtherSettingsStay
<1>4. IsMap(m) BY <1>2, MapOf
<1> HIDE DEF m
<1>5. DOMAIN master'.val = DOMAIN m.val
      /\ \A key \in DOMAIN m.val : master'.val[key] = StringKeys(m.val[key])
  BY <1>1, <1>4, KeysBelowMap
<1>6. \A key : SaidSoFar(key)' = SaidSoFar(key) BY <1>1 DEF SaidSoFar, Says, Sources
<1>7. QED BY <1>1, <1>2, <1>3, <1>5, <1>6

(* Steps that merge nothing.                                               *)
LEMMA NothingMerged ==
    ASSUME MergeInv, SortEntries \/ NoteRegistration \/ SkipEntry \/ UNCHANGED vars,
           pc' # "failed"
    PROVE  /\ pc # "failed" /\ master' = master /\ (pc' = "done" => pc = "done")
           /\ pc # "done" \/ UNCHANGED <<entries, oidcRegs, pc>>
           /\ \A key : \/ entries' = entries /\ SaidSoFar(key)' = SaidSoFar(key)
                       \/ SaidSoFar(key) = {} /\ SaidSoFar(key)' = {}
<1>1. CASE SortEntries
  <2>1. MergeInv' BY <1>1, SortKeeps
  <2>2. next = 0 /\ next' = 0 /\ pc = "unsorted" /\ pc' = "merging" /\ master' = master
    BY <1>1 DEF SortEntries, MergeInv, ListInv
  <2>3. \A i \in Sources : ~(i <= next) BY <2>2 DEF MergeInv, ListInv, Sortable, Sources
  <2>4. \A i \in Sources' : ~(i <= next') BY <2>1, <2>2 DEF MergeInv, ListInv, Sortable, Sources
  <2>5. QED BY <2>2, <2>3, <2>4 DEF SaidSoFar, Says
<1>2. CASE NoteRegistration \/ SkipEntry
  <2>1. /\ Left /\ next' = next + 1 /\ entries' = entries /\ next + 1 \notin Sources
        /\ pc = "merging" /\ pc' = "merging" /\ master' = master
    BY <1>2 DEF NoteRegistration, SkipEntry, Step, Fail, Left, Sources, Entry, Kinds
  <2>2. DOMAIN entries = 1..Len(entries) /\ Len(entries) \in Nat /\ next \in Nat
    BY ListShape
  <2>3. \A key : SaidSoFar(key)' = SaidSoFar(key) BY <2>1, <2>2, SaidNext
  <2>4. QED BY <2>1, <2>3
<1>3. CASE UNCHANGED vars BY <1>3 DEF vars, SaidSoFar, Says, Sources
<1>4. QED BY <1>1, <1>2, <1>3

LEMMA SettingInvStep ==
    ASSUME KeysRecursive, MergeInv, SettingInv, [Next]_vars
    PROVE  SettingInv'
<1> SUFFICES ASSUME pc' # "failed", NEW key
             PROVE  key \in DOMAIN master'.val <=>
                        \/ SaidSoFar(key)' # {}
                        \/ pc' = "done" /\ oidcRegs' = 1 /\ key = "identity"
  BY DEF SettingInv
<1>1. CASE MergeSource
  <2>1. /\ pc = "merging" /\ pc' = "merging"
        /\ DOMAIN master'.val = DOMAIN master.val \cup DOMAIN Yields(Entry).val
        /\ SaidSoFar(key)' = SaidSoFar(key) \cup
               (IF key \in DOMAIN Yields(Entry).val THEN {next + 1} ELSE {})
    BY <1>1, SourceMerged
  <2>2. QED BY <2>1 DEF SettingInv
<1>2. CASE Register
  <2>1. pc' = "done" BY <1>2 DEF Register
  <2>2. QED BY <1>2, <2>1, MergeEnded DEF SettingInv
<1>3. CASE SortEntries \/ NoteRegistration \/ SkipEntry \/ UNCHANGED vars
  <2>1. /\ pc # "failed" /\ master' = master /\ (pc' = "done" => pc = "done")
        /\ pc # "done" \/ UNCHANGED <<entries, oidcRegs, pc>>
        /\ SaidSoFar(key)' = {} <=> SaidSoFar(key) = {}
    BY <1>3, NothingMerged
  <2>2. QED BY <2>1 DEF SettingInv
<1>4. QED BY <1>1, <1>2, <1>3 DEF Next

LEMMA SettingInvAlways == ASSUME KeysRecursive PROVE Spec => []SettingInv
<1>1. Init => SettingInv
  <2> SUFFICES ASSUME Init PROVE SettingInv OBVIOUS
  <2>1. MergeInv BY MergeInvInit
  <2>2. next = 0 /\ pc # "done" /\ master = StringMap(<<>>) BY DEF Init
  <2>3. \A i \in Sources : ~(i <= next) BY <2>1, <2>2 DEF MergeInv, ListInv, Sortable, Sources
  <2>4. \A key : SaidSoFar(key) = {} BY <2>3 DEF SaidSoFar, Says
  <2>5. DOMAIN master.val = {} BY <2>2 DEF StringMap
  <2>6. QED BY <2>2, <2>4, <2>5 DEF SettingInv
<1>2. MergeInv /\ SettingInv /\ [Next]_vars => SettingInv' BY SettingInvStep
<1>3. QED BY <1>1, <1>2, MergeInvAlways, PTL DEF Spec

LEMMA AllSaid ==
    ASSUME MergeInv, pc = "done", NEW key
    PROVE  SaidSoFar(key) = Says(key) /\ (Says(key) # {} <=>
               key \in UNION {DOMAIN Yields(entries[i]).val : i \in Sources})
<1>1. next = Len(entries) /\ DOMAIN entries = 1..Len(entries) BY DEF MergeInv, ListInv, Sortable
<1>2. \A i \in Sources : i <= next BY <1>1 DEF Sources
<1>3. QED BY <1>2 DEF SaidSoFar, Says

(* No configuration is made when a source could not be read, and the       *)
(* settings at the top of one that is made are those that its sources have *)
(* at the top of their documents, for any sources.                         *)
THEOREM TopLevelAlwaysKept == ASSUME KeysRecursive PROVE Spec => []TopLevelKept
<1>1. MergeInv /\ SettingInv => TopLevelKept
  <2> SUFFICES ASSUME MergeInv, SettingInv, pc = "done"
               PROVE  /\ \A i \in Sources : Readable(entries[i])
                      /\ DOMAIN master.val = (UNION {DOMAIN Yields(entries[i]).val : i \in Sources})
                                 \cup (IF oidcRegs = 1 THEN {"identity"} ELSE {})
    BY DEF TopLevelKept
  <2>1. next = Len(entries) /\ DOMAIN entries = 1..Len(entries)
    BY DEF MergeInv, ListInv, Sortable
  <2>2. \A i \in Sources : Readable(entries[i]) BY <2>1 DEF MergeInv, ReadInv, Sources
  <2>3. \A key : key \in DOMAIN master.val <=>
            \/ key \in UNION {DOMAIN Yields(entries[i]).val : i \in Sources}
            \/ oidcRegs = 1 /\ key = "identity"
    BY AllSaid DEF SettingInv
  <2> DEFINE S == UNION {DOMAIN Yields(entries[i]).val : i \in Sources}
             T == IF oidcRegs = 1 THEN {"identity"} ELSE {}
  <2>4. \A key : key \in T <=> oidcRegs = 1 /\ key = "identity" OBVIOUS
  <2> HIDE DEF T
  <2>5. DOMAIN master.val = S \cup T
    <3>1. \A key : key \in DOMAIN master.val <=> key \in S \/ key \in T BY <2>3, <2>4
    <3> HIDE DEF S
    <3>2. QED BY <3>1
  <2>6. DOMAIN master.val = S \cup (IF oidcRegs = 1 THEN {"identity"} ELSE {}) BY <2>5 DEF T
  <2>7. QED BY <2>2, <2>6
<1>2. QED BY <1>1, MergeInvAlways, SettingInvAlways, PTL

-----------------------------------------------------------------------------
(* Arrays are joined.                                                      *)

Elements(v) == {v.val[i] : i \in DOMAIN v.val}
Keyed(e)    == IF e.kind = "list" THEN e ELSE StringKeys(e)

IsArray(v) == v.kind = "list" /\ v.val \in Seq(Elements(v))

Entries(s) == {s[i] : i \in DOMAIN s}

LEMMA JoinedEntries ==
    ASSUME NEW s, s \in Seq(Entries(s)), NEW t, t \in Seq(Entries(t))
    PROVE  s \o t \in Seq(Entries(s \o t)) /\ Entries(s \o t) = Entries(s) \cup Entries(t)
<1> DEFINE S == Entries(s)
           T == Entries(t)
<1>0. /\ \A e \in S : \E i \in DOMAIN s : s[i] = e
      /\ \A e \in T : \E i \in DOMAIN t : t[i] = e
  BY DEF Entries
<1> HIDE DEF S, T
<1>1. s \in Seq(S \cup T) /\ t \in Seq(S \cup T)
  <2>1. s \in Seq(S) /\ t \in Seq(T) BY DEF S, T
  <2>2. QED BY <2>1
<1>2. s \o t \in Seq(S \cup T) BY <1>1
<1>3. /\ Len(s \o t) = Len(s) + Len(t) /\ DOMAIN (s \o t) = 1..Len(s) + Len(t)
      /\ Len(s) \in Nat /\ Len(t) \in Nat /\ DOMAIN s = 1..Len(s) /\ DOMAIN t = 1..Len(t)
  BY <1>1
<1>4. \A i \in DOMAIN (s \o t) : (s \o t)[i] = IF i <= Len(s) THEN s[i] ELSE t[i - Len(s)]
  BY <1>1, <1>3
<1>5. ASSUME NEW i \in DOMAIN (s \o t) PROVE (s \o t)[i] \in S \cup T
  BY <1>2
<1>6. ASSUME NEW e \in S PROVE \E i \in DOMAIN (s \o t) : (s \o t)[i] = e
  <2>1. PICK i \in DOMAIN s : s[i] = e BY <1>0
  <2>2. i \in DOMAIN (s \o t) /\ i <= Len(s) BY <1>3, <2>1
  <2>3. QED BY <1>4, <2>1, <2>2
<1>7. ASSUME NEW e \in T PROVE \E i \in DOMAIN (s \o t) : (s \o t)[i] = e
  <2>1. PICK i \in DOMAIN t : t[i] = e BY <1>0
  <2>2. i + Len(s) \in DOMAIN (s \o t) /\ ~(i + Len(s) <= Len(s)) /\ (i + Len(s)) - Len(s) = i
    BY <1>3, <2>1
  <2>3. (s \o t)[i + Len(s)] = t[i] BY <1>4, <2>2
  <2>4. QED BY <2>1, <2>2, <2>3
<1>8. Entries(s \o t) = S \cup T BY <1>5, <1>6, <1>7 DEF Entries
<1>9. QED BY <1>2, <1>8 DEF S, T

LEMMA ListOf == ASSUME NEW s PROVE List(s).kind = "list" /\ List(s).val = s
BY DEF List

LEMMA ArraysJoin ==
    ASSUME NEW old, NEW new, IsArray(old), IsArray(new)
    PROVE  /\ IsArray(MergeValues(old, new))
           /\ Elements(MergeValues(old, new)) = Elements(old) \cup Elements(new)
<1>1. CASE old = new BY <1>1 DEF MergeValues
<1>2. CASE old # new
  <2> DEFINE s == new.val \o old.val
  <2>1. MergeValues(old, new) = List(s) BY <1>2 DEF MergeValues, IsArray, Concat
  <2>2. /\ Elements(new) = Entries(new.val) /\ Elements(old) = Entries(old.val)
        /\ new.val \in Seq(Entries(new.val)) /\ old.val \in Seq(Entries(old.val))
    BY DEF IsArray, Elements, Entries
  <2>3. s \in Seq(Entries(s)) /\ Entries(s) = Elements(new) \cup Elements(old)
    BY <2>2, JoinedEntries
  <2> HIDE DEF s
  <2>4. MergeValues(old, new).kind = "list" /\ MergeValues(old, new).val = s
    BY <2>1, ListOf
  <2>5. Elements(MergeValues(old, new)) = Entries(s) BY <2>4 DEF Elements, Entries
  <2>6. QED BY <2>3, <2>4, <2>5 DEF IsArray
<1>3. QED BY <1>1, <1>2

LEMMA FirstArray ==
    ASSUME NEW new, new.kind = "list"
    PROVE  MergeValues(Nothing, new) = new
BY DEF MergeValues, Nothing

LEMMA KeyedArray ==
    ASSUME KeysRecursive, NEW v, v.kind = "list"
    PROVE  /\ StringKeys(v).kind = "list"
           /\ Elements(StringKeys(v)) = {Keyed(e) : e \in Elements(v)}
<1> DEFINE s == [i \in DOMAIN v.val |->
                    IF v.val[i].kind = "list" THEN v.val[i] ELSE KeysBelow(v.val[i])]
<1>1. StringKeys(v) = List(s) BY DEF StringKeys, IsMap
<1>2. DOMAIN s = DOMAIN v.val /\ \A i \in DOMAIN s : s[i] = Keyed(v.val[i])
  BY DEF KeysRecursive, Keyed
<1> HIDE DEF s
<1>3. StringKeys(v).kind = "list" /\ StringKeys(v).val = s BY <1>1, ListOf
<1>4. {s[i] : i \in DOMAIN s} = {Keyed(e) : e \in {v.val[i] : i \in DOMAIN v.val}}
  BY <1>2
<1>5. QED BY <1>3, <1>4 DEF Elements

(* All sources so far that have the setting give an array; their entries.  *)
OnlyArrays(key) ==
    SaidSoFar(key) # {} /\ \A i \in SaidSoFar(key) : Yields(entries[i]).val[key].kind = "list"
Given(key) == UNION {Elements(Yields(entries[i]).val[key]) : i \in SaidSoFar(key)}

ArrayDocs ==
    \A i \in DOMAIN entries : entries[i].doc # Nil =>
        \A key \in DOMAIN Yields(entries[i]).val :
            Yields(entries[i]).val[key].kind = "list" => IsArray(Yields(entries[i]).val[key])
ArrayInv ==
    /\ ArrayDocs
    /\ pc \in {"unsorted", "merging"} => \A key : OnlyArrays(key) =>
           IsArray(master.val[key]) /\ Elements(master.val[key]) = Given(key)
    /\ pc = "done" => \A key : OnlyArrays(key) /\ (oidcRegs = 1 => key # "identity") =>
           /\ master.val[key].kind = "list"
           /\ Elements(master.val[key]) = {Keyed(e) : e \in Given(key)}

LEMMA ArrayInvInit == Init => ArrayInv
<1> SUFFICES ASSUME Init PROVE ArrayInv OBVIOUS
<1>1. MergeInv BY MergeInvInit
<1>2. next = 0 /\ pc \in {"unsorted", "merging"} /\ entries \in Lists \cup Sidecars BY DEF Init
<1>3. \A i \in Sources : ~(i <= next) BY <1>1, <1>2 DEF MergeInv, ListInv, Sortable, Sources
<1>4. \A key : SaidSoFar(key) = {} BY <1>3 DEF SaidSoFar, Says
<1>5. ArrayDocs
  <2> SUFFICES ASSUME NEW i \in DOMAIN entries, entries[i].doc # Nil,
                      NEW key \in DOMAIN Yields(entries[i]).val,
                      Yields(entries[i]).val[key].kind = "list"
               PROVE  IsArray(Yields(entries[i]).val[key])
    BY DEF ArrayDocs
  <2>1. CASE entries[i].doc = NoKey
    <3>1. Yields(entries[i]).val = <<>> BY <2>1, MapOf DEF Yields
    <3>2. QED BY <3>1
  <2>2. CASE entries[i].doc # NoKey
    <3>1. Yields(entries[i]) = entries[i].doc BY <2>2 DEF Yields
    <3>2. QED BY <1>2, <2>2, <3>1, DocumentsAssumption DEF IsArray, Elements
  <2>3. QED BY <2>1, <2>2
<1>6. QED BY <1>2, <1>4, <1>5 DEF ArrayInv, OnlyArrays

LEMMA SourceArrays ==
    ASSUME MergeInv, SettingInv, ArrayInv, MergeSource, pc' # "failed", NEW key, OnlyArrays(key)'
    PROVE  IsArray(master'.val[key]) /\ Elements(master'.val[key]) = Given(key)'
<1>1. /\ pc = "merging" /\ pc' = "merging" /\ Readable(Entry) /\ entries' = entries
      /\ next + 1 \in Sources
      /\ key \in DOMAIN Yields(Entry).val =>
              master'.val[key] = MergeValues(Get(master, key), Yields(Entry).val[key])
      /\ key \in DOMAIN master.val \ DOMAIN Yields(Entry).val => master'.val[key] = master.val[key]
      /\ SaidSoFar(key)' = SaidSoFar(key) \cup
             (IF key \in DOMAIN Yields(Entry).val THEN {next + 1} ELSE {})
  BY SourceMerged
<1>2. key \in DOMAIN master.val <=> SaidSoFar(key) # {} BY <1>1 DEF SettingInv
<1>3. SaidSoFar(key) # {} =>
          OnlyArrays(key) /\ IsArray(master.val[key]) /\ Elements(master.val[key]) = Given(key)
  <2>1. \A i \in SaidSoFar(key) : Yields(entries[i]).val[key].kind = "list"
    BY <1>1 DEF OnlyArrays
  <2>2. QED BY <1>1, <2>1 DEF ArrayInv, OnlyArrays
<1>4. CASE key \notin DOMAIN Yields(Entry).val
  <2>1. SaidSoFar(key)' = SaidSoFar(key) BY <1>1, <1>4
  <2>2. SaidSoFar(key) # {} BY <2>1 DEF OnlyArrays
  <2>3. Given(key)' = Given(key) BY <1>1, <2>1 DEF Given
  <2>4. master'.val[key] = master.val[key] BY <1>1, <1>2, <1>4, <2>2
  <2>5. QED BY <1>3, <2>2, <2>3, <2>4
<1>5. CASE key \in DOMAIN Yields(Entry).val
  <2> DEFINE new == Yields(Entry).val[key]
  <2>1. SaidSoFar(key)' = SaidSoFar(key) \cup {next + 1} BY <1>1, <1>5
  <2>2. new.kind = "list"
    <3>1. Yields(entries'[next + 1]).val[key].kind = "list" BY <2>1 DEF OnlyArrays
    <3>2. QED BY <1>1, <3>1 DEF Entry
  <2>3. IsArray(new)
    BY <1>1, <1>5, <2>2 DEF ArrayInv, ArrayDocs, Entry, Sources, Readable
  <2>4. Given(key)' = Given(key) \cup Elements(new)
    <3>1. Yields(entries[next + 1]).val[key] = new BY DEF Entry
    <3>2. Given(key)' = UNION {Elements(Yields(entries[i]).val[key]) :
                                  i \in SaidSoFar(key) \cup {next + 1}}
      BY <1>1, <2>1 DEF Given
    <3> HIDE DEF new
    <3>3. QED BY <3>1, <3>2 DEF Given
  <2>5. master'.val[key] = MergeValues(Get(master, key), new) BY <1>1, <1>5
  <2> HIDE DEF new
  <2>6. CASE SaidSoFar(key) = {}
    <3>1. Get(master, key) = Nothing BY <1>2, <2>6 DEF Get
    <3>2. master'.val[key] = new BY <2>2, <2>5, <3>1, FirstArray
    <3>3. Given(key) = {} BY <2>6 DEF Given
    <3>4. QED BY <2>3, <2>4, <3>2, <3>3
  <2>7. CASE SaidSoFar(key) # {}
    <3>1. IsMap(master)
      <4>1. master = StringMap(master.val) BY DEF MergeInv, ListInv
      <4>2. QED BY <4>1, MapOf
    <3>2. Get(master, key) = master.val[key] BY <1>2, <2>7, <3>1 DEF Get
    <3>3. /\ IsArray(MergeValues(master.val[key], new))
          /\ Elements(MergeValues(master.val[key], new)) =
                 Elements(master.val[key]) \cup Elements(new)
      BY <1>3, <2>3, <2>7, ArraysJoin
    <3>4. QED BY <1>3, <2>4, <2>5, <2>7, <3>2, <3>3
  <2>8. QED BY <2>6, <2>7
<1>6. QED BY <1>4, <1>5

LEMMA ArrayInvStep ==
    ASSUME KeysRecursive, MergeInv, SettingInv, ArrayInv, [Next]_vars
    PROVE  ArrayInv'
<1>1. ArrayDocs'
  <2>1. CASE SortEntries
    <3>1. entries' = Sorted(entries) /\ Sortable(entries)
      BY <2>1 DEF SortEntries, MergeInv, ListInv
    <3>2. \A p \in DOMAIN entries' : \E i \in DOMAIN entries : entries'[p] = entries[i]
      BY <3>1, SortingIsStable
    <3>3. QED BY <3>2 DEF ArrayInv, ArrayDocs
  <2>2. CASE UNCHANGED entries BY <2>2 DEF ArrayInv, ArrayDocs
  <2>3. QED
    BY <2>1, <2>2
    DEF Next, vars, MergeSource, NoteRegistration, SkipEntry, Register, Step
<1>2. CASE MergeSource /\ pc' # "failed"
  <2>1. pc' = "merging" BY <1>2, SourceMerged
  <2>2. QED BY <1>1, <1>2, <2>1, SourceArrays DEF ArrayInv
<1>3. CASE Register /\ pc' = "done"
  <2>1. ASSUME NEW key, OnlyArrays(key)', oidcRegs' = 1 => key # "identity"
        PROVE  /\ master'.val[key].kind = "list"
               /\ Elements(master'.val[key]) = {Keyed(e) : e \in Given(key)'}
    <3>1. /\ pc = "merging" /\ entries' = entries /\ oidcRegs' = oidcRegs
          /\ SaidSoFar(key)' = SaidSoFar(key)
      BY <1>3, MergeEnded
    <3>2. OnlyArrays(key) /\ Given(key)' = Given(key)
      BY <2>1, <3>1 DEF OnlyArrays, Given
    <3>3. key \in DOMAIN master.val BY <3>1, <3>2 DEF SettingInv, OnlyArrays
    <3>4. master'.val[key] = StringKeys(master.val[key])
      BY <1>3, <2>1, <3>1, <3>3, MergeEnded
    <3>5. IsArray(master.val[key]) /\ Elements(master.val[key]) = Given(key)
      BY <3>1, <3>2 DEF ArrayInv
    <3>6. QED BY <3>2, <3>4, <3>5, KeyedArray DEF IsArray
  <2>2. QED BY <1>1, <1>3, <2>1 DEF ArrayInv
<1>4. CASE /\ SortEntries \/ NoteRegistration \/ SkipEntry \/ UNCHANGED vars
           /\ pc' # "failed"
  <2>1. /\ pc # "failed" /\ master' = master /\ (pc' = "done" => pc = "done")
        /\ pc # "done" \/ UNCHANGED <<entries, oidcRegs, pc>>
        /\ \A key : \/ entries' = entries /\ SaidSoFar(key)' = SaidSoFar(key)
                    \/ SaidSoFar(key) = {} /\ SaidSoFar(key)' = {}
    BY <1>4, NothingMerged
  <2>2. \A key : OnlyArrays(key)' => OnlyArrays(key) /\ Given(key)' = Given(key)
    BY <2>1 DEF OnlyArrays, Given
  <2>3. pc \in {"unsorted", "merging", "done"} BY <2>1 DEF MergeInv, ListInv
  <2>4. QED BY <1>1, <2>1, <2>2, <2>3 DEF ArrayInv
<1>5. CASE pc' = "failed" BY <1>1, <1>5 DEF ArrayInv
<1>6. QED BY <1>2, <1>3, <1>4, <1>5 DEF Next, Register

(* A setting at the top of the documents for which all sources give arrays *)
(* is the array of all their entries, with keys that are strings; no entry *)
(* is lost and none made up, however many sources there are.  (Arrays      *)
(* below the top may be lost, see MCThreeSources.cfg.)                     *)
TopArraysKept ==
    pc = "done" =>
        \A key \in UNION {DOMAIN Yields(entries[i]).val : i \in Sources} :
            (\A i \in Says(key) : Yields(entries[i]).val[key].kind = "list")
            /\ (oidcRegs = 1 => key # "identity") =>
                /\ Get(master, key).kind = "list"
                /\ Elements(Get(master, key)) =
                       UNION {{Keyed(e) : e \in Elements(Yields(entries[i]).val[key])} :
                                 i \in Says(key)}

(* Array settings at the top of a configuration have the entries of all    *)
(* sources, and only those, however many sources there are.                *)
THEOREM TopArraysAlwaysKept == ASSUME KeysRecursive PROVE Spec => []TopArraysKept
<1>1. MergeInv /\ SettingInv /\ ArrayInv => TopArraysKept
  <2> SUFFICES ASSUME MergeInv, SettingInv, ArrayInv, pc = "done",
                      NEW key \in UNION {DOMAIN Yields(entries[i]).val : i \in Sources},
                      \A i \in Says(key) : Yields(entries[i]).val[key].kind = "list",
                      oidcRegs = 1 => key # "identity"
               PROVE  /\ Get(master, key).kind = "list"
                      /\ Elements(Get(master, key)) =
                             UNION {{Keyed(e) : e \in Elements(Yields(entries[i]).val[key])} :
                                       i \in Says(key)}
    BY DEF TopArraysKept
  <2>1. SaidSoFar(key) = Says(key) /\ Says(key) # {} BY AllSaid
  <2>2. OnlyArrays(key) BY <2>1 DEF OnlyArrays
  <2>3. /\ master.val[key].kind = "list"
        /\ Elements(master.val[key]) = {Keyed(e) : e \in Given(key)}
    BY <2>2 DEF ArrayInv
  <2>4. Get(master, key) = master.val[key]
    <3>1. key \in DOMAIN master.val BY <2>1 DEF SettingInv
    <3>2. master = StringMap(master.val) BY DEF MergeInv, ListInv
    <3>3. IsMap(master) BY <3>2, MapOf
    <3>4. QED BY <3>1, <3>3 DEF Get
  <2>5. {Keyed(e) : e \in Given(key)} =
            UNION {{Keyed(e) : e \in Elements(Yields(entries[i]).val[key])} : i \in Says(key)}
    BY <2>1 DEF Given
  <2>6. QED BY <2>3, <2>4, <2>5
<1>2. MergeInv /\ SettingInv /\ ArrayInv /\ [Next]_vars => ArrayInv' BY ArrayInvStep
<1>3. QED BY <1>1, <1>2, ArrayInvInit, MergeInvAlways, SettingInvAlways, PTL DEF Spec
=============================================================================
