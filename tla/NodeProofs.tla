----------------------------- MODULE NodeProofs -----------------------------
(***************************************************************************)
(* Proofs about what BTree and Buckets are built from: the inodes of a     *)
(* node are an ordered map, a branch leads each key to one child, and the  *)
(* pages of a store are in use, pending or free, and each one once.        *)
(***************************************************************************)
EXTENDS Inodes, PageStore, SequenceTheorems, WellFoundedInduction, TLAPS

Lists(R) == Seq([key : Int, ref : R])

Ordered(l) == \A i, j \in 1 .. Len(l) : i < j => l[i].key < l[j].key

KeysOf(l) == {l[i].key : i \in 1 .. Len(l)}

(* What a lookup finds in a leaf, key by key.                              *)
Lookup(l) == [k \in KeysOf(l) |-> l[Search(l, k)].ref]

(* The page a branch leads a key to.                                       *)
Child(l, key) == l[Descend(l, key)].ref

-----------------------------------------------------------------------------
(* Searching.                                                              *)

(* A set of natural numbers has a least element.                           *)
LEMMA LeastNatural ==
    ASSUME NEW S \in SUBSET Nat, S # {}
    PROVE  \E x \in S : \A y \in S : x <= y
<1>1. \E x \in S : \A y \in S : ~ (<<y, x>> \in OpToRel(<, Nat))
  BY NatLessThanWellFounded, WFMin
<1>2. \A x, y \in S : y < x => <<y, x>> \in OpToRel(<, Nat)
  BY DEF OpToRel
<1>3. \E x \in S : \A y \in S : ~ (y < x)
  BY <1>1, <1>2, Zenon
<1> QED
  BY <1>3

LEMMA ListIs ==
    ASSUME NEW R, NEW l \in Lists(R)
    PROVE  /\ Len(l) \in Nat
           /\ l \in [1 .. Len(l) -> [key : Int, ref : R]]
           /\ \A i \in 1 .. Len(l) : l[i].key \in Int /\ l[i].ref \in R
           /\ KeysOf(l) \subseteq Int
<1>1. Len(l) \in Nat /\ l \in [1 .. Len(l) -> [key : Int, ref : R]]
  BY LenProperties DEF Lists
<1>2. \A i \in 1 .. Len(l) : l[i].key \in Int /\ l[i].ref \in R
  BY <1>1
<1> QED
  BY <1>1, <1>2 DEF KeysOf

(* Where a key belongs: sort.Search finds a place, and there is only one.  *)
Belongs(l, key, i) ==
    /\ i \in 1 .. Len(l) + 1
    /\ i <= Len(l) => l[i].key >= key
    /\ \A j \in 1 .. i - 1 : l[j].key < key

LEMMA SearchIs ==
    ASSUME NEW R, NEW l \in Lists(R), NEW key \in Int
    PROVE  Belongs(l, key, Search(l, key))
<1>1. Len(l) \in Nat /\ \A i \in 1 .. Len(l) : l[i].key \in Int
  BY ListIs
<1> DEFINE T == {i \in 1 .. Len(l) + 1 : i <= Len(l) => l[i].key >= key}
<1>2. Len(l) + 1 \in T /\ T \in SUBSET Nat
  BY <1>1
<1>3. PICK m \in T : \A n \in T : m <= n
  BY <1>2, LeastNatural
<1>4. \A j \in 1 .. m - 1 : l[j].key < key
  BY <1>1, <1>3
<1>5. \E i \in 1 .. Len(l) + 1 :
        /\ i <= Len(l) => l[i].key >= key
        /\ \A j \in 1 .. i - 1 : l[j].key < key
  BY <1>3, <1>4
<1> QED
  BY <1>5 DEF Search, Belongs

LEMMA PlaceUnique ==
    ASSUME NEW R, NEW l \in Lists(R), NEW key \in Int, NEW i, Belongs(l, key, i)
    PROVE  i = Search(l, key)
<1>1. Len(l) \in Nat /\ \A j \in 1 .. Len(l) : l[j].key \in Int
  BY ListIs
<1>2. Belongs(l, key, Search(l, key))
  BY SearchIs
<1> QED
  BY <1>1, <1>2 DEF Belongs

(* sort.Search finds exactly the keys that are there, each at its index    *)
(* (node.go:122-124, 146-149, cursor.go:276-291, 296-313, 327-335).        *)
THEOREM SearchFinds ==
    ASSUME NEW R, NEW l \in Lists(R), Ordered(l), NEW key \in Int
    PROVE  /\ Found(l, Search(l, key), key) <=> key \in KeysOf(l)
           /\ \A i \in 1 .. Len(l) : l[i].key = key => Search(l, key) = i
<1>1. Len(l) \in Nat /\ \A i \in 1 .. Len(l) : l[i].key \in Int
  BY ListIs
<1>2. Belongs(l, key, Search(l, key))
  BY SearchIs
<1>3. ASSUME NEW i \in 1 .. Len(l), l[i].key = key
      PROVE  Search(l, key) = i
  <2>1. Belongs(l, key, i)
    BY <1>1, <1>3 DEF Ordered, Belongs
  <2> QED
    BY <2>1, PlaceUnique
<1>4. Found(l, Search(l, key), key) => key \in KeysOf(l)
  BY <1>1, <1>2 DEF Found, KeysOf, Belongs
<1>5. key \in KeysOf(l) => Found(l, Search(l, key), key)
  BY <1>1, <1>3 DEF Found, KeysOf
<1> QED
  BY <1>3, <1>4, <1>5

LEMMA LookupIs ==
    ASSUME NEW R, NEW l \in Lists(R), Ordered(l)
    PROVE  /\ Lookup(l) \in [KeysOf(l) -> R]
           /\ \A i \in 1 .. Len(l) : l[i].key \in KeysOf(l) /\ Lookup(l)[l[i].key] = l[i].ref
<1>1. \A i \in 1 .. Len(l) : l[i].key \in Int /\ l[i].ref \in R
  BY ListIs
<1>2. \A i \in 1 .. Len(l) : Search(l, l[i].key) = i
  BY <1>1, SearchFinds
<1>3. \A i \in 1 .. Len(l) : l[i].key \in KeysOf(l) /\ Lookup(l)[l[i].key] = l[i].ref
  BY <1>2 DEF Lookup, KeysOf
<1>4. \A k \in KeysOf(l) : Lookup(l)[k] \in R
  BY <1>1, <1>3 DEF KeysOf
<1> QED
  BY <1>3, <1>4 DEF Lookup

(* A list is its lookups.                                                  *)
LEMMA LookupEquals ==
    ASSUME NEW R, NEW m \in Lists(R), Ordered(m), NEW K, NEW f,
           f = [k \in K |-> f[k]], KeysOf(m) = K,
           \A i \in 1 .. Len(m) : f[m[i].key] = m[i].ref
    PROVE  Lookup(m) = f
<1>1. ASSUME NEW k \in K PROVE Lookup(m)[k] = f[k]
  <2>1. PICK i \in 1 .. Len(m) : k = m[i].key
    BY DEF KeysOf
  <2>2. Lookup(m)[m[i].key] = m[i].ref
    BY LookupIs
  <2> QED
    BY <2>1, <2>2
<1>2. Lookup(m) = [k \in K |-> Lookup(m)[k]]
  BY DEF Lookup
<1> QED
  BY <1>1, <1>2

(* m is l with e in place i, and what follows moved up by one.             *)
HasInserted(m, l, i, e) ==
    /\ Len(m) = Len(l) + 1
    /\ \A j \in 1 .. Len(l) + 1 :
         m[j] = IF j < i THEN l[j] ELSE IF j = i THEN e ELSE l[j - 1]

LEMMA InsertIs ==
    ASSUME NEW S, NEW l \in Seq(S), NEW i \in 1 .. Len(l) + 1, NEW e \in S
    PROVE  InsertAt(l, i, e) \in Seq(S) /\ HasInserted(InsertAt(l, i, e), l, i, e)
<1>1. Len(l) \in Nat /\ \A j \in 1 .. Len(l) : l[j] \in S
  BY LenProperties
<1> DEFINE a == SubSeq(l, 1, i - 1)
           c == SubSeq(l, i, Len(l))
           ae == a \o <<e>>
           all == ae \o c
<1>2. /\ a \in Seq(S) /\ Len(a) = i - 1
      /\ \A j \in 1 .. i - 1 : a[j] = l[j]
  <2>1. \A j \in 1 .. i - 1 : l[j] \in S
    BY <1>1
  <2>2. /\ a \in Seq(S) /\ Len(a) = IF 1 <= i - 1 THEN (i - 1) - 1 + 1 ELSE 0
        /\ \A j \in 1 .. (i - 1) - 1 + 1 : a[j] = l[1 + j - 1]
    BY <1>1, <2>1, SubSeqProperties
  <2> QED
    BY <1>1, <2>2
<1>3. /\ c \in Seq(S) /\ Len(c) = Len(l) - i + 1
      /\ \A j \in 1 .. Len(l) - i + 1 : c[j] = l[i + j - 1]
  <2>1. \A j \in i .. Len(l) : l[j] \in S
    BY <1>1
  <2>2. /\ c \in Seq(S) /\ Len(c) = IF i <= Len(l) THEN Len(l) - i + 1 ELSE 0
        /\ \A j \in 1 .. Len(l) - i + 1 : c[j] = l[i + j - 1]
    BY <1>1, <2>1, SubSeqProperties
  <2> QED
    BY <1>1, <2>2
<1>4. <<e>> \in Seq(S) /\ Len(<<e>>) = 1 /\ <<e>>[1] = e
  OBVIOUS
<1>5. /\ ae \in Seq(S) /\ Len(ae) = i
      /\ \A j \in 1 .. i : ae[j] = IF j < i THEN l[j] ELSE e
  <2>1. /\ ae \in Seq(S) /\ Len(ae) = Len(a) + Len(<<e>>)
        /\ \A j \in 1 .. Len(a) + Len(<<e>>) :
             ae[j] = IF j <= Len(a) THEN a[j] ELSE <<e>>[j - Len(a)]
    BY <1>2, <1>4, ConcatProperties
  <2> HIDE DEF a, ae
  <2>2. ASSUME NEW j \in 1 .. i PROVE ae[j] = IF j < i THEN l[j] ELSE e
    <3>1. CASE j < i
      BY <1>1, <1>2, <1>4, <2>1, <3>1
    <3>2. CASE j = i
      <4>1. j - Len(a) = 1 /\ ae[j] = <<e>>[j - Len(a)]
        BY <1>1, <1>2, <1>4, <2>1, <3>2
      <4> QED
        BY <1>4, <3>2, <4>1
    <3> QED
      BY <1>1, <3>1, <3>2
  <2>3. ae \in Seq(S) /\ Len(ae) = i
    BY <1>1, <1>2, <1>4, <2>1
  <2> QED
    BY <2>2, <2>3
<1>6. /\ all \in Seq(S)
      /\ Len(all) = Len(ae) + Len(c)
      /\ \A j \in 1 .. Len(ae) + Len(c) :
           all[j] = IF j <= Len(ae) THEN ae[j] ELSE c[j - Len(ae)]
  <2>1. ae \in Seq(S) /\ c \in Seq(S)
    BY <1>3, <1>5
  <2> HIDE DEF ae, c
  <2> QED
    BY <2>1, ConcatProperties
<1>7. InsertAt(l, i, e) = all
  BY DEF InsertAt
<1> HIDE DEF a, c, ae, all
<1>8. ASSUME NEW j \in 1 .. Len(l) + 1
      PROVE  all[j] = IF j < i THEN l[j] ELSE IF j = i THEN e ELSE l[j - 1]
  <2>1. CASE j <= i
    BY <1>1, <1>3, <1>5, <1>6, <2>1
  <2>2. CASE j > i
    <3>1. /\ j - i \in 1 .. Len(l) - i + 1 /\ i + (j - i) - 1 = j - 1
          /\ all[j] = c[j - i]
      BY <1>1, <1>3, <1>5, <1>6, <2>2
    <3>2. c[j - i] = l[i + (j - i) - 1]
      BY <1>3, <3>1
    <3> QED
      BY <1>1, <2>2, <3>1, <3>2
  <2> QED
    BY <1>1, <2>1, <2>2
<1>9. Len(all) = Len(l) + 1
  BY <1>1, <1>3, <1>5, <1>6
<1> QED
  BY <1>6, <1>7, <1>8, <1>9 DEF HasInserted

LEMMA RemoveIs ==
    ASSUME NEW S, NEW l \in Seq(S), NEW i \in 1 .. Len(l)
    PROVE  /\ RemoveAt(l, i) \in Seq(S)
           /\ Len(RemoveAt(l, i)) = Len(l) - 1
           /\ \A j \in 1 .. Len(l) - 1 : RemoveAt(l, i)[j] = IF j < i THEN l[j] ELSE l[j + 1]
<1>1. Len(l) \in Nat /\ \A j \in 1 .. Len(l) : l[j] \in S
  BY LenProperties
<1> DEFINE a == SubSeq(l, 1, i - 1)
           c == SubSeq(l, i + 1, Len(l))
           all == a \o c
<1>2. /\ a \in Seq(S) /\ Len(a) = i - 1
      /\ \A j \in 1 .. i - 1 : a[j] = l[j]
  <2>1. \A j \in 1 .. i - 1 : l[j] \in S
    BY <1>1
  <2>2. /\ a \in Seq(S) /\ Len(a) = IF 1 <= i - 1 THEN (i - 1) - 1 + 1 ELSE 0
        /\ \A j \in 1 .. (i - 1) - 1 + 1 : a[j] = l[1 + j - 1]
    BY <1>1, <2>1, SubSeqProperties
  <2> QED
    BY <1>1, <2>2
<1>3. /\ c \in Seq(S) /\ Len(c) = Len(l) - i
      /\ \A j \in 1 .. Len(l) - i : c[j] = l[i + j]
  <2>1. \A j \in i + 1 .. Len(l) : l[j] \in S
    BY <1>1
  <2>2. /\ c \in Seq(S) /\ Len(c) = IF i + 1 <= Len(l) THEN Len(l) - (i + 1) + 1 ELSE 0
        /\ \A j \in 1 .. Len(l) - (i + 1) + 1 : c[j] = l[(i + 1) + j - 1]
    BY <1>1, <2>1, SubSeqProperties
  <2> QED
    BY <1>1, <2>2
<1>4. /\ all \in Seq(S) /\ Len(all) = Len(a) + Len(c)
      /\ \A j \in 1 .. Len(a) + Len(c) :
           all[j] = IF j <= Len(a) THEN a[j] ELSE c[j - Len(a)]
  BY <1>2, <1>3, ConcatProperties
<1>5. RemoveAt(l, i) = all
  BY DEF RemoveAt
<1> HIDE DEF a, c, all
<1>6. Len(all) = Len(l) - 1
  BY <1>1, <1>2, <1>3, <1>4
<1>7. ASSUME NEW j \in 1 .. Len(l) - 1
      PROVE  all[j] = IF j < i THEN l[j] ELSE l[j + 1]
  <2>1. CASE j < i
    BY <1>1, <1>2, <1>3, <1>4, <2>1
  <2>2. CASE j >= i
    <3>1. j - (i - 1) \in 1 .. Len(l) - i /\ i + (j - (i - 1)) = j + 1
      BY <1>1, <2>2
    <3>2. all[j] = c[j - (i - 1)]
      <4>1. j \in 1 .. Len(a) + Len(c) /\ ~ (j <= Len(a)) /\ Len(a) = i - 1
        BY <1>1, <1>2, <1>3, <2>2
      <4> QED
        BY <1>4, <4>1
    <3>3. c[j - (i - 1)] = l[i + (j - (i - 1))]
      BY <1>3, <3>1
    <3> QED
      BY <1>1, <2>2, <3>1, <3>2, <3>3
  <2> QED
    BY <1>1, <2>1, <2>2
<1> QED
  BY <1>4, <1>5, <1>6, <1>7

-----------------------------------------------------------------------------
(* A node as a map.                                                        *)

(* Key new, where key old is or would be: only old may be between them.    *)
InPlaceOf(l, old, new) ==
    \A k \in KeysOf(l) \ {old} : k # new /\ (k < old <=> k < new)

LEMMA Beside ==
    ASSUME NEW R, NEW l \in Lists(R), Ordered(l), NEW old \in Int, NEW new \in Int,
           InPlaceOf(l, old, new)
    PROVE  \A j \in 1 .. Len(l) :
              /\ j < Search(l, old) => l[j].key < new
              /\ j >= Search(l, old) /\ l[j].key # old => l[j].key > new
<1>1. Len(l) \in Nat /\ \A j \in 1 .. Len(l) : l[j].key \in Int
  BY ListIs
<1>2. Belongs(l, old, Search(l, old))
  BY SearchIs
<1> DEFINE s == Search(l, old)
<1> HIDE DEF s
<1>3. SUFFICES ASSUME NEW j \in 1 .. Len(l)
               PROVE  /\ j < s => l[j].key < new
                      /\ j >= s /\ l[j].key # old => l[j].key > new
  BY DEF s
<1>4. s \in 1 .. Len(l) + 1
  BY <1>2 DEF s, Belongs
<1>5. j < s => l[j].key < old
  <2>1. j < s => j \in 1 .. s - 1
    BY <1>1, <1>4
  <2> QED
    BY <1>2, <2>1 DEF s, Belongs
<1>6. j >= s => l[j].key >= old
  <2>1. j >= s => s \in 1 .. Len(l) /\ l[s].key >= old
    BY <1>1, <1>2, <1>4 DEF s, Belongs
  <2>2. j > s => l[s].key < l[j].key
    BY <1>1, <1>4 DEF Ordered
  <2> QED
    BY <1>1, <1>4, <2>1, <2>2
<1>7. l[j].key # old => l[j].key # new /\ (l[j].key < old <=> l[j].key < new)
  BY DEF InPlaceOf, KeysOf
<1> QED
  BY <1>1, <1>5, <1>6, <1>7

(* put makes new the key of the item old had, or adds it where old would   *)
(* be, and leaves all other items, and the order, alone, as long as no     *)
(* other key is between old and new: node.put's callers use it with old =  *)
(* new, or with the node's first key in its parent (node.go:116-141, 386). *)
THEOREM PutUpdates ==
    ASSUME NEW R, NEW l \in Lists(R), Ordered(l), NEW old \in Int, NEW new \in Int,
           NEW ref \in R, InPlaceOf(l, old, new)
    PROVE  LET m == put(l, old, new, ref) IN
           /\ m \in Lists(R) /\ Ordered(m)
           /\ Lookup(m) = [k \in (KeysOf(l) \ {old}) \cup {new} |->
                              IF k = new THEN ref ELSE Lookup(l)[k]]
<1> DEFINE s == Search(l, old)
           e == [key |-> new, ref |-> ref]
           m == put(l, old, new, ref)
           f == [k \in (KeysOf(l) \ {old}) \cup {new} |->
                   IF k = new THEN ref ELSE Lookup(l)[k]]
<1>1. /\ Len(l) \in Nat /\ l \in [1 .. Len(l) -> [key : Int, ref : R]]
      /\ \A j \in 1 .. Len(l) : l[j].key \in Int /\ l[j].ref \in R
  BY ListIs
<1>2. s \in 1 .. Len(l) + 1
  BY SearchIs DEF Belongs
<1>3. \A j \in 1 .. Len(l) :
         /\ j < s => l[j].key < new
         /\ j >= s /\ l[j].key # old => l[j].key > new
  BY Beside
<1>4. \A j \in 1 .. Len(l) : l[j].key = old => s = j
  BY SearchFinds
<1>5. \A j \in 1 .. Len(l) : l[j].key \in KeysOf(l) /\ Lookup(l)[l[j].key] = l[j].ref
  BY LookupIs
<1>6. e \in [key : Int, ref : R] /\ e.key = new /\ e.ref = ref
  OBVIOUS
<1>7. f = [k \in (KeysOf(l) \ {old}) \cup {new} |-> f[k]]
  OBVIOUS
<1> HIDE DEF s, e
<1>8. CASE Found(l, s, old)
  <2>1. s \in 1 .. Len(l) /\ l[s].key = old
    BY <1>1, <1>2, <1>8 DEF Found
  <2>2. m = [l EXCEPT ![s] = e]
    BY <1>8 DEF put, s, e
  <2>3. m \in Lists(R) /\ Len(m) = Len(l)
    <3>1. [l EXCEPT ![s] = e] \in Lists(R) /\ Len([l EXCEPT ![s] = e]) = Len(l)
      BY <1>6, <2>1, ExceptSeq DEF Lists
    <3> QED
      BY <2>2, <3>1
  <2>4. \A j \in 1 .. Len(l) : m[j] = IF j = s THEN e ELSE l[j]
    BY <1>1, <2>1, <2>2
  <2> HIDE DEF m
  <2>5. Ordered(m)
    <3> SUFFICES ASSUME NEW i \in 1 .. Len(l), NEW j \in 1 .. Len(l), i < j
                 PROVE  m[i].key < m[j].key
      BY <2>3 DEF Ordered
    <3>1. l[i].key < l[j].key
      BY DEF Ordered
    <3>2. CASE i = s
      <4>1. l[j].key # old
        BY <1>1, <2>1, <3>1, <3>2
      <4> QED
        BY <1>1, <1>2, <1>3, <1>6, <2>4, <3>2, <4>1
    <3>3. CASE j = s
      BY <1>1, <1>2, <1>3, <1>6, <2>4, <3>3
    <3>4. CASE i # s /\ j # s
      BY <2>4, <3>1, <3>4
    <3> QED
      BY <3>2, <3>3, <3>4
  <2>6. KeysOf(m) = (KeysOf(l) \ {old}) \cup {new}
    <3>1. \A j \in 1 .. Len(l) : m[j].key \in (KeysOf(l) \ {old}) \cup {new}
      BY <1>4, <1>5, <1>6, <2>4
    <3>2. \A j \in 1 .. Len(l) : l[j].key # old => m[j].key = l[j].key
      BY <2>1, <2>4
    <3>3. m[s].key = new
      BY <1>6, <2>1, <2>4
    <3>4. KeysOf(m) = {m[j].key : j \in 1 .. Len(l)} /\ KeysOf(l) = {l[j].key : j \in 1 .. Len(l)}
      BY <2>3 DEF KeysOf
    <3>5. ASSUME NEW k \in KeysOf(l) \ {old} PROVE k \in KeysOf(m)
      BY <3>2, <3>4
    <3>6. new \in KeysOf(m)
      BY <2>1, <3>3, <3>4
    <3>7. KeysOf(m) \subseteq (KeysOf(l) \ {old}) \cup {new}
      BY <3>1, <3>4
    <3> QED
      BY <3>5, <3>6, <3>7
  <2>7. ASSUME NEW j \in 1 .. Len(m) PROVE f[m[j].key] = m[j].ref
    <3>1. j \in 1 .. Len(l) /\ m[j].key \in (KeysOf(l) \ {old}) \cup {new}
      BY <2>3, <2>6 DEF KeysOf
    <3>2. CASE j = s
      BY <1>6, <2>4, <3>1, <3>2
    <3>3. CASE j # s
      <4>1. m[j] = l[j] /\ l[j].key # old
        BY <1>4, <2>4, <3>1, <3>3
      <4>2. l[j].key # new
        BY <1>1, <1>2, <1>3, <3>1, <4>1
      <4>3. f[m[j].key] = Lookup(l)[l[j].key]
        BY <3>1, <4>1, <4>2
      <4> QED
        BY <1>5, <3>1, <4>1, <4>3
    <3> QED
      BY <3>2, <3>3
  <2> HIDE DEF f
  <2>8. Lookup(m) = f
    BY <1>7, <2>3, <2>5, <2>6, <2>7, LookupEquals
  <2> QED
    BY <2>3, <2>5, <2>8 DEF m, f
<1>9. CASE ~Found(l, s, old)
  <2>1. \A j \in 1 .. Len(l) : l[j].key # old
    BY <1>1, <1>4, <1>9 DEF Found
  <2>2. m = InsertAt(l, s, e)
    BY <1>9 DEF put, s, e
  <2>3. /\ m \in Lists(R) /\ Len(m) = Len(l) + 1
        /\ \A j \in 1 .. Len(l) + 1 : m[j] = IF j < s THEN l[j] ELSE IF j = s THEN e ELSE l[j - 1]
    <3> DEFINE S == [key : Int, ref : R]
    <3>1. l \in Seq(S) /\ s \in 1 .. Len(l) + 1 /\ e \in S /\ Lists(R) = Seq(S)
      BY <1>2, <1>6 DEF Lists
    <3> HIDE DEF S, m
    <3>2. InsertAt(l, s, e) \in Seq(S) /\ HasInserted(InsertAt(l, s, e), l, s, e)
      BY <3>1, InsertIs, Zenon
    <3> QED
      BY <2>2, <3>1, <3>2 DEF HasInserted
  <2> HIDE DEF m
  <2>4. Ordered(m)
    <3> SUFFICES ASSUME NEW i \in 1 .. Len(l) + 1, NEW j \in 1 .. Len(l) + 1, i < j
                 PROVE  m[i].key < m[j].key
      BY <2>3 DEF Ordered
    <3>1. CASE j < s
      <4>1. m[i] = l[i] /\ m[j] = l[j] /\ i \in 1 .. Len(l) /\ j \in 1 .. Len(l)
        BY <1>1, <1>2, <2>3, <3>1
      <4> QED
        BY <4>1 DEF Ordered
    <3>2. CASE j = s
      <4>1. m[i] = l[i] /\ m[j] = e /\ i \in 1 .. Len(l) /\ i < s
        BY <1>1, <1>2, <2>3, <3>2
      <4> QED
        BY <1>3, <1>6, <4>1
    <3>3. CASE j > s /\ i < s
      <4>1. m[i] = l[i] /\ m[j] = l[j - 1] /\ i \in 1 .. Len(l) /\ j - 1 \in 1 .. Len(l) /\ i < j - 1
        BY <1>1, <1>2, <2>3, <3>3
      <4> QED
        BY <4>1 DEF Ordered
    <3>4. CASE j > s /\ i = s
      <4>1. m[i] = e /\ m[j] = l[j - 1] /\ j - 1 \in 1 .. Len(l) /\ j - 1 >= s
        BY <1>1, <1>2, <2>3, <3>4
      <4> QED
        BY <1>1, <1>3, <1>6, <2>1, <4>1
    <3>5. CASE i > s
      <4>1. /\ m[i] = l[i - 1] /\ m[j] = l[j - 1]
            /\ i - 1 \in 1 .. Len(l) /\ j - 1 \in 1 .. Len(l) /\ i - 1 < j - 1
        BY <1>1, <1>2, <2>3, <3>5
      <4> QED
        BY <4>1 DEF Ordered
    <3> QED
      BY <1>1, <1>2, <3>1, <3>2, <3>3, <3>4, <3>5
  <2>5. KeysOf(m) = (KeysOf(l) \ {old}) \cup {new}
    <3>1. ASSUME NEW j \in 1 .. Len(l) + 1
          PROVE  m[j].key \in KeysOf(l) \cup {new}
      <4>1. CASE j < s
        BY <1>1, <1>2, <1>5, <2>3, <4>1
      <4>2. CASE j = s
        BY <1>6, <2>3, <4>2
      <4>3. CASE j > s
        <5>1. j - 1 \in 1 .. Len(l) /\ m[j] = l[j - 1]
          BY <1>1, <1>2, <2>3, <4>3
        <5> QED
          BY <1>5, <5>1
      <4> QED
        BY <1>1, <1>2, <4>1, <4>2, <4>3
    <3>2. ASSUME NEW j \in 1 .. Len(l) PROVE l[j].key \in KeysOf(m)
      <4>1. CASE j < s
        <5>1. j \in 1 .. Len(m) /\ m[j] = l[j]
          BY <1>1, <1>2, <2>3, <4>1
        <5> QED
          BY <5>1 DEF KeysOf
      <4>2. CASE j >= s
        <5>1. j + 1 \in 1 .. Len(m) /\ m[j + 1] = l[j]
          BY <1>1, <1>2, <2>3, <4>2
        <5>2. m[j + 1].key \in KeysOf(m)
          BY <5>1 DEF KeysOf
        <5> QED
          BY <5>1, <5>2
      <4> QED
        BY <1>1, <1>2, <4>1, <4>2
    <3>3. new \in KeysOf(m)
      <4>1. s \in 1 .. Len(m) /\ m[s] = e
        BY <1>1, <1>2, <2>3
      <4>2. m[s].key \in KeysOf(m)
        BY <4>1 DEF KeysOf
      <4> QED
        BY <1>6, <4>1, <4>2
    <3>4. KeysOf(m) = {m[j].key : j \in 1 .. Len(l) + 1} /\ KeysOf(l) = {l[j].key : j \in 1 .. Len(l)}
      BY <2>3 DEF KeysOf
    <3>5. KeysOf(m) \subseteq KeysOf(l) \cup {new}
      BY <3>1, <3>4
    <3>6. KeysOf(l) \subseteq KeysOf(m) /\ old \notin KeysOf(l)
      BY <2>1, <3>2, <3>4
    <3> QED
      BY <3>3, <3>5, <3>6
  <2>6. ASSUME NEW j \in 1 .. Len(m) PROVE f[m[j].key] = m[j].ref
    <3>1. j \in 1 .. Len(l) + 1 /\ m[j].key \in (KeysOf(l) \ {old}) \cup {new}
      BY <2>3, <2>5 DEF KeysOf
    <3>2. CASE j = s
      BY <1>6, <2>3, <3>1, <3>2
    <3>3. ASSUME NEW i \in 1 .. Len(l), m[j] = l[i] PROVE f[m[j].key] = m[j].ref
      <4>1. l[i].key # new
        BY <1>1, <1>2, <1>3, <2>1
      <4>2. f[m[j].key] = Lookup(l)[l[i].key]
        BY <3>1, <3>3, <4>1
      <4> QED
        BY <1>5, <3>3, <4>2
    <3>4. CASE j < s
      <4>1. j \in 1 .. Len(l) /\ m[j] = l[j]
        BY <1>1, <1>2, <2>3, <3>1, <3>4
      <4> QED
        BY <3>3, <4>1
    <3>5. CASE j > s
      <4>1. j - 1 \in 1 .. Len(l) /\ m[j] = l[j - 1]
        BY <1>1, <1>2, <2>3, <3>1, <3>5
      <4> QED
        BY <3>3, <4>1
    <3> QED
      BY <1>1, <1>2, <3>1, <3>2, <3>4, <3>5
  <2> HIDE DEF f
  <2>7. Lookup(m) = f
    BY <1>7, <2>3, <2>4, <2>5, <2>6, LookupEquals
  <2> QED
    BY <2>3, <2>4, <2>7 DEF m, f
<1> QED
  BY <1>8, <1>9

(* node.del, and the parent's loss of a node: the item of the key goes, and *)
(* nothing else changes (node.go:144-158).                                  *)
THEOREM RemoveForgets ==
    ASSUME NEW R, NEW l \in Lists(R), Ordered(l), NEW key \in KeysOf(l)
    PROVE  LET m == RemoveAt(l, Search(l, key)) IN
           /\ m \in Lists(R) /\ Ordered(m)
           /\ Lookup(m) = [k \in KeysOf(l) \ {key} |-> Lookup(l)[k]]
<1> DEFINE s == Search(l, key)
           m == RemoveAt(l, s)
           f == [k \in KeysOf(l) \ {key} |-> Lookup(l)[k]]
<1>1. Len(l) \in Nat /\ \A j \in 1 .. Len(l) : l[j].key \in Int
  BY ListIs
<1>2. s \in 1 .. Len(l) /\ l[s].key = key
  <2>1. key \in Int
    BY ListIs
  <2>2. PICK i \in 1 .. Len(l) : l[i].key = key
    BY DEF KeysOf
  <2> QED
    BY <2>1, <2>2, SearchFinds
<1>3. \A j \in 1 .. Len(l) : l[j].key \in KeysOf(l) /\ Lookup(l)[l[j].key] = l[j].ref
  BY LookupIs
<1>4. \A j \in 1 .. Len(l) : j # s => l[j].key # key
  <2>1. \A i, j \in 1 .. Len(l) : i < j => l[i].key < l[j].key
    BY DEF Ordered
  <2> HIDE DEF s
  <2> QED
    BY <1>1, <1>2, <2>1
<1> HIDE DEF s
<1>5. /\ m \in Lists(R) /\ Len(m) = Len(l) - 1
      /\ \A j \in 1 .. Len(l) - 1 : m[j] = IF j < s THEN l[j] ELSE l[j + 1]
  <2> DEFINE S == [key : Int, ref : R]
  <2>1. l \in Seq(S) /\ Lists(R) = Seq(S)
    BY DEF Lists
  <2> HIDE DEF S
  <2> QED
    BY <1>2, <2>1, RemoveIs
<1>6. f = [k \in KeysOf(l) \ {key} |-> f[k]]
  OBVIOUS
<1> HIDE DEF m
<1>7. Ordered(m)
  <2> SUFFICES ASSUME NEW i \in 1 .. Len(l) - 1, NEW j \in 1 .. Len(l) - 1, i < j
               PROVE  m[i].key < m[j].key
    BY <1>5 DEF Ordered
  <2>1. \E a, c \in 1 .. Len(l) : m[i] = l[a] /\ m[j] = l[c] /\ a < c
    <3>1. CASE j < s
      <4>1. i < s
        BY <1>2, <3>1
      <4> QED
        BY <1>1, <1>5, <3>1, <4>1
    <3>2. CASE j >= s /\ i < s
      <4>1. m[i] = l[i] /\ m[j] = l[j + 1] /\ i < j + 1 /\ i \in 1 .. Len(l) /\ j + 1 \in 1 .. Len(l)
        BY <1>1, <1>2, <1>5, <3>2
      <4> QED
        BY <4>1
    <3>3. CASE i >= s
      <4>1. /\ m[i] = l[i + 1] /\ m[j] = l[j + 1] /\ i + 1 < j + 1
            /\ i + 1 \in 1 .. Len(l) /\ j + 1 \in 1 .. Len(l)
        BY <1>1, <1>2, <1>5, <3>3
      <4> QED
        BY <4>1
    <3> QED
      BY <1>2, <3>1, <3>2, <3>3
  <2> QED
    BY <2>1 DEF Ordered
<1>8. KeysOf(m) = KeysOf(l) \ {key}
  <2>1. ASSUME NEW j \in 1 .. Len(l) - 1
        PROVE  m[j].key \in KeysOf(l) \ {key}
    <3>1. CASE j < s
      BY <1>1, <1>2, <1>3, <1>4, <1>5, <3>1
    <3>2. CASE j >= s
      <4>1. j + 1 \in 1 .. Len(l) /\ j + 1 # s /\ m[j] = l[j + 1]
        BY <1>1, <1>2, <1>5, <3>2
      <4> QED
        BY <1>3, <1>4, <4>1
    <3> QED
      BY <1>2, <3>1, <3>2
  <2>2. ASSUME NEW j \in 1 .. Len(l), j # s
        PROVE  l[j].key \in KeysOf(m)
    <3>1. CASE j < s
      <4>1. j \in 1 .. Len(m) /\ m[j] = l[j]
        BY <1>1, <1>2, <1>5, <3>1
      <4> QED
        BY <4>1 DEF KeysOf
    <3>2. CASE j > s
      <4>1. j - 1 \in 1 .. Len(m) /\ m[j - 1] = l[j]
        BY <1>1, <1>2, <1>5, <3>2
      <4>2. m[j - 1].key \in KeysOf(m)
        BY <4>1 DEF KeysOf
      <4> QED
        BY <4>1, <4>2
    <3> QED
      BY <1>2, <2>2, <3>1, <3>2
  <2>3. KeysOf(m) = {m[j].key : j \in 1 .. Len(l) - 1} /\ KeysOf(l) = {l[j].key : j \in 1 .. Len(l)}
    BY <1>5 DEF KeysOf
  <2>4. KeysOf(m) \subseteq KeysOf(l) \ {key}
    BY <2>1, <2>3
  <2>5. KeysOf(l) \ {key} \subseteq KeysOf(m)
    BY <1>2, <2>2, <2>3
  <2> QED
    BY <2>4, <2>5
<1>9. ASSUME NEW j \in 1 .. Len(m) PROVE f[m[j].key] = m[j].ref
  <2>1. m[j].key \in KeysOf(l) \ {key} /\ j \in 1 .. Len(l) - 1
    BY <1>5, <1>8 DEF KeysOf
  <2>2. \E i \in 1 .. Len(l) : m[j] = l[i]
    <3>1. CASE j < s
      BY <1>1, <1>5, <2>1, <3>1
    <3>2. CASE j >= s
      <4>1. j + 1 \in 1 .. Len(l) /\ m[j] = l[j + 1]
        BY <1>1, <1>2, <1>5, <2>1, <3>2
      <4> QED
        BY <4>1
    <3> QED
      BY <1>2, <2>1, <3>1, <3>2
  <2> QED
    BY <1>3, <2>1, <2>2
<1> HIDE DEF f
<1>10. Lookup(m) = f
  BY <1>5, <1>6, <1>7, <1>8, <1>9, LookupEquals
<1> QED
  BY <1>5, <1>7, <1>10 DEF m, f, s

(* Two siblings merged are the map of both (node.go:489, 505).             *)
THEOREM JoinAppends ==
    ASSUME NEW R, NEW a \in Lists(R), NEW b \in Lists(R), Ordered(a), Ordered(b),
           \A j \in KeysOf(a), k \in KeysOf(b) : j < k
    PROVE  /\ a \o b \in Lists(R) /\ Ordered(a \o b)
           /\ Lookup(a \o b) = [k \in KeysOf(a) \cup KeysOf(b) |->
                                  IF k \in KeysOf(a) THEN Lookup(a)[k] ELSE Lookup(b)[k]]
<1> DEFINE m == a \o b
           f == [k \in KeysOf(a) \cup KeysOf(b) |->
                   IF k \in KeysOf(a) THEN Lookup(a)[k] ELSE Lookup(b)[k]]
<1>1. /\ Len(a) \in Nat /\ Len(b) \in Nat
      /\ \A j \in 1 .. Len(a) : a[j].key \in KeysOf(a) /\ Lookup(a)[a[j].key] = a[j].ref
      /\ \A j \in 1 .. Len(b) : b[j].key \in KeysOf(b) /\ Lookup(b)[b[j].key] = b[j].ref
  BY ListIs, LookupIs
<1>2. KeysOf(a) \cap KeysOf(b) = {} /\ KeysOf(a) \subseteq Int /\ KeysOf(b) \subseteq Int
  BY ListIs
<1>3. /\ m \in Lists(R) /\ Len(m) = Len(a) + Len(b)
      /\ \A j \in 1 .. Len(a) + Len(b) : m[j] = IF j <= Len(a) THEN a[j] ELSE b[j - Len(a)]
  <2> DEFINE S == [key : Int, ref : R]
  <2>1. a \in Seq(S) /\ b \in Seq(S) /\ Lists(R) = Seq(S)
    BY DEF Lists
  <2> HIDE DEF S
  <2> QED
    BY <2>1, ConcatProperties
<1>4. f = [k \in KeysOf(a) \cup KeysOf(b) |-> f[k]]
  OBVIOUS
<1> HIDE DEF m
<1>5. \A j \in 1 .. Len(a) + Len(b) :
         \/ j \in 1 .. Len(a) /\ m[j] = a[j]
         \/ j > Len(a) /\ j - Len(a) \in 1 .. Len(b) /\ m[j] = b[j - Len(a)]
  BY <1>1, <1>3
<1>6. Ordered(m)
  <2> SUFFICES ASSUME NEW i \in 1 .. Len(a) + Len(b), NEW j \in 1 .. Len(a) + Len(b), i < j
               PROVE  m[i].key < m[j].key
    BY <1>3 DEF Ordered
  <2>1. CASE j <= Len(a)
    <3>1. i \in 1 .. Len(a) /\ j \in 1 .. Len(a) /\ m[i] = a[i] /\ m[j] = a[j]
      BY <1>1, <1>3, <2>1
    <3> QED
      BY <3>1 DEF Ordered
  <2>2. CASE i <= Len(a) /\ j > Len(a)
    <3>1. i \in 1 .. Len(a) /\ j - Len(a) \in 1 .. Len(b) /\ m[i] = a[i] /\ m[j] = b[j - Len(a)]
      BY <1>1, <1>3, <2>2
    <3> QED
      BY <1>1, <3>1
  <2>3. CASE i > Len(a)
    <3>1. /\ i - Len(a) \in 1 .. Len(b) /\ j - Len(a) \in 1 .. Len(b) /\ i - Len(a) < j - Len(a)
          /\ m[i] = b[i - Len(a)] /\ m[j] = b[j - Len(a)]
      BY <1>1, <1>3, <2>3
    <3> QED
      BY <3>1 DEF Ordered
  <2> QED
    BY <1>1, <2>1, <2>2, <2>3
<1>7. KeysOf(m) = KeysOf(a) \cup KeysOf(b)
  <2>1. KeysOf(m) = {m[j].key : j \in 1 .. Len(a) + Len(b)}
    BY <1>3 DEF KeysOf
  <2>2. KeysOf(m) \subseteq KeysOf(a) \cup KeysOf(b)
    BY <1>1, <1>5, <2>1
  <2>3. ASSUME NEW j \in 1 .. Len(a) PROVE a[j].key \in KeysOf(m)
    <3>1. j \in 1 .. Len(a) + Len(b) /\ m[j] = a[j]
      BY <1>1, <1>3
    <3> QED
      BY <2>1, <3>1
  <2>4. ASSUME NEW j \in 1 .. Len(b) PROVE b[j].key \in KeysOf(m)
    <3>1. Len(a) + j \in 1 .. Len(a) + Len(b) /\ m[Len(a) + j] = b[j]
      BY <1>1, <1>3
    <3>2. m[Len(a) + j].key \in KeysOf(m)
      BY <2>1, <3>1
    <3> QED
      BY <3>1, <3>2
  <2>5. KeysOf(a) \subseteq KeysOf(m) /\ KeysOf(b) \subseteq KeysOf(m)
    BY <2>3, <2>4 DEF KeysOf
  <2> QED
    BY <2>2, <2>5
<1>8. ASSUME NEW j \in 1 .. Len(m) PROVE f[m[j].key] = m[j].ref
  <2>1. CASE j \in 1 .. Len(a) /\ m[j] = a[j]
    BY <1>1, <2>1
  <2>2. CASE j - Len(a) \in 1 .. Len(b) /\ m[j] = b[j - Len(a)]
    <3>1. b[j - Len(a)].key \in KeysOf(b) /\ b[j - Len(a)].key \notin KeysOf(a)
      BY <1>1, <1>2, <2>2
    <3>2. f[m[j].key] = Lookup(b)[b[j - Len(a)].key]
      BY <2>2, <3>1
    <3> QED
      BY <1>1, <2>2, <3>2
  <2> QED
    BY <1>3, <1>5, <2>1, <2>2
<1> HIDE DEF f
<1>9. Lookup(m) = f
  BY <1>3, <1>4, <1>6, <1>7, <1>8, LookupEquals
<1> QED
  BY <1>3, <1>6, <1>9 DEF m, f

(* A list cut in two.                                                      *)
LEMMA CutKeeps ==
    ASSUME NEW R, NEW l \in Lists(R), Ordered(l), NEW i \in 0 .. Len(l)
    PROVE  LET a == SubSeq(l, 1, i)
               b == SubSeq(l, i + 1, Len(l))
           IN  /\ a \in Lists(R) /\ Ordered(a)
               /\ b \in Lists(R) /\ Ordered(b)
               /\ \A j \in KeysOf(a), k \in KeysOf(b) : j < k
               /\ a \o b = l
<1> DEFINE a == SubSeq(l, 1, i)
           b == SubSeq(l, i + 1, Len(l))
           S == [key : Int, ref : R]
<1>1. /\ Len(l) \in Nat /\ Lists(R) = Seq(S) /\ l \in Seq(S)
      /\ \A j \in 1 .. Len(l) : l[j] \in S
  <2>1. Lists(R) = Seq(S) /\ l \in Seq(S)
    BY DEF Lists
  <2> HIDE DEF S
  <2> QED
    BY <2>1, LenProperties
<1> HIDE DEF S
<1>2. /\ a \in Seq(S) /\ Len(a) = i
      /\ \A j \in 1 .. i : a[j] = l[j]
  <2>1. \A j \in 1 .. i : l[j] \in S
    BY <1>1
  <2>2. /\ a \in Seq(S) /\ Len(a) = IF 1 <= i THEN i - 1 + 1 ELSE 0
        /\ \A j \in 1 .. i - 1 + 1 : a[j] = l[1 + j - 1]
    BY <1>1, <2>1, SubSeqProperties
  <2> QED
    BY <1>1, <2>2
<1>3. /\ b \in Seq(S) /\ Len(b) = Len(l) - i
      /\ \A j \in 1 .. Len(l) - i : b[j] = l[i + j]
  <2>1. \A j \in i + 1 .. Len(l) : l[j] \in S
    BY <1>1
  <2>2. /\ b \in Seq(S) /\ Len(b) = IF i + 1 <= Len(l) THEN Len(l) - (i + 1) + 1 ELSE 0
        /\ \A j \in 1 .. Len(l) - (i + 1) + 1 : b[j] = l[(i + 1) + j - 1]
    BY <1>1, <2>1, SubSeqProperties
  <2> QED
    BY <1>1, <2>2
<1> HIDE DEF a, b
<1>4. a \o b = l
  <2>1. /\ a \o b \in Seq(S) /\ Len(a \o b) = Len(a) + Len(b)
        /\ \A j \in 1 .. Len(a) + Len(b) : (a \o b)[j] = IF j <= Len(a) THEN a[j] ELSE b[j - Len(a)]
    BY <1>2, <1>3, ConcatProperties
  <2>2. ASSUME NEW j \in 1 .. Len(l) PROVE (a \o b)[j] = l[j]
    <3>1. CASE j <= i
      BY <1>1, <1>2, <1>3, <2>1, <3>1
    <3>2. CASE j > i
      <4>1. j - i \in 1 .. Len(l) - i /\ i + (j - i) = j
        BY <1>1, <3>2
      <4>2. (a \o b)[j] = b[j - i]
        BY <1>1, <1>2, <1>3, <2>1, <3>2
      <4>3. b[j - i] = l[i + (j - i)]
        BY <1>3, <4>1
      <4> QED
        BY <4>1, <4>2, <4>3
    <3>3. j <= i \/ j > i
      BY <1>1
    <3> QED
      BY <3>1, <3>2, <3>3
  <2>3. Len(a \o b) = Len(l)
    BY <1>1, <1>2, <1>3, <2>1
  <2> QED
    BY <1>1, <2>1, <2>2, <2>3, SeqEqual
<1>5. Ordered(a)
  BY <1>1, <1>2 DEF Ordered
<1>6. Ordered(b)
  <2> SUFFICES ASSUME NEW j \in 1 .. Len(l) - i, NEW k \in 1 .. Len(l) - i, j < k
               PROVE  b[j].key < b[k].key
    BY <1>3 DEF Ordered
  <2>1. /\ i + j \in 1 .. Len(l) /\ i + k \in 1 .. Len(l) /\ i + j < i + k
        /\ b[j] = l[i + j] /\ b[k] = l[i + k]
    BY <1>1, <1>3
  <2> QED
    BY <2>1 DEF Ordered
<1>7. ASSUME NEW j \in KeysOf(a), NEW k \in KeysOf(b) PROVE j < k
  <2>1. PICK x \in 1 .. i : j = l[x].key
    BY <1>2 DEF KeysOf
  <2>2. PICK y \in 1 .. Len(l) - i : k = b[y].key
    BY <1>3 DEF KeysOf
  <2>3. x \in 1 .. Len(l) /\ i + y \in 1 .. Len(l) /\ x < i + y /\ b[y] = l[i + y]
    BY <1>1, <1>3
  <2> QED
    BY <2>1, <2>2, <2>3 DEF Ordered
<1> QED
  BY <1>1, <1>2, <1>3, <1>4, <1>5, <1>6, <1>7 DEF a, b

(* The index split cuts at leaves two inodes or more on the left and three *)
(* or more on the right, and what is left of it fits the threshold unless  *)
(* it is the two alone (node.go:250-335, page.go:12).                      *)
THEOREM SplitIndexSound ==
    ASSUME NEW S, NEW n, n.inodes \in Seq(S), NEW threshold,
           Len(n.inodes) > 2 * minKeysPerPage
    PROVE  LET i == splitIndex(n, threshold) IN
           /\ i \in minKeysPerPage .. Len(n.inodes) - minKeysPerPage - 1
           /\ i > minKeysPerPage =>
                size([n EXCEPT !.inodes = SubSeq(@, 1, i)]) <= threshold
<1> DEFINE last == Len(n.inodes) - minKeysPerPage - 1
           fits(i) == size([n EXCEPT !.inodes = SubSeq(@, 1, i + 1)]) <= threshold
           Cut(i) == /\ i = last \/ (i >= minKeysPerPage /\ ~fits(i))
                     /\ \A j \in minKeysPerPage .. i - 1 : fits(j)
           T == {i \in minKeysPerPage .. last : i = last \/ ~fits(i)}
<1>1. Len(n.inodes) \in Nat /\ minKeysPerPage = 2
  BY LenProperties DEF minKeysPerPage
<1>2. last \in Nat /\ last >= 2
  BY <1>1
<1> HIDE DEF last, fits
<1>3. last \in T /\ T \in SUBSET Nat
  BY <1>1, <1>2
<1>4. PICK i \in T : \A j \in T : i <= j
  BY <1>3, LeastNatural
<1>5. \A j \in minKeysPerPage .. i - 1 : fits(j)
  BY <1>1, <1>2, <1>4
<1>6. i \in 0 .. last /\ Cut(i)
  BY <1>1, <1>2, <1>4, <1>5
<1>7. splitIndex(n, threshold) = CHOOSE k \in 0 .. last : Cut(k)
  BY DEF splitIndex, last, fits
<1> DEFINE c == CHOOSE k \in 0 .. last : Cut(k)
<1>8. c \in 0 .. last /\ Cut(c)
  BY <1>6
<1> HIDE DEF c
<1>9. c \in 2 .. last
  BY <1>1, <1>2, <1>8
<1>10. ASSUME c > 2 PROVE size([n EXCEPT !.inodes = SubSeq(@, 1, c)]) <= threshold
  <2>1. c - 1 \in minKeysPerPage .. c - 1 /\ (c - 1) + 1 = c
    BY <1>1, <1>2, <1>9, <1>10
  <2>2. fits(c - 1)
    BY <1>8, <2>1
  <2>3. size([n EXCEPT !.inodes = SubSeq(@, 1, (c - 1) + 1)]) <= threshold
    BY <2>2 DEF fits
  <2> QED
    BY <2>1, <2>3
<1> QED
  BY <1>1, <1>7, <1>9, <1>10 DEF c, last

(* splitTwo makes a sibling exactly when there are enough inodes and they  *)
(* do not fit one page.  Node and sibling are ordered, the node's keys are *)
(* below the sibling's, together they hold what the node held, neither is  *)
(* below the minimum of a page, and the node fits the threshold unless it  *)
(* has kept the minimum alone (node.go:271-310).                           *)
THEOREM SplitTwoSound ==
    ASSUME NEW R, NEW n, n.inodes \in Lists(R), Ordered(n.inodes),
           NEW pageSize, NEW threshold
    PROVE  LET two == splitTwo(n, pageSize, threshold)
               a == two.left
               b == two.right
           IN  /\ b # <<>> <=> Len(n.inodes) > 2 * minKeysPerPage /\ ~(size(n) < pageSize)
               /\ a \in Lists(R) /\ Ordered(a)
               /\ b \in Lists(R) /\ Ordered(b)
               /\ \A j \in KeysOf(a), k \in KeysOf(b) : j < k
               /\ a \o b = n.inodes
               /\ b # <<>> => /\ Len(a) >= minKeysPerPage /\ Len(b) > minKeysPerPage
                             /\ (Len(a) > minKeysPerPage =>
                                   size([n EXCEPT !.inodes = a]) <= threshold)
<1> DEFINE l == n.inodes
           cuts == Len(l) > 2 * minKeysPerPage /\ ~(size(n) < pageSize)
           few == Len(l) <= 2 * minKeysPerPage \/ size(n) < pageSize
           i == IF few THEN Len(l) ELSE splitIndex(n, threshold)
           a == SubSeq(l, 1, i)
           b == SubSeq(l, i + 1, Len(l))
<1>1. Len(l) \in Nat /\ l \in Seq([key : Int, ref : R]) /\ minKeysPerPage = 2
  BY LenProperties DEF Lists, minKeysPerPage
<1>2. splitTwo(n, pageSize, threshold) = [left |-> a, right |-> b]
  BY Zenon DEF splitTwo
<1> DEFINE m == size(n) < pageSize
<1>3. few <=> ~cuts
  <2> HIDE DEF m
  <2>1. (Len(l) <= 4 \/ m) <=> ~(Len(l) > 4 /\ ~m)
    BY <1>1
  <2> QED
    BY <1>1, <2>1 DEF m
<1>4. cuts => /\ i \in 2 .. Len(l) - 3
              /\ i > 2 => size([n EXCEPT !.inodes = a]) <= threshold
  <2>1. CASE cuts
    <3>1. /\ splitIndex(n, threshold) \in minKeysPerPage .. Len(l) - minKeysPerPage - 1
          /\ splitIndex(n, threshold) > minKeysPerPage =>
               size([n EXCEPT !.inodes = SubSeq(@, 1, splitIndex(n, threshold))]) <= threshold
      BY <1>1, <2>1, SplitIndexSound
    <3>2. i = splitIndex(n, threshold)
      BY <1>3, <2>1
    <3> HIDE DEF i
    <3>3. i \in 2 .. Len(l) - 3
      BY <1>1, <3>1, <3>2
    <3>4. [n EXCEPT !.inodes = a] = [n EXCEPT !.inodes = SubSeq(@, 1, i)]
      BY Zenon
    <3> HIDE DEF a
    <3>5. i > 2 => size([n EXCEPT !.inodes = a]) <= threshold
      BY <1>1, <3>1, <3>2, <3>4
    <3> QED
      BY <3>3, <3>5
  <2> QED
    BY <2>1
<1>5. ~cuts => i = Len(l)
  BY <1>3
<1> HIDE DEF cuts, few, i
<1>6. i \in 0 .. Len(l)
  BY <1>1, <1>4, <1>5
<1>7. /\ a \in Lists(R) /\ Ordered(a)
      /\ b \in Lists(R) /\ Ordered(b)
      /\ \A j \in KeysOf(a), k \in KeysOf(b) : j < k
      /\ a \o b = l
  BY <1>6, CutKeeps
<1>8. Len(a) = i /\ Len(b) = Len(l) - i
  <2>1. (\A j \in 1 .. i : l[j] \in [key : Int, ref : R])
        /\ (\A j \in i + 1 .. Len(l) : l[j] \in [key : Int, ref : R])
    <3> DEFINE S == [key : Int, ref : R]
    <3> HIDE DEF S
    <3>1. l \in Seq(S)
      BY <1>1 DEF S
    <3>2. \A j \in 1 .. Len(l) : l[j] \in S
      BY <3>1, LenProperties
    <3> QED
      BY <1>1, <1>6, <3>2 DEF S
  <2>2. Len(a) = IF 1 <= i THEN i - 1 + 1 ELSE 0
    BY <1>1, <1>6, <2>1, SubSeqProperties
  <2>3. Len(b) = IF i + 1 <= Len(l) THEN Len(l) - (i + 1) + 1 ELSE 0
    BY <1>1, <1>6, <2>1, SubSeqProperties
  <2> QED
    BY <1>1, <1>6, <2>2, <2>3
<1> HIDE DEF a, b
<1>9. b # <<>> <=> Len(b) > 0
  BY <1>1, <1>7, LenProperties, EmptySeq DEF Lists
<1>10. b # <<>> <=> cuts
  BY <1>1, <1>4, <1>5, <1>6, <1>8, <1>9
<1>11. b # <<>> => /\ Len(a) >= minKeysPerPage /\ Len(b) > minKeysPerPage
                   /\ (Len(a) > minKeysPerPage =>
                        size([n EXCEPT !.inodes = a]) <= threshold)
  <2>1. cuts => i \in 2 .. Len(l) - 3
    BY <1>4
  <2>2. cuts => Len(a) >= 2 /\ Len(b) > 2
    BY <1>1, <1>8, <2>1
  <2>3. cuts => (Len(a) > 2 => size([n EXCEPT !.inodes = a]) <= threshold)
    BY <1>4, <1>8
  <2> QED
    BY <1>1, <1>10, <2>2, <2>3
<1> DEFINE two == splitTwo(n, pageSize, threshold)
<1>12. two.left = a /\ two.right = b
  BY <1>2
<1> HIDE DEF two
<1> QED
  BY <1>7, <1>10, <1>11, <1>12, Zenon DEF cuts, two

-----------------------------------------------------------------------------
(* A branch leads each key to one child.                                   *)

(* The child whose keys begin at or below key, and its right neighbour's   *)
(* above it; the first child also has what is below its own key.           *)
Leads(l, key, i) ==
    /\ i \in 1 .. Len(l)
    /\ i = 1 \/ l[i].key <= key
    /\ i = Len(l) \/ key < l[i + 1].key

(* A descent reaches the one child whose range the key is in               *)
(* (cursor.go:274-315).                                                    *)
THEOREM DescendLeads ==
    ASSUME NEW R, NEW l \in Lists(R), Ordered(l), Len(l) > 0, NEW key \in Int
    PROVE  /\ Leads(l, key, Descend(l, key))
           /\ \A i : Leads(l, key, i) => i = Descend(l, key)
<1> DEFINE s == Search(l, key)
           d == Descend(l, key)
<1>1. Len(l) \in Nat /\ \A j \in 1 .. Len(l) : l[j].key \in Int
  BY ListIs
<1>2. /\ s \in 1 .. Len(l) + 1
      /\ s <= Len(l) => l[s].key >= key
      /\ \A j \in 1 .. s - 1 : l[j].key < key
  BY SearchIs DEF Belongs
<1>3. \A i, j \in 1 .. Len(l) : i < j => l[i].key < l[j].key
  BY DEF Ordered
<1>4. d = IF Found(l, s, key) \/ s = 1 THEN s ELSE s - 1
  BY DEF Descend
<1> HIDE DEF s, d
<1>5. Leads(l, key, d)
  <2>1. CASE Found(l, s, key)
    <3>1. s \in 1 .. Len(l) /\ l[s].key = key /\ d = s
      BY <1>1, <1>2, <1>4, <2>1 DEF Found
    <3>2. s # Len(l) => s + 1 \in 1 .. Len(l) /\ l[s].key < l[s + 1].key
      BY <1>1, <1>3, <3>1
    <3> QED
      BY <1>1, <3>1, <3>2 DEF Leads
  <2>2. CASE ~Found(l, s, key) /\ s = 1
    <3>1. l[1].key > key /\ d = 1
      BY <1>1, <1>2, <1>4, <2>2 DEF Found
    <3>2. 1 # Len(l) => l[1].key < l[2].key /\ l[2].key \in Int
      <4>1. 1 # Len(l) => 1 \in 1 .. Len(l) /\ 2 \in 1 .. Len(l) /\ 1 < 2
        <5> DEFINE n == Len(l)
        <5>1. n \in Nat /\ n > 0
          BY <1>1
        <5> HIDE DEF n
        <5>2. 1 # n => 1 \in 1 .. n /\ 2 \in 1 .. n /\ 1 < 2
          BY <5>1
        <5> QED
          BY <5>2 DEF n
      <4> QED
        BY <1>1, <1>3, <4>1
    <3> QED
      BY <1>1, <3>1, <3>2 DEF Leads
  <2>3. CASE ~Found(l, s, key) /\ s # 1
    <3>1. d = s - 1 /\ s - 1 \in 1 .. Len(l) /\ l[s - 1].key < key /\ (s - 1) + 1 = s
      BY <1>1, <1>2, <1>4, <2>3
    <3>2. s - 1 # Len(l) => s \in 1 .. Len(l) /\ l[s].key > key
      BY <1>1, <1>2, <2>3 DEF Found
    <3> QED
      BY <1>1, <3>1, <3>2 DEF Leads
  <2> QED
    BY <2>1, <2>2, <2>3
<1>6. ASSUME NEW i, Leads(l, key, i) PROVE i = d
  <2>1. ASSUME NEW x \in 1 .. Len(l), NEW y \in 1 .. Len(l), x < y,
               Leads(l, key, x), Leads(l, key, y)
        PROVE  FALSE
    <3>1. x + 1 \in 1 .. Len(l) /\ key < l[x + 1].key /\ l[y].key <= key
      BY <1>1, <2>1 DEF Leads
    <3>2. x + 1 = y \/ l[x + 1].key < l[y].key
      BY <1>1, <1>3, <2>1, <3>1
    <3> QED
      BY <1>1, <3>1, <3>2
  <2>2. i \in 1 .. Len(l) /\ d \in 1 .. Len(l)
    BY <1>5, <1>6 DEF Leads
  <2> QED
    BY <1>5, <1>6, <2>1, <2>2
<1> QED
  BY <1>5, <1>6 DEF d

(* When a node is split, its parent's put of the new part takes from the   *)
(* node the keys from the new one on, and no other key changes its way     *)
(* (node.go:381-394).                                                      *)
THEOREM SplitDivides ==
    ASSUME NEW R, NEW l \in Lists(R), Ordered(l), Len(l) > 0, NEW ref \in R,
           NEW new \in Int, new \notin KeysOf(l), l[1].key < new, NEW key \in Int
    PROVE  Child(put(l, new, new, ref), key) =
             IF Descend(l, key) = Descend(l, new) /\ key >= new THEN ref ELSE Child(l, key)
<1> DEFINE e == [key |-> new, ref |-> ref]
           p == Descend(l, new)
           d == Descend(l, key)
           m == put(l, new, new, ref)
<1>1. Len(l) \in Nat /\ \A j \in 1 .. Len(l) : l[j].key \in Int
  BY ListIs
<1>2. \A i, j \in 1 .. Len(l) : i < j => l[i].key < l[j].key
  BY DEF Ordered
<1>3. Leads(l, key, d) /\ Leads(l, new, p)
  BY DescendLeads
<1>4. m \in Lists(R) /\ Ordered(m)
  <2>1. InPlaceOf(l, new, new)
    BY DEF InPlaceOf
  <2> QED
    BY <2>1, PutUpdates
<1>5. p + 1 = Search(l, new) /\ m = InsertAt(l, p + 1, e)
  <2>1. ~Found(l, Search(l, new), new)
    BY SearchFinds
  <2>2. Search(l, new) \in 1 .. Len(l) + 1 /\ Search(l, new) # 1
    <3>1. /\ Search(l, new) \in 1 .. Len(l) + 1
          /\ Search(l, new) = 1 => l[1].key >= new
      <4>1. Belongs(l, new, Search(l, new))
        BY SearchIs
      <4>2. 1 <= Len(l)
        BY <1>1
      <4> QED
        BY <4>1, <4>2 DEF Belongs
    <3> QED
      BY <1>1, <3>1
  <2>3. m = InsertAt(l, Search(l, new), e)
    BY <2>1 DEF put
  <2> QED
    BY <1>1, <2>1, <2>2, <2>3 DEF Descend
<1> HIDE DEF e, p, d, m
<1>6. /\ p \in 1 .. Len(l) /\ l[p].key <= new /\ (p = Len(l) \/ new < l[p + 1].key)
      /\ d \in 1 .. Len(l) /\ (d = 1 \/ l[d].key <= key) /\ (d = Len(l) \/ key < l[d + 1].key)
  BY <1>1, <1>3 DEF Leads
<1>7. /\ Len(m) = Len(l) + 1
      /\ \A j \in 1 .. Len(l) + 1 : m[j] = IF j <= p THEN l[j] ELSE IF j = p + 1 THEN e ELSE l[j - 1]
  <2> DEFINE S == [key : Int, ref : R]
  <2>1. l \in Seq(S) /\ e \in S
    BY DEF Lists, e
  <2> HIDE DEF S
  <2>2. p + 1 \in 1 .. Len(l) + 1
    BY <1>1, <1>6
  <2>3. /\ Len(m) = Len(l) + 1
        /\ \A j \in 1 .. Len(l) + 1 :
             m[j] = IF j < p + 1 THEN l[j] ELSE IF j = p + 1 THEN e ELSE l[j - 1]
    <3> DEFINE q == p + 1
    <3>1. q \in 1 .. Len(l) + 1 /\ m = InsertAt(l, q, e)
      BY <1>5, <2>2
    <3> HIDE DEF q
    <3>2. HasInserted(InsertAt(l, q, e), l, q, e)
      BY <2>1, <3>1, InsertIs, Zenon
    <3> QED
      BY <3>1, <3>2 DEF q, HasInserted
  <2> QED
    BY <1>1, <1>6, <2>3
<1>8. e.key = new /\ e.ref = ref
  BY DEF e
<1>9. ASSUME NEW i, Leads(m, key, i) PROVE Child(m, key) = m[i].ref
  <2>1. Len(m) > 0
    BY <1>1, <1>7
  <2>2. i = Descend(m, key)
    BY <1>4, <1>9, <2>1, DescendLeads
  <2> QED
    BY <2>2 DEF Child
<1>10. Child(l, key) = l[d].ref
  BY DEF Child, d
<1>11. CASE d < p
  <2>1. /\ d \in 1 .. Len(m) /\ m[d] = l[d] /\ d # Len(m)
        /\ m[d + 1] = l[d + 1] /\ key < l[d + 1].key
    BY <1>1, <1>6, <1>7, <1>11
  <2>2. Leads(m, key, d)
    BY <1>6, <2>1 DEF Leads
  <2> QED
    BY <1>6, <1>9, <1>10, <1>11, <2>1, <2>2 DEF p, d, m
<1>12. CASE d = p /\ key < new
  <2>1. d \in 1 .. Len(m) /\ m[d] = l[d] /\ m[d + 1] = e
    BY <1>1, <1>6, <1>7, <1>12
  <2>2. Leads(m, key, d)
    BY <1>6, <1>8, <1>12, <2>1 DEF Leads
  <2> QED
    BY <1>9, <1>10, <1>12, <2>1, <2>2 DEF p, d, m
<1>13. CASE d = p /\ key >= new
  <2>1. p + 1 \in 1 .. Len(m) /\ m[p + 1] = e
    BY <1>1, <1>6, <1>7
  <2>2. p + 1 # Len(m) => m[(p + 1) + 1] = l[p + 1] /\ p # Len(l)
    BY <1>1, <1>6, <1>7
  <2>3. Leads(m, key, p + 1)
    BY <1>1, <1>6, <1>8, <1>13, <2>1, <2>2 DEF Leads
  <2> QED
    BY <1>8, <1>9, <1>13, <2>1, <2>3 DEF p, d, m
<1>14. CASE d > p
  <2>1. d + 1 \in 1 .. Len(m) /\ m[d + 1] = l[d] /\ l[d].key <= key
    BY <1>1, <1>6, <1>7, <1>14
  <2>2. d + 1 # Len(m) => m[(d + 1) + 1] = l[d + 1] /\ key < l[d + 1].key
    <3>1. d + 1 # Len(m) =>
            /\ d # Len(l) /\ (d + 1) + 1 \in 1 .. Len(l) + 1 /\ ((d + 1) + 1) - 1 = d + 1
            /\ ~((d + 1) + 1 <= p) /\ (d + 1) + 1 # p + 1
      <4>1. Len(m) = Len(l) + 1 /\ d \in 1 .. Len(l) /\ p \in 1 .. Len(l) /\ d > p
        BY <1>6, <1>7, <1>14
      <4> QED
        BY <1>1, <4>1
    <3>2. d + 1 # Len(m) => m[(d + 1) + 1] = l[((d + 1) + 1) - 1]
      BY <1>7, <3>1
    <3> QED
      BY <1>6, <3>1, <3>2
  <2>3. Leads(m, key, d + 1)
    BY <1>1, <1>6, <2>1, <2>2 DEF Leads
  <2>4. Child(m, key) = l[d].ref
    BY <1>9, <2>1, <2>3
  <2>5. d # p
    BY <1>1, <1>6, <1>14
  <2> QED
    BY <1>10, <2>4, <2>5 DEF p, d, m
<1> QED
  BY <1>1, <1>6, <1>11, <1>12, <1>13, <1>14

(* When a node is unlinked from its parent, its keys go to the neighbour   *)
(* it was merged with (rebalance merges to the left, and the second child  *)
(* with the first), or to the right one if an empty first child goes, and  *)
(* no other key changes its way (node.go:450-457, 467-506).                *)
THEOREM UnlinkJoins ==
    ASSUME NEW R, NEW l \in Lists(R), Ordered(l), Len(l) > 1, NEW i \in 1 .. Len(l),
           NEW key \in Int
    PROVE  Child(RemoveAt(l, i), key) =
             IF Descend(l, key) = i THEN l[IF i = 1 THEN 2 ELSE i - 1].ref ELSE Child(l, key)
<1> DEFINE d == Descend(l, key)
           m == RemoveAt(l, i)
<1>1. Len(l) \in Nat /\ \A j \in 1 .. Len(l) : l[j].key \in Int
  BY ListIs
<1>2. \A a, c \in 1 .. Len(l) : a < c => l[a].key < l[c].key
  BY DEF Ordered
<1>3. Leads(l, key, d)
  BY <1>1, DescendLeads
<1>4. m \in Lists(R) /\ Ordered(m)
  <2>1. l[i].key \in KeysOf(l) /\ l[i].key \in Int
    BY <1>1 DEF KeysOf
  <2>2. Search(l, l[i].key) = i
    BY <2>1, SearchFinds
  <2> QED
    BY <2>1, <2>2, RemoveForgets
<1>5. /\ Len(m) = Len(l) - 1
      /\ \A j \in 1 .. Len(l) - 1 : m[j] = IF j < i THEN l[j] ELSE l[j + 1]
  <2> DEFINE S == [key : Int, ref : R]
  <2>1. l \in Seq(S)
    BY DEF Lists
  <2> HIDE DEF S
  <2> QED
    BY <2>1, RemoveIs
<1> HIDE DEF d, m
<1>6. d \in 1 .. Len(l) /\ (d = 1 \/ l[d].key <= key) /\ (d = Len(l) \/ key < l[d + 1].key)
  BY <1>3 DEF Leads
<1>7. ASSUME NEW j, Leads(m, key, j) PROVE Child(m, key) = m[j].ref
  <2>1. Len(m) > 0
    BY <1>1, <1>5
  <2>2. j = Descend(m, key)
    BY <1>4, <1>7, <2>1, DescendLeads
  <2> QED
    BY <2>2 DEF Child
<1>8. Child(l, key) = l[d].ref
  BY DEF Child, d
<1>9. CASE d < i - 1
  <2>1. d \in 1 .. Len(m) /\ m[d] = l[d] /\ m[d + 1] = l[d + 1] /\ key < l[d + 1].key
    <3>1. /\ d \in 1 .. Len(l) - 1 /\ d + 1 \in 1 .. Len(l) - 1 /\ d < i /\ d + 1 < i
          /\ d # Len(l)
      BY <1>1, <1>6, <1>9
    <3> QED
      BY <1>5, <1>6, <3>1
  <2>2. Leads(m, key, d)
    BY <1>6, <2>1 DEF Leads
  <2> QED
    BY <1>6, <1>7, <1>8, <1>9, <2>1, <2>2 DEF d, m
<1>10. CASE d = i - 1
  <2>1. d \in 1 .. Len(m) /\ m[d] = l[d] /\ key < l[i].key
    BY <1>1, <1>5, <1>6, <1>10
  <2>2. d # Len(m) => m[d + 1] = l[i + 1] /\ i + 1 \in 1 .. Len(l) /\ l[i].key < l[i + 1].key
    <3>1. d # Len(m) => d + 1 \in 1 .. Len(l) - 1 /\ d + 1 = i /\ i + 1 \in 1 .. Len(l) /\ i < i + 1
      BY <1>1, <1>5, <1>6, <1>10
    <3>2. d # Len(m) => m[d + 1] = l[i + 1]
      BY <1>5, <3>1
    <3> QED
      BY <1>2, <3>1, <3>2
  <2>3. Leads(m, key, d)
    BY <1>1, <1>6, <2>1, <2>2 DEF Leads
  <2> QED
    BY <1>6, <1>7, <1>8, <1>10, <2>1, <2>3 DEF d, m
<1>11. CASE d = i /\ i = 1
  <2>1. 1 \in 1 .. Len(m) /\ m[1] = l[2]
    BY <1>1, <1>5, <1>11
  <2>2. 1 # Len(m) => m[2] = l[3] /\ 2 \in 1 .. Len(l) /\ 3 \in 1 .. Len(l) /\ key < l[2].key
    BY <1>1, <1>5, <1>6, <1>11
  <2>3. 1 # Len(m) => key < m[1 + 1].key
    BY <1>1, <1>2, <2>2
  <2>4. Leads(m, key, 1)
    BY <2>1, <2>3 DEF Leads
  <2> QED
    BY <1>7, <1>11, <2>1, <2>4 DEF d, m
<1>12. CASE d = i /\ i # 1
  <2>1. i - 1 \in 1 .. Len(m) /\ i - 1 \in 1 .. Len(l) /\ m[i - 1] = l[i - 1] /\ l[i].key <= key
    BY <1>1, <1>5, <1>6, <1>12
  <2>2. l[i - 1].key < l[i].key
    BY <1>2, <2>1
  <2>3. i - 1 # Len(m) => m[(i - 1) + 1] = l[i + 1] /\ i # Len(l)
    BY <1>1, <1>5, <1>12
  <2>4. Leads(m, key, i - 1)
    <3>1. m[i - 1].key <= key
      BY <1>1, <2>1, <2>2
    <3> QED
      BY <1>6, <1>12, <2>1, <2>3, <3>1 DEF Leads
  <2> QED
    BY <1>7, <1>12, <2>1, <2>4 DEF d, m
<1>13. CASE d > i
  <2>1. d - 1 \in 1 .. Len(m) /\ m[d - 1] = l[d] /\ l[d].key <= key
    BY <1>1, <1>5, <1>6, <1>13
  <2>2. d - 1 # Len(m) => m[(d - 1) + 1] = l[d + 1] /\ key < l[d + 1].key
    BY <1>1, <1>5, <1>6, <1>13
  <2>3. Leads(m, key, d - 1)
    BY <2>1, <2>2 DEF Leads
  <2> QED
    BY <1>6, <1>7, <1>8, <1>13, <2>1, <2>3 DEF d, m
<1> QED
  BY <1>1, <1>6, <1>9, <1>10, <1>11, <1>12, <1>13

-----------------------------------------------------------------------------
(* The pages of a transaction.                                             *)

(* A record that has the fields of a store, and others of its owner's.     *)
IsStore(t) ==
    /\ t = [f \in DOMAIN t |-> t[f]]
    /\ {"pages", "free", "pending", "hwm", "panic"} \subseteq DOMAIN t
    /\ t.pages = [pg \in DOMAIN t.pages |-> t.pages[pg]]
    /\ \A pg \in DOMAIN t.pages : pg \in Nat /\ t.pages[pg].overflow \in Nat
    /\ t.hwm \in Nat

StoreSound(t, first) ==
    /\ IsStore(t)
    /\ first \in Nat /\ first <= t.hwm
    /\ PagesPartitioned(t, first)

LEMMA PartitionIs ==
    ASSUME NEW t, NEW first, StoreSound(t, first)
    PROVE  /\ t.free \subseteq first .. t.hwm - 1
           /\ t.pending \subseteq first .. t.hwm - 1
           /\ \A pg \in Live(t) : /\ pg \in Nat /\ pg \in Extent(t, pg)
                                  /\ Extent(t, pg) \subseteq first .. t.hwm - 1
           /\ t.hwm \notin DOMAIN t.pages
           /\ t.free \cap DOMAIN t.pages = {}
<1>1. t.free \subseteq first .. t.hwm - 1 /\ t.pending \subseteq first .. t.hwm - 1
  BY DEF StoreSound, PagesPartitioned
<1>2. t.hwm \in Nat /\ first \in Nat
  BY DEF StoreSound, PagesPartitioned, IsStore
<1>3. ASSUME NEW pg \in Live(t)
      PROVE  /\ pg \in Nat /\ pg \in Extent(t, pg)
             /\ Extent(t, pg) \subseteq first .. t.hwm - 1
  <2>1. pg \in Nat /\ t.pages[pg].overflow \in Nat
    BY DEF Live, StoreSound, PagesPartitioned, IsStore
  <2>2. pg \in Extent(t, pg)
    BY <2>1 DEF Extent
  <2>3. Extent(t, pg) \subseteq first .. t.hwm - 1
    BY DEF StoreSound, PagesPartitioned
  <2> QED
    BY <2>1, <2>2, <2>3
<1>4. t.hwm \notin DOMAIN t.pages
  <2>1. t.hwm \notin first .. t.hwm - 1
    BY <1>2
  <2> QED
    BY <1>1, <1>3, <2>1 DEF Live
<1>5. ASSUME NEW pg \in t.free PROVE pg \notin DOMAIN t.pages
  <2>1. pg \notin t.pending
    BY DEF StoreSound, PagesPartitioned
  <2>2. pg \notin Live(t)
    BY <1>3 DEF StoreSound, PagesPartitioned
  <2> QED
    BY <2>1, <2>2 DEF Live
<1> QED
  BY <1>1, <1>3, <1>4, <1>5

(* Freeing a page in use makes its extent pending; freeing any other page  *)
(* of the file with a content, which is to free it twice, is the panic of  *)
(* freelist.free and changes nothing else (freelist.go:111-128).           *)
THEOREM FreePageKeeps ==
    ASSUME NEW t, NEW first, StoreSound(t, first), NEW pg \in DOMAIN t.pages
    PROVE  /\ StoreSound(FreePage(t, pg), first)
           /\ pg \in Live(t) =>
                /\ FreePage(t, pg).panic = t.panic
                /\ Live(FreePage(t, pg)) = Live(t) \ {pg}
                /\ FreePage(t, pg).pending = t.pending \cup Extent(t, pg)
           /\ pg \notin Live(t) => FreePage(t, pg).panic = TRUE
<1>1. IsStore(t)
  BY DEF StoreSound, PagesPartitioned
<1>2. /\ \A q \in Live(t) : q \in Extent(t, q) /\ Extent(t, q) \cap (t.free \cup t.pending) = {}
      /\ \A q, r \in Live(t) : q # r => Extent(t, q) \cap Extent(t, r) = {}
  BY PartitionIs DEF StoreSound, PagesPartitioned
<1>3. CASE pg \in Live(t)
  <2> DEFINE u == [t EXCEPT !.pending = @ \cup Extent(t, pg)]
  <2>1. FreePage(t, pg) = u
    BY <1>2, <1>3 DEF FreePage
  <2>2. /\ u.pages = t.pages /\ u.free = t.free /\ u.hwm = t.hwm /\ u.panic = t.panic
        /\ u.pending = t.pending \cup Extent(t, pg)
        /\ DOMAIN u = DOMAIN t /\ u = [f \in DOMAIN u |-> u[f]]
    BY <1>1 DEF IsStore
  <2> HIDE DEF u
  <2>3. IsStore(u)
    BY <1>1, <2>2 DEF IsStore
  <2>4. \A q : Extent(u, q) = Extent(t, q)
    BY <2>2 DEF Extent
  <2>5. Live(u) = Live(t) \ {pg}
    BY <1>2, <1>3, <2>2 DEF Live
  <2>6. u.free \cap u.pending = {}
    BY <1>2, <1>3, <2>2 DEF StoreSound, PagesPartitioned
  <2>7. /\ \A q \in Live(u) : Extent(u, q) \cap (u.free \cup u.pending) = {}
        /\ \A q, r \in Live(u) : q # r => Extent(u, q) \cap Extent(u, r) = {}
    BY <1>2, <1>3, <2>2, <2>4, <2>5
  <2>8. u.free \cup u.pending \cup UNION {Extent(u, q) : q \in Live(u)} = first .. u.hwm - 1
    <3>1. UNION {Extent(t, q) : q \in Live(t)} =
            Extent(t, pg) \cup UNION {Extent(u, q) : q \in Live(u)}
      BY <1>3, <2>4, <2>5
    <3> QED
      BY <2>2, <3>1 DEF StoreSound, PagesPartitioned
  <2>9. first \in Nat /\ first <= u.hwm
    BY <2>2 DEF StoreSound, PagesPartitioned
  <2>10. StoreSound(u, first)
    BY <2>3, <2>6, <2>7, <2>8, <2>9 DEF StoreSound, PagesPartitioned
  <2> QED
    BY <1>3, <2>1, <2>2, <2>5, <2>10
<1>4. CASE pg \notin Live(t)
  <2>1. pg \in t.pending /\ pg \in Extent(t, pg)
    BY <1>1, <1>4 DEF Live, IsStore, Extent
  <2> DEFINE u == [t EXCEPT !.panic = TRUE]
  <2>2. FreePage(t, pg) = u
    BY <2>1 DEF FreePage
  <2>3. /\ u.pages = t.pages /\ u.free = t.free /\ u.hwm = t.hwm /\ u.panic = TRUE
        /\ u.pending = t.pending
        /\ DOMAIN u = DOMAIN t /\ u = [f \in DOMAIN u |-> u[f]]
    BY <1>1 DEF IsStore
  <2> HIDE DEF u
  <2>4. IsStore(u)
    BY <1>1, <2>3 DEF IsStore
  <2>5. Live(u) = Live(t) /\ \A q : Extent(u, q) = Extent(t, q)
    BY <2>3 DEF Live, Extent
  <2>6. StoreSound(u, first)
    BY <2>3, <2>4, <2>5 DEF StoreSound, PagesPartitioned
  <2> QED
    BY <1>4, <2>2, <2>3, <2>6
<1> QED
  BY <1>3, <1>4

(* What db.allocate gives is the lowest run of free pages that is long     *)
(* enough or, if there is none, the pages from the high water mark on; it  *)
(* is never in use (db.go:987-1016).                                       *)
THEOREM AllocatedIsUnused ==
    ASSUME NEW t, NEW first, StoreSound(t, first), NEW count \in Nat \ {0}
    PROVE  LET pg == allocate(t, count)
               runs == {i \in t.free : i .. i + count - 1 \subseteq t.free}
           IN  /\ pg \in Nat \ DOMAIN t.pages
               /\ \A q \in Live(t) : Extent(t, q) \cap (pg .. pg + count - 1) = {}
               /\ (pg .. pg + count - 1) \cap t.pending = {}
               /\ runs # {} => pg \in runs /\ \A i \in runs : pg <= i
               /\ runs = {} => pg = t.hwm
<1> DEFINE runs == {i \in t.free : i .. i + count - 1 \subseteq t.free}
           pg == allocate(t, count)
<1>1. t.hwm \in Nat /\ first \in Nat
  BY DEF StoreSound, PagesPartitioned, IsStore
<1>2. CASE runs # {}
  <2>1. runs \in SUBSET Nat
    BY <1>1, PartitionIs
  <2>2. \E i \in runs : \A j \in runs : i <= j
    BY <1>2, <2>1, LeastNatural
  <2>3. pg = CHOOSE i \in runs : \A j \in runs : i <= j
    BY <1>2 DEF allocate
  <2>4. pg \in runs /\ \A j \in runs : pg <= j
    BY <2>2, <2>3
  <2>5. pg \in Nat /\ pg \in t.free /\ pg .. pg + count - 1 \subseteq t.free
    BY <2>1, <2>4
  <2> HIDE DEF runs, pg
  <2>6. pg \in Nat \ DOMAIN t.pages
    BY <2>5, PartitionIs
  <2>7. /\ \A q \in Live(t) : Extent(t, q) \cap (pg .. pg + count - 1) = {}
        /\ (pg .. pg + count - 1) \cap t.pending = {}
    BY <2>5 DEF StoreSound, PagesPartitioned
  <2> QED
    BY <1>2, <2>4, <2>6, <2>7 DEF runs, pg
<1>3. CASE runs = {}
  <2>1. pg = t.hwm
    BY <1>3 DEF allocate
  <2>2. (t.hwm .. t.hwm + count - 1) \cap (first .. t.hwm - 1) = {}
    BY <1>1
  <2>3. pg \in Nat \ DOMAIN t.pages
    BY <1>1, <2>1, PartitionIs
  <2>4. /\ \A q \in Live(t) : Extent(t, q) \cap (pg .. pg + count - 1) = {}
        /\ (pg .. pg + count - 1) \cap t.pending = {}
    BY <2>1, <2>2, PartitionIs
  <2> QED
    BY <1>3, <2>1, <2>3, <2>4
<1> QED
  BY <1>2, <1>3

(* A content put there takes its pages from the free ones, or from the end *)
(* of the file, and no other page changes (tx.go:457-471, node.go:367-379). *)
THEOREM PlaceKeeps ==
    ASSUME NEW t, NEW first, StoreSound(t, first), NEW content, content.overflow \in Nat
    PROVE  LET pg == allocate(t, content.overflow + 1)
               u == Place(t, pg, content)
           IN  /\ StoreSound(u, first)
               /\ Live(u) = Live(t) \cup {pg}
               /\ u.pages = [q \in DOMAIN t.pages \cup {pg} |-> IF q = pg THEN content ELSE t.pages[q]]
               /\ u.free \cup u.pending \subseteq t.free \cup t.pending
<1> DEFINE n == content.overflow
           pg == allocate(t, n + 1)
           run == pg .. pg + n
           u == Place(t, pg, content)
           runs == {i \in t.free : i .. i + (n + 1) - 1 \subseteq t.free}
<1>1. /\ IsStore(t) /\ t.hwm \in Nat /\ first \in Nat /\ first <= t.hwm /\ n \in Nat
      /\ t.free \subseteq first .. t.hwm - 1 /\ t.pending \subseteq first .. t.hwm - 1
  BY PartitionIs DEF StoreSound, PagesPartitioned, IsStore
<1>2. /\ pg \in Nat \ DOMAIN t.pages
      /\ \A q \in Live(t) : Extent(t, q) \cap (pg .. pg + (n + 1) - 1) = {}
      /\ (pg .. pg + (n + 1) - 1) \cap t.pending = {}
      /\ runs # {} => pg \in runs
      /\ runs = {} => pg = t.hwm
  <2>1. n + 1 \in Nat \ {0}
    BY <1>1
  <2> HIDE DEF n
  <2> QED
    BY <2>1, AllocatedIsUnused
<1>3. pg + (n + 1) - 1 = pg + n
  BY <1>1, <1>2
<1>4. \/ run \subseteq t.free /\ pg # t.hwm
      \/ pg = t.hwm
  <2> HIDE DEF pg, n
  <2>1. CASE runs # {}
    <3>1. pg \in t.free /\ pg .. pg + (n + 1) - 1 \subseteq t.free
      BY <1>2, <2>1
    <3>2. run \subseteq t.free
      BY <1>3, <3>1
    <3>3. pg # t.hwm
      BY <1>1, <3>1
    <3> QED
      BY <3>2, <3>3
  <2> QED
    BY <1>2, <2>1
<1>5. /\ \A q \in Live(t) : Extent(t, q) \cap run = {}
      /\ run \cap t.pending = {}
      /\ pg \in run /\ pg \notin DOMAIN t.pages
  <2>1. pg \in run
    <3> HIDE DEF pg, n
    <3> QED
      BY <1>1, <1>2
  <2> QED
    BY <1>2, <1>3, <2>1
<1>6. /\ u.pages = [q \in DOMAIN t.pages \cup {pg} |-> IF q = pg THEN content ELSE t.pages[q]]
      /\ u.free = t.free \ run /\ u.pending = t.pending
      /\ u.hwm = IF pg = t.hwm THEN (pg + n) + 1 ELSE t.hwm
      /\ DOMAIN u = DOMAIN t /\ u = [f \in DOMAIN u |-> u[f]]
  <2> DEFINE pages == [q \in DOMAIN t.pages \cup {pg} |-> IF q = pg THEN content ELSE t.pages[q]]
             hwm == IF pg = t.hwm THEN (pg + n) + 1 ELSE t.hwm
             x == [[[t EXCEPT !.free = t.free \ run] EXCEPT !.hwm = hwm]
                    EXCEPT !.pages = pages]
  <2>1. u = x
    <3> HIDE DEF pg
    <3> QED
      BY <1>1 DEF Place, IsStore
  <2> HIDE DEF pages, hwm, pg, n
  <2>2. /\ x.pages = pages
        /\ x.free = t.free \ run /\ x.pending = t.pending /\ x.hwm = hwm
        /\ DOMAIN x = DOMAIN t /\ x = [f \in DOMAIN x |-> x[f]]
    BY <1>1 DEF IsStore
  <2> HIDE DEF u, x
  <2> QED
    BY <2>1, <2>2 DEF pages, hwm
<1> HIDE DEF u, pg, n
<1>7. IsStore(u)
  BY <1>1, <1>2, <1>6 DEF IsStore, n
<1>8. Live(u) = Live(t) \cup {pg}
  BY <1>5, <1>6 DEF Live
<1>9. Extent(u, pg) = run /\ \A q \in Live(t) : Extent(u, q) = Extent(t, q)
  BY <1>5, <1>6 DEF Extent, Live, n
<1>10. first <= u.hwm
  BY <1>1, <1>2, <1>6
<1>11. u.free \cap u.pending = {}
  BY <1>6 DEF StoreSound, PagesPartitioned
<1>12. \A q \in Live(u) : Extent(u, q) \cap (u.free \cup u.pending) = {}
  BY <1>5, <1>6, <1>8, <1>9 DEF StoreSound, PagesPartitioned
<1>13. \A q, r \in Live(u) : q # r => Extent(u, q) \cap Extent(u, r) = {}
  BY <1>5, <1>8, <1>9 DEF StoreSound, PagesPartitioned
<1>14. u.free \cup u.pending \cup UNION {Extent(u, q) : q \in Live(u)} = first .. u.hwm - 1
  <2> DEFINE U == UNION {Extent(t, q) : q \in Live(t)}
  <2>1. UNION {Extent(u, q) : q \in Live(u)} = run \cup U
    <3>1. {Extent(u, q) : q \in Live(u)} = {run} \cup {Extent(t, q) : q \in Live(t)}
      BY <1>8, <1>9
    <3> QED
      BY <3>1
  <2>2. t.free \cup t.pending \cup U = first .. t.hwm - 1
    BY DEF StoreSound, PagesPartitioned
  <2> HIDE DEF U
  <2>3. CASE run \subseteq t.free /\ pg # t.hwm
    BY <1>6, <2>1, <2>2, <2>3
  <2>4. CASE pg = t.hwm
    <3>1. first .. ((pg + n) + 1) - 1 = (first .. t.hwm - 1) \cup run
      BY <1>1, <1>2, <2>4
    <3>2. t.free \ run = t.free
      BY <1>1, <2>4
    <3> QED
      BY <1>6, <2>1, <2>2, <2>4, <3>1, <3>2
  <2> QED
    BY <1>4, <2>3, <2>4
<1>15. StoreSound(u, first)
  BY <1>1, <1>7, <1>10, <1>11, <1>12, <1>13, <1>14 DEF StoreSound, PagesPartitioned
<1>16. u.free \cup u.pending \subseteq t.free \cup t.pending
  BY <1>6
<1> QED
  BY <1>6, <1>8, <1>15, <1>16 DEF u, pg, n

(* At the end of a transaction with no reader open what it freed may be    *)
(* allocated, and what it uses stays in use (freelist.go:132-144).         *)
THEOREM ReleasedKeeps ==
    ASSUME NEW t, NEW first, StoreSound(t, first)
    PROVE  /\ StoreSound(Released(t), first)
           /\ Live(Released(t)) = Live(t)
           /\ \A pg \in Live(t) : Released(t).pages[pg] = t.pages[pg]
           /\ Released(t).free = t.free \cup t.pending
<1> DEFINE u == Released(t)
<1>1. IsStore(t)
  BY DEF StoreSound, PagesPartitioned
<1>2. /\ u.pages = [pg \in Live(t) |-> t.pages[pg]]
      /\ u.free = t.free \cup t.pending /\ u.pending = {} /\ u.hwm = t.hwm
      /\ DOMAIN u = DOMAIN t /\ u = [f \in DOMAIN u |-> u[f]]
  <2> DEFINE pages == [pg \in DOMAIN t.pages \ t.pending |-> t.pages[pg]]
             x == [[[t EXCEPT !.pages = pages] EXCEPT !.free = t.free \cup t.pending]
                    EXCEPT !.pending = {}]
  <2>1. u = x
    BY <1>1 DEF Released, IsStore
  <2>2. pages = [pg \in Live(t) |-> t.pages[pg]]
    BY DEF Live
  <2> HIDE DEF pages
  <2>3. /\ x.pages = pages
        /\ x.free = t.free \cup t.pending /\ x.pending = {} /\ x.hwm = t.hwm
        /\ DOMAIN x = DOMAIN t /\ x = [f \in DOMAIN x |-> x[f]]
    BY <1>1 DEF IsStore
  <2> HIDE DEF u, x
  <2> QED
    BY <2>1, <2>2, <2>3
<1> HIDE DEF u
<1>3. IsStore(u)
  BY <1>1, <1>2 DEF IsStore, Live
<1>4. Live(u) = Live(t) /\ \A pg \in Live(t) : Extent(u, pg) = Extent(t, pg)
  BY <1>2 DEF Live, Extent
<1>5. UNION {Extent(u, pg) : pg \in Live(u)} = UNION {Extent(t, pg) : pg \in Live(t)}
  BY <1>4
<1>6. StoreSound(u, first)
  BY <1>2, <1>3, <1>4, <1>5 DEF StoreSound, PagesPartitioned
<1> QED
  BY <1>2, <1>4, <1>6 DEF u

=============================================================================
