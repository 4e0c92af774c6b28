--------------------------- MODULE FreelistProofs ---------------------------
(***************************************************************************)
(* Proofs about Freelist: its loops do what FreeSets says, for all lists.  *)
(***************************************************************************)
EXTENDS Freelist, SequenceTheorems, FiniteSetTheorems, TLAPS

Pages == 2 .. MaxPage

Ascending(s) == \A i, j \in 1 .. Len(s) : i < j => s[i] < s[j]

Distinct(s) == \A i, j \in 1 .. Len(s) : s[i] = s[j] => i = j

Disjoint(S, T) == S \cap T = {}

-----------------------------------------------------------------------------
(* The inductive invariant.                                                *)

TypeOK ==
    /\ ids \in Seq(Pages)
    /\ pending \in [Txids -> Seq(Pages)]
    /\ page \in [count : Nat, elems : Seq(Nat)]
    /\ txid \in Txids

(* No page is pending twice.                                               *)
PendingSound ==
    /\ \A t \in Txids : Distinct(pending[t])
    /\ \A t, u \in Txids : t # u => Disjoint(Range(pending[t]), Range(pending[u]))

(* What read restores: an ascending list, behind its length if need be.    *)
PageSound ==
    /\ PageIds \in Seq(Pages) /\ Ascending(PageIds)
    /\ IF page.count = CountLimit
         THEN /\ page.elems = <<Len(PageIds)>> \o PageIds
              /\ Len(PageIds) >= CountLimit
         ELSE page.count = Len(PageIds) /\ page.count < CountLimit

(* allocate: the last block that ids[1..i - 1] ends with is too short, and *)
(* no block that is long enough begins before it.                          *)
ScanSound ==
    LET len == call.previd - call.initial + 1 IN
    /\ call \in [at : {"scan"}, n : Sizes, i : 1 .. Len(ids) + 1,
                 initial : Nat, previd : Nat]
    /\ call.previd = 0 <=> call.i = 1
    /\ call.i > 1 =>
         /\ len \in 1 .. call.n - 1 /\ len < call.i
         /\ \A k \in 1 .. len : ids[call.i - k] = call.previd + 1 - k
         /\ \A s \in Fits(Range(ids), call.n) : call.initial <= s

(* What has been gathered, and what is left to gather.                     *)
GatherSound ==
    /\ call \in [at : {"gather"}, op : {"release", "write"},
                 tids : SUBSET Txids, m : Seq(Pages)]
    /\ Distinct(call.m)
    /\ Disjoint(Range(call.m), Range(ids))
    /\ \A t \in call.tids : Disjoint(Range(call.m), Range(pending[t]))
    /\ call.op = "release" => Disjoint(Range(call.m), PendingIds(pending))
    /\ call.op = "write" =>
         PendingIds(pending) = Range(call.m) \cup UNION {Range(pending[t]) : t \in call.tids}

(* mergepgids: what is merged is ascending and below the rest.             *)
MergeSound ==
    /\ call \in [at : {"merge"}, op : {"release", "write"}, count : Nat,
                 merged : Seq(Pages), lead : Seq(Pages), follow : Seq(Pages)]
    /\ Ascending(call.merged) /\ Ascending(call.lead) /\ Ascending(call.follow)
    /\ Disjoint(Range(call.lead), Range(call.follow))
    /\ \A p \in Range(call.merged), q \in Range(call.lead) \cup Range(call.follow) : p < q
    /\ call.lead # <<>> => call.follow # <<>>
    /\ call.count = Len(call.merged) + Len(call.lead) + Len(call.follow)
    /\ LET all == Range(call.merged) \cup Range(call.lead) \cup Range(call.follow) IN
         /\ Range(ids) \subseteq all
         /\ call.op = "release" => Disjoint(all, PendingIds(pending))
         /\ call.op = "write" => all = Range(ids) \cup PendingIds(pending)

(* reload: what has been kept of ids[1..i - 1].                            *)
ReloadSound ==
    /\ call \in [at : {"reload"}, i : 1 .. Len(ids) + 1, a : Seq(Pages)]
    /\ Ascending(call.a)
    /\ Range(call.a) = {ids[j] : j \in 1 .. call.i - 1} \ PendingIds(pending)

CallSound ==
    CASE call.at = "scan"   -> ScanSound
      [] call.at = "gather" -> GatherSound
      [] call.at = "merge"  -> MergeSound
      [] call.at = "reload" -> ReloadSound
      [] OTHER              -> call = Idle

IInv ==
    /\ TypeOK /\ PendingSound /\ PageSound /\ CallSound
    /\ Ascending(ids)
    /\ cache = FreeIds \cup PendingIds(pending)
    /\ call.at # "reload" => Disjoint(Range(ids), PendingIds(pending))

-----------------------------------------------------------------------------
(* Lists.                                                                  *)

LEMMA RangeIs ==
    ASSUME NEW S, NEW s \in Seq(S)
    PROVE  /\ Range(s) = {s[i] : i \in 1 .. Len(s)}
           /\ Range(s) \in SUBSET S
           /\ Len(s) \in Nat
           /\ s = <<>> <=> Len(s) = 0
           /\ s = <<>> <=> Range(s) = {}
<1>1. /\ Len(s) \in Nat /\ DOMAIN s = 1 .. Len(s)
      /\ \A i \in 1 .. Len(s) : s[i] \in S
  BY LenProperties, ElementOfSeq
<1>2. s = <<>> <=> Len(s) = 0
  BY <1>1, EmptySeq
<1>3. Range(s) = {s[i] : i \in 1 .. Len(s)}
  BY <1>1 DEF Range
<1>4. Range(s) = {} <=> Len(s) = 0
  BY <1>1, <1>3
<1> QED
  BY <1>1, <1>2, <1>3, <1>4

LEMMA ConcatIs ==
    ASSUME NEW S, NEW s \in Seq(S), NEW t \in Seq(S)
    PROVE  /\ s \o t \in Seq(S)
           /\ Len(s \o t) = Len(s) + Len(t)
           /\ Range(s \o t) = Range(s) \cup Range(t)
  BY ConcatProperties, RangeConcatenation

LEMMA ConcatAscending ==
    ASSUME NEW s \in Seq(Nat), NEW t \in Seq(Nat), Ascending(s), Ascending(t),
           \A p \in Range(s), q \in Range(t) : p < q
    PROVE  Ascending(s \o t)
<1>1. /\ Len(s) \in Nat /\ Len(t) \in Nat /\ Len(s \o t) = Len(s) + Len(t)
      /\ \A i \in 1 .. Len(s) + Len(t) :
           (s \o t)[i] = IF i <= Len(s) THEN s[i] ELSE t[i - Len(s)]
  BY ConcatProperties, LenProperties
<1>2. SUFFICES ASSUME NEW i \in 1 .. Len(s) + Len(t),
                      NEW j \in 1 .. Len(s) + Len(t), i < j
               PROVE  (s \o t)[i] < (s \o t)[j]
  BY <1>1 DEF Ascending
<1>3. CASE j <= Len(s)
  BY <1>1, <1>2, <1>3 DEF Ascending
<1>4. CASE i > Len(s)
  <2>1. i - Len(s) \in 1 .. Len(t) /\ j - Len(s) \in 1 .. Len(t)
    BY <1>1, <1>2, <1>4
  <2>2. i - Len(s) < j - Len(s)
    BY <1>1, <1>2
  <2>3. t[i - Len(s)] < t[j - Len(s)]
    BY <2>1, <2>2 DEF Ascending
  <2> QED
    BY <1>1, <1>2, <1>4, <2>3
<1>5. CASE i <= Len(s) /\ j > Len(s)
  <2>1. i \in 1 .. Len(s) /\ j - Len(s) \in 1 .. Len(t)
    BY <1>1, <1>2, <1>5
  <2>2. s[i] \in Range(s) /\ t[j - Len(s)] \in Range(t)
    <3>1. Range(s) = {s[k] : k \in 1 .. Len(s)} /\ Range(t) = {t[k] : k \in 1 .. Len(t)}
      BY RangeIs
    <3> QED
      BY <2>1, <3>1
  <2> QED
    BY <1>1, <1>5, <2>2
<1>6. j <= Len(s) \/ i > Len(s) \/ (i <= Len(s) /\ j > Len(s))
  BY <1>1
<1> QED
  BY <1>3, <1>4, <1>5, <1>6

LEMMA ConcatDistinct ==
    ASSUME NEW S, NEW s \in Seq(S), NEW t \in Seq(S), Distinct(s), Distinct(t),
           Disjoint(Range(s), Range(t))
    PROVE  Distinct(s \o t)
<1>1. /\ Len(s) \in Nat /\ Len(t) \in Nat /\ Len(s \o t) = Len(s) + Len(t)
      /\ \A i \in 1 .. Len(s) + Len(t) :
           (s \o t)[i] = IF i <= Len(s) THEN s[i] ELSE t[i - Len(s)]
  BY ConcatProperties, LenProperties
<1>2. ASSUME NEW i \in 1 .. Len(s), NEW j \in 1 .. Len(t)
      PROVE  s[i] # t[j]
  <2>1. Range(s) = {s[k] : k \in 1 .. Len(s)} /\ Range(t) = {t[k] : k \in 1 .. Len(t)}
    BY RangeIs
  <2>2. s[i] \in Range(s) /\ t[j] \in Range(t)
    BY <2>1
  <2> QED
    BY <2>2 DEF Disjoint
<1>3. SUFFICES ASSUME NEW i \in 1 .. Len(s) + Len(t),
                      NEW j \in 1 .. Len(s) + Len(t), i < j,
                      (s \o t)[i] = (s \o t)[j]
               PROVE  FALSE
  BY <1>1 DEF Distinct
<1>4. CASE j <= Len(s)
  BY <1>1, <1>3, <1>4 DEF Distinct
<1>5. CASE i > Len(s)
  <2>1. i - Len(s) \in 1 .. Len(t) /\ j - Len(s) \in 1 .. Len(t)
    BY <1>1, <1>3, <1>5
  <2>2. t[i - Len(s)] = t[j - Len(s)]
    BY <1>1, <1>3, <1>5
  <2>3. i - Len(s) = j - Len(s)
    BY <2>1, <2>2 DEF Distinct
  <2> QED
    BY <1>1, <1>3, <2>3
<1>6. CASE i <= Len(s) /\ j > Len(s)
  <2>1. i \in 1 .. Len(s) /\ j - Len(s) \in 1 .. Len(t)
    BY <1>1, <1>3, <1>6
  <2> QED
    BY <1>1, <1>2, <1>3, <1>6, <2>1
<1> QED
  BY <1>1, <1>3, <1>4, <1>5, <1>6

LEMMA SliceIs ==
    ASSUME NEW S, NEW s \in Seq(S), NEW m \in Nat \ {0}, NEW n \in Nat,
           n <= Len(s), m <= n + 1
    PROVE  /\ SubSeq(s, m, n) \in Seq(S)
           /\ Len(SubSeq(s, m, n)) = n - m + 1
           /\ \A i \in 1 .. n - m + 1 : SubSeq(s, m, n)[i] = s[m + i - 1]
           /\ Range(SubSeq(s, m, n)) = {s[i] : i \in m .. n}
<1>1. Len(s) \in Nat /\ \A i \in m .. n : s[i] \in S
  BY LenProperties, ElementOfSeq
<1>2. /\ SubSeq(s, m, n) \in Seq(S)
      /\ Len(SubSeq(s, m, n)) = n - m + 1
      /\ \A i \in 1 .. n - m + 1 : SubSeq(s, m, n)[i] = s[m + i - 1]
  BY <1>1, SubSeqProperties
<1>3. Range(SubSeq(s, m, n)) = {SubSeq(s, m, n)[i] : i \in 1 .. n - m + 1}
  <2>1. Range(SubSeq(s, m, n)) = {SubSeq(s, m, n)[i] : i \in 1 .. Len(SubSeq(s, m, n))}
    BY <1>2, RangeIs
  <2> QED
    BY <1>2, <2>1
<1>4. \A k \in m .. n : k - m + 1 \in 1 .. n - m + 1 /\ m + (k - m + 1) - 1 = k
  OBVIOUS
<1>5. \A i \in 1 .. n - m + 1 : m + i - 1 \in m .. n
  OBVIOUS
<1>6. Range(SubSeq(s, m, n)) \subseteq {s[i] : i \in m .. n}
  BY <1>2, <1>3, <1>5
<1>7. {s[i] : i \in m .. n} \subseteq Range(SubSeq(s, m, n))
  <2>1. \A k \in m .. n : s[k] = SubSeq(s, m, n)[k - m + 1]
    BY <1>2, <1>4
  <2> QED
    BY <1>3, <1>4, <2>1
<1> QED
  BY <1>2, <1>6, <1>7

LEMMA SliceAscending ==
    ASSUME NEW s \in Seq(Nat), NEW m \in Nat \ {0}, NEW n \in Nat,
           n <= Len(s), m <= n + 1, Ascending(s)
    PROVE  Ascending(SubSeq(s, m, n))
<1>1. Len(s) \in Nat
  BY LenProperties
<1>2. SUFFICES ASSUME NEW i \in 1 .. n - m + 1, NEW j \in 1 .. n - m + 1, i < j
               PROVE  s[m + i - 1] < s[m + j - 1]
  <2>1. /\ Len(SubSeq(s, m, n)) = n - m + 1
        /\ \A i \in 1 .. n - m + 1 : SubSeq(s, m, n)[i] = s[m + i - 1]
    BY SliceIs
  <2> QED
    BY <2>1 DEF Ascending
<1>3. m + i - 1 \in 1 .. Len(s) /\ m + j - 1 \in 1 .. Len(s) /\ m + i - 1 < m + j - 1
  BY <1>1, <1>2
<1> QED
  BY <1>3 DEF Ascending

(* A list cut in two.                                                      *)
LEMMA CutIs ==
    ASSUME NEW s \in Seq(Nat), NEW n \in 0 .. Len(s), Ascending(s)
    PROVE  LET l == SubSeq(s, 1, n)
               r == SubSeq(s, n + 1, Len(s))
           IN  /\ Len(l) = n /\ Len(r) = Len(s) - n
               /\ Ascending(l) /\ Ascending(r)
               /\ Range(l) = {s[i] : i \in 1 .. n}
               /\ Range(r) = {s[i] : i \in n + 1 .. Len(s)}
               /\ Range(s) = Range(l) \cup Range(r)
               /\ \A p \in Range(l), q \in Range(r) : p < q
<1>1. Len(s) \in Nat /\ n \in Nat
  BY LenProperties
<1> DEFINE l == SubSeq(s, 1, n)
           r == SubSeq(s, n + 1, Len(s))
<1>2. Len(l) = n /\ Range(l) = {s[i] : i \in 1 .. n} /\ Ascending(l)
  BY <1>1, SliceIs, SliceAscending
<1>3. /\ Len(r) = Len(s) - n /\ Range(r) = {s[i] : i \in n + 1 .. Len(s)}
      /\ Ascending(r)
  BY <1>1, SliceIs, SliceAscending
<1>4. Range(s) = {s[i] : i \in 1 .. Len(s)}
  BY RangeIs
<1>5. 1 .. Len(s) = (1 .. n) \cup (n + 1 .. Len(s))
  BY <1>1
<1>6. Range(s) = Range(l) \cup Range(r)
  BY <1>2, <1>3, <1>4, <1>5
<1>7. \A i \in 1 .. n, j \in n + 1 .. Len(s) : s[i] < s[j]
  BY <1>1 DEF Ascending
<1>8. \A p \in Range(l), q \in Range(r) : p < q
  BY <1>2, <1>3, <1>7
<1> QED
  BY <1>2, <1>3, <1>6, <1>8

(* A list without the n elements that end with the i-th one and are       *)
(* contiguous.                                                             *)
Block(s, i, n, start) ==
    /\ i \in 1 .. Len(s) /\ n \in Nat \ {0} /\ n <= i
    /\ start \in Nat /\ s[i] = start + n - 1
    /\ \A k \in 0 .. n - 1 : s[i - k] = s[i] - k

Cut(s, i, n) == SubSeq(s, 1, i - n) \o SubSeq(s, i + 1, Len(s))

LEMMA WithoutBlock ==
    ASSUME NEW S \in SUBSET Nat, NEW s \in Seq(S), Ascending(s),
           NEW i, NEW n, NEW start, Block(s, i, n, start)
    PROVE  /\ Cut(s, i, n) \in Seq(S) /\ Ascending(Cut(s, i, n))
           /\ Run(start, n) \subseteq Range(s)
           /\ Range(Cut(s, i, n)) = Range(s) \ Run(start, n)
<1> USE DEF Block
<1>0. s \in Seq(Nat)
  BY SeqMonotonic
<1> DEFINE l == SubSeq(s, 1, i - n)
           r == SubSeq(s, i + 1, Len(s))
<1>1. /\ Len(s) \in Nat /\ i \in Nat /\ i - n \in Nat /\ i - n <= Len(s)
      /\ 1 \in Nat \ {0} /\ 1 <= i - n + 1
      /\ i + 1 \in Nat \ {0} /\ i + 1 <= Len(s) + 1 /\ Len(s) <= Len(s)
      /\ s \in Seq(Nat)
  BY <1>0, LenProperties
<1>2. Range(s) = {s[j] : j \in 1 .. Len(s)} /\ \A j \in 1 .. Len(s) : s[j] \in Nat
  BY <1>0, RangeIs, ElementOfSeq
<1>3. /\ l \in Seq(S) /\ l \in Seq(Nat) /\ Ascending(l)
      /\ Range(l) = {s[j] : j \in 1 .. i - n}
  <2>1. PICK m \in Nat : m = i - n
    BY <1>1
  <2>2. m <= Len(s) /\ 1 <= m + 1
    BY <1>1, <2>1
  <2>3. SubSeq(s, 1, m) \in Seq(S) /\ Range(SubSeq(s, 1, m)) = {s[j] : j \in 1 .. m}
    BY <1>1, <2>2, SliceIs
  <2>4. SubSeq(s, 1, m) \in Seq(Nat)
    BY <1>1, <2>2, SliceIs
  <2>5. Ascending(SubSeq(s, 1, m))
    BY <1>1, <2>2, SliceAscending
  <2> QED
    BY <2>1, <2>3, <2>4, <2>5
<1>4. /\ r \in Seq(S) /\ r \in Seq(Nat) /\ Ascending(r)
      /\ Range(r) = {s[j] : j \in i + 1 .. Len(s)}
  <2>1. PICK m \in Nat \ {0} : m = i + 1
    BY <1>1
  <2>2. m <= Len(s) + 1 /\ Len(s) \in Nat /\ Len(s) <= Len(s)
    BY <1>1, <2>1
  <2>3. SubSeq(s, m, Len(s)) \in Seq(S)
    BY <2>2, SliceIs
  <2>4. SubSeq(s, m, Len(s)) \in Seq(Nat)
    BY <1>0, <2>2, SliceIs
  <2>6. Range(SubSeq(s, m, Len(s))) = {s[j] : j \in m .. Len(s)}
    BY <2>2, SliceIs
  <2>5. Ascending(SubSeq(s, m, Len(s)))
    BY <1>1, <2>2, SliceAscending
  <2> QED
    BY <2>1, <2>3, <2>4, <2>5, <2>6
<1> HIDE DEF l, r
<1>5. \A j, k \in 1 .. Len(s) : j < k => s[j] < s[k]
  BY DEF Ascending
<1>6. \A j \in 1 .. i - n : j \in 1 .. Len(s)
  BY <1>1
<1>7. \A j \in i + 1 .. Len(s) : j \in 1 .. Len(s)
  BY <1>1
<1>8. \A j \in i - n + 1 .. i : j \in 1 .. Len(s)
  BY <1>1
<1>9. \A p \in Range(l), q \in Range(r) : p < q
  <2>1. SUFFICES ASSUME NEW j \in 1 .. i - n, NEW k \in i + 1 .. Len(s)
                 PROVE  s[j] < s[k]
    BY <1>3, <1>4
  <2>2. j < k
    BY <1>1
  <2> QED
    BY <1>5, <1>6, <1>7, <2>2
<1>10. l \o r \in Seq(S) /\ Range(l \o r) = Range(l) \cup Range(r)
  <2>1. l \in Seq(S) /\ r \in Seq(S)
    BY <1>3, <1>4
  <2> QED
    BY <2>1, ConcatIs
<1>11. Ascending(l \o r)
  BY <1>3, <1>4, <1>9, ConcatAscending
<1>12. Run(start, n) = {s[j] : j \in i - n + 1 .. i}
  <2>1. ASSUME NEW x \in Run(start, n)
        PROVE  \E j \in i - n + 1 .. i : x = s[j]
    <3>1. x \in Int /\ x >= start /\ x <= s[i] /\ s[i] \in Nat
      BY <1>2 DEF Run
    <3>2. PICK k \in Int : k = s[i] - x
      BY <3>1
    <3>3. k \in 0 .. n - 1 /\ i - k \in i - n + 1 .. i
      BY <1>1, <3>1, <3>2
    <3>4. s[i - k] = s[i] - k
      BY <3>3
    <3>5. s[i] - k = x
      BY <3>1, <3>2
    <3> QED
      BY <3>3, <3>4, <3>5
  <2>2. ASSUME NEW j \in i - n + 1 .. i
        PROVE  s[j] \in Run(start, n)
    <3>1. PICK k \in Int : k = i - j
      BY <1>1
    <3>2. k \in 0 .. n - 1 /\ i - k = j
      BY <1>1, <3>1
    <3>3. s[j] = s[i] - k
      BY <3>2
    <3>4. s[j] = start + n - 1 - k
      BY <3>3
    <3> QED
      BY <3>2, <3>4 DEF Run
  <2> QED
    BY <2>1, <2>2
<1>13. Run(start, n) \subseteq Range(s)
  BY <1>2, <1>8, <1>12
<1>14. ASSUME NEW j \in 1 .. Len(s), NEW k \in 1 .. Len(s), s[j] = s[k]
       PROVE  j = k
  <2>1. s[j] \in Nat /\ s[k] \in Nat
    BY <1>2
  <2>2. ~ (j < k) /\ ~ (k < j)
    BY <1>5, <1>14, <2>1
  <2> QED
    BY <2>2
<1>15. Range(l \o r) \subseteq Range(s) \ Run(start, n)
  <2>1. ASSUME NEW j \in (1 .. i - n) \cup (i + 1 .. Len(s))
        PROVE  s[j] \in Range(s) /\ s[j] \notin Run(start, n)
    <3>1. j \in 1 .. Len(s)
      BY <1>6, <1>7
    <3>2. \A k \in i - n + 1 .. i : k # j
      BY <1>1
    <3>3. \A k \in i - n + 1 .. i : s[k] # s[j]
      BY <1>8, <1>14, <3>1, <3>2
    <3> QED
      BY <1>2, <1>12, <3>1, <3>3
  <2> QED
    BY <1>3, <1>4, <1>10, <2>1
<1>16. Range(s) \ Run(start, n) \subseteq Range(l \o r)
  <2>1. ASSUME NEW j \in 1 .. Len(s), s[j] \notin Run(start, n)
        PROVE  s[j] \in Range(l \o r)
    <3>1. j \notin i - n + 1 .. i
      BY <1>12, <2>1
    <3>2. j \in 1 .. i - n \/ j \in i + 1 .. Len(s)
      BY <1>1, <3>1
    <3> QED
      BY <1>3, <1>4, <1>10, <3>2
  <2> QED
    BY <1>2, <2>1
<1> QED
  BY <1>10, <1>11, <1>13, <1>15, <1>16 DEF l, r, Cut

LEMMA SameInterval ==
    ASSUME NEW m \in Nat, NEW n \in Nat, 1 .. m = 1 .. n
    PROVE  m = n
<1>1. CASE m < n
  BY <1>1, n \in 1 .. n, n \notin 1 .. m
<1>2. CASE n < m
  BY <1>2, m \in 1 .. m, m \notin 1 .. n
<1> QED
  BY <1>1, <1>2

(* Sorting a list without duplicates.                                      *)
LEMMA SortedIs ==
    ASSUME NEW S \in SUBSET Nat, NEW s \in Seq(S), Distinct(s), NEW r \in Sortings(s)
    PROVE  /\ r \in Seq(S) /\ Len(r) = Len(s)
           /\ Range(r) = Range(s) /\ Ascending(r)
<1>1. Len(s) \in Nat /\ DOMAIN s = 1 .. Len(s) /\ \A i \in 1 .. Len(s) : s[i] \in S
  BY LenProperties, ElementOfSeq
<1>2. PICK p \in Bijection(1 .. Len(s), 1 .. Len(s)) :
        /\ r = [i \in 1 .. Len(s) |-> s[p[i]]]
        /\ \A i, j \in DOMAIN r : i < j => r[i] <= r[j]
  BY <1>1 DEF Sortings
<1>3. /\ p \in [1 .. Len(s) -> 1 .. Len(s)]
      /\ \A j \in 1 .. Len(s) : \E i \in 1 .. Len(s) : p[i] = j
      /\ \A i, j \in 1 .. Len(s) : p[i] = p[j] => i = j
  BY DEF Bijection, Injection, Surjection, IsInjective
<1>5. r \in Seq(S) /\ Len(r) = Len(s)
  <2>1. r \in [1 .. Len(s) -> S] /\ DOMAIN r = 1 .. Len(s)
    BY <1>1, <1>2, <1>3
  <2>2. r \in Seq(S)
    BY <1>1, <2>1, SeqDef
  <2>3. Len(r) \in Nat /\ DOMAIN r = 1 .. Len(r)
    BY <2>2, LenProperties
  <2>4. 1 .. Len(r) = 1 .. Len(s)
    BY <2>1, <2>3
  <2>5. Len(r) = Len(s)
    BY <1>1, <2>3, <2>4, SameInterval
  <2> QED
    BY <2>2, <2>5
<1>6. Range(r) = Range(s)
  <2>1. Range(r) = {r[i] : i \in 1 .. Len(s)} /\ Range(s) = {s[i] : i \in 1 .. Len(s)}
    BY <1>5, RangeIs
  <2>2. \A i \in 1 .. Len(s) : p[i] \in 1 .. Len(s) /\ r[i] = s[p[i]]
    BY <1>2, <1>3
  <2>3. Range(r) \subseteq Range(s)
    BY <2>1, <2>2
  <2>4. ASSUME NEW j \in 1 .. Len(s)
        PROVE  s[j] \in Range(r)
    <3>1. PICK i \in 1 .. Len(s) : p[i] = j
      BY <1>3
    <3> QED
      BY <2>1, <2>2, <3>1
  <2>5. Range(s) \subseteq Range(r)
    BY <2>1, <2>4
  <2> QED
    BY <2>3, <2>5
<1>7. Ascending(r)
  <2>1. SUFFICES ASSUME NEW i \in 1 .. Len(s), NEW j \in 1 .. Len(s), i < j
                 PROVE  r[i] < r[j]
    BY <1>5 DEF Ascending
  <2>2. r[i] \in Nat /\ r[j] \in Nat /\ r[i] <= r[j]
    BY <1>1, <1>2, <1>3, <2>1
  <2>3. r[i] # r[j]
    <3>0. i # j
      BY <1>1, <2>1
    <3>1. p[i] \in 1 .. Len(s) /\ p[j] \in 1 .. Len(s) /\ p[i] # p[j]
      BY <1>3, <3>0
    <3>2. s[p[i]] # s[p[j]]
      BY <3>1 DEF Distinct
    <3> QED
      BY <1>2, <3>2
  <2> QED
    BY <2>2, <2>3
<1> QED
  BY <1>5, <1>6, <1>7

LEMMA AscendingDistinct ==
    ASSUME NEW s \in Seq(Nat), Ascending(s)
    PROVE  Distinct(s)
<1>1. Len(s) \in Nat /\ \A i \in 1 .. Len(s) : s[i] \in Nat
  BY LenProperties, ElementOfSeq
<1> QED
  BY <1>1 DEF Distinct, Ascending

LEMMA CardinalityIs ==
    ASSUME NEW s \in Seq(Nat), Ascending(s)
    PROVE  Cardinality(Range(s)) = Len(s)
<1>1. Len(s) \in Nat /\ s \in [1 .. Len(s) -> Nat] /\ Distinct(s)
  BY LenProperties, AscendingDistinct
<1>2. Range(s) = {s[i] : i \in 1 .. Len(s)}
  BY RangeIs
<1>3. s \in Bijection(1 .. Len(s), Range(s))
  <2>1. s \in [1 .. Len(s) -> Range(s)]
    BY <1>1, <1>2
  <2>2. \A x \in Range(s) : \E i \in 1 .. Len(s) : s[i] = x
    BY <1>2
  <2>3. \A i, j \in 1 .. Len(s) : s[i] = s[j] => i = j
    BY <1>1 DEF Distinct
  <2> QED
    BY <2>1, <2>2, <2>3 DEF Bijection, Injection, Surjection, IsInjective
<1>4. ExistsBijection(1 .. Len(s), Range(s))
  BY <1>3 DEF ExistsBijection
<1>5. IsFiniteSet(1 .. Len(s)) /\ Cardinality(1 .. Len(s)) = Len(s)
  <2>1. 1 \in Int /\ Len(s) \in Int
    BY <1>1
  <2>2. /\ IsFiniteSet(1 .. Len(s))
        /\ Cardinality(1 .. Len(s)) = IF 1 > Len(s) THEN 0 ELSE Len(s) - 1 + 1
    BY <2>1, FS_Interval, Zenon
  <2> QED
    BY <1>1, <2>2
<1> QED
  BY <1>4, <1>5, FS_Bijection

-----------------------------------------------------------------------------
(* What read finds on the page.                                            *)

LEMMA PageIs ==
    ASSUME TypeOK, PageSound
    PROVE  /\ PageIds \in Seq(Pages) /\ PageIds \in Seq(Nat)
           /\ Len(PageIds) \in Nat
           /\ Range(PageIds) \in SUBSET Pages
           /\ Cardinality(Range(PageIds)) = Len(PageIds)
<1>1. PageIds \in Seq(Pages) /\ Ascending(PageIds) /\ Pages \subseteq Nat
  BY DEF PageSound, Pages
<1>2. PageIds \in Seq(Nat)
  BY <1>1, SeqMonotonic
<1>3. Cardinality(Range(PageIds)) = Len(PageIds)
  BY <1>1, <1>2, CardinalityIs
<1> QED
  BY <1>1, <1>2, <1>3, RangeIs

(* The ids behind their number, without the last one.                      *)
LEMMA CountedSlice ==
    ASSUME NEW s \in Seq(Nat), Len(s) > 0
    PROVE  /\ (<<Len(s)>> \o s)[1] = Len(s)
           /\ SubSeq(<<Len(s)>> \o s, 2, Len(s)) = SubSeq(s, 1, Len(s) - 1)
<1> DEFINE e == <<Len(s)>> \o s
<1>1. Len(s) \in Nat /\ \A i \in 1 .. Len(s) : s[i] \in Nat
  BY LenProperties, ElementOfSeq
<1>2. <<Len(s)>> \in Seq(Nat) /\ Len(<<Len(s)>>) = 1 /\ <<Len(s)>>[1] = Len(s)
  BY <1>1
<1>3. /\ e \in Seq(Nat) /\ Len(e) = 1 + Len(s)
      /\ \A i \in 1 .. 1 + Len(s) : e[i] = IF i <= 1 THEN <<Len(s)>>[i] ELSE s[i - 1]
  BY <1>2, ConcatProperties
<1>4. e[1] = Len(s)
  BY <1>1, <1>2, <1>3
<1>5. \A i \in 2 .. Len(s) + 1 : e[i] = s[i - 1]
  BY <1>1, <1>3
<1> HIDE DEF e
<1>6. /\ Len(s) - 1 \in Nat /\ Len(s) - 1 <= Len(s) /\ 1 <= Len(s) - 1 + 1
      /\ Len(s) \in Nat /\ Len(s) <= Len(e) /\ 2 <= Len(s) + 1
      /\ 1 \in Nat \ {0} /\ 2 \in Nat \ {0}
  BY <1>1, <1>3
<1>7. /\ SubSeq(e, 2, Len(s)) \in Seq(Nat) /\ Len(SubSeq(e, 2, Len(s))) = Len(s) - 2 + 1
      /\ \A i \in 1 .. Len(s) - 2 + 1 : SubSeq(e, 2, Len(s))[i] = e[2 + i - 1]
  <2>1. e \in Seq(Nat)
    BY <1>3
  <2>2. PICK n \in Nat : n = Len(s)
    BY <1>1
  <2>3. n <= Len(e) /\ 2 <= n + 1 /\ 2 \in Nat \ {0}
    BY <1>6, <2>2
  <2>4. /\ SubSeq(e, 2, n) \in Seq(Nat) /\ Len(SubSeq(e, 2, n)) = n - 2 + 1
        /\ \A i \in 1 .. n - 2 + 1 : SubSeq(e, 2, n)[i] = e[2 + i - 1]
    BY <2>1, <2>3, SliceIs
  <2> QED
    BY <2>2, <2>4
<1>8. /\ SubSeq(s, 1, Len(s) - 1) \in Seq(Nat) /\ Len(SubSeq(s, 1, Len(s) - 1)) = Len(s) - 1 - 1 + 1
      /\ \A i \in 1 .. Len(s) - 1 - 1 + 1 : SubSeq(s, 1, Len(s) - 1)[i] = s[1 + i - 1]
  <2>1. PICK n \in Nat : n = Len(s) - 1
    BY <1>6
  <2>2. n <= Len(s) /\ 1 <= n + 1
    BY <1>6, <2>1
  <2>3. /\ SubSeq(s, 1, n) \in Seq(Nat) /\ Len(SubSeq(s, 1, n)) = n - 1 + 1
        /\ \A i \in 1 .. n - 1 + 1 : SubSeq(s, 1, n)[i] = s[1 + i - 1]
    BY <1>6, <2>2, SliceIs
  <2> QED
    BY <2>1, <2>3
<1>9. ASSUME NEW i \in 1 .. Len(s) - 1
      PROVE  SubSeq(e, 2, Len(s))[i] = SubSeq(s, 1, Len(s) - 1)[i]
  <2>1. SubSeq(e, 2, Len(s))[i] = e[2 + i - 1] /\ SubSeq(s, 1, Len(s) - 1)[i] = s[1 + i - 1]
    BY <1>1, <1>7, <1>8
  <2>2. 2 + i - 1 = i + 1 /\ 1 + i - 1 = i /\ i + 1 \in 2 .. Len(s) + 1 /\ i + 1 - 1 = i
    BY <1>1
  <2>3. e[i + 1] = s[i + 1 - 1]
    BY <1>5, <2>2
  <2> QED
    BY <2>1, <2>2, <2>3
<1>10. SubSeq(e, 2, Len(s)) = SubSeq(s, 1, Len(s) - 1)
  <2>1. /\ Len(SubSeq(e, 2, Len(s))) = Len(SubSeq(s, 1, Len(s) - 1))
        /\ Len(SubSeq(e, 2, Len(s))) = Len(s) - 1
    BY <1>1, <1>7, <1>8
  <2> QED
    BY <1>7, <1>8, <1>9, <2>1, SeqEqual
<1> QED
  BY <1>4, <1>10 DEF e

(* From CountLimit ids on, ReadBack leaves out the largest id.             *)
LEMMA ReadBackIs ==
    ASSUME NEW s \in Seq(Nat), Ascending(s)
    PROVE  /\ Len(s) < CountLimit => ReadBack(Range(s)) = Range(s)
           /\ Len(s) >= CountLimit =>
                ReadBack(Range(s)) = Range(SubSeq(s, 1, Len(s) - 1))
<1>1. Len(s) \in Nat
  BY LenProperties
<1>2. CountLimit \in Nat /\ CountLimit > 0
  BY FreelistAssumption
<1>3. Cardinality(Range(s)) = Len(s)
  BY CardinalityIs
<1>4. Range(s) = {s[i] : i \in 1 .. Len(s)}
  BY RangeIs
<1>5. CASE Len(s) < CountLimit
  <2>1. ~ (Len(s) >= CountLimit)
    BY <1>1, <1>2, <1>5
  <2> QED
    BY <1>3, <2>1 DEF ReadBack
<1>6. CASE Len(s) >= CountLimit
  <2>1. Len(s) - 1 \in Nat /\ Len(s) - 1 <= Len(s) /\ 1 <= Len(s) - 1 + 1
    BY <1>1, <1>2, <1>6
  <2>2. Range(SubSeq(s, 1, Len(s) - 1)) = {s[i] : i \in 1 .. Len(s) - 1}
    <3>1. PICK n \in Nat : n = Len(s) - 1
      BY <2>1
    <3>2. n <= Len(s) /\ 1 <= n + 1 /\ 1 \in Nat \ {0}
      BY <2>1, <3>1
    <3>3. Range(SubSeq(s, 1, n)) = {s[i] : i \in 1 .. n}
      BY <3>2, SliceIs
    <3> QED
      BY <3>1, <3>3
  <2>3. ReadBack(Range(s)) = {id \in Range(s) : \E other \in Range(s) : id < other}
    BY <1>3, <1>6 DEF ReadBack
  <2>4. ASSUME NEW i \in 1 .. Len(s), NEW j \in 1 .. Len(s), s[i] < s[j]
        PROVE  i \in 1 .. Len(s) - 1
    <3>1. s[i] \in Nat /\ s[j] \in Nat
      BY ElementOfSeq
    <3>2. ~ (j < i)
      BY <2>4, <3>1 DEF Ascending
    <3>3. j # i
      BY <2>4, <3>1
    <3> QED
      BY <1>1, <3>2, <3>3
  <2>5. Len(s) \in 1 .. Len(s)
    BY <1>1, <2>1
  <2>6. ASSUME NEW i \in 1 .. Len(s) - 1
        PROVE  s[i] \in Range(s) /\ s[Len(s)] \in Range(s) /\ s[i] < s[Len(s)]
    <3>1. i \in 1 .. Len(s) /\ i < Len(s)
      BY <1>1
    <3> QED
      BY <1>4, <2>5, <3>1 DEF Ascending
  <2>7. \A i \in 1 .. Len(s) - 1 : s[i] \in ReadBack(Range(s))
    BY <2>3, <2>6
  <2>8. ReadBack(Range(s)) \subseteq {s[i] : i \in 1 .. Len(s) - 1}
    BY <1>4, <2>3, <2>4
  <2>9. {s[i] : i \in 1 .. Len(s) - 1} \subseteq ReadBack(Range(s))
    BY <2>7
  <2>10. ReadBack(Range(s)) = Range(SubSeq(s, 1, Len(s) - 1))
    BY <2>2, <2>8, <2>9
  <2>11. ~ (Len(s) < CountLimit)
    BY <1>1, <1>2, <1>6
  <2> QED
    BY <2>10, <2>11
<1> QED
  BY <1>1, <1>2, <1>5, <1>6

LEMMA ReadIdsIs ==
    ASSUME TypeOK, PageSound
    PROVE  /\ ReadIds(page) \in Seq(Pages) /\ Ascending(ReadIds(page))
           /\ Distinct(ReadIds(page))
           /\ Range(ReadIds(page)) = ReadBack(Range(PageIds))
<1>1. /\ PageIds \in Seq(Pages) /\ PageIds \in Seq(Nat) /\ Len(PageIds) \in Nat
      /\ Ascending(PageIds) /\ CountLimit \in Nat \ {0}
  BY PageIs, FreelistAssumption DEF PageSound
<1>2. CASE page.count # CountLimit
  <2>1. page.elems = PageIds /\ page.count = Len(PageIds) /\ Len(PageIds) < CountLimit
    BY <1>2 DEF PageSound, PageIds
  <2>2. ReadIds(page) = SubSeq(PageIds, 1, Len(PageIds))
    BY <1>2, <2>1 DEF ReadIds
  <2>3. ReadIds(page) = PageIds
    BY <1>1, <2>2, SubSeqFull
  <2>4. ReadBack(Range(PageIds)) = Range(PageIds)
    BY <1>1, <2>1, ReadBackIs
  <2> QED
    BY <1>1, <2>3, <2>4, AscendingDistinct
<1>3. CASE page.count = CountLimit
  <2>1. page.elems = <<Len(PageIds)>> \o PageIds /\ Len(PageIds) >= CountLimit
    BY <1>3 DEF PageSound
  <2>2. Len(PageIds) > 0 /\ Len(PageIds) - 1 \in Nat /\ Len(PageIds) - 1 <= Len(PageIds)
        /\ 1 <= Len(PageIds) - 1 + 1
    BY <1>1, <2>1
  <2>3. ReadIds(page) = SubSeq(page.elems, 2, page.elems[1])
    BY <1>3 DEF ReadIds
  <2>4. ReadIds(page) = SubSeq(PageIds, 1, Len(PageIds) - 1)
    BY <1>1, <2>1, <2>2, <2>3, CountedSlice
  <2>5. ReadBack(Range(PageIds)) = Range(SubSeq(PageIds, 1, Len(PageIds) - 1))
    BY <1>1, <2>1, ReadBackIs
  <2>6. /\ SubSeq(PageIds, 1, Len(PageIds) - 1) \in Seq(Pages)
        /\ SubSeq(PageIds, 1, Len(PageIds) - 1) \in Seq(Nat)
        /\ Ascending(SubSeq(PageIds, 1, Len(PageIds) - 1))
    BY <1>1, <2>2, SliceIs, SliceAscending
  <2> QED
    BY <2>4, <2>5, <2>6, AscendingDistinct
<1> QED
  BY <1>2, <1>3

(* Reading the page into ids, after rollback or Open.                      *)
LEMMA ReadingIs ==
    ASSUME TypeOK, PageSound, NEW s \in Sortings(ReadIds(page))
    PROVE  /\ s \in Seq(Pages) /\ Ascending(s)
           /\ Range(s) = ReadBack(Range(PageIds))
<1>1. Pages \in SUBSET Nat
  BY DEF Pages
<1> QED
  BY <1>1, ReadIdsIs, SortedIs

-----------------------------------------------------------------------------
(* Each step keeps the invariant and is a step of FreeSets.                *)

SetsStep == [Sets!Next]_(Sets!vars)

LEMMA Known ==
    ASSUME IInv
    PROVE  /\ Pages \in SUBSET Nat /\ \A p \in Pages : p > 1
           /\ ids \in Seq(Pages) /\ ids \in Seq(Nat) /\ Len(ids) \in Nat
           /\ Range(ids) = {ids[i] : i \in 1 .. Len(ids)}
           /\ Range(ids) \in SUBSET Pages
           /\ \A i \in 1 .. Len(ids) : ids[i] \in Pages /\ ids[i] \in Range(ids)
           /\ \A t \in Txids : pending[t] \in Seq(Pages) /\ Range(pending[t]) \in SUBSET Pages
           /\ txid \in Txids /\ Txids \in SUBSET Nat
<1>1. Pages \in SUBSET Nat /\ \A p \in Pages : p > 1
  BY DEF Pages
<1>2. ids \in Seq(Pages) /\ ids \in Seq(Nat)
  BY <1>1, SeqMonotonic DEF IInv, TypeOK
<1>3. /\ Len(ids) \in Nat /\ Range(ids) = {ids[i] : i \in 1 .. Len(ids)}
      /\ Range(ids) \in SUBSET Pages
  BY <1>2, RangeIs
<1>4. \A i \in 1 .. Len(ids) : ids[i] \in Pages /\ ids[i] \in Range(ids)
  BY <1>2, <1>3, ElementOfSeq
<1>5. \A t \in Txids : pending[t] \in Seq(Pages) /\ Range(pending[t]) \in SUBSET Pages
  BY RangeIs DEF IInv, TypeOK
<1>6. txid \in Txids /\ Txids \in SUBSET Nat
  BY DEF IInv, TypeOK, Txids
<1> QED
  BY <1>1, <1>2, <1>3, <1>4, <1>5, <1>6

(* The pairs of some transactions.                                         *)
PairsOf(pend, T) == UNION {{t} \X Range(pend[t]) : t \in T}

LEMMA PairsAre ==
    ASSUME NEW pend, NEW T
    PROVE  /\ \A t, x : <<t, x>> \in PairsOf(pend, T) <=> t \in T /\ x \in Range(pend[t])
           /\ \A pr \in PairsOf(pend, T) :
                \E t \in T : \E x \in Range(pend[t]) : pr = <<t, x>>
           /\ PendingPages(PairsOf(pend, T)) = UNION {Range(pend[t]) : t \in T}
<1>1. \A t, x : <<t, x>> \in PairsOf(pend, T) <=> t \in T /\ x \in Range(pend[t])
  BY DEF PairsOf
<1>2. \A pr \in PairsOf(pend, T) : \E t \in T : \E x \in Range(pend[t]) : pr = <<t, x>>
  BY DEF PairsOf
<1>3. PendingPages(PairsOf(pend, T)) \subseteq UNION {Range(pend[t]) : t \in T}
  BY <1>2 DEF PendingPages
<1>4. ASSUME NEW t \in T, NEW x \in Range(pend[t])
      PROVE  x \in PendingPages(PairsOf(pend, T))
  <2>1. <<t, x>> \in PairsOf(pend, T) /\ <<t, x>>[2] = x
    BY <1>1
  <2> QED
    BY <2>1 DEF PendingPages
<1> QED
  BY <1>1, <1>2, <1>3, <1>4

LEMMA Stutters ==
    ASSUME FreeIds' = FreeIds, PendingPairs' = PendingPairs,
           page' = page, txid' = txid, got' = got
    PROVE  SetsStep
<1>1. Range(PageIds)' = Range(PageIds)
  BY DEF PageIds, Range
<1> QED
  BY <1>1 DEF SetsStep, Sets!vars

(* A step that only moves the call on.                                     *)
LEMMA CallMoves ==
    ASSUME IInv, UNCHANGED <<ids, pending, cache, page, txid, got>>,
           FreeIds' = FreeIds, Releasing' = Releasing, CallSound',
           call.at = "reload" => call'.at = "reload"
    PROVE  IInv' /\ SetsStep
<1>1. TypeOK' /\ PendingSound' /\ PageSound' /\ Ascending(ids)'
  BY DEF IInv, TypeOK, PendingSound, PageSound, PageIds, Ascending
<1>2. /\ cache' = FreeIds' \cup PendingIds(pending)'
      /\ call'.at # "reload" => Disjoint(Range(ids), PendingIds(pending))'
  BY DEF IInv, PendingIds
<1>3. PendingPairs' = PendingPairs
  BY DEF PendingPairs
<1> QED
  BY <1>1, <1>2, <1>3, Stutters DEF IInv

LEMMA AllocateStep ==
    ASSUME IInv, NEW n \in Sizes, Allocate(n)
    PROVE  IInv' /\ SetsStep
<1>1. /\ call.at = "idle" /\ call' = [at |-> "scan", n |-> n, i |-> 1, initial |-> 0, previd |-> 0]
      /\ UNCHANGED <<ids, pending, cache, page, txid, got>>
  BY DEF Allocate, Idle
<1>2. call'.at = "scan" /\ call'.i = 1 /\ call'.previd = 0
  BY <1>1
<1>3. FreeIds = Range(ids) /\ FreeIds' = Range(ids) /\ Releasing = {} /\ Releasing' = {}
  BY <1>1, <1>2 DEF FreeIds, Releasing
<1>4. ScanSound'
  <2>1. 1 \in 1 .. Len(ids) + 1
    BY Known
  <2>2. call' \in [at : {"scan"}, n : Sizes, i : 1 .. Len(ids) + 1, initial : Nat, previd : Nat]
    BY <1>1, <2>1
  <2> QED
    BY <1>1, <1>2, <2>2 DEF ScanSound
<1>5. CallSound'
  BY <1>2, <1>4 DEF CallSound
<1> QED
  BY <1>1, <1>3, <1>5, CallMoves

(* The block that ends with ids[i] is the first that may be long enough.   *)
LEMMA ScanTurn ==
    ASSUME IInv, call.at = "scan", NEW i \in 1 .. Len(ids), i = call.i,
           NEW start, start = BlockStart(call.initial, call.previd, ids[i])
    PROVE  /\ start \in Nat /\ ids[i] - start + 1 \in 1 .. call.n
           /\ ids[i] - start + 1 <= i
           /\ \A k \in 0 .. ids[i] - start : ids[i - k] = ids[i] - k
           /\ \A s \in Fits(Range(ids), call.n) : start <= s
<1>1. ScanSound
  BY DEF IInv, CallSound
<1>2. /\ call.n \in Nat \ {0} /\ call.initial \in Nat /\ call.previd \in Nat
      /\ i \in Nat /\ i >= 1 /\ ids[i] \in Nat
      /\ \A j \in 1 .. Len(ids) : ids[j] \in Nat
  <2>1. call.n \in Sizes /\ call.initial \in Nat /\ call.previd \in Nat
    BY <1>1 DEF ScanSound
  <2>2. \A j \in 1 .. Len(ids) : ids[j] \in Nat
    BY Known
  <2>3. Len(ids) \in Nat
    BY Known
  <2>4. call.n \in Nat \ {0}
    BY <2>1, SizesAssumption
  <2>5. i \in Nat /\ i >= 1 /\ ids[i] \in Nat
    BY <2>2, <2>3
  <2> QED
    BY <2>1, <2>2, <2>4, <2>5
<1>3. ASSUME NEW s \in Fits(Range(ids), call.n)
      PROVE  /\ s \in Nat /\ \E j \in 1 .. Len(ids) : s = ids[j]
             /\ \A x \in s .. s + call.n - 1 : \E j \in 1 .. Len(ids) : x = ids[j]
  BY <1>2, Known DEF Fits, Run
<1>4. CASE i = 1
  <2>1. call.previd = 0 /\ start = ids[i]
    BY <1>1, <1>4 DEF ScanSound, BlockStart
  <2>2. ASSUME NEW s \in Fits(Range(ids), call.n)
        PROVE  start <= s
    <3>1. PICK j \in 1 .. Len(ids) : s = ids[j]
      BY <1>3
    <3>2. j = 1 \/ (1 < j /\ ids[1] < ids[j])
      BY <1>4 DEF IInv, Ascending
    <3> QED
      BY <1>2, <1>4, <2>1, <3>1, <3>2
  <2> QED
    BY <1>2, <1>4, <2>1, <2>2
<1> DEFINE len == call.previd - call.initial + 1
<1>5. ASSUME i > 1
      PROVE  /\ call.previd # 0 /\ len \in 1 .. call.n - 1 /\ len < i
             /\ \A k \in 1 .. len : ids[i - k] = call.previd + 1 - k
             /\ \A s \in Fits(Range(ids), call.n) : call.initial <= s
             /\ i - 1 \in 1 .. Len(ids) /\ ids[i - 1] = call.previd
             /\ call.previd < ids[i]
  <2>1. /\ call.previd # 0 /\ len \in 1 .. call.n - 1 /\ len < i
        /\ \A k \in 1 .. len : ids[i - k] = call.previd + 1 - k
        /\ \A s \in Fits(Range(ids), call.n) : call.initial <= s
    BY <1>1, <1>2, <1>5 DEF ScanSound
  <2>2. i - 1 \in 1 .. Len(ids) /\ i - 1 < i /\ 1 \in 1 .. len
    <3>1. PICK l \in 1 .. call.n - 1 : l = len
      BY <2>1
    <3>2. 1 \in 1 .. l
      BY <1>2
    <3> QED
      BY <1>2, <1>5, <3>1, <3>2
  <2>3. ids[i - 1] = call.previd
    BY <1>2, <2>1, <2>2
  <2>4. ids[i - 1] < ids[i]
    BY <2>2 DEF IInv, Ascending
  <2> QED
    BY <2>1, <2>2, <2>3, <2>4
<1>6. CASE i > 1 /\ ids[i] = call.previd + 1
  <2>1. start = call.initial
    BY <1>5, <1>6 DEF BlockStart
  <2>2. ids[i] - start + 1 = len + 1
    BY <1>2, <1>6, <2>1
  <2>3. ASSUME NEW k \in 0 .. ids[i] - start
        PROVE  ids[i - k] = ids[i] - k
    <3>1. CASE k = 0
      BY <1>2, <3>1
    <3>2. CASE k > 0
      <4>1. k \in 1 .. len
        BY <1>2, <1>6, <2>1, <3>2
      <4> QED
        BY <1>2, <1>5, <1>6, <4>1
    <3> QED
      BY <1>2, <2>1, <3>1, <3>2
  <2> QED
    <3>1. ids[i] - start + 1 \in 1 .. call.n /\ ids[i] - start + 1 <= i
      <4>1. len \in Nat /\ len >= 1 /\ len <= call.n - 1 /\ len < i
        BY <1>2, <1>5, <1>6
      <4> HIDE DEF len
      <4> QED
        BY <1>2, <2>2, <4>1
    <3>2. start \in Nat /\ \A s \in Fits(Range(ids), call.n) : start <= s
      BY <1>2, <1>5, <1>6, <2>1
    <3> QED
      BY <2>3, <3>1, <3>2
<1>7. CASE i > 1 /\ ids[i] # call.previd + 1
  <2>1. start = ids[i]
    BY <1>7 DEF BlockStart
  <2>2. ASSUME NEW s \in Fits(Range(ids), call.n), s < ids[i]
        PROVE  FALSE
    <3>1. PICK j \in 1 .. Len(ids) : s = ids[j]
      BY <1>3
    <3>2. ~ (i <= j)
      BY <1>2, <2>2, <3>1 DEF IInv, Ascending
    <3>3. s <= call.previd
      <4>1. j = i - 1 \/ j < i - 1
        BY <1>2, <3>2
      <4>2. ids[j] = ids[i - 1] \/ ids[j] < ids[i - 1]
        BY <1>5, <1>7, <4>1 DEF IInv, Ascending
      <4> QED
        BY <1>2, <1>5, <1>7, <3>1, <4>2
    <3>4. call.initial <= s /\ s \in Nat
      BY <1>3, <1>5, <1>7
    <3>5. call.previd + 1 \in s .. s + call.n - 1
      <4>1. PICK p \in Nat, q \in Nat, n \in Nat \ {0} :
              p = call.previd /\ q = call.initial /\ n = call.n
        BY <1>2
      <4>2. s <= p /\ q <= s /\ p - q + 1 \in 1 .. n - 1
        BY <1>5, <1>7, <3>3, <3>4, <4>1
      <4>3. p + 1 \in s .. s + n - 1
        BY <3>4, <4>2
      <4> QED
        BY <4>1, <4>3
    <3>6. PICK l \in 1 .. Len(ids) : call.previd + 1 = ids[l]
      BY <1>3, <3>5
    <3>7. ids[l] < ids[i]
      BY <1>2, <1>5, <1>7, <3>6
    <3>8. ~ (i <= l)
      BY <1>2, <3>7 DEF IInv, Ascending
    <3>9. l = i - 1 \/ l < i - 1
      BY <1>2, <3>8
    <3>10. ids[l] = ids[i - 1] \/ ids[l] < ids[i - 1]
      BY <1>5, <1>7, <3>9 DEF IInv, Ascending
    <3> QED
      BY <1>2, <1>5, <1>7, <3>6, <3>10
  <2>3. \A s \in Fits(Range(ids), call.n) : start <= s
    BY <1>2, <1>3, <2>1, <2>2
  <2>4. ids[i] - start + 1 = 1 /\ ids[i] - start = 0 /\ start \in Nat
    BY <1>2, <2>1
  <2>5. 1 \in 1 .. call.n /\ 1 <= i
    BY <1>2
  <2>6. \A k \in 0 .. 0 : ids[i - k] = ids[i] - k
    BY <1>2
  <2>7. \A k \in 0 .. ids[i] - start : ids[i - k] = ids[i] - k
    BY <2>4, <2>6
  <2>8. ids[i] - start + 1 \in 1 .. call.n /\ ids[i] - start + 1 <= i
    BY <2>4, <2>5
  <2> QED
    BY <2>3, <2>4, <2>7, <2>8
<1> QED
  BY <1>2, <1>4, <1>6, <1>7

LEMMA ScanStep ==
    ASSUME IInv, Scan
    PROVE  IInv' /\ SetsStep
<1>1. call.at = "scan" /\ ScanSound /\ call.i \in 1 .. Len(ids) + 1 /\ call.n \in Sizes
  BY DEF Scan, IInv, CallSound, ScanSound
<1>0. PICK start : start = BlockStart(call.initial, call.previd, ids[call.i])
  OBVIOUS
<1>2. PICK i \in 1 .. Len(ids), n \in Nat \ {0} :
        i = call.i /\ n = call.n /\ start = BlockStart(call.initial, call.previd, ids[i])
  <2>1. call.i <= Len(ids) /\ Len(ids) \in Nat
    BY Known DEF Scan
  <2>2. call.i \in 1 .. Len(ids)
    BY <1>1, <2>1
  <2>3. call.n \in Nat \ {0}
    BY <1>1, SizesAssumption
  <2> QED
    BY <1>0, <2>2, <2>3
<1>3. /\ start \in Nat /\ ids[i] - start + 1 \in 1 .. n
      /\ ids[i] - start + 1 <= i
      /\ \A k \in 0 .. ids[i] - start : ids[i - k] = ids[i] - k
      /\ \A s \in Fits(Range(ids), n) : start <= s
  BY <1>1, <1>2, ScanTurn
<1>4. /\ ids \in Seq(Pages) /\ ids \in Seq(Nat) /\ Len(ids) \in Nat /\ Ascending(ids)
      /\ ids[i] \in Nat /\ ids[i] \in Pages /\ ids[i] > 1 /\ i \in Nat /\ i <= Len(ids) /\ i > 0
  <2>1. ids[i] \in Pages /\ ids[i] \in Nat /\ ids[i] > 1
    BY Known
  <2>2. ids \in Seq(Pages) /\ ids \in Seq(Nat) /\ Len(ids) \in Nat /\ Ascending(ids)
    BY Known DEF IInv
  <2> QED
    BY <2>1, <2>2
<1>5. UNCHANGED <<pending, page, txid>>
  BY DEF Scan
<1>6. FreeIds = Range(ids) /\ Releasing = {}
  BY <1>1 DEF FreeIds, Releasing
<1>7. PendingIds(pending)' = PendingIds(pending) /\ PendingSound' /\ PageSound'
  BY <1>5 DEF IInv, PendingSound, PageSound, PageIds, PendingIds
<1>8. cache = Range(ids) \cup PendingIds(pending) /\ Disjoint(Range(ids), PendingIds(pending))
  BY <1>1, <1>6 DEF IInv
<1>9. CASE /\ ids[i] - start + 1 = n
           /\ ids' = SubSeq(ids, 1, i - n) \o SubSeq(ids, i + 1, Len(ids))
           /\ cache' = cache \ Run(start, n) /\ got' = start /\ call' = Idle
  <2>1. n <= i /\ ids[i] = start + n - 1 /\ ids[i] - start = n - 1
    <3>1. start \in Nat /\ ids[i] \in Nat /\ ids[i] - start + 1 = n /\ ids[i] - start + 1 <= i
      BY <1>3, <1>4, <1>9
    <3> QED
      BY <3>1
  <2>2. \A k \in 0 .. n - 1 : ids[i - k] = ids[i] - k
    BY <1>3, <2>1
  <2>3. /\ ids' \in Seq(Pages) /\ Ascending(ids')
        /\ Run(start, n) \subseteq Range(ids)
        /\ Range(ids') = Range(ids) \ Run(start, n)
    <3>1. n <= i /\ start \in Nat /\ ids[i] = start + n - 1
      BY <1>3, <2>1
    <3>2. Block(ids, i, n, start)
      BY <2>2, <3>1 DEF Block
    <3>3. ids' = Cut(ids, i, n)
      BY <1>9 DEF Cut
    <3>4. ids \in Seq(Pages) /\ Pages \in SUBSET Nat /\ Ascending(ids)
      BY <1>4, Known
    <3> QED
      BY <3>2, <3>3, <3>4, WithoutBlock
  <2>4. call'.at = "idle" /\ FreeIds' = Range(ids') /\ Releasing' = {}
    BY <1>9 DEF Idle, FreeIds, Releasing
  <2>5. IInv'
    <3>1. TypeOK'
      BY <1>5, <2>3 DEF IInv, TypeOK
    <3>2. CallSound'
      BY <1>9, <2>4 DEF CallSound, Idle
    <3>3. Disjoint(Range(ids'), PendingIds(pending)')
      BY <1>7, <1>8, <2>3 DEF Disjoint
    <3>4. cache' = FreeIds' \cup PendingIds(pending)'
      BY <1>7, <1>8, <1>9, <2>3, <2>4 DEF Disjoint
    <3>5. Ascending(ids)'
      BY <2>3 DEF Ascending
    <3> QED
      BY <1>7, <3>1, <3>2, <3>3, <3>4, <3>5 DEF IInv
  <2>6. LowestFit(Range(ids), n, start) /\ start \in 2 .. MaxPage
    <3>1. start \in Run(start, n)
      BY <1>3 DEF Run
    <3>2. start \in Pages
      BY <2>3, <3>1, Known
    <3> QED
      BY <1>3, <2>3, <3>1, <3>2 DEF LowestFit, Fits, Pages
  <2>7. Sets!Allocate(n, start)
    <3>1. PendingPairs' = PendingPairs
      BY <1>5, <1>6, <2>4 DEF PendingPairs
    <3>2. Range(PageIds)' = Range(PageIds)
      BY <1>5 DEF PageIds, Range
    <3>3. Sets!LowestFit(FreeIds, n, start) /\ FreeIds' = FreeIds \ Sets!Run(start, n)
      BY <1>6, <2>3, <2>4, <2>6 DEF LowestFit, Sets!LowestFit, Fits, Sets!Fits, Run, Sets!Run
    <3> QED
      BY <1>5, <1>9, <3>1, <3>2, <3>3 DEF Sets!Allocate
  <2>8. SetsStep
    BY <1>1, <1>2, <2>6, <2>7 DEF SetsStep, Sets!Next
  <2> QED
    BY <2>5, <2>8
<1>10. CASE /\ ids[i] - start + 1 # n
            /\ call' = [call EXCEPT !.i = i + 1, !.initial = start, !.previd = ids[i]]
            /\ UNCHANGED <<ids, cache, got>>
  <2>1. call \in [at : {"scan"}, n : Sizes, i : 1 .. Len(ids) + 1, initial : Nat, previd : Nat]
    BY <1>1 DEF ScanSound
  <2>2. /\ call'.at = "scan" /\ call'.n = n /\ call'.i = i + 1
        /\ call'.initial = start /\ call'.previd = ids[i]
    BY <1>2, <1>10, <2>1
  <2>3. i + 1 \in 1 .. Len(ids) + 1
    BY <1>4
  <2>4. call' \in [at : {"scan"}, n : Sizes, i : 1 .. Len(ids) + 1, initial : Nat, previd : Nat]
    BY <1>3, <1>4, <1>10, <2>1, <2>3
  <2>5. ids[i] # 0 /\ i + 1 # 1 /\ i + 1 > 1
    BY <1>4
  <2>6. ids[i] - start + 1 \in 1 .. n - 1 /\ ids[i] - start + 1 < i + 1
    <3>1. /\ start \in Nat /\ ids[i] \in Nat /\ i \in Nat
          /\ ids[i] - start + 1 \in 1 .. n /\ ids[i] - start + 1 <= i /\ ids[i] - start + 1 # n
      BY <1>3, <1>4, <1>10
    <3>2. PICK b \in 1 .. n : b = ids[i] - start + 1
      BY <3>1
    <3>3. b \in 1 .. n - 1 /\ b < i + 1
      BY <3>1, <3>2
    <3> QED
      BY <3>2, <3>3
  <2>7. ASSUME NEW k \in 1 .. ids[i] - start + 1
        PROVE  ids[i + 1 - k] = ids[i] + 1 - k
    <3>0. PICK p \in Nat, b \in Nat : p = ids[i] /\ b = ids[i] - start
      BY <1>3, <1>4
    <3>1. k - 1 \in 0 .. ids[i] - start /\ i - (k - 1) = i + 1 - k /\ ids[i] - (k - 1) = ids[i] + 1 - k
      <4>1. k \in 1 .. b + 1 /\ i \in Nat
        BY <1>4, <3>0
      <4>2. k - 1 \in 0 .. b /\ i - (k - 1) = i + 1 - k /\ p - (k - 1) = p + 1 - k
        BY <4>1
      <4> QED
        BY <3>0, <4>2
    <3>2. ids[i - (k - 1)] = ids[i] - (k - 1)
      BY <1>3, <3>1
    <3> QED
      BY <3>1, <3>2
  <2>8. ScanSound'
    <3>1. ids' = ids
      BY <1>10
    <3>2. call'.previd = 0 <=> call'.i = 1
      BY <2>2, <2>5
    <3>3. LET len == call'.previd - call'.initial + 1 IN
          /\ len \in 1 .. call'.n - 1 /\ len < call'.i
          /\ \A k \in 1 .. len : ids[call'.i - k] = call'.previd + 1 - k
      BY <2>2, <2>6, <2>7
    <3>4. \A s \in Fits(Range(ids), call'.n) : call'.initial <= s
      BY <1>3, <2>2
    <3> QED
      BY <2>4, <3>1, <3>2, <3>3, <3>4 DEF ScanSound
  <2>9. FreeIds' = Range(ids) /\ Releasing' = {}
    BY <1>10, <2>2 DEF FreeIds, Releasing
  <2>10. IInv'
    <3>1. TypeOK' /\ Ascending(ids)' /\ Disjoint(Range(ids), PendingIds(pending))'
      BY <1>5, <1>7, <1>8, <1>10 DEF IInv, TypeOK, Ascending
    <3>2. cache' = FreeIds' \cup PendingIds(pending)'
      BY <1>7, <1>8, <1>10, <2>9
    <3> QED
      BY <1>7, <2>2, <2>8, <3>1, <3>2 DEF IInv, CallSound
  <2>11. SetsStep
    <3>1. PendingPairs' = PendingPairs
      BY <1>5, <1>6, <2>9 DEF PendingPairs
    <3> QED
      BY <1>5, <1>6, <1>10, <2>9, <3>1, Stutters
  <2> QED
    BY <2>10, <2>11
<1> QED
  BY <1>2, <1>9, <1>10 DEF Scan, Returns

(* The pass ends without a block.                                          *)
LEMMA NothingFits ==
    ASSUME IInv, call.at = "scan", call.i > Len(ids), NEW s \in Fits(Range(ids), call.n)
    PROVE  FALSE
<1>1. ScanSound
  BY DEF IInv, CallSound
<1>2. Len(ids) \in Nat /\ Range(ids) = {ids[j] : j \in 1 .. Len(ids)}
      /\ \A j \in 1 .. Len(ids) : ids[j] \in Nat
  BY Known
<1>3. PICK n \in Nat \ {0} : n = call.n
  BY <1>1, SizesAssumption DEF ScanSound
<1>4. s \in Range(ids) /\ \A x \in s .. s + n - 1 : x \in Range(ids)
  BY <1>3 DEF Fits, Run
<1>5. PICK last \in 1 .. Len(ids) : last = Len(ids)
  BY <1>2, <1>4
<1>6. call.i = last + 1 /\ call.i > 1
  <2>1. call.i \in 1 .. Len(ids) + 1
    BY <1>1 DEF ScanSound
  <2> QED
    BY <1>2, <1>5, <2>1
<1>7. PICK len \in 1 .. n - 1 : len = call.previd - call.initial + 1
  BY <1>1, <1>3, <1>6 DEF ScanSound
<1>8. /\ \A k \in 1 .. len : ids[call.i - k] = call.previd + 1 - k
      /\ call.initial <= s /\ call.initial \in Nat /\ call.previd \in Nat
  BY <1>1, <1>6, <1>7 DEF ScanSound
<1>9. ids[last] = call.previd
  <2>1. 1 \in 1 .. len /\ call.i - 1 = last
    BY <1>2, <1>3, <1>5, <1>6, <1>7
  <2>2. ids[last] = call.previd + 1 - 1
    BY <1>8, <2>1
  <2> QED
    BY <1>8, <2>2
<1>10. s \in Nat
  BY <1>2, <1>4
<1>11. s + n - 1 \in s .. s + n - 1 /\ s + n - 1 > call.previd
  <2>1. PICK p \in Nat, q \in Nat : p = call.previd /\ q = call.initial
    BY <1>8
  <2>2. len = p - q + 1 /\ q <= s
    BY <1>7, <1>8, <2>1
  <2>3. s + n - 1 > p
    BY <1>10, <2>2
  <2> QED
    BY <1>10, <2>1, <2>3
<1>12. PICK j \in 1 .. Len(ids) : s + n - 1 = ids[j]
  BY <1>2, <1>4, <1>11
<1>13. j = last \/ j < last
  BY <1>2, <1>5
<1>14. ids[j] = ids[last] \/ ids[j] < ids[last]
  BY <1>13 DEF IInv, Ascending
<1> QED
  BY <1>2, <1>8, <1>9, <1>10, <1>11, <1>12, <1>14

(* A call returns without changing the lists.                              *)
LEMMA NothingFoundStep ==
    ASSUME IInv, NothingFound
    PROVE  IInv' /\ SetsStep
<1>1. /\ call.at = "scan" /\ call.i > Len(ids) /\ call' = Idle /\ got' = 0
      /\ UNCHANGED <<ids, pending, cache, page, txid>>
  BY DEF NothingFound, Returns
<1>2. call'.at = "idle"
  BY <1>1 DEF Idle
<1>3. /\ FreeIds = Range(ids) /\ FreeIds' = Range(ids)
      /\ Releasing = {} /\ Releasing' = {}
  BY <1>1, <1>2 DEF FreeIds, Releasing
<1>4. TypeOK' /\ PendingSound' /\ PageSound' /\ Ascending(ids)' /\ CallSound'
  BY <1>1, <1>2 DEF IInv, TypeOK, PendingSound, PageSound, PageIds, Ascending, CallSound, Idle
<1>5. /\ cache' = FreeIds' \cup PendingIds(pending)'
      /\ Disjoint(Range(ids), PendingIds(pending))'
  BY <1>1, <1>3 DEF IInv, PendingIds
<1>6. PICK n \in Sizes : n = call.n
  BY <1>1 DEF IInv, CallSound, ScanSound
<1>7. Fits(Range(ids), n) = {}
  BY <1>1, <1>6, NothingFits
<1>8. Sets!AllocateNothing(n)
  <2>1. PendingPairs' = PendingPairs /\ Range(PageIds)' = Range(PageIds)
    BY <1>1, <1>3 DEF PendingPairs, PageIds, Range
  <2>2. Sets!Fits(FreeIds, n) = {}
    BY <1>3, <1>7 DEF Fits, Sets!Fits, Run, Sets!Run
  <2> QED
    BY <1>1, <1>3, <2>1, <2>2 DEF Sets!AllocateNothing
<1> QED
  BY <1>4, <1>5, <1>8 DEF IInv, SetsStep, Sets!Next

-----------------------------------------------------------------------------
(* free.                                                                   *)

LEMMA RunList ==
    ASSUME NEW id \in Nat, NEW len \in Nat \ {0}, id > 1, id + len - 1 <= MaxPage
    PROVE  LET s == [i \in 1 .. len |-> id + i - 1] IN
           /\ s \in Seq(Pages) /\ Distinct(s) /\ Range(s) = Run(id, len)
<1> DEFINE s == [i \in 1 .. len |-> id + i - 1]
<1>1. s \in [1 .. len -> Pages]
  BY SizesAssumption DEF Pages
<1>2. s \in Seq(Pages)
  BY <1>1, SeqDef
<1>3. Len(s) \in Nat /\ DOMAIN s = 1 .. Len(s) /\ DOMAIN s = 1 .. len
  BY <1>2, LenProperties
<1>4. Len(s) = len
  BY <1>3, SameInterval
<1>5. Distinct(s)
  BY <1>4 DEF Distinct
<1>6. Range(s) = {id + i - 1 : i \in 1 .. len}
  BY DEF Range
<1>7. ASSUME NEW x \in Run(id, len)
      PROVE  x \in Range(s)
  <2>1. x - id + 1 \in 1 .. len /\ id + (x - id + 1) - 1 = x
    BY <1>7 DEF Run
  <2> QED
    BY <1>6, <2>1
<1>8. \A i \in 1 .. len : id + i - 1 \in Run(id, len)
  BY DEF Run
<1> QED
  BY <1>2, <1>5, <1>6, <1>7, <1>8

LEMMA FreeStep ==
    ASSUME IInv, NEW id \in 2 .. MaxPage, NEW len \in Sizes, Free(id, len)
    PROVE  IInv' /\ SetsStep
<1> DEFINE s == [i \in 1 .. len |-> id + i - 1]
<1>1. /\ call = Idle /\ call.at = "idle" /\ call' = call
      /\ Run(id, len) \cap cache = {} /\ id + len - 1 <= MaxPage
      /\ pending' = [pending EXCEPT ![txid] = @ \o s]
      /\ cache' = cache \cup Run(id, len) /\ got' = 1
      /\ UNCHANGED <<ids, page, txid>>
  BY DEF Free, Idle
<1>2. s \in Seq(Pages) /\ Distinct(s) /\ Range(s) = Run(id, len)
  <2>1. id \in Nat /\ id > 1 /\ len \in Nat \ {0}
    BY SizesAssumption
  <2> QED
    BY <1>1, <2>1, RunList
<1> HIDE DEF s
<1>3. /\ FreeIds = Range(ids) /\ FreeIds' = Range(ids)
      /\ Releasing = {} /\ Releasing' = {}
  BY <1>1 DEF FreeIds, Releasing
<1>4. /\ cache = Range(ids) \cup PendingIds(pending)
      /\ Disjoint(Range(ids), PendingIds(pending))
  BY <1>1, <1>3 DEF IInv
<1>5. /\ pending \in [Txids -> Seq(Pages)] /\ txid \in Txids
      /\ \A t \in Txids : pending[t] \in Seq(Pages) /\ Range(pending[t]) \subseteq PendingIds(pending)
  BY Known DEF IInv, TypeOK, PendingIds
<1>6. /\ pending'[txid] = pending[txid] \o s
      /\ \A t \in Txids \ {txid} : pending'[t] = pending[t]
  BY <1>1, <1>5
<1>7. /\ pending[txid] \o s \in Seq(Pages)
      /\ Range(pending'[txid]) = Range(pending[txid]) \cup Run(id, len)
  BY <1>2, <1>5, <1>6, ConcatIs
<1>8. PendingIds(pending)' = PendingIds(pending) \cup Run(id, len)
  <2>1. PendingIds(pending)' = UNION {Range(pending'[t]) : t \in Txids}
    BY DEF PendingIds
  <2>2. PendingIds(pending) = UNION {Range(pending[t]) : t \in Txids}
    BY DEF PendingIds
  <2> QED
    BY <1>5, <1>6, <1>7, <2>1, <2>2
<1>9. Disjoint(Run(id, len), Range(ids)) /\ Disjoint(Run(id, len), PendingIds(pending))
  BY <1>1, <1>4 DEF Disjoint
<1>10. TypeOK'
  BY <1>1, <1>5, <1>7 DEF IInv, TypeOK
<1>11. PendingSound'
  <2>1. Distinct(pending[txid] \o s)
    <3>1. Disjoint(Range(pending[txid]), Range(s)) /\ Distinct(pending[txid])
      BY <1>2, <1>5, <1>9 DEF Disjoint, IInv, PendingSound
    <3> QED
      BY <1>2, <1>5, <3>1, ConcatDistinct
  <2>2. \A t \in Txids : Distinct(pending'[t])
    BY <1>6, <2>1 DEF IInv, PendingSound
  <2>3. ASSUME NEW t \in Txids, NEW u \in Txids, t # u
        PROVE  Disjoint(Range(pending'[t]), Range(pending'[u]))
    <3>1. Disjoint(Range(pending[t]), Range(pending[u]))
      BY <2>3 DEF IInv, PendingSound
    <3>2. /\ Disjoint(Range(pending[t]), Run(id, len))
          /\ Disjoint(Range(pending[u]), Run(id, len))
      BY <1>5, <1>9 DEF Disjoint
    <3> QED
      BY <1>6, <1>7, <2>3, <3>1, <3>2 DEF Disjoint
  <2> QED
    BY <2>2, <2>3 DEF PendingSound
<1>12. PageSound' /\ CallSound' /\ Ascending(ids)'
  BY <1>1 DEF IInv, PageSound, PageIds, CallSound, Ascending, Idle
<1>13. /\ cache' = FreeIds' \cup PendingIds(pending)'
       /\ Disjoint(Range(ids), PendingIds(pending))'
  BY <1>1, <1>3, <1>4, <1>8, <1>9 DEF Disjoint
<1>14. Sets!Free(id, len)
  <2>1. PendingPairs = PairsOf(pending, Txids) /\ PendingPairs' = PairsOf(pending', Txids)
    BY <1>3 DEF PendingPairs, PairsOf
  <2>2. PendingPages(PendingPairs) = PendingIds(pending)
    BY <2>1, PairsAre DEF PendingIds
  <2>3. PendingPairs' = PendingPairs \cup ({txid} \X Run(id, len))
    <3>1. ASSUME NEW t \in Txids, NEW x \in Range(pending'[t])
          PROVE  <<t, x>> \in PairsOf(pending, Txids) \cup ({txid} \X Run(id, len))
      <4>1. x \in Range(pending[t]) \/ (t = txid /\ x \in Run(id, len))
        BY <1>6, <1>7
      <4> QED
        BY <4>1, PairsAre
    <3>2. ASSUME NEW t \in Txids, NEW x \in Range(pending[t])
          PROVE  <<t, x>> \in PairsOf(pending', Txids)
      <4>1. x \in Range(pending'[t])
        BY <1>6, <1>7
      <4> QED
        BY <4>1, PairsAre
    <3>3. ASSUME NEW x \in Run(id, len)
          PROVE  <<txid, x>> \in PairsOf(pending', Txids)
      <4>1. x \in Range(pending'[txid])
        BY <1>7
      <4> QED
        BY <1>5, <4>1, PairsAre
    <3>4. PairsOf(pending', Txids) \subseteq PairsOf(pending, Txids) \cup ({txid} \X Run(id, len))
      BY <3>1, PairsAre
    <3>5. PairsOf(pending, Txids) \cup ({txid} \X Run(id, len)) \subseteq PairsOf(pending', Txids)
      BY <3>2, <3>3, PairsAre
    <3> QED
      BY <2>1, <3>4, <3>5
  <2>4. Range(PageIds)' = Range(PageIds)
    BY <1>1 DEF PageIds, Range
  <2> QED
    BY <1>1, <1>3, <1>4, <2>2, <2>3, <2>4
       DEF Sets!Free, Sets!Run, Run, Sets!PendingPages, PendingPages, Sets!FreedBy
<1> QED
  BY <1>10, <1>11, <1>12, <1>13, <1>14 DEF IInv, SetsStep, Sets!Next

-----------------------------------------------------------------------------
(* release and write gather the lists of transactions.                     *)

LEMMA EmptyList ==
    /\ <<>> \in Seq(Pages) /\ Range(<<>>) = {} /\ Distinct(<<>>) /\ Ascending(<<>>)
    /\ Len(<<>>) = 0
<1>1. <<>> \in Seq(Pages) /\ Len(<<>>) = 0
  BY EmptySeq
<1>2. Range(<<>>) = {}
  BY <1>1, RangeIs
<1>3. Distinct(<<>>) /\ Ascending(<<>>)
  BY <1>1 DEF Distinct, Ascending
<1> QED
  BY <1>1, <1>2, <1>3

LEMMA EntriesAre ==
    ASSUME IInv, NEW bound
    PROVE  /\ Entries(bound) \in SUBSET Txids
           /\ \A t \in Txids : t <= bound /\ t \notin Entries(bound) => Range(pending[t]) = {}
<1>1. \A t \in Txids : t <= bound /\ t \notin Entries(bound) => pending[t] = <<>>
  BY DEF Entries
<1> QED
  BY <1>1, EmptyList DEF Entries

(* Before and after the list of t is taken from what is pending.           *)
LEMMA PendingSplit ==
    ASSUME NEW pend, NEW T \in SUBSET Txids
    PROVE  PendingIds(pend) = (UNION {Range(pend[t]) : t \in T})
                                \cup (UNION {Range(pend[t]) : t \in Txids \ T})
<1> DEFINE inT == UNION {Range(pend[t]) : t \in T}
           notT == UNION {Range(pend[t]) : t \in Txids \ T}
<1>1. \A t \in T : Range(pend[t]) \subseteq inT
  OBVIOUS
<1>2. \A t \in Txids \ T : Range(pend[t]) \subseteq notT
  OBVIOUS
<1>3. \A t \in Txids : Range(pend[t]) \subseteq PendingIds(pend)
  BY DEF PendingIds
<1>4. inT \subseteq PendingIds(pend) /\ notT \subseteq PendingIds(pend)
  BY <1>3
<1> HIDE DEF inT, notT
<1>5. ASSUME NEW x \in PendingIds(pend)
      PROVE  x \in inT \cup notT
  <2>1. PICK t \in Txids : x \in Range(pend[t])
    BY DEF PendingIds
  <2> QED
    BY <1>1, <1>2, <2>1
<1>6. PendingIds(pend) = inT \cup notT
  BY <1>4, <1>5
<1> QED
  BY <1>6 DEF inT, notT

LEMMA ReleaseStep ==
    ASSUME IInv, NEW bound \in 0 .. txid, Release(bound)
    PROVE  IInv' /\ SetsStep
<1>1. /\ call = Idle /\ call.at = "idle" /\ txid < MaxTxid /\ txid' = txid + 1 /\ got' = 1
      /\ call' = [at |-> "gather", op |-> "release", tids |-> Entries(bound), m |-> <<>>]
      /\ UNCHANGED <<ids, pending, cache, page>>
  BY DEF Release, Gathering, Idle
<1> DEFINE T == Entries(bound)
           taken == UNION {Range(pending[t]) : t \in T}
<1>2. call'.at = "gather" /\ call'.op = "release" /\ call'.tids = T /\ call'.m = <<>>
  BY <1>1
<1>3. T \in SUBSET Txids /\ \A t \in Txids : t <= bound /\ t \notin T => Range(pending[t]) = {}
  BY EntriesAre
<1>4. \A t \in T : t <= bound
  BY DEF Entries
<1> HIDE DEF T
<1>5. FreeIds = Range(ids) /\ FreeIds' = Range(ids) \cup taken
  BY <1>1, <1>2, EmptyList DEF FreeIds
<1>6. Releasing = {} /\ Releasing' = T
  BY <1>1, <1>2 DEF Releasing
<1>7. /\ cache = Range(ids) \cup PendingIds(pending)
      /\ Disjoint(Range(ids), PendingIds(pending))
  BY <1>1, <1>5 DEF IInv
<1>8. taken \subseteq PendingIds(pending)
  BY <1>3, PendingSplit
<1>9. GatherSound'
  <2>1. call' \in [at : {"gather"}, op : {"release", "write"}, tids : SUBSET Txids, m : Seq(Pages)]
    BY <1>1, <1>3, EmptyList DEF T
  <2> QED
    BY <1>2, <2>1, EmptyList DEF GatherSound, Disjoint
<1>10. CallSound'
  BY <1>2, <1>9 DEF CallSound
<1>11. TypeOK' /\ PendingSound' /\ PageSound' /\ Ascending(ids)'
  <2>1. txid + 1 \in Txids
    BY <1>1, SizesAssumption DEF IInv, TypeOK, Txids
  <2> QED
    BY <1>1, <2>1 DEF IInv, TypeOK, PendingSound, PageSound, PageIds, Ascending
<1>12. /\ cache' = FreeIds' \cup PendingIds(pending)'
       /\ Disjoint(Range(ids), PendingIds(pending))'
  BY <1>1, <1>5, <1>7, <1>8 DEF PendingIds
<1>13. Sets!Begin(bound)
  <2>1. PendingPairs = PairsOf(pending, Txids) /\ PendingPairs' = PairsOf(pending, Txids \ T)
    BY <1>1, <1>6 DEF PendingPairs, PairsOf
  <2>2. ASSUME NEW t \in Txids, NEW x \in Range(pending[t])
        PROVE  t \in T <=> t <= bound
    BY <1>3, <1>4
  <2>3. UpTo(PendingPairs, bound) = PairsOf(pending, T)
    <3>1. ASSUME NEW pr \in UpTo(PendingPairs, bound)
          PROVE  pr \in PairsOf(pending, T)
      <4>1. PICK t \in Txids : \E x \in Range(pending[t]) : pr = <<t, x>> /\ t <= bound
        BY <2>1, PairsAre DEF UpTo
      <4> QED
        BY <2>2, <4>1, PairsAre
    <3>2. ASSUME NEW pr \in PairsOf(pending, T)
          PROVE  pr \in UpTo(PendingPairs, bound)
      <4>1. PICK t \in T : \E x \in Range(pending[t]) : pr = <<t, x>>
        BY PairsAre
      <4>2. pr \in PairsOf(pending, Txids)
        BY <1>3, <4>1, PairsAre
      <4> QED
        BY <1>4, <2>1, <4>1, <4>2 DEF UpTo
    <3> QED
      BY <3>1, <3>2
  <2>4. PendingPages(UpTo(PendingPairs, bound)) = taken
    BY <2>3, PairsAre
  <2>5. PendingPairs' = PendingPairs \ UpTo(PendingPairs, bound)
    <3>1. ASSUME NEW t, NEW x
          PROVE  <<t, x>> \in PairsOf(pending, Txids \ T)
                 <=> <<t, x>> \in PairsOf(pending, Txids) \ PairsOf(pending, T)
      BY <1>3, PairsAre
    <3>2. PairsOf(pending, Txids \ T) \subseteq PairsOf(pending, Txids) \ PairsOf(pending, T)
      BY <3>1, PairsAre
    <3>3. PairsOf(pending, Txids) \ PairsOf(pending, T) \subseteq PairsOf(pending, Txids \ T)
      BY <3>1, PairsAre
    <3> QED
      BY <2>1, <2>3, <3>2, <3>3
  <2>6. Range(PageIds)' = Range(PageIds)
    BY <1>1 DEF PageIds, Range
  <2> QED
    BY <1>1, <1>5, <2>4, <2>5, <2>6
       DEF Sets!Begin, Sets!UpTo, UpTo, Sets!PendingPages, PendingPages
<1> QED
  BY <1>2, <1>10, <1>11, <1>12, <1>13 DEF IInv, SetsStep, Sets!Next

LEMMA WriteStep ==
    ASSUME IInv, Write
    PROVE  IInv' /\ SetsStep
<1>1. /\ call.at = "idle"
      /\ call' = [at |-> "gather", op |-> "write", tids |-> Entries(MaxTxid), m |-> <<>>]
      /\ UNCHANGED <<ids, pending, cache, page, txid, got>>
  BY DEF Write, Gathering, Idle
<1>2. call'.at = "gather" /\ call'.op = "write" /\ call'.m = <<>> /\ call'.tids = Entries(MaxTxid)
  BY <1>1
<1>3. /\ FreeIds = Range(ids) /\ FreeIds' = Range(ids)
      /\ Releasing = {} /\ Releasing' = {}
  BY <1>1, <1>2 DEF FreeIds, Releasing
<1>4. Entries(MaxTxid) \in SUBSET Txids
      /\ \A t \in Txids \ Entries(MaxTxid) : Range(pending[t]) = {}
  BY EntriesAre, SizesAssumption DEF Txids
<1>5. PendingIds(pending) = UNION {Range(pending[t]) : t \in Entries(MaxTxid)}
  BY <1>4, PendingSplit
<1>6. GatherSound'
  <2>1. call' \in [at : {"gather"}, op : {"release", "write"}, tids : SUBSET Txids, m : Seq(Pages)]
    BY <1>1, <1>4, EmptyList
  <2>2. PendingIds(pending)' = UNION {Range(pending'[t]) : t \in call'.tids}
    BY <1>1, <1>2, <1>5
  <2> QED
    BY <1>2, <2>1, <2>2, EmptyList DEF GatherSound, Disjoint
<1>7. CallSound'
  BY <1>2, <1>6 DEF CallSound
<1> QED
  BY <1>1, <1>3, <1>7, CallMoves

LEMMA GatherStep ==
    ASSUME IInv, NEW t \in Txids, Gather(t)
    PROVE  IInv' /\ SetsStep
<1>1. /\ call.at = "gather" /\ t \in call.tids /\ GatherSound
      /\ call' = [call EXCEPT !.tids = @ \ {t}, !.m = @ \o pending[t]]
      /\ UNCHANGED <<ids, cache, page, txid, got>>
  BY DEF Gather, IInv, CallSound
<1>2. /\ call \in [at : {"gather"}, op : {"release", "write"}, tids : SUBSET Txids, m : Seq(Pages)]
      /\ Distinct(call.m) /\ Disjoint(Range(call.m), Range(ids))
      /\ \A u \in call.tids : Disjoint(Range(call.m), Range(pending[u]))
  BY <1>1 DEF GatherSound
<1>3. /\ call'.at = "gather" /\ call'.op = call.op
      /\ call'.tids = call.tids \ {t} /\ call'.m = call.m \o pending[t]
  BY <1>1, <1>2
<1>4. /\ pending \in [Txids -> Seq(Pages)]
      /\ \A u \in Txids : pending[u] \in Seq(Pages) /\ Distinct(pending[u])
      /\ \A u \in Txids : Range(pending[u]) \subseteq PendingIds(pending)
      /\ \A u \in Txids : u # t => Disjoint(Range(pending[t]), Range(pending[u]))
      /\ Disjoint(Range(ids), PendingIds(pending))
  BY <1>1 DEF IInv, TypeOK, PendingSound, PendingIds
<1>5. /\ call.m \o pending[t] \in Seq(Pages)
      /\ Range(call'.m) = Range(call.m) \cup Range(pending[t])
  BY <1>2, <1>3, <1>4, ConcatIs
<1>6. Distinct(call'.m)
  BY <1>1, <1>2, <1>3, <1>4, ConcatDistinct
<1>7. /\ call' \in [at : {"gather"}, op : {"release", "write"}, tids : SUBSET Txids, m : Seq(Pages)]
      /\ call'.tids \in SUBSET Txids /\ call.tids \in SUBSET Txids
  BY <1>1, <1>2, <1>5
<1>8. Disjoint(Range(call'.m), Range(ids))
  BY <1>2, <1>4, <1>5 DEF Disjoint
<1>9. \A u \in call'.tids : Disjoint(Range(call'.m), Range(pending[u]))
  BY <1>2, <1>3, <1>4, <1>5 DEF Disjoint
<1>10. UNION {Range(pending[u]) : u \in call.tids}
         = Range(pending[t]) \cup UNION {Range(pending[u]) : u \in call'.tids}
  BY <1>1, <1>3
<1>11. CASE call.op = "write"
  <2>1. pending' = pending
    BY <1>11 DEF Gather
  <2>2. GatherSound'
    <3>1. PendingIds(pending) = Range(call'.m) \cup UNION {Range(pending[u]) : u \in call'.tids}
      BY <1>1, <1>5, <1>10, <1>11 DEF GatherSound
    <3> QED
      BY <1>1, <1>3, <1>6, <1>7, <1>8, <1>9, <1>11, <2>1, <3>1 DEF GatherSound
  <2>3. /\ FreeIds = Range(ids) /\ FreeIds' = Range(ids)
        /\ Releasing = {} /\ Releasing' = {}
    BY <1>1, <1>3, <1>11 DEF FreeIds, Releasing
  <2>4. CallSound'
    BY <1>3, <2>2 DEF CallSound
  <2> QED
    BY <1>1, <2>1, <2>3, <2>4, CallMoves
<1>12. CASE call.op = "release"
  <2>1. pending' = [pending EXCEPT ![t] = <<>>]
    BY <1>12 DEF Gather
  <2>2. pending'[t] = <<>> /\ \A u \in Txids \ {t} : pending'[u] = pending[u]
    BY <1>4, <2>1
  <2>3. Range(pending'[t]) = {} /\ Distinct(pending'[t])
    BY <2>2, EmptyList
  <2>4. PendingIds(pending)' = UNION {Range(pending[u]) : u \in Txids \ {t}}
    <3>1. PendingIds(pending)' = UNION {Range(pending'[u]) : u \in Txids}
      BY DEF PendingIds
    <3> QED
      BY <2>2, <2>3, <3>1
  <2>5. PendingIds(pending) = Range(pending[t]) \cup PendingIds(pending)'
    BY <2>4 DEF PendingIds
  <2>6. UNION {Range(pending'[u]) : u \in call'.tids} = UNION {Range(pending[u]) : u \in call'.tids}
    BY <1>3, <1>7, <2>2
  <2>7. FreeIds = Range(ids) \cup Range(call.m) \cup UNION {Range(pending[u]) : u \in call.tids}
    BY <1>1, <1>12 DEF FreeIds
  <2>8. FreeIds' = Range(ids) \cup Range(call'.m) \cup UNION {Range(pending'[u]) : u \in call'.tids}
    BY <1>1, <1>3, <1>12 DEF FreeIds
  <2>9. FreeIds' = FreeIds
    BY <1>5, <1>10, <2>6, <2>7, <2>8
  <2>10. GatherSound'
    <3>1. Disjoint(Range(call'.m), PendingIds(pending)')
      <4>1. Disjoint(Range(call.m), PendingIds(pending))
        BY <1>1, <1>12 DEF GatherSound
      <4>2. Disjoint(Range(pending[t]), PendingIds(pending)')
        BY <1>4, <2>4 DEF Disjoint
      <4> QED
        BY <1>5, <2>5, <4>1, <4>2 DEF Disjoint
    <3>2. \A u \in call'.tids : Disjoint(Range(call'.m), Range(pending'[u]))
      BY <1>3, <1>7, <1>9, <2>2
    <3> QED
      BY <1>1, <1>3, <1>6, <1>7, <1>8, <1>12, <3>1, <3>2 DEF GatherSound
  <2>11. TypeOK'
    BY <1>1, <1>4, <2>1, EmptyList DEF IInv, TypeOK
  <2>12. PendingSound'
    <3>1. \A u \in Txids : Distinct(pending'[u])
      BY <1>4, <2>2, <2>3
    <3>2. ASSUME NEW u \in Txids, NEW v \in Txids, u # v
          PROVE  Disjoint(Range(pending'[u]), Range(pending'[v]))
      <4>1. Disjoint(Range(pending[u]), Range(pending[v]))
        BY <3>2 DEF IInv, PendingSound
      <4> QED
        BY <2>2, <2>3, <4>1 DEF Disjoint
    <3> QED
      BY <3>1, <3>2 DEF PendingSound
  <2>13. PageSound' /\ Ascending(ids)'
    BY <1>1 DEF IInv, PageSound, PageIds, Ascending
  <2>14. cache' = FreeIds' \cup PendingIds(pending)'
    <3>1. cache = FreeIds \cup PendingIds(pending)
      BY DEF IInv
    <3>2. Range(pending[t]) \subseteq FreeIds
      BY <1>10, <2>7
    <3> QED
      BY <1>1, <2>5, <2>9, <3>1, <3>2
  <2>15. Disjoint(Range(ids), PendingIds(pending))'
    BY <1>1, <1>4, <2>5 DEF Disjoint
  <2>16. IInv'
    BY <1>3, <2>10, <2>11, <2>12, <2>13, <2>14, <2>15 DEF IInv, CallSound
  <2>17. PendingPairs' = PendingPairs
    <3>1. Releasing = call.tids /\ Releasing' = call.tids \ {t}
      BY <1>1, <1>3, <1>12 DEF Releasing
    <3>2. /\ PendingPairs = PairsOf(pending, Txids \ call.tids)
          /\ PendingPairs' = PairsOf(pending', Txids \ (call.tids \ {t}))
      BY <3>1 DEF PendingPairs, PairsOf
    <3>3. ASSUME NEW u, NEW x
          PROVE  <<u, x>> \in PendingPairs' <=> <<u, x>> \in PendingPairs
      <4>1. u \in Txids \ (call.tids \ {t}) /\ x \in Range(pending'[u])
            <=> u \in Txids \ call.tids /\ x \in Range(pending[u])
        BY <1>1, <2>2, <2>3
      <4> QED
        BY <3>2, <4>1, PairsAre
    <3>4. PendingPairs' \subseteq PendingPairs
      BY <3>2, <3>3, PairsAre
    <3>5. PendingPairs \subseteq PendingPairs'
      BY <3>2, <3>3, PairsAre
    <3> QED
      BY <3>4, <3>5
  <2> QED
    BY <1>1, <2>9, <2>16, <2>17, Stutters
<1> QED
  BY <1>2, <1>11, <1>12

-----------------------------------------------------------------------------
(* mergepgids.                                                             *)

LEMMA SortStep ==
    ASSUME IInv, Sort
    PROVE  IInv' /\ SetsStep
<1>1. /\ call.at = "gather" /\ call.tids = {} /\ GatherSound
      /\ UNCHANGED <<ids, pending, cache, page, txid, got>>
  BY DEF Sort, IInv, CallSound
<1>2. PICK m \in Sortings(call.m) :
        call' = [at |-> "merge", op |-> call.op,
                 count |-> Len(ids) + Len(m), merged |-> <<>>,
                 lead |-> IF ids = <<>> \/ m = <<>> THEN <<>> ELSE Lead(ids, m),
                 follow |-> IF ids = <<>> \/ m = <<>> THEN ids \o m
                            ELSE IF Lead(ids, m) = m THEN ids ELSE m]
  BY DEF Sort
<1>3. /\ call.op \in {"release", "write"} /\ call.m \in Seq(Pages)
      /\ Distinct(call.m) /\ Disjoint(Range(call.m), Range(ids))
  BY <1>1 DEF GatherSound
<1>4. m \in Seq(Pages) /\ Range(m) = Range(call.m) /\ Ascending(m)
  BY <1>3, Known, SortedIs
<1>5. m \in Seq(Nat) /\ Len(m) \in Nat /\ (m = <<>> <=> Len(m) = 0) /\ (m = <<>> <=> Range(m) = {})
  BY <1>4, Known, SeqMonotonic, RangeIs
<1>6. /\ ids \in Seq(Pages) /\ ids \in Seq(Nat) /\ Ascending(ids) /\ Len(ids) \in Nat
      /\ (ids = <<>> <=> Len(ids) = 0) /\ (ids = <<>> <=> Range(ids) = {})
  BY Known, RangeIs DEF IInv
<1> DEFINE lead == call'.lead
           follow == call'.follow
<1>7. /\ call'.at = "merge" /\ call'.op = call.op /\ call'.merged = <<>>
      /\ call'.count = Len(ids) + Len(m)
      /\ lead = IF ids = <<>> \/ m = <<>> THEN <<>> ELSE Lead(ids, m)
      /\ follow = IF ids = <<>> \/ m = <<>> THEN ids \o m
                  ELSE IF Lead(ids, m) = m THEN ids ELSE m
  BY <1>2
<1>8. /\ lead \in Seq(Pages) /\ follow \in Seq(Pages) /\ Ascending(lead) /\ Ascending(follow)
      /\ Disjoint(Range(lead), Range(follow)) /\ (lead # <<>> => follow # <<>>)
      /\ Len(lead) + Len(follow) = Len(ids) + Len(m)
      /\ Range(lead) \cup Range(follow) = Range(ids) \cup Range(m)
  <2>1. CASE ids = <<>> \/ m = <<>>
    <3>1. lead = <<>> /\ follow = ids \o m
      BY <1>7, <2>1
    <3>2. /\ follow \in Seq(Pages) /\ Len(follow) = Len(ids) + Len(m)
          /\ Range(follow) = Range(ids) \cup Range(m)
      BY <1>4, <1>6, <3>1, ConcatIs
    <3>3. Ascending(ids \o m)
      <4>1. \A p \in Range(ids), q \in Range(m) : p < q
        BY <1>5, <1>6, <2>1
      <4> QED
        BY <1>4, <1>5, <1>6, <4>1, ConcatAscending
    <3> QED
      BY <1>5, <1>6, <3>1, <3>2, <3>3, EmptyList DEF Disjoint
  <2>2. CASE ~ (ids = <<>> \/ m = <<>>)
    <3>1. (lead = m /\ follow = ids) \/ (lead = ids /\ follow = m)
      BY <1>7, <2>2 DEF Lead
    <3>2. Disjoint(Range(ids), Range(m)) /\ Disjoint(Range(m), Range(ids))
      BY <1>3, <1>4 DEF Disjoint
    <3> HIDE DEF lead, follow
    <3>3. CASE lead = m /\ follow = ids
      BY <1>4, <1>5, <1>6, <2>2, <3>2, <3>3
    <3>4. CASE lead = ids /\ follow = m
      BY <1>4, <1>5, <1>6, <2>2, <3>2, <3>4
    <3> QED
      BY <3>1, <3>3, <3>4
  <2> QED
    BY <2>1, <2>2
<1>9. call' \in [at : {"merge"}, op : {"release", "write"}, count : Nat,
                 merged : Seq(Pages), lead : Seq(Pages), follow : Seq(Pages)]
  <2>1. Len(ids) + Len(m) \in Nat
    BY <1>5, <1>6
  <2>2. call' = [at |-> "merge", op |-> call.op, count |-> Len(ids) + Len(m),
                 merged |-> <<>>, lead |-> lead, follow |-> follow]
    BY <1>2
  <2> HIDE DEF lead, follow
  <2> QED
    BY <1>3, <1>8, <2>1, <2>2, EmptyList
<1> DEFINE all == Range(call'.merged) \cup Range(lead) \cup Range(follow)
<1>10. all = Range(ids) \cup Range(call.m)
  BY <1>4, <1>7, <1>8, EmptyList
<1>11. MergeSound'
  <2>1. Ascending(call'.merged) /\ Range(call'.merged) = {} /\ Len(call'.merged) = 0
    BY <1>7, EmptyList
  <2>2. call'.count = Len(call'.merged) + Len(lead) + Len(follow)
    <3>1. Len(lead) \in Nat /\ Len(follow) \in Nat
      BY <1>8, LenProperties
    <3> QED
      BY <1>7, <1>8, <2>1, <3>1
  <2>3. \A p \in Range(call'.merged), q \in Range(lead) \cup Range(follow) : p < q
    BY <2>1
  <2>4. Range(ids) \subseteq all
    BY <1>10
  <2>5. call.op = "release" => Disjoint(all, PendingIds(pending))
    <3>1. Disjoint(Range(ids), PendingIds(pending))
      BY <1>1 DEF IInv
    <3>2. call.op = "release" => Disjoint(Range(call.m), PendingIds(pending))
      BY <1>1 DEF GatherSound
    <3> QED
      BY <1>10, <3>1, <3>2 DEF Disjoint
  <2>6. call.op = "write" => all = Range(ids) \cup PendingIds(pending)
    BY <1>1, <1>10 DEF GatherSound
  <2>7. PendingIds(pending)' = PendingIds(pending) /\ Range(ids)' = Range(ids)
    BY <1>1
  <2> QED
    BY <1>7, <1>8, <1>9, <2>1, <2>2, <2>3, <2>4, <2>5, <2>6, <2>7 DEF MergeSound
<1>12. FreeIds' = FreeIds
  <2>1. CASE call.op = "release"
    <3>1. FreeIds = Range(ids) \cup Range(call.m) \cup UNION {Range(pending[t]) : t \in call.tids}
      BY <1>1, <2>1 DEF FreeIds
    <3>2. FreeIds' = all
      BY <1>7, <2>1 DEF FreeIds
    <3> QED
      BY <1>1, <1>10, <3>1, <3>2
  <2>2. CASE call.op = "write"
    BY <1>1, <1>7, <2>2 DEF FreeIds
  <2> QED
    BY <1>3, <2>1, <2>2
<1>13. Releasing = {} /\ Releasing' = {}
  BY <1>1, <1>7 DEF Releasing
<1>14. CallSound'
  BY <1>7, <1>11 DEF CallSound
<1> QED
  BY <1>1, <1>12, <1>13, <1>14, CallMoves

(* The first element is the least.                                         *)
LEMMA FirstIs ==
    ASSUME NEW s \in Seq(Nat), Ascending(s), s # <<>>
    PROVE  s[1] \in Range(s) /\ \A q \in Range(s) : s[1] <= q
<1>1. Len(s) \in Nat /\ Len(s) # 0 /\ Range(s) = {s[i] : i \in 1 .. Len(s)}
      /\ \A i \in 1 .. Len(s) : s[i] \in Nat
  BY RangeIs, ElementOfSeq
<1>2. 1 \in 1 .. Len(s)
  BY <1>1
<1>3. ASSUME NEW i \in 1 .. Len(s)
      PROVE  s[1] <= s[i]
  <2>1. i = 1 \/ 1 < i
    BY <1>1
  <2>2. s[1] = s[i] \/ s[1] < s[i]
    BY <1>2, <2>1 DEF Ascending
  <2> QED
    BY <1>1, <1>2, <2>2
<1> QED
  BY <1>1, <1>2, <1>3

LEMMA MergeStep ==
    ASSUME IInv, Merge
    PROVE  IInv' /\ SetsStep
<1> DEFINE lead == call.lead
           follow == call.follow
           merged == call.merged
<1>1. /\ call.at = "merge" /\ lead # <<>> /\ MergeSound
      /\ UNCHANGED <<ids, pending, cache, page, txid, got>>
  BY DEF Merge, IInv, CallSound
<1>2. PICK n \in Ahead(lead, follow[1]) :
        call' = [call EXCEPT
                   !.merged = @ \o SubSeq(lead, 1, n),
                   !.lead = IF SubSeq(lead, n + 1, Len(lead)) = <<>> THEN <<>> ELSE follow,
                   !.follow = IF SubSeq(lead, n + 1, Len(lead)) = <<>> THEN @
                              ELSE SubSeq(lead, n + 1, Len(lead))]
  BY DEF Merge
<1>3. /\ n \in 0 .. Len(lead) /\ \A i \in 1 .. n : lead[i] <= follow[1]
  BY DEF Ahead
<1>4. call \in [at : {"merge"}, op : {"release", "write"}, count : Nat,
                merged : Seq(Pages), lead : Seq(Pages), follow : Seq(Pages)]
  BY <1>1 DEF MergeSound
<1>5. /\ lead \in Seq(Pages) /\ follow \in Seq(Pages) /\ merged \in Seq(Pages)
      /\ lead \in Seq(Nat) /\ follow \in Seq(Nat) /\ merged \in Seq(Nat)
      /\ Len(lead) \in Nat /\ Len(follow) \in Nat /\ Len(merged) \in Nat
  BY <1>4, Known, SeqMonotonic, LenProperties
<1>6. /\ Ascending(merged) /\ Ascending(lead) /\ Ascending(follow)
      /\ Disjoint(Range(lead), Range(follow)) /\ follow # <<>>
      /\ \A p \in Range(merged), q \in Range(lead) \cup Range(follow) : p < q
      /\ call.count = Len(merged) + Len(lead) + Len(follow)
  BY <1>1 DEF MergeSound
<1>7. PICK l \in Seq(Pages), rest \in Seq(Pages) :
        l = SubSeq(lead, 1, n) /\ rest = SubSeq(lead, n + 1, Len(lead))
  <2>1. n \in Nat /\ n <= Len(lead) /\ 1 <= n + 1 /\ n + 1 \in Nat \ {0} /\ 1 \in Nat \ {0}
        /\ n + 1 <= Len(lead) + 1 /\ Len(lead) <= Len(lead)
    BY <1>3, <1>5
  <2>2. SubSeq(lead, 1, n) \in Seq(Pages)
    BY <1>5, <2>1, SliceIs
  <2>3. SubSeq(lead, n + 1, Len(lead)) \in Seq(Pages)
    BY <1>5, <2>1, SliceIs
  <2> QED
    BY <2>2, <2>3
<1>8. /\ Len(l) = n /\ Len(rest) = Len(lead) - n
      /\ Ascending(l) /\ Ascending(rest)
      /\ Range(l) = {lead[i] : i \in 1 .. n}
      /\ Range(lead) = Range(l) \cup Range(rest)
      /\ \A p \in Range(l), q \in Range(rest) : p < q
  BY <1>3, <1>5, <1>6, <1>7, CutIs
<1>9. /\ l \in Seq(Nat) /\ rest \in Seq(Nat)
      /\ Range(rest) \subseteq Nat /\ Range(l) \subseteq Nat
      /\ Range(follow) \subseteq Nat
  BY <1>5, Known, SeqMonotonic, RangeIs
<1>10. /\ call'.at = "merge" /\ call'.op = call.op /\ call'.count = call.count
       /\ call'.merged = merged \o l
       /\ call'.lead = IF rest = <<>> THEN <<>> ELSE follow
       /\ call'.follow = IF rest = <<>> THEN follow ELSE rest
       /\ call' \in [at : {"merge"}, op : {"release", "write"}, count : Nat,
                     merged : Seq(Pages), lead : Seq(Pages), follow : Seq(Pages)]
  <2>1. merged \o l \in Seq(Pages)
    BY <1>5, ConcatIs
  <2>2. call' = [call EXCEPT !.merged = merged \o l,
                             !.lead = IF rest = <<>> THEN <<>> ELSE follow,
                             !.follow = IF rest = <<>> THEN follow ELSE rest]
    BY <1>2, <1>7
  <2> HIDE DEF lead, follow, merged
  <2> QED
    BY <1>4, <1>5, <2>1, <2>2, EmptyList
<1>11. /\ Range(call'.lead) \cup Range(call'.follow) = Range(rest) \cup Range(follow)
       /\ call'.lead # <<>> => call'.follow # <<>>
       /\ Disjoint(Range(call'.lead), Range(call'.follow))
       /\ Ascending(call'.lead) /\ Ascending(call'.follow)
       /\ Len(call'.lead) + Len(call'.follow) = Len(rest) + Len(follow)
  <2>1. CASE rest = <<>>
    <3>1. call'.lead = <<>> /\ call'.follow = follow
      BY <1>10, <2>1
    <3> HIDE DEF lead, follow, merged
    <3> QED
      BY <1>5, <1>6, <2>1, <3>1, EmptyList DEF Disjoint
  <2>2. CASE rest # <<>>
    <3>1. call'.lead = follow /\ call'.follow = rest
      BY <1>10, <2>2
    <3>2. Len(rest) \in Nat
      BY <1>9, LenProperties
    <3> HIDE DEF lead, follow, merged
    <3> QED
      BY <1>5, <1>6, <1>8, <2>2, <3>1, <3>2 DEF Disjoint
  <2> QED
    BY <2>1, <2>2
<1>12. ASSUME NEW p \in Range(l), NEW q \in Range(follow)
       PROVE  p < q
  <2>1. follow[1] \in Range(follow) /\ follow[1] <= q
    BY <1>5, <1>6, FirstIs
  <2>2. p <= follow[1]
    BY <1>3, <1>8
  <2>3. p \in Range(lead) /\ p # q
    BY <1>6, <1>8 DEF Disjoint
  <2> QED
    BY <1>9, <2>1, <2>2, <2>3
<1>13. Range(merged \o l) = Range(merged) \cup Range(l) /\ Len(merged \o l) = Len(merged) + n
  <2>1. merged \in Seq(Pages) /\ l \in Seq(Pages)
    BY <1>5
  <2>2. Range(merged \o l) = Range(merged) \cup Range(l) /\ Len(merged \o l) = Len(merged) + Len(l)
    BY <2>1, ConcatIs
  <2> QED
    BY <1>8, <2>2
<1>14. Ascending(merged \o l)
  BY <1>5, <1>6, <1>8, <1>9, ConcatAscending
<1>15. \A p \in Range(call'.merged), q \in Range(call'.lead) \cup Range(call'.follow) : p < q
  BY <1>6, <1>8, <1>10, <1>11, <1>12, <1>13
<1>16. Range(call'.merged) \cup Range(call'.lead) \cup Range(call'.follow)
         = Range(merged) \cup Range(lead) \cup Range(follow)
  BY <1>8, <1>10, <1>11, <1>13
<1>17. call'.count = Len(call'.merged) + Len(call'.lead) + Len(call'.follow)
  <2>1. Len(call'.lead) \in Nat /\ Len(call'.follow) \in Nat
    BY <1>10, LenProperties
  <2>2. call'.count = Len(merged) + Len(lead) + Len(follow) /\ Len(call'.merged) = Len(merged) + n
    BY <1>6, <1>10, <1>13
  <2>3. Len(call'.lead) + Len(call'.follow) = Len(lead) - n + Len(follow)
    BY <1>8, <1>11
  <2>4. n \in Nat
    BY <1>3, <1>5
  <2>5. Len(lead) \in Nat /\ Len(follow) \in Nat /\ Len(merged) \in Nat
    BY <1>5
  <2>6. Len(merged) + Len(lead) + Len(follow) = Len(merged) + n + Len(call'.lead) + Len(call'.follow)
    <3>1. PICK a \in Nat, b \in Nat, c \in Nat :
            a = Len(merged) /\ b = Len(lead) /\ c = Len(follow)
      BY <2>5
    <3>2. PICK x \in Nat, y \in Nat : x = Len(call'.lead) /\ y = Len(call'.follow)
      BY <2>1
    <3>3. x + y = b - n + c
      BY <2>3, <3>1, <3>2
    <3>4. a + b + c = a + n + x + y
      BY <2>4, <3>3
    <3> QED
      BY <3>1, <3>2, <3>4
  <2> QED
    BY <2>2, <2>6
<1>18. MergeSound'
  <2> DEFINE all == Range(merged) \cup Range(lead) \cup Range(follow)
  <2>1. /\ Range(ids) \subseteq all
        /\ call.op = "release" => Disjoint(all, PendingIds(pending))
        /\ call.op = "write" => all = Range(ids) \cup PendingIds(pending)
    BY <1>1 DEF MergeSound
  <2>2. PendingIds(pending)' = PendingIds(pending) /\ Range(ids)' = Range(ids)
    BY <1>1
  <2>3. Ascending(call'.merged)
    BY <1>10, <1>14
  <2> QED
    BY <1>10, <1>11, <1>15, <1>16, <1>17, <2>1, <2>2, <2>3 DEF MergeSound
<1>19. FreeIds' = FreeIds /\ Releasing' = Releasing
  BY <1>1, <1>10, <1>16 DEF FreeIds, Releasing
<1>20. CallSound'
  BY <1>10, <1>18 DEF CallSound
<1> QED
  BY <1>1, <1>10, <1>19, <1>20, CallMoves

LEMMA MergedIs ==
    ASSUME IInv, Merged
    PROVE  /\ call.at = "merge" /\ MergeSound
           /\ Union \in Seq(Pages) /\ Union \in Seq(Nat) /\ Ascending(Union)
           /\ Range(Union) = Range(call.merged) \cup Range(call.lead) \cup Range(call.follow)
           /\ Len(Union) = call.count /\ call.count \in Nat
<1>1. call.at = "merge" /\ call.lead = <<>> /\ MergeSound
  BY DEF Merged, IInv, CallSound
<1>2. /\ call.merged \in Seq(Pages) /\ call.follow \in Seq(Pages) /\ call.count \in Nat
      /\ Ascending(call.merged) /\ Ascending(call.follow)
      /\ \A p \in Range(call.merged), q \in Range(call.follow) : p < q
      /\ call.count = Len(call.merged) + Len(call.lead) + Len(call.follow)
  BY <1>1 DEF MergeSound
<1>3. Len(call.lead) = 0 /\ Range(call.lead) = {}
  BY <1>1, EmptyList
<1>4. /\ Union \in Seq(Pages) /\ Range(Union) = Range(call.merged) \cup Range(call.follow)
      /\ Len(Union) = Len(call.merged) + Len(call.follow)
  BY <1>2, ConcatIs DEF Union
<1>5. Len(call.merged) \in Nat /\ Len(call.follow) \in Nat
  BY <1>2, LenProperties
<1>6. call.merged \in Seq(Nat) /\ call.follow \in Seq(Nat) /\ Union \in Seq(Nat)
  BY <1>2, <1>4, Known, SeqMonotonic
<1>7. Ascending(Union)
  BY <1>2, <1>6, ConcatAscending DEF Union
<1>8. Len(Union) = call.count
  BY <1>2, <1>3, <1>4, <1>5
<1> QED
  BY <1>1, <1>2, <1>3, <1>4, <1>6, <1>7, <1>8

LEMMA ReleasedStep ==
    ASSUME IInv, Released
    PROVE  IInv' /\ SetsStep
<1>1. /\ Merged /\ call.op = "release" /\ ids' = Union /\ call' = Idle
      /\ UNCHANGED <<pending, cache, page, txid, got>>
  BY DEF Released, Returns
<1>2. /\ call.at = "merge" /\ MergeSound /\ Union \in Seq(Pages) /\ Ascending(Union)
      /\ Range(Union) = Range(call.merged) \cup Range(call.lead) \cup Range(call.follow)
  BY <1>1, MergedIs
<1>3. call'.at = "idle"
  BY <1>1 DEF Idle
<1>4. FreeIds' = Range(Union) /\ FreeIds = Range(Union)
  BY <1>1, <1>2, <1>3 DEF FreeIds
<1>5. Releasing = {} /\ Releasing' = {}
  BY <1>2, <1>3 DEF Releasing
<1>6. Disjoint(Range(Union), PendingIds(pending))
  BY <1>1, <1>2 DEF MergeSound
<1>7. TypeOK' /\ PendingSound' /\ PageSound' /\ CallSound'
  BY <1>1, <1>2, <1>3 DEF IInv, TypeOK, PendingSound, PageSound, PageIds, CallSound, Idle
<1>8. PendingIds(pending)' = PendingIds(pending) /\ Range(ids)' = Range(Union) /\ Ascending(ids)'
  BY <1>1, <1>2
<1>9. cache' = FreeIds' \cup PendingIds(pending)' /\ Disjoint(Range(ids), PendingIds(pending))'
  BY <1>1, <1>4, <1>6, <1>8 DEF IInv
<1>10. PendingPairs' = PendingPairs
  BY <1>1, <1>5 DEF PendingPairs
<1> QED
  BY <1>1, <1>4, <1>7, <1>8, <1>9, <1>10, Stutters DEF IInv

LEMMA TailIs ==
    ASSUME NEW s \in Seq(Nat), NEW x \in Nat
    PROVE  <<x>> \o s \in Seq(Nat) /\ Tail(<<x>> \o s) = s
<1>1. <<x>> \in Seq(Nat) /\ Len(<<x>>) = 1
  OBVIOUS
<1>2. Len(s) \in Nat
  BY LenProperties
<1>3. PICK e \in Seq(Nat) : e = <<x>> \o s
  BY <1>1, ConcatProperties
<1>4. /\ Len(e) = 1 + Len(s)
      /\ \A i \in 1 .. 1 + Len(s) : e[i] = IF i <= 1 THEN <<x>>[i] ELSE s[i - 1]
  BY <1>1, <1>3, ConcatProperties
<1>5. e # <<>>
  BY <1>2, <1>4, EmptySeq
<1>6. /\ Tail(e) \in Seq(Nat) /\ Len(Tail(e)) = Len(e) - 1
      /\ \A i \in 1 .. Len(Tail(e)) : Tail(e)[i] = e[i + 1]
  BY <1>5, HeadTailProperties
<1>7. Len(Tail(e)) = Len(s)
  BY <1>2, <1>4, <1>6
<1>8. ASSUME NEW i \in 1 .. Len(s)
      PROVE  Tail(e)[i] = s[i]
  <2>1. PICK j \in 1 .. 1 + Len(s) : j = i + 1 /\ ~ (j <= 1) /\ j - 1 = i
    BY <1>2
  <2>2. e[j] = s[j - 1]
    BY <1>4, <2>1
  <2> QED
    BY <1>6, <1>7, <2>1, <2>2
<1>9. Tail(e) = s
  BY <1>6, <1>7, <1>8, SeqEqual
<1> QED
  BY <1>3, <1>9

LEMMA WrittenStep ==
    ASSUME IInv, Written
    PROVE  IInv' /\ SetsStep
<1>1. /\ Merged /\ call.op = "write" /\ got' = 1 /\ call' = Idle
      /\ page' = IF call.count < CountLimit
                   THEN [count |-> call.count, elems |-> Union]
                   ELSE [count |-> CountLimit, elems |-> <<call.count>> \o Union]
      /\ UNCHANGED <<ids, pending, cache, txid>>
  BY DEF Written, Returns
<1>2. /\ call.at = "merge" /\ MergeSound
      /\ Union \in Seq(Pages) /\ Union \in Seq(Nat) /\ Ascending(Union)
      /\ Range(Union) = Range(call.merged) \cup Range(call.lead) \cup Range(call.follow)
      /\ Len(Union) = call.count /\ call.count \in Nat
  BY <1>1, MergedIs
<1>3. CountLimit \in Nat
  BY FreelistAssumption
<1>4. PageIds' = Union /\ PageSound' /\ page' \in [count : Nat, elems : Seq(Nat)]
  <2>1. CASE call.count < CountLimit
    <3>1. page'.count = call.count /\ page'.elems = Union /\ page'.count # CountLimit
      BY <1>1, <1>2, <1>3, <2>1
    <3>2. PageIds' = Union
      BY <3>1 DEF PageIds
    <3>3. PageSound'
      BY <1>2, <2>1, <3>1, <3>2 DEF PageSound
    <3> QED
      BY <1>1, <1>2, <2>1, <3>2, <3>3
  <2>2. CASE ~ (call.count < CountLimit)
    <3>1. /\ page' = [count |-> CountLimit, elems |-> <<call.count>> \o Union]
          /\ page'.count = CountLimit /\ page'.elems = <<call.count>> \o Union
      BY <1>1, <2>2
    <3>2. <<call.count>> \o Union \in Seq(Nat) /\ Tail(<<call.count>> \o Union) = Union
      BY <1>2, TailIs
    <3>3. PageIds' = Union
      BY <3>1, <3>2 DEF PageIds
    <3>4. call.count >= CountLimit
      BY <1>2, <1>3, <2>2
    <3>5. PageSound'
      BY <1>2, <3>1, <3>3, <3>4 DEF PageSound
    <3> QED
      BY <1>3, <3>1, <3>2, <3>3, <3>5
  <2> QED
    BY <2>1, <2>2
<1>5. call'.at = "idle"
  BY <1>1 DEF Idle
<1>6. /\ FreeIds = Range(ids) /\ FreeIds' = Range(ids)
      /\ Releasing = {} /\ Releasing' = {}
  BY <1>1, <1>2, <1>5 DEF FreeIds, Releasing
<1>7. TypeOK' /\ PendingSound' /\ CallSound' /\ Ascending(ids)'
  BY <1>1, <1>4, <1>5 DEF IInv, TypeOK, PendingSound, CallSound, Idle, Ascending
<1>8. cache' = FreeIds' \cup PendingIds(pending)' /\ Disjoint(Range(ids), PendingIds(pending))'
  BY <1>1, <1>2, <1>6 DEF IInv, PendingIds
<1>9. Sets!Commit
  <2>1. Range(Union) = Range(ids) \cup PendingIds(pending)
    BY <1>1, <1>2 DEF MergeSound
  <2>2. PendingPairs = PairsOf(pending, Txids) /\ PendingPairs' = PendingPairs
    BY <1>1, <1>6 DEF PendingPairs, PairsOf
  <2>3. PendingPages(PendingPairs) = PendingIds(pending)
    BY <2>2, PairsAre DEF PendingIds
  <2>4. Range(PageIds)' = Range(ids) \cup PendingIds(pending)
    BY <1>4, <2>1 DEF Range
  <2> QED
    BY <1>1, <1>6, <2>2, <2>3, <2>4
       DEF Sets!Commit, Sets!Listed, Sets!PendingPages, PendingPages
<1> QED
  BY <1>4, <1>5, <1>7, <1>8, <1>9 DEF IInv, SetsStep, Sets!Next

-----------------------------------------------------------------------------
(* rollback, reload and Open.                                              *)

LEMMA SameReadBack ==
    ASSUME NEW list
    PROVE  Sets!ReadBack(list) = ReadBack(list)
  BY DEF Sets!ReadBack, ReadBack, Sets!Cardinality, Cardinality

LEMMA RollbackStep ==
    ASSUME IInv, Rollback
    PROVE  IInv' /\ SetsStep
<1>1. /\ call.at = "idle" /\ got' = 1
      /\ pending' = [pending EXCEPT ![txid] = <<>>]
      /\ ids' \in Sortings(ReadIds(page))
      /\ cache' = Range(ids') \cup PendingIds(pending')
      /\ call' = [at |-> "reload", i |-> 1, a |-> <<>>]
      /\ UNCHANGED <<page, txid>>
  BY DEF Rollback, Idle, Reindexed
<1>2. call'.at = "reload" /\ call'.i = 1 /\ call'.a = <<>>
  BY <1>1
<1>3. ids' \in Seq(Pages) /\ Ascending(ids') /\ Range(ids') = ReadBack(Range(PageIds))
  BY <1>1, ReadingIs DEF IInv
<1>4. pending \in [Txids -> Seq(Pages)] /\ txid \in Txids
  BY DEF IInv, TypeOK
<1>5. pending'[txid] = <<>> /\ \A u \in Txids \ {txid} : pending'[u] = pending[u]
  BY <1>1, <1>4
<1>6. Range(pending'[txid]) = {} /\ Distinct(pending'[txid])
  BY <1>5, EmptyList
<1>7. PendingSound'
  <2>1. \A u \in Txids : Distinct(pending'[u])
    BY <1>5, <1>6 DEF IInv, PendingSound
  <2>2. ASSUME NEW u \in Txids, NEW v \in Txids, u # v
        PROVE  Disjoint(Range(pending'[u]), Range(pending'[v]))
    <3>1. Disjoint(Range(pending[u]), Range(pending[v]))
      BY <2>2 DEF IInv, PendingSound
    <3> QED
      BY <1>5, <1>6, <3>1 DEF Disjoint
  <2> QED
    BY <2>1, <2>2 DEF PendingSound
<1>8. TypeOK'
  BY <1>1, <1>3, <1>4, EmptyList DEF IInv, TypeOK
<1>9. PageSound'
  BY <1>1 DEF IInv, PageSound, PageIds
<1>10. ReloadSound'
  <2>1. Len(ids') \in Nat
    BY <1>3, LenProperties
  <2>2. 1 \in 1 .. Len(ids') + 1 /\ 1 .. 1 - 1 = {}
    BY <2>1
  <2>3. call' \in [at : {"reload"}, i : 1 .. Len(ids') + 1, a : Seq(Pages)]
    BY <1>1, <2>2, EmptyList
  <2>4. Range(call'.a) = {ids'[j] : j \in 1 .. call'.i - 1} \ PendingIds(pending)'
    <3>1. 1 .. call'.i - 1 = {}
      BY <1>2, <2>2
    <3> QED
      BY <1>2, <3>1, EmptyList
  <2> QED
    BY <1>2, <2>3, <2>4, EmptyList DEF ReloadSound
<1>11. CallSound'
  BY <1>2, <1>10 DEF CallSound
<1>12. FreeIds' = Range(ids') \ PendingIds(pending')
  BY <1>2 DEF FreeIds
<1>13. cache' = FreeIds' \cup PendingIds(pending)'
  BY <1>1, <1>12
<1>14. Sets!Rollback
  <2>1. PendingPairs = PairsOf(pending, Txids) /\ PendingPairs' = PairsOf(pending', Txids)
    BY <1>1, <1>2 DEF PendingPairs, PairsOf, Releasing
  <2>2. PendingPairs' = Without(PendingPairs, txid)
    <3>1. ASSUME NEW t, NEW x
          PROVE  <<t, x>> \in PendingPairs' <=> <<t, x>> \in PendingPairs /\ t # txid
      <4>1. t \in Txids /\ x \in Range(pending'[t])
            <=> t \in Txids /\ x \in Range(pending[t]) /\ t # txid
        BY <1>5, <1>6
      <4> QED
        BY <2>1, <4>1, PairsAre
    <3>2. PendingPairs' \subseteq Without(PendingPairs, txid)
      BY <2>1, <3>1, PairsAre DEF Without
    <3>3. Without(PendingPairs, txid) \subseteq PendingPairs'
      BY <2>1, <3>1, PairsAre DEF Without
    <3> QED
      BY <3>2, <3>3
  <2>3. PendingPages(PendingPairs') = PendingIds(pending')
    BY <2>1, PairsAre DEF PendingIds
  <2>4. Range(PageIds)' = Range(PageIds)
    BY <1>1 DEF PageIds, Range
  <2>5. FreeIds' = ReadBack(Range(PageIds)) \ PendingPages(PendingPairs')
    BY <1>3, <1>12, <2>3
  <2> QED
    <3>1. PendingPairs' = Sets!Without(PendingPairs, txid)
      BY <2>2 DEF Sets!Without, Without
    <3>2. FreeIds' = Sets!ReadBack(Range(PageIds)) \ Sets!PendingPages(PendingPairs')
      BY <2>5, SameReadBack DEF Sets!PendingPages, PendingPages
    <3> QED
      BY <1>1, <2>4, <3>1, <3>2 DEF Sets!Rollback
<1> QED
  BY <1>2, <1>3, <1>7, <1>8, <1>9, <1>11, <1>13, <1>14 DEF IInv, SetsStep, Sets!Next

LEMMA ReloadStep ==
    ASSUME IInv, Reload
    PROVE  IInv' /\ SetsStep
<1>1. /\ call.at = "reload" /\ call.i <= Len(ids) /\ ReloadSound
      /\ call' = [call EXCEPT !.i = @ + 1,
                              !.a = IF ids[call.i] \in PendingIds(pending) THEN @
                                    ELSE Append(@, ids[call.i])]
      /\ UNCHANGED <<ids, pending, cache, page, txid, got>>
  BY DEF Reload, IInv, CallSound
<1>2. /\ call \in [at : {"reload"}, i : 1 .. Len(ids) + 1, a : Seq(Pages)]
      /\ Ascending(call.a)
      /\ Range(call.a) = {ids[j] : j \in 1 .. call.i - 1} \ PendingIds(pending)
  BY <1>1 DEF ReloadSound
<1>3. Len(ids) \in Nat
  BY Known
<1>4. PICK i \in 1 .. Len(ids) : i = call.i
  BY <1>1, <1>2, <1>3
<1>5. ids[i] \in Pages /\ ids[i] \in Nat
  BY Known
<1>6. call.a \in Seq(Pages) /\ call.a \in Seq(Nat)
  BY <1>2, Known, SeqMonotonic
<1>7. 1 .. i + 1 - 1 = (1 .. i - 1) \cup {i}
  BY <1>3
<1>8. PICK a \in Seq(Pages) :
        a = IF ids[i] \in PendingIds(pending) THEN call.a ELSE Append(call.a, ids[i])
  BY <1>5, <1>6, AppendProperties
<1>9. /\ call'.at = "reload" /\ call'.i = i + 1 /\ call'.a = a
      /\ call' \in [at : {"reload"}, i : 1 .. Len(ids) + 1, a : Seq(Pages)]
  <2>1. i + 1 \in 1 .. Len(ids) + 1
    BY <1>3
  <2>2. call' = [call EXCEPT !.i = i + 1, !.a = a]
    BY <1>1, <1>4, <1>8
  <2> QED
    BY <1>2, <2>1, <2>2
<1>10. Ascending(a) /\ Range(a) = {ids[j] : j \in 1 .. i + 1 - 1} \ PendingIds(pending)
  <2>1. {ids[j] : j \in 1 .. i + 1 - 1} = {ids[j] : j \in 1 .. i - 1} \cup {ids[i]}
    BY <1>7
  <2>2. CASE ids[i] \in PendingIds(pending)
    BY <1>2, <1>4, <1>8, <2>1, <2>2
  <2>3. CASE ids[i] \notin PendingIds(pending)
    <3>1. a = call.a \o <<ids[i]>>
      BY <1>5, <1>6, <1>8, <2>3, AppendIsConcat
    <3>2. /\ <<ids[i]>> \in Seq(Pages) /\ <<ids[i]>> \in Seq(Nat)
          /\ Len(<<ids[i]>>) = 1 /\ <<ids[i]>>[1] = ids[i]
      BY <1>5
    <3>3. Ascending(<<ids[i]>>)
      BY <3>2 DEF Ascending
    <3>4. Range(<<ids[i]>>) = {ids[i]}
      <4>1. Range(<<ids[i]>>) = {<<ids[i]>>[j] : j \in 1 .. 1}
        BY <3>2, RangeIs
      <4> QED
        BY <3>2, <4>1
    <3>5. Range(a) = Range(call.a) \cup {ids[i]}
      <4>1. PICK e \in Seq(Pages) : e = <<ids[i]>>
        BY <3>2
      <4>2. Range(call.a \o e) = Range(call.a) \cup Range(e)
        BY <1>6, ConcatIs
      <4> QED
        BY <3>1, <3>4, <4>1, <4>2
    <3>6. \A j \in 1 .. i - 1 : j \in 1 .. Len(ids) /\ j < i
      BY <1>3
    <3>7. \A j \in 1 .. i - 1 : ids[j] < ids[i]
      BY <3>6 DEF IInv, Ascending
    <3>8. \A p \in Range(call.a), q \in Range(<<ids[i]>>) : p < q
      BY <1>2, <1>4, <3>4, <3>7
    <3>9. Ascending(a)
      BY <1>2, <1>6, <3>1, <3>2, <3>3, <3>8, ConcatAscending
    <3> QED
      BY <1>2, <1>4, <2>1, <2>3, <3>5, <3>9
  <2> QED
    BY <2>2, <2>3
<1>11. ReloadSound'
  <2>1. PendingIds(pending)' = PendingIds(pending) /\ ids' = ids
    BY <1>1
  <2> QED
    BY <1>9, <1>10, <2>1 DEF ReloadSound
<1>12. CallSound'
  BY <1>9, <1>11 DEF CallSound
<1>13. FreeIds' = FreeIds /\ Releasing' = Releasing
  BY <1>1, <1>9 DEF FreeIds, Releasing
<1> QED
  BY <1>1, <1>9, <1>12, <1>13, CallMoves

LEMMA ReloadedStep ==
    ASSUME IInv, Reloaded
    PROVE  IInv' /\ SetsStep
<1>1. /\ call.at = "reload" /\ call.i > Len(ids) /\ ReloadSound
      /\ ids' = call.a /\ cache' = Range(ids') \cup PendingIds(pending) /\ call' = Idle
      /\ UNCHANGED <<pending, page, txid, got>>
  BY DEF Reloaded, IInv, CallSound, Returns, Reindexed
<1>2. /\ call.i \in 1 .. Len(ids) + 1 /\ call.a \in Seq(Pages) /\ Ascending(call.a)
      /\ Range(call.a) = {ids[j] : j \in 1 .. call.i - 1} \ PendingIds(pending)
  BY <1>1 DEF ReloadSound
<1>3. call.i - 1 = Len(ids)
  BY <1>1, <1>2, Known
<1>4. Range(call.a) = Range(ids) \ PendingIds(pending)
  BY <1>2, <1>3, Known
<1>5. call'.at = "idle"
  BY <1>1 DEF Idle
<1>6. /\ FreeIds = Range(ids) \ PendingIds(pending) /\ FreeIds' = Range(ids')
      /\ Releasing = {} /\ Releasing' = {}
  BY <1>1, <1>5 DEF FreeIds, Releasing
<1>7. TypeOK' /\ PendingSound' /\ PageSound' /\ CallSound' /\ Ascending(ids)'
  BY <1>1, <1>2, <1>5 DEF IInv, TypeOK, PendingSound, PageSound, PageIds, CallSound, Idle
<1>8. cache' = FreeIds' \cup PendingIds(pending)' /\ Disjoint(Range(ids), PendingIds(pending))'
  BY <1>1, <1>4, <1>6 DEF Disjoint
<1>9. FreeIds' = FreeIds
  BY <1>1, <1>4, <1>6
<1>10. PendingPairs' = PendingPairs
  BY <1>1, <1>6 DEF PendingPairs
<1> QED
  BY <1>1, <1>5, <1>7, <1>8, <1>9, <1>10, Stutters DEF IInv

LEMMA NothingPending ==
    ASSUME NEW pend, pend = [t \in Txids |-> <<>>]
    PROVE  /\ pend \in [Txids -> Seq(Pages)]
           /\ PendingIds(pend) = {} /\ PairsOf(pend, Txids) = {}
           /\ \A t \in Txids : Range(pend[t]) = {} /\ Distinct(pend[t])
<1>1. \A t \in Txids : pend[t] = <<>>
  OBVIOUS
<1>2. \A t \in Txids : Range(pend[t]) = {} /\ Distinct(pend[t])
  BY <1>1, EmptyList
<1> QED
  BY <1>2, EmptyList DEF PendingIds, PairsOf

LEMMA ReopenStep ==
    ASSUME IInv, Reopen
    PROVE  IInv' /\ SetsStep
<1>1. /\ pending' = [t \in Txids |-> <<>>] /\ got' = 1 /\ call' = Idle /\ call'.at = "idle"
      /\ ids' \in Sortings(ReadIds(page))
      /\ cache' = Range(ids') \cup PendingIds(pending')
      /\ UNCHANGED <<page, txid>>
  BY DEF Reopen, Returns, Idle, Reindexed
<1>2. ids' \in Seq(Pages) /\ Ascending(ids') /\ Range(ids') = ReadBack(Range(PageIds))
  BY <1>1, ReadingIs DEF IInv
<1>3. /\ pending' \in [Txids -> Seq(Pages)]
      /\ PendingIds(pending') = {} /\ PairsOf(pending', Txids) = {}
      /\ \A t \in Txids : Range(pending'[t]) = {} /\ Distinct(pending'[t])
  BY <1>1, NothingPending
<1>4. FreeIds' = Range(ids') /\ Releasing' = {}
  BY <1>1 DEF FreeIds, Releasing
<1>5. TypeOK' /\ PendingSound' /\ PageSound' /\ CallSound' /\ Ascending(ids)'
  BY <1>1, <1>2, <1>3
     DEF IInv, TypeOK, PendingSound, Disjoint, PageSound, PageIds, CallSound
<1>6. cache' = FreeIds' \cup PendingIds(pending)' /\ Disjoint(Range(ids), PendingIds(pending))'
  BY <1>1, <1>3, <1>4 DEF Disjoint
<1>7. Sets!Reopen
  <2>1. PendingPairs' = {}
    BY <1>3, <1>4 DEF PendingPairs, PairsOf
  <2>2. Range(PageIds)' = Range(PageIds)
    BY <1>1 DEF PageIds, Range
  <2> QED
    BY <1>1, <1>2, <1>4, <2>1, <2>2, SameReadBack DEF Sets!Reopen
<1> QED
  BY <1>1, <1>5, <1>6, <1>7 DEF IInv, SetsStep, Sets!Next

-----------------------------------------------------------------------------
(* The theorems.                                                           *)

LEMMA InitHolds ==
    ASSUME Init
    PROVE  IInv /\ Sets!Init
<1>1. /\ ids = <<>> /\ pending = [t \in Txids |-> <<>>] /\ cache = {}
      /\ page = [count |-> 0, elems |-> <<>>] /\ txid = 1 /\ got = 1
      /\ call = Idle /\ call.at = "idle"
  BY DEF Init, Idle
<1>2. /\ pending \in [Txids -> Seq(Pages)]
      /\ PendingIds(pending) = {} /\ PairsOf(pending, Txids) = {}
      /\ \A t \in Txids : Range(pending[t]) = {} /\ Distinct(pending[t])
  BY <1>1, NothingPending
<1>3. CountLimit \in Nat \ {0} /\ 1 \in Txids
  BY FreelistAssumption, SizesAssumption DEF Txids
<1>4. page.count = 0 /\ page.elems = <<>> /\ page.count # CountLimit /\ page.count < CountLimit
  BY <1>1, <1>3
<1>5. PageIds = <<>>
  BY <1>4 DEF PageIds
<1>6. PageSound
  BY <1>4, <1>5, EmptyList DEF PageSound
<1>7. TypeOK
  <2>1. <<>> \in Seq(Nat)
    BY EmptySeq
  <2> QED
    BY <1>1, <1>2, <1>3, <2>1, EmptyList DEF TypeOK
<1>8. FreeIds = {} /\ Releasing = {}
  BY <1>1, EmptyList DEF FreeIds, Releasing
<1>9. PendingSound /\ CallSound /\ Ascending(ids) /\ Disjoint(Range(ids), PendingIds(pending))
  BY <1>1, <1>2, EmptyList DEF PendingSound, CallSound, Disjoint
<1>10. IInv
  BY <1>1, <1>2, <1>6, <1>7, <1>8, <1>9 DEF IInv
<1>11. Sets!Init
  BY <1>1, <1>2, <1>5, <1>8, EmptyList DEF Sets!Init, PendingPairs, PairsOf
<1> QED
  BY <1>10, <1>11

LEMMA StepHolds ==
    ASSUME IInv, [Next]_vars
    PROVE  IInv' /\ SetsStep
<1>1. ASSUME UNCHANGED vars
      PROVE  IInv' /\ SetsStep
  <2>1. UNCHANGED <<ids, pending, cache, page, txid, got, call>>
    BY <1>1 DEF vars
  <2>2. FreeIds' = FreeIds /\ Releasing' = Releasing
    BY <2>1 DEF FreeIds, Releasing
  <2>3. CallSound'
    BY <2>1 DEF IInv, CallSound, ScanSound, GatherSound, MergeSound, ReloadSound
  <2> QED
    BY <2>1, <2>2, <2>3, CallMoves
<1>2. ASSUME NEW n \in Sizes, Allocate(n)
      PROVE  IInv' /\ SetsStep
  BY <1>2, AllocateStep
<1>3. ASSUME NEW id \in 2 .. MaxPage, NEW len \in Sizes, Free(id, len)
      PROVE  IInv' /\ SetsStep
  BY <1>3, FreeStep
<1>4. ASSUME NEW bound \in 0 .. txid, Release(bound)
      PROVE  IInv' /\ SetsStep
  BY <1>4, ReleaseStep
<1>5. ASSUME NEW t \in Txids, Gather(t)
      PROVE  IInv' /\ SetsStep
  BY <1>5, GatherStep
<1> QED
  BY <1>1, <1>2, <1>3, <1>4, <1>5, ScanStep, NothingFoundStep, WriteStep, SortStep,
     MergeStep, ReleasedStep, WrittenStep, RollbackStep, ReloadStep, ReloadedStep,
     ReopenStep DEF Next

(* The loops of allocate, release, copyall, mergepgids and reload keep     *)
(* their lists ascending, without duplicates, and apart.                   *)
THEOREM FreelistInvariant == Spec => []IInv
<1>1. Init => IInv
  BY InitHolds
<1>2. IInv /\ [Next]_vars => IInv'
  BY StepHolds
<1> QED
  BY <1>1, <1>2, PTL DEF Spec

(* Between calls the cache that free checks against (freelist.go:117-119)  *)
(* holds exactly the free and the pending pages, and allocate never finds  *)
(* a meta page in ids (freelist.go:73-75).                                 *)
THEOREM CacheStaysExact == Spec => []CacheExact
<1>1. IInv => CacheExact
  <2> SUFFICES ASSUME IInv PROVE CacheExact
    OBVIOUS
  <2>1. \A id \in Range(ids) : id > 1
    BY Known
  <2>2. call = Idle => FreeIds = Range(ids)
    BY DEF FreeIds, Idle
  <2> QED
    BY <2>1, <2>2 DEF CacheExact, IInv
<1> QED
  BY <1>1, FreelistInvariant, PTL

(* The sorted lists do what db.go and tx.go rely on: FreeSets is           *)
(* implemented, for every bound and every list.                            *)
THEOREM ImplementsFreeSets == Spec => ImplementsSets
<1>1. Init => Sets!Init
  BY InitHolds
<1>2. IInv /\ [Next]_vars => [Sets!Next]_(Sets!vars)
  BY StepHolds DEF SetsStep
<1> QED
  BY <1>1, <1>2, FreelistInvariant, PTL DEF Spec, ImplementsSets, Sets!Spec
=============================================================================
