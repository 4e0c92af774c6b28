---------------------------- MODULE BatchProofs ----------------------------
(***************************************************************************)
(* Proofs about Batch: every call of DB.Batch gets one answer, and it says *)
(* what happened to its function, for any number of calls, batches,        *)
(* retries and failures.                                                   *)
(***************************************************************************)
EXTENDS Batch, FiniteSetTheorems, SequenceTheorems, TLAPS

-----------------------------------------------------------------------------
(* The inductive invariant.                                                *)

TypeOK ==
    /\ MaxBatchSize \in Int
    /\ current \in Batches \cup {None}
    /\ created \in Nat
    /\ calls \in [Batches -> Seq(Calls)]
    /\ triggers \in [Batches -> SUBSET {"timer", "full"}]
    /\ once \in [Batches -> BOOLEAN]
    /\ running \in [Batches -> {0, 1}]
    /\ result \in [Batches -> Answers \cup {"none"}]
    /\ answered \in [Batches -> Nat]
    /\ caller \in [Calls -> Answers \cup {"idle", "waiting", "solo"}]
    /\ errCh \in [Calls -> Seq(Answers \cup {"trySolo"})]
    /\ applied \in [Calls -> Nat]

(* There are no more batches than calls, and the rest is untouched.        *)
Began == {c \in Calls : caller[c] # "idle"}

BatchesCounted ==
    /\ created <= Cardinality(Began)
    /\ current # None => current <= created
    /\ \A b \in Batches : b > created => calls[b] = <<>> /\ triggers[b] = {}

(* The life of a batch: collecting calls, running, passing on its result.  *)
LifeSound ==
    /\ current # None => ~once[current]
    /\ \A b \in Batches :
         /\ b <= created /\ ~once[b] => calls[b] # <<>>
         /\ b > created => ~once[b]
         /\ running[b] = 1 => once[b] /\ calls[b] # <<>>
         /\ IF result[b] = "none" THEN answered[b] = 0
              ELSE running[b] = 1 /\ answered[b] < Len(calls[b])

(* A call is in one batch, in one place, and in none before it is made.    *)
CallsDistinct ==
    \A a, b \in Batches : \A i \in 1 .. Len(calls[a]), j \in 1 .. Len(calls[b]) :
        calls[a][i] = calls[b][j] => a = b /\ i = j

CallsMade ==
    \A b \in Batches : \A i \in 1 .. Len(calls[b]) : caller[calls[b][i]] # "idle"

(* The call in place i of a batch has no answer yet: the batch has not run,*)
(* or it is running and did not come to i.                                 *)
Pending(b, i) == (once[b] => running[b] = 1) /\ i > answered[b]

PendingSound ==
    \A b \in Batches : \A i \in 1 .. Len(calls[b]) :
        Pending(b, i) =>
            /\ caller[calls[b][i]] = "waiting"
            /\ errCh[calls[b][i]] = <<>>
            /\ applied[calls[b][i]] = Effect(result[b])

(* A message tells what happened to the function.                          *)
MessagesSound ==
    \A c \in Calls :
        errCh[c] # <<>> => applied[c] = Effect(Head(errCh[c]))

IInv ==
    /\ TypeOK
    /\ BatchesCounted
    /\ LifeSound
    /\ CallsDistinct
    /\ CallsMade
    /\ PendingSound
    /\ MessagesSound
    /\ EffectMatchesAnswer
    /\ OneMessagePerCall
    /\ BatchSizeBounded

-----------------------------------------------------------------------------
(* Lemmas.                                                                 *)

LEMMA OneMore ==
    ASSUME NEW n \in Nat
    PROVE  /\ n + 1 \in Nat /\ n < n + 1 /\ n + 1 \in 1 .. n + 1
           /\ \A i \in 1 .. n + 1 : i \in 1 .. n \/ i = n + 1
           /\ \A i \in 1 .. n : i \in 1 .. n + 1 /\ i # n + 1
           /\ \A m \in Int : n < m => n + 1 <= m
  OBVIOUS

LEMMA OneLess ==
    ASSUME NEW n \in Nat \ {0}
    PROVE  /\ n - 1 \in Nat /\ n - 1 < n /\ n \in 1 .. n
           /\ \A i \in 1 .. n - 1 : i \in 1 .. n /\ i # n
           /\ \A i \in 1 .. n : i = n \/ i \in 1 .. n - 1
  OBVIOUS

LEMMA LengthSound ==
    ASSUME NEW S, NEW s \in Seq(S)
    PROVE  /\ Len(s) \in Nat
           /\ s # <<>> <=> Len(s) \in Nat \ {0}
           /\ \A i \in 1 .. Len(s) : s[i] \in S
  OBVIOUS

(* What run leaves of a batch when call k fails: the last call is now in   *)
(* the place of the failing one, the others are where they were.           *)
LEMMA WithoutSound ==
    ASSUME NEW S, NEW s \in Seq(S), NEW k \in 1 .. Len(s)
    PROVE  /\ Without(s, k) \in Seq(S)
           /\ Len(Without(s, k)) = Len(s) - 1
           /\ \A i \in 1 .. Len(s) - 1 :
                Without(s, k)[i] = s[IF i = k THEN Len(s) ELSE i]
<1> DEFINE t == [s EXCEPT ![k] = s[Len(s)]]
<1>1. Len(s) \in Nat \ {0} /\ \A i \in 1 .. Len(s) : s[i] \in S
  OBVIOUS
<1>2. Len(s) \in 1 .. Len(s) /\ Len(s) - 1 \in Nat
  BY <1>1, OneLess
<1>3. /\ t \in Seq(S) /\ Len(t) = Len(s)
      /\ \A i \in 1 .. Len(s) : t[i] = s[IF i = k THEN Len(s) ELSE i]
  BY <1>1, <1>2, ExceptSeq
<1> HIDE DEF t
<1>4. /\ SubSeq(t, 1, Len(s) - 1) \in Seq(S)
      /\ Len(SubSeq(t, 1, Len(s) - 1)) = IF 1 <= Len(s) - 1 THEN Len(s) - 1 - 1 + 1 ELSE 0
      /\ \A i \in 1 .. Len(s) - 1 - 1 + 1 : SubSeq(t, 1, Len(s) - 1)[i] = t[1 + i - 1]
  <2>1. \A i \in 1 .. Len(s) - 1 : t[i] \in S
    BY <1>1, <1>2, <1>3, OneLess
  <2>2. 1 .. Len(s) - 1 \subseteq 1 .. Len(t)
    BY <1>1, <1>3, OneLess
  <2> QED
    BY <1>3, <2>1, <2>2, SubSeqProperties
<1>5. ASSUME NEW n \in Nat \ {0}
      PROVE  /\ (IF 1 <= n - 1 THEN n - 1 - 1 + 1 ELSE 0) = n - 1
             /\ n - 1 - 1 + 1 = n - 1
             /\ \A i \in 1 .. n - 1 : 1 + i - 1 = i /\ i \in 1 .. n
  OBVIOUS
<1> QED
  BY <1>1, <1>3, <1>4, <1>5 DEF Without, t

(* While a call has not been made there is room for one more batch.        *)
LEMMA RoomForBatch ==
    ASSUME TypeOK, BatchesCounted, NEW c \in Calls, caller[c] = "idle"
    PROVE  /\ created + 1 \in Batches
           /\ Began \cup {c} \subseteq Calls /\ c \notin Began
           /\ IsFiniteSet(Began)
           /\ Cardinality(Began \cup {c}) = Cardinality(Began) + 1
<1>1. IsFiniteSet(Calls) /\ Began \subseteq Calls /\ c \notin Began
  BY BatchAssumption DEF Began
<1>2. IsFiniteSet(Began)
  BY <1>1, FS_Subset
<1>3. Cardinality(Began \cup {c}) = Cardinality(Began) + 1
  BY <1>1, <1>2, FS_AddElement
<1>4. Began \cup {c} \subseteq Calls
  BY <1>1
<1>5. Cardinality(Began \cup {c}) <= Cardinality(Calls)
  BY <1>1, <1>4, FS_Subset
<1>6. Cardinality(Began) \in Nat /\ Cardinality(Calls) \in Nat
  BY <1>1, <1>2, FS_CardinalityType
<1>7. created \in Nat /\ created <= Cardinality(Began)
  BY DEF TypeOK, BatchesCounted
<1>8. ASSUME NEW m \in Nat, NEW n \in Nat, NEW k \in Nat, m <= n, n + 1 <= k
      PROVE  m + 1 \in 1 .. k
  BY <1>8
<1>9. created + 1 \in 1 .. Cardinality(Calls)
  BY <1>3, <1>5, <1>6, <1>7, <1>8
<1> QED
  BY <1>1, <1>2, <1>3, <1>4, <1>9 DEF Batches

(* How often a call is in a batch.                                         *)
LEMMA CountedOnce ==
    ASSUME TypeOK, CallsDistinct, NEW b \in Batches, NEW c \in Calls
    PROVE  LET at == {i \in 1 .. Len(calls[b]) : calls[b][i] = c}
           IN  Cardinality(at) = IF at = {} THEN 0 ELSE 1
<1> DEFINE at == {i \in 1 .. Len(calls[b]) : calls[b][i] = c}
<1>1. CASE at = {}
  BY <1>1, FS_EmptySet
<1>2. CASE at # {}
  <2>1. PICK i \in 1 .. Len(calls[b]) : calls[b][i] = c
    BY <1>2
  <2>2. at = {i}
    BY <2>1 DEF CallsDistinct
  <2> QED
    BY <1>2, <2>2, FS_Singleton
<1> QED
  BY <1>1, <1>2

-----------------------------------------------------------------------------
(* One lemma for each action.                                              *)

LEMMA CallBatchStep ==
    ASSUME IInv, NEW c \in Calls, CallBatch(c)
    PROVE  IInv'
<1> DEFINE new == current = None \/ Full(current)
           b == IF new THEN created + 1 ELSE current
           more == Append(calls[b], c)
<1>1. /\ caller[c] = "idle"
      /\ caller' = [caller EXCEPT ![c] = "waiting"]
      /\ current' = b
      /\ created' = IF new THEN created + 1 ELSE created
      /\ calls' = [calls EXCEPT ![b] = more]
      /\ triggers' = [triggers EXCEPT ![b] =
                         @ \cup (IF new THEN {"timer"} ELSE {})
                           \cup (IF Len(more) >= MaxBatchSize THEN {"full"} ELSE {})]
      /\ UNCHANGED <<MaxBatchSize, once, running, result, answered, errCh,
                     applied>>
  BY DEF CallBatch
<1>2. /\ created + 1 \in Batches
      /\ Began \cup {c} \subseteq Calls /\ c \notin Began
      /\ Cardinality(Began \cup {c}) = Cardinality(Began) + 1
      /\ Cardinality(Began) \in Nat
  BY <1>1, RoomForBatch, FS_CardinalityType DEF IInv
<1>3. b \in Batches
  BY <1>2 DEF IInv, TypeOK
<1>4. created \in Nat /\ created <= created' /\ created' \in Nat
      /\ b <= created' /\ created' <= created + 1
  <2>1. created \in Nat /\ current # None => current <= created
    BY DEF IInv, TypeOK, BatchesCounted
  <2> QED
    BY <1>1, <2>1, OneMore DEF IInv, TypeOK, BatchesCounted
<1>5. /\ ~once[b] /\ running[b] = 0 /\ result[b] = "none" /\ answered[b] = 0
      /\ new => calls[b] = <<>>
  <2>1. ~once[b]
    <3>1. CASE new
      <4>1. b > created
        BY <1>4, <3>1, OneMore
      <4> QED
        BY <1>3, <4>1 DEF IInv, LifeSound
    <3>2. CASE ~new
      BY <3>2 DEF IInv, LifeSound
    <3> QED
      BY <3>1, <3>2
  <2>2. running[b] = 0
    BY <1>3, <2>1 DEF IInv, LifeSound, TypeOK
  <2>3. new => calls[b] = <<>>
    <3> SUFFICES ASSUME new PROVE calls[b] = <<>>
      OBVIOUS
    <3>1. b > created
      BY <1>4, OneMore
    <3> QED
      BY <1>3, <3>1 DEF IInv, BatchesCounted
  <2> QED
    BY <1>3, <2>1, <2>2, <2>3 DEF IInv, LifeSound
<1> HIDE DEF b
<1>6. calls[b] \in Seq(Calls) /\ Len(calls[b]) \in Nat
  BY <1>3, LengthSound DEF IInv, TypeOK
<1>7. /\ more \in Seq(Calls) /\ Len(more) = Len(calls[b]) + 1
      /\ \A i \in 1 .. Len(calls[b]) : more[i] = calls[b][i]
      /\ more[Len(calls[b]) + 1] = c
  BY <1>6, AppendProperties
<1> HIDE DEF more
<1>8. \A a \in Batches : calls'[a] = IF a = b THEN more ELSE calls[a]
  BY <1>1, <1>3 DEF IInv, TypeOK
<1>9. ASSUME NEW a \in Batches, NEW i \in 1 .. Len(calls'[a])
      PROVE  \/ i \in 1 .. Len(calls[a]) /\ calls'[a][i] = calls[a][i]
             \/ a = b /\ i = Len(calls[b]) + 1 /\ calls'[a][i] = c
  BY <1>6, <1>7, <1>8, <1>9, OneMore
<1>10. TypeOK'
  <2>1. calls' \in [Batches -> Seq(Calls)]
    BY <1>1, <1>3, <1>7 DEF IInv, TypeOK
  <2>2. triggers' \in [Batches -> SUBSET {"timer", "full"}]
    BY <1>1, <1>3 DEF IInv, TypeOK
  <2>3. caller' \in [Calls -> Answers \cup {"idle", "waiting", "solo"}]
    BY <1>1 DEF IInv, TypeOK
  <2>4. current' \in Batches \cup {None} /\ created' \in Nat
    BY <1>1, <1>3, <1>4
  <2> QED
    BY <1>1, <2>1, <2>2, <2>3, <2>4 DEF IInv, TypeOK
<1>11. BatchesCounted'
  <2>1. Began' = Began \cup {c}
    BY <1>1 DEF IInv, TypeOK, Began
  <2>2. created' <= Cardinality(Began')
    <3>1. created <= Cardinality(Began)
      BY DEF IInv, BatchesCounted
    <3>2. ASSUME NEW m \in Nat, NEW n \in Nat, NEW k \in Nat, m <= n, k <= m + 1
          PROVE  k <= n + 1
      BY <3>2
    <3> QED
      BY <1>2, <1>4, <2>1, <3>1, <3>2
  <2>3. current' <= created'
    BY <1>1, <1>4
  <2>4. ASSUME NEW a \in Batches, a > created'
        PROVE  calls'[a] = <<>> /\ triggers'[a] = {}
    <3>1. a > created /\ a # b
      <4>1. \A m \in Nat, n \in Nat, k \in Int : k > n /\ m <= n => k > m
        OBVIOUS
      <4>2. a \in Int /\ b \in Int
        BY <1>3 DEF Batches
      <4> QED
        BY <1>4, <2>4, <4>1, <4>2
    <3> QED
      BY <1>1, <3>1 DEF IInv, BatchesCounted, TypeOK
  <2> QED
    BY <2>2, <2>3, <2>4 DEF BatchesCounted
<1>12. LifeSound'
  <2>1. ~once'[current']
    BY <1>1, <1>5
  <2>2. ASSUME NEW a \in Batches
        PROVE  /\ a <= created' /\ ~once'[a] => calls'[a] # <<>>
               /\ a > created' => ~once'[a]
               /\ running'[a] = 1 => once'[a] /\ calls'[a] # <<>>
               /\ IF result'[a] = "none" THEN answered'[a] = 0
                    ELSE running'[a] = 1 /\ answered'[a] < Len(calls'[a])
    <3>1. CASE a = b
      <4>1. more # <<>>
        <5>1. Len(more) # 0
          BY <1>6, <1>7, OneMore
        <5> QED
          BY <1>7, <5>1, LengthSound
      <4>2. a <= created'
        BY <1>4, <3>1
      <4>3. ~ (a > created')
        <5>1. \A m, n \in Int : m <= n => ~ (m > n)
          OBVIOUS
        <5> QED
          BY <1>4, <3>1, <1>3, <5>1 DEF Batches
      <4> QED
        BY <1>1, <1>5, <1>8, <3>1, <4>1, <4>3
    <3>2. CASE a # b
      <4>1. a <= created' => a <= created
        <5>1. CASE new
          <6>1. \A m \in Nat, k \in Int : k <= m + 1 => k <= m \/ k = m + 1
            OBVIOUS
          <6> QED
            BY <1>1, <1>4, <3>2, <5>1, <6>1 DEF b, Batches
        <5>2. CASE ~new
          BY <1>1, <5>2
        <5> QED
          BY <5>1, <5>2
      <4>2. a > created' => a > created
        <5>1. \A m \in Nat, n \in Nat, k \in Int : k > n /\ m <= n => k > m
          OBVIOUS
        <5> QED
          BY <1>4, <5>1 DEF Batches
      <4>3. calls'[a] = calls[a]
        BY <1>8, <3>2
      <4> QED
        BY <1>1, <4>1, <4>2, <4>3 DEF IInv, LifeSound
    <3> QED
      BY <3>1, <3>2
  <2> QED
    BY <2>1, <2>2 DEF LifeSound
<1>13. \A a \in Batches : \A i \in 1 .. Len(calls[a]) : calls[a][i] # c
  BY <1>1 DEF IInv, CallsMade
<1>14. CallsDistinct'
  <2> SUFFICES ASSUME NEW a \in Batches, NEW d \in Batches,
                      NEW i \in 1 .. Len(calls'[a]), NEW j \in 1 .. Len(calls'[d]),
                      calls'[a][i] = calls'[d][j]
               PROVE  a = d /\ i = j
    BY DEF CallsDistinct
  <2>1. CASE calls'[a][i] = c
    <3>1. a = b /\ i = Len(calls[b]) + 1
      BY <1>9, <1>13, <2>1
    <3>2. d = b /\ j = Len(calls[b]) + 1
      BY <1>9, <1>13, <2>1
    <3> QED
      BY <3>1, <3>2
  <2>2. CASE calls'[a][i] # c
    <3>1. /\ i \in 1 .. Len(calls[a]) /\ j \in 1 .. Len(calls[d])
          /\ calls[a][i] = calls[d][j]
      BY <1>9, <2>2
    <3> QED
      BY <3>1 DEF IInv, CallsDistinct
  <2> QED
    BY <2>1, <2>2
<1>15. CallsMade'
  <2> SUFFICES ASSUME NEW a \in Batches, NEW i \in 1 .. Len(calls'[a])
               PROVE  caller'[calls'[a][i]] # "idle"
    BY DEF CallsMade
  <2>1. CASE calls'[a][i] = c
    BY <1>1, <2>1 DEF IInv, TypeOK
  <2>2. CASE calls'[a][i] # c
    BY <1>1, <1>9, <2>2 DEF IInv, CallsMade
  <2> QED
    BY <2>1, <2>2
<1>16. PendingSound'
  <2> SUFFICES ASSUME NEW a \in Batches, NEW i \in 1 .. Len(calls'[a]),
                      Pending(a, i)'
               PROVE  /\ caller'[calls'[a][i]] = "waiting"
                      /\ errCh'[calls'[a][i]] = <<>>
                      /\ applied'[calls'[a][i]] = Effect(result'[a])
    BY DEF PendingSound
  <2>1. CASE calls'[a][i] = c
    <3>1. a = b
      BY <1>9, <1>13, <2>1
    <3>2. caller'[c] = "waiting"
      BY <1>1 DEF IInv, TypeOK
    <3>3. errCh[c] = <<>> /\ applied[c] = 0
      BY <1>1 DEF IInv, OneMessagePerCall, EffectMatchesAnswer
    <3>4. Effect("none") = 0
      BY DEF Effect
    <3> QED
      BY <1>1, <1>5, <2>1, <3>1, <3>2, <3>3, <3>4
  <2>2. CASE calls'[a][i] # c
    <3>1. i \in 1 .. Len(calls[a]) /\ calls'[a][i] = calls[a][i]
      BY <1>9, <2>2
    <3>2. Pending(a, i)
      BY <1>1 DEF Pending
    <3>3. /\ caller[calls[a][i]] = "waiting"
          /\ errCh[calls[a][i]] = <<>>
          /\ applied[calls[a][i]] = Effect(result[a])
      BY <3>1, <3>2 DEF IInv, PendingSound
    <3> QED
      BY <1>1, <2>2, <3>1, <3>3
  <2> QED
    BY <2>1, <2>2
<1>17. MessagesSound'
  BY <1>1 DEF IInv, MessagesSound
<1>18. EffectMatchesAnswer'
  BY <1>1 DEF IInv, TypeOK, EffectMatchesAnswer
<1>19. OneMessagePerCall'
  BY <1>1 DEF IInv, TypeOK, OneMessagePerCall
<1>20. BatchSizeBounded'
  <2> SUFFICES ASSUME NEW a \in Batches
               PROVE  Len(calls'[a]) <= IF MaxBatchSize' > 0 THEN MaxBatchSize' ELSE 1
    BY DEF BatchSizeBounded
  <2>1. CASE a = b /\ new
    <3>1. Len(calls'[a]) = 1
      <4>1. Len(calls[b]) = 0
        BY <1>5, <2>1
      <4> QED
        BY <1>7, <1>8, <2>1, <4>1
    <3>2. \A m \in Int : 1 <= IF m > 0 THEN m ELSE 1
      OBVIOUS
    <3> QED
      BY <1>1, <3>1, <3>2 DEF IInv, TypeOK
  <2>2. CASE a = b /\ ~new
    <3>1. ~ (Len(calls[b]) >= MaxBatchSize)
      BY <2>2 DEF Full, b
    <3>2. \A n \in Nat, m \in Int : ~ (n >= m) => m > 0 /\ n + 1 <= m
      OBVIOUS
    <3>3. MaxBatchSize > 0 /\ Len(calls[b]) + 1 <= MaxBatchSize
      BY <1>6, <3>1, <3>2 DEF IInv, TypeOK
    <3> QED
      BY <1>1, <1>7, <1>8, <2>2, <3>3
  <2>3. CASE a # b
    BY <1>1, <1>8, <2>3 DEF IInv, BatchSizeBounded
  <2> QED
    BY <2>1, <2>2, <2>3
<1> QED
  BY <1>10, <1>11, <1>12, <1>14, <1>15, <1>16, <1>17, <1>18, <1>19, <1>20 DEF IInv

LEMMA TriggerStep ==
    ASSUME IInv, NEW b \in Batches, NEW t \in {"timer", "full"}, Trigger(b, t)
    PROVE  IInv'
<1>1. CASE once[b]
  <2>1. /\ triggers' = [triggers EXCEPT ![b] = @ \ {t}]
        /\ UNCHANGED <<MaxBatchSize, current, created, calls, once, running,
                       result, answered, caller, errCh, applied>>
    BY <1>1 DEF Trigger
  <2>2. TypeOK'
    BY <2>1 DEF IInv, TypeOK
  <2>3. BatchesCounted' /\ LifeSound'
    BY <2>1 DEF IInv, BatchesCounted, LifeSound, TypeOK, Began
  <2>4. CallsDistinct' /\ CallsMade' /\ PendingSound' /\ MessagesSound'
    BY <2>1 DEF IInv, CallsDistinct, CallsMade, PendingSound, Pending, MessagesSound
  <2>5. EffectMatchesAnswer' /\ OneMessagePerCall' /\ BatchSizeBounded'
    BY <2>1 DEF IInv, EffectMatchesAnswer, OneMessagePerCall, BatchSizeBounded
  <2> QED
    BY <2>2, <2>3, <2>4, <2>5 DEF IInv
<1>2. CASE ~once[b]
  <2>1. /\ t \in triggers[b]
        /\ triggers' = [triggers EXCEPT ![b] = @ \ {t, "timer"}]
        /\ once' = [once EXCEPT ![b] = TRUE]
        /\ running' = [running EXCEPT ![b] = @ + 1]
        /\ current' = IF current = b THEN None ELSE current
        /\ UNCHANGED <<MaxBatchSize, created, calls, result, answered, caller,
                       errCh, applied>>
    BY <1>2 DEF Trigger
  <2>2. running[b] = 0 /\ running' = [running EXCEPT ![b] = 1]
    <3>1. running[b] \in {0, 1} /\ running[b] # 1
      BY <1>2 DEF IInv, LifeSound, TypeOK
    <3>2. running[b] = 0
      BY <3>1
    <3>3. running[b] + 1 = 1
      BY <3>2
    <3> QED
      BY <2>1, <3>2, <3>3
  <2>3. b <= created /\ calls[b] # <<>> /\ ~ (b > created)
    <3>1. ~ (b > created)
      BY <2>1 DEF IInv, BatchesCounted
    <3>2. \A m, n \in Int : ~ (m > n) => m <= n
      OBVIOUS
    <3>3. b <= created
      BY <3>1, <3>2 DEF IInv, TypeOK, Batches
    <3> QED
      BY <1>2, <3>1, <3>3 DEF IInv, LifeSound
  <2>4. TypeOK'
    BY <2>1, <2>2 DEF IInv, TypeOK
  <2>5. BatchesCounted'
    <3>1. current' # None => current' <= created'
      BY <2>1 DEF IInv, BatchesCounted
    <3>2. \A a \in Batches : a > created' => calls'[a] = <<>> /\ triggers'[a] = {}
      BY <2>1, <2>3 DEF IInv, TypeOK, BatchesCounted
    <3> QED
      BY <2>1, <3>1, <3>2 DEF IInv, BatchesCounted, Began
  <2>6. LifeSound'
    <3>1. current' # None => ~once'[current']
      BY <2>1 DEF IInv, TypeOK, LifeSound
    <3>2. ASSUME NEW a \in Batches
          PROVE  /\ a <= created' /\ ~once'[a] => calls'[a] # <<>>
                 /\ a > created' => ~once'[a]
                 /\ running'[a] = 1 => once'[a] /\ calls'[a] # <<>>
                 /\ IF result'[a] = "none" THEN answered'[a] = 0
                      ELSE running'[a] = 1 /\ answered'[a] < Len(calls'[a])
      <4>1. CASE a = b
        BY <2>1, <2>2, <2>3, <4>1 DEF IInv, TypeOK, LifeSound
      <4>2. CASE a # b
        BY <2>1, <2>2, <4>2 DEF IInv, TypeOK, LifeSound
      <4> QED
        BY <4>1, <4>2
    <3> QED
      BY <3>1, <3>2 DEF LifeSound
  <2>7. PendingSound'
    <3>1. \A a \in Batches : \A i : Pending(a, i)' => Pending(a, i)
      BY <1>2, <2>1, <2>2 DEF IInv, TypeOK, Pending
    <3> QED
      BY <2>1, <3>1 DEF IInv, PendingSound
  <2>8. CallsDistinct' /\ CallsMade' /\ MessagesSound'
    BY <2>1 DEF IInv, CallsDistinct, CallsMade, MessagesSound
  <2>9. EffectMatchesAnswer' /\ OneMessagePerCall' /\ BatchSizeBounded'
    BY <2>1 DEF IInv, EffectMatchesAnswer, OneMessagePerCall, BatchSizeBounded
  <2> QED
    BY <2>4, <2>5, <2>6, <2>7, <2>8, <2>9 DEF IInv
<1> QED
  BY <1>1, <1>2

LEMMA AttemptFailsStep ==
    ASSUME IInv, NEW b \in Batches, NEW k \in 1 .. Len(calls[b]),
           AttemptFails(b, k)
    PROVE  IInv'
<1> DEFINE left == Without(calls[b], k)
           c == calls[b][k]
           From(a, i) == IF a = b /\ i = k THEN Len(calls[b]) ELSE i
<1>1. /\ running[b] > 0 /\ result[b] = "none"
      /\ calls' = [calls EXCEPT ![b] = left]
      /\ running' = [running EXCEPT ![b] = IF calls'[b] = <<>> THEN @ - 1 ELSE @]
      /\ errCh' = [errCh EXCEPT ![c] = Append(@, "trySolo")]
      /\ UNCHANGED <<MaxBatchSize, current, created, triggers, once, result,
                     answered, caller, applied>>
  BY DEF AttemptFails, Send
<1>2. running[b] = 1 /\ once[b] /\ answered[b] = 0
  <2>1. running[b] = 1
    <3>1. running[b] \in {0, 1} /\ running[b] > 0
      BY <1>1 DEF IInv, TypeOK
    <3> QED
      BY <3>1
  <2> QED
    BY <1>1, <2>1 DEF IInv, LifeSound
<1>3. calls[b] \in Seq(Calls) /\ Len(calls[b]) \in Nat \ {0} /\ c \in Calls
  BY DEF IInv, TypeOK
<1>4. /\ left \in Seq(Calls) /\ Len(left) = Len(calls[b]) - 1
      /\ \A i \in 1 .. Len(calls[b]) - 1 :
           left[i] = calls[b][IF i = k THEN Len(calls[b]) ELSE i]
  BY <1>3, WithoutSound
<1> HIDE DEF left
<1>5. \A a \in Batches : calls'[a] = IF a = b THEN left ELSE calls[a]
  BY <1>1 DEF IInv, TypeOK
<1>6. ASSUME NEW a \in Batches, NEW i \in 1 .. Len(calls'[a])
      PROVE  /\ From(a, i) \in 1 .. Len(calls[a])
             /\ calls'[a][i] = calls[a][From(a, i)]
             /\ a = b => i # Len(calls[b]) /\ From(a, i) # k
  BY <1>3, <1>4, <1>5, <1>6, OneLess
<1>7. /\ caller[c] = "waiting" /\ errCh[c] = <<>> /\ applied[c] = 0
  <2>1. Pending(b, k)
    BY <1>2, <1>3 DEF Pending
  <2> QED
    BY <1>1, <2>1 DEF IInv, PendingSound, Effect
<1>8. errCh' = [errCh EXCEPT ![c] = <<"trySolo">>]
  BY <1>1, <1>7
<1>9. /\ running' \in [Batches -> {0, 1}]
      /\ running'[b] = IF left = <<>> THEN 0 ELSE 1
      /\ \A a \in Batches : a # b => running'[a] = running[a]
  <2>1. running[b] - 1 = 0
    BY <1>2
  <2>2. running' = [running EXCEPT ![b] = IF left = <<>> THEN 0 ELSE 1]
    BY <1>1, <1>2, <1>5, <2>1
  <2> QED
    BY <2>2 DEF IInv, TypeOK
<1>10. TypeOK'
  <2>1. calls' \in [Batches -> Seq(Calls)]
    BY <1>1, <1>4 DEF IInv, TypeOK
  <2>2. errCh' \in [Calls -> Seq(Answers \cup {"trySolo"})]
    <3>1. <<"trySolo">> \in Seq(Answers \cup {"trySolo"})
      OBVIOUS
    <3> QED
      BY <1>8, <3>1 DEF IInv, TypeOK
  <2> QED
    BY <1>1, <1>9, <2>1, <2>2 DEF IInv, TypeOK
<1>11. BatchesCounted'
  <2>1. \A a \in Batches : a > created' => calls'[a] = <<>>
    <3>1. ~ (b > created)
      BY <1>3 DEF IInv, BatchesCounted
    <3> QED
      BY <1>1, <1>5, <3>1 DEF IInv, BatchesCounted
  <2> QED
    BY <1>1, <2>1 DEF IInv, BatchesCounted, Began
<1>12. LifeSound'
  <2> SUFFICES ASSUME NEW a \in Batches
               PROVE  /\ a <= created' /\ ~once'[a] => calls'[a] # <<>>
                      /\ a > created' => ~once'[a]
                      /\ running'[a] = 1 => once'[a] /\ calls'[a] # <<>>
                      /\ IF result'[a] = "none" THEN answered'[a] = 0
                           ELSE running'[a] = 1 /\ answered'[a] < Len(calls'[a])
    BY <1>1 DEF IInv, LifeSound
  <2>1. CASE a = b
    BY <1>1, <1>2, <1>5, <1>9, <2>1 DEF IInv, LifeSound
  <2>2. CASE a # b
    BY <1>1, <1>5, <1>9, <2>2 DEF IInv, LifeSound
  <2> QED
    BY <2>1, <2>2
<1>13. CallsDistinct'
  <2> SUFFICES ASSUME NEW a \in Batches, NEW d \in Batches,
                      NEW i \in 1 .. Len(calls'[a]), NEW j \in 1 .. Len(calls'[d]),
                      calls'[a][i] = calls'[d][j]
               PROVE  a = d /\ i = j
    BY DEF CallsDistinct
  <2>1. calls[a][From(a, i)] = calls[d][From(d, j)]
    BY <1>6
  <2>2. a = d /\ From(a, i) = From(d, j)
    BY <1>6, <2>1 DEF IInv, CallsDistinct
  <2> QED
    BY <1>6, <2>2
<1>14. CallsMade'
  BY <1>1, <1>6 DEF IInv, CallsMade
<1>15. ASSUME NEW a \in Batches, NEW i \in 1 .. Len(calls'[a])
       PROVE  calls'[a][i] # c
  BY <1>6, <1>15 DEF IInv, CallsDistinct
<1>16. PendingSound'
  <2> SUFFICES ASSUME NEW a \in Batches, NEW i \in 1 .. Len(calls'[a]),
                      Pending(a, i)'
               PROVE  /\ caller'[calls'[a][i]] = "waiting"
                      /\ errCh'[calls'[a][i]] = <<>>
                      /\ applied'[calls'[a][i]] = Effect(result'[a])
    BY DEF PendingSound
  <2>1. Pending(a, From(a, i))
    <3>1. CASE a = b
      <4>1. From(a, i) > 0
        BY <1>3, <1>6, <3>1
      <4> QED
        BY <1>2, <3>1, <4>1 DEF Pending
    <3>2. CASE a # b
      BY <1>1, <1>9, <3>2 DEF Pending
    <3> QED
      BY <3>1, <3>2
  <2>2. /\ caller[calls'[a][i]] = "waiting"
        /\ errCh[calls'[a][i]] = <<>>
        /\ applied[calls'[a][i]] = Effect(result[a])
    BY <1>6, <2>1 DEF IInv, PendingSound
  <2>3. calls'[a][i] \in Calls
    BY <1>10, LengthSound DEF TypeOK
  <2>4. errCh'[calls'[a][i]] = errCh[calls'[a][i]]
    BY <1>8, <1>15, <2>3 DEF IInv, TypeOK
  <2> QED
    BY <1>1, <2>2, <2>4
<1>17. MessagesSound'
  <2> SUFFICES ASSUME NEW d \in Calls, errCh'[d] # <<>>
               PROVE  applied'[d] = Effect(Head(errCh'[d]))
    BY DEF MessagesSound
  <2>1. CASE d = c
    <3>1. errCh'[d] = <<"trySolo">>
      BY <1>8, <2>1 DEF IInv, TypeOK
    <3>2. Effect(Head(errCh'[d])) = 0
      BY <3>1 DEF Effect
    <3> QED
      BY <1>1, <1>7, <2>1, <3>2
  <2>2. CASE d # c
    BY <1>1, <1>8, <2>2 DEF IInv, TypeOK, MessagesSound
  <2> QED
    BY <2>1, <2>2
<1>18. EffectMatchesAnswer'
  BY <1>1 DEF IInv, EffectMatchesAnswer
<1>19. OneMessagePerCall'
  <2> SUFFICES ASSUME NEW d \in Calls
               PROVE  /\ Len(errCh'[d]) <= 1
                      /\ caller'[d] # "waiting" => errCh'[d] = <<>>
    BY DEF OneMessagePerCall
  <2>1. CASE d = c
    <3>1. errCh'[d] = <<"trySolo">>
      BY <1>8, <2>1 DEF IInv, TypeOK
    <3>2. Len(errCh'[d]) = 1
      BY <3>1
    <3> QED
      BY <1>1, <1>7, <2>1, <3>2
  <2>2. CASE d # c
    BY <1>1, <1>8, <2>2 DEF IInv, TypeOK, OneMessagePerCall
  <2> QED
    BY <2>1, <2>2
<1>20. BatchSizeBounded'
  <2> SUFFICES ASSUME NEW a \in Batches
               PROVE  Len(calls'[a]) <= IF MaxBatchSize' > 0 THEN MaxBatchSize' ELSE 1
    BY DEF BatchSizeBounded
  <2>1. CASE a = b
    <3>1. \A n \in Nat \ {0}, m \in Int : n <= m => n - 1 <= m
      OBVIOUS
    <3>2. Len(calls[b]) <= IF MaxBatchSize > 0 THEN MaxBatchSize ELSE 1
      BY DEF IInv, BatchSizeBounded
    <3>3. (IF MaxBatchSize > 0 THEN MaxBatchSize ELSE 1) \in Int
      BY DEF IInv, TypeOK
    <3> QED
      BY <1>1, <1>3, <1>4, <1>5, <2>1, <3>1, <3>2, <3>3
  <2>2. CASE a # b
    BY <1>1, <1>5, <2>2 DEF IInv, BatchSizeBounded
  <2> QED
    BY <2>1, <2>2
<1> QED
  BY <1>10, <1>11, <1>12, <1>13, <1>14, <1>16, <1>17, <1>18, <1>19, <1>20 DEF IInv

LEMMA AttemptCommitsStep ==
    ASSUME IInv, NEW b \in Batches, NEW err \in Answers, AttemptCommits(b, err)
    PROVE  IInv'
<1> DEFINE At(c) == {i \in 1 .. Len(calls[b]) : calls[b][i] = c}
<1>1. /\ running[b] > 0 /\ result[b] = "none"
      /\ calls[b] # <<>>
      /\ result' = [result EXCEPT ![b] = err]
      /\ applied' = [c \in Calls |-> applied[c] + Effect(err) * Cardinality(At(c))]
      /\ UNCHANGED <<MaxBatchSize, current, created, calls, triggers, once,
                     running, answered, caller, errCh>>
  BY DEF AttemptCommits
<1>2. running[b] = 1 /\ once[b] /\ answered[b] = 0
  <2>1. running[b] = 1
    <3>1. running[b] \in {0, 1} /\ running[b] > 0
      BY <1>1 DEF IInv, TypeOK
    <3> QED
      BY <3>1
  <2> QED
    BY <1>1, <2>1 DEF IInv, LifeSound
<1>3. \A i \in 1 .. Len(calls[b]) : Pending(b, i)
  <2>1. Len(calls[b]) \in Nat
    BY LengthSound DEF IInv, TypeOK
  <2>2. \A i \in 1 .. Len(calls[b]) : i > 0
    BY <2>1
  <2> QED
    BY <1>2, <2>2 DEF Pending
<1>4. \A c \in Calls : Cardinality(At(c)) = IF At(c) = {} THEN 0 ELSE 1
  BY CountedOnce DEF IInv
<1> HIDE DEF At
<1>5. ASSUME NEW c \in Calls, At(c) # {}
      PROVE  /\ caller[c] = "waiting" /\ errCh[c] = <<>> /\ applied[c] = 0
             /\ applied'[c] = Effect(err)
  <2>1. PICK i \in 1 .. Len(calls[b]) : calls[b][i] = c
    BY <1>5 DEF At
  <2>2. caller[c] = "waiting" /\ errCh[c] = <<>> /\ applied[c] = 0
    BY <1>1, <1>3, <2>1 DEF IInv, PendingSound, Effect
  <2>3. 0 + Effect(err) * 1 = Effect(err)
    BY DEF Effect
  <2> QED
    BY <1>1, <1>4, <1>5, <2>2, <2>3
<1>6. ASSUME NEW c \in Calls, At(c) = {}
      PROVE  applied'[c] = applied[c]
  <2>1. applied[c] \in Nat
    BY DEF IInv, TypeOK
  <2>2. applied[c] + Effect(err) * 0 = applied[c]
    BY <2>1 DEF Effect
  <2> QED
    BY <1>1, <1>4, <1>6, <2>2
<1>7. TypeOK'
  <2>1. applied' \in [Calls -> Nat]
    <3>1. DOMAIN applied' = Calls /\ applied' = [c \in Calls |-> applied'[c]]
      BY <1>1 DEF IInv, TypeOK
    <3>2. ASSUME NEW c \in Calls PROVE applied'[c] \in Nat
      <4>1. CASE At(c) = {}
        BY <1>6, <4>1 DEF IInv, TypeOK
      <4>2. CASE At(c) # {}
        <5>1. applied'[c] = Effect(err)
          BY <1>5, <4>2
        <5> QED
          BY <5>1 DEF Effect
      <4> QED
        BY <4>1, <4>2
    <3> QED
      BY <3>1, <3>2
  <2> QED
    BY <1>1, <2>1 DEF IInv, TypeOK
<1>8. BatchesCounted'
  BY <1>1 DEF IInv, BatchesCounted, Began
<1>9. LifeSound'
  <2> SUFFICES ASSUME NEW a \in Batches
               PROVE  IF result'[a] = "none" THEN answered'[a] = 0
                        ELSE running'[a] = 1 /\ answered'[a] < Len(calls'[a])
    BY <1>1 DEF IInv, LifeSound
  <2>1. CASE a = b
    <3>1. Len(calls[b]) \in Nat \ {0}
      BY <1>1, LengthSound DEF IInv, TypeOK
    <3>2. 0 < Len(calls[b])
      BY <3>1
    <3> QED
      BY <1>1, <1>2, <2>1, <3>2 DEF IInv, TypeOK, Answers
  <2>2. CASE a # b
    BY <1>1, <2>2 DEF IInv, LifeSound, TypeOK
  <2> QED
    BY <2>1, <2>2
<1>10. CallsDistinct' /\ CallsMade'
  BY <1>1 DEF IInv, CallsDistinct, CallsMade
<1>11. PendingSound'
  <2> SUFFICES ASSUME NEW a \in Batches, NEW i \in 1 .. Len(calls'[a]),
                      Pending(a, i)'
               PROVE  /\ caller'[calls'[a][i]] = "waiting"
                      /\ errCh'[calls'[a][i]] = <<>>
                      /\ applied'[calls'[a][i]] = Effect(result'[a])
    BY DEF PendingSound
  <2>1. calls[a][i] \in Calls /\ Pending(a, i)
    BY <1>1, LengthSound DEF IInv, TypeOK, Pending
  <2>2. CASE a = b
    <3>1. At(calls[a][i]) # {}
      BY <1>1, <2>2 DEF At
    <3>2. result'[a] = err
      BY <1>1, <2>2 DEF IInv, TypeOK
    <3> QED
      BY <1>1, <1>5, <2>1, <3>1, <3>2
  <2>3. CASE a # b
    <3>1. At(calls[a][i]) = {}
      BY <1>1, <2>3 DEF At, IInv, CallsDistinct
    <3>2. result'[a] = result[a]
      BY <1>1, <2>3 DEF IInv, TypeOK
    <3>3. applied'[calls[a][i]] = applied[calls[a][i]]
      BY <1>6, <2>1, <3>1
    <3> QED
      BY <1>1, <2>1, <3>2, <3>3 DEF IInv, PendingSound
  <2> QED
    BY <2>2, <2>3
<1>12. MessagesSound'
  <2> SUFFICES ASSUME NEW c \in Calls, errCh'[c] # <<>>
               PROVE  applied'[c] = Effect(Head(errCh'[c]))
    BY DEF MessagesSound
  <2>1. At(c) = {}
    BY <1>1, <1>5
  <2> QED
    BY <1>1, <1>6, <2>1 DEF IInv, MessagesSound
<1>13. EffectMatchesAnswer'
  <2> SUFFICES ASSUME NEW c \in Calls
               PROVE  /\ caller'[c] \in {"nil", "unsynced"} => applied'[c] = 1
                      /\ caller'[c] \in {"error", "solo", "idle"} => applied'[c] = 0
    BY DEF EffectMatchesAnswer
  <2>1. CASE At(c) = {}
    BY <1>1, <1>6, <2>1 DEF IInv, EffectMatchesAnswer
  <2>2. CASE At(c) # {}
    BY <1>1, <1>5, <2>2
  <2> QED
    BY <2>1, <2>2
<1>14. OneMessagePerCall' /\ BatchSizeBounded'
  BY <1>1 DEF IInv, OneMessagePerCall, BatchSizeBounded
<1> QED
  BY <1>7, <1>8, <1>9, <1>10, <1>11, <1>12, <1>13, <1>14 DEF IInv

LEMMA PassResultStep ==
    ASSUME IInv, NEW b \in Batches, PassResult(b)
    PROVE  IInv'
<1> DEFINE k == answered[b] + 1
           last == k = Len(calls[b])
           c == calls[b][k]
<1>1. /\ result[b] # "none"
      /\ errCh' = [errCh EXCEPT ![c] = Append(@, result[b])]
      /\ answered' = [answered EXCEPT ![b] = IF last THEN 0 ELSE k]
      /\ result' = [result EXCEPT ![b] = IF last THEN "none" ELSE @]
      /\ running' = [running EXCEPT ![b] = IF last THEN @ - 1 ELSE @]
      /\ UNCHANGED <<MaxBatchSize, current, created, calls, triggers, once,
                     caller, applied>>
  BY DEF PassResult, Send
<1>2. running[b] = 1 /\ once[b] /\ answered[b] < Len(calls[b])
  BY <1>1 DEF IInv, LifeSound
<1>3. calls[b] \in Seq(Calls) /\ Len(calls[b]) \in Nat /\ answered[b] \in Nat
  BY LengthSound DEF IInv, TypeOK
<1>4. /\ k \in Nat /\ k \in 1 .. Len(calls[b]) /\ k > answered[b]
      /\ ~last => k < Len(calls[b])
      /\ \A i \in Nat : i > k => i > answered[b] /\ i # k
  <2>1. ASSUME NEW m \in Nat, NEW n \in Nat, m < n
        PROVE  /\ m + 1 \in Nat /\ m + 1 \in 1 .. n /\ m + 1 > m
               /\ m + 1 # n => m + 1 < n
               /\ \A i \in Nat : i > m + 1 => i > m /\ i # m + 1
    BY <2>1
  <2> QED
    BY <1>2, <1>3, <2>1
<1> HIDE DEF k, last
<1>5. /\ c \in Calls /\ caller[c] = "waiting" /\ errCh[c] = <<>>
      /\ applied[c] = Effect(result[b])
  <2>1. Pending(b, k)
    BY <1>2, <1>4 DEF Pending
  <2> QED
    BY <1>3, <1>4, <2>1, LengthSound DEF IInv, PendingSound
<1>6. errCh' = [errCh EXCEPT ![c] = <<result[b]>>] /\ result[b] \in Answers
  BY <1>1, <1>5 DEF IInv, TypeOK
<1>7. /\ running'[b] = IF last THEN 0 ELSE 1
      /\ result'[b] = IF last THEN "none" ELSE result[b]
      /\ answered'[b] = IF last THEN 0 ELSE k
      /\ \A a \in Batches : a # b =>
           running'[a] = running[a] /\ result'[a] = result[a] /\ answered'[a] = answered[a]
      /\ running' \in [Batches -> {0, 1}]
  <2>1. running[b] - 1 = 0
    BY <1>2
  <2>2. running' = [running EXCEPT ![b] = IF last THEN 0 ELSE 1]
    BY <1>1, <1>2, <2>1
  <2> QED
    BY <1>1, <2>2 DEF IInv, TypeOK
<1>8. TypeOK'
  <2>1. errCh' \in [Calls -> Seq(Answers \cup {"trySolo"})]
    <3>1. <<result[b]>> \in Seq(Answers \cup {"trySolo"})
      BY <1>6
    <3> QED
      BY <1>6, <3>1 DEF IInv, TypeOK
  <2>2. answered' \in [Batches -> Nat]
    BY <1>1, <1>4 DEF IInv, TypeOK
  <2>3. result' \in [Batches -> Answers \cup {"none"}]
    BY <1>1, <1>6 DEF IInv, TypeOK
  <2> QED
    BY <1>1, <1>7, <2>1, <2>2, <2>3 DEF IInv, TypeOK
<1>9. BatchesCounted'
  BY <1>1 DEF IInv, BatchesCounted, Began
<1>10. LifeSound'
  <2> SUFFICES ASSUME NEW a \in Batches
               PROVE  /\ running'[a] = 1 => once'[a] /\ calls'[a] # <<>>
                      /\ IF result'[a] = "none" THEN answered'[a] = 0
                           ELSE running'[a] = 1 /\ answered'[a] < Len(calls'[a])
    BY <1>1 DEF IInv, LifeSound
  <2>1. CASE a = b
    BY <1>1, <1>2, <1>4, <1>7, <2>1 DEF IInv, LifeSound
  <2>2. CASE a # b
    BY <1>1, <1>7, <2>2 DEF IInv, LifeSound
  <2> QED
    BY <2>1, <2>2
<1>11. CallsDistinct' /\ CallsMade'
  BY <1>1 DEF IInv, CallsDistinct, CallsMade
<1>12. PendingSound'
  <2> SUFFICES ASSUME NEW a \in Batches, NEW i \in 1 .. Len(calls'[a]),
                      Pending(a, i)'
               PROVE  /\ caller'[calls'[a][i]] = "waiting"
                      /\ errCh'[calls'[a][i]] = <<>>
                      /\ applied'[calls'[a][i]] = Effect(result'[a])
    BY DEF PendingSound
  <2>1. Pending(a, i) /\ calls[a][i] # c /\ result'[a] = result[a]
    <3>1. CASE a = b
      <4>1. ~last
        BY <1>1, <1>2, <1>7, <3>1 DEF Pending
      <4>2. i \in Nat /\ i > k
        BY <1>1, <1>3, <1>7, <3>1, <4>1 DEF Pending
      <4>3. Pending(a, i) /\ i # k
        BY <1>2, <1>4, <3>1, <4>2 DEF Pending
      <4> QED
        BY <1>1, <1>4, <1>7, <3>1, <4>1, <4>3 DEF IInv, CallsDistinct
    <3>2. CASE a # b
      <4>1. Pending(a, i)
        BY <1>1, <1>7, <3>2 DEF Pending
      <4>2. calls[a][i] # c
        BY <1>1, <1>4, <3>2 DEF IInv, CallsDistinct
      <4> QED
        BY <1>7, <3>2, <4>1, <4>2
    <3> QED
      BY <3>1, <3>2
  <2>2. calls[a][i] \in Calls
    BY <1>1, LengthSound DEF IInv, TypeOK
  <2>3. errCh'[calls[a][i]] = errCh[calls[a][i]]
    BY <1>6, <2>1, <2>2 DEF IInv, TypeOK
  <2> QED
    BY <1>1, <2>1, <2>3 DEF IInv, PendingSound
<1>13. MessagesSound'
  <2> SUFFICES ASSUME NEW d \in Calls, errCh'[d] # <<>>
               PROVE  applied'[d] = Effect(Head(errCh'[d]))
    BY DEF MessagesSound
  <2>1. CASE d = c
    <3>1. errCh'[d] = <<result[b]>>
      BY <1>6, <2>1 DEF IInv, TypeOK
    <3>2. Head(errCh'[d]) = result[b]
      BY <3>1
    <3> QED
      BY <1>1, <1>5, <2>1, <3>2
  <2>2. CASE d # c
    BY <1>1, <1>6, <2>2 DEF IInv, TypeOK, MessagesSound
  <2> QED
    BY <2>1, <2>2
<1>14. OneMessagePerCall'
  <2> SUFFICES ASSUME NEW d \in Calls
               PROVE  /\ Len(errCh'[d]) <= 1
                      /\ caller'[d] # "waiting" => errCh'[d] = <<>>
    BY DEF OneMessagePerCall
  <2>1. CASE d = c
    <3>1. errCh'[d] = <<result[b]>>
      BY <1>6, <2>1 DEF IInv, TypeOK
    <3>2. Len(errCh'[d]) = 1
      BY <3>1
    <3> QED
      BY <1>1, <1>5, <2>1, <3>2
  <2>2. CASE d # c
    BY <1>1, <1>6, <2>2 DEF IInv, TypeOK, OneMessagePerCall
  <2> QED
    BY <2>1, <2>2
<1>15. EffectMatchesAnswer' /\ BatchSizeBounded'
  BY <1>1 DEF IInv, EffectMatchesAnswer, BatchSizeBounded
<1> QED
  BY <1>8, <1>9, <1>10, <1>11, <1>12, <1>13, <1>14, <1>15 DEF IInv

LEMMA ReceiveStep ==
    ASSUME IInv, NEW c \in Calls, Receive(c)
    PROVE  IInv'
<1> DEFINE e == Head(errCh[c])
<1>1. /\ caller[c] = "waiting"
      /\ errCh[c] # <<>>
      /\ errCh' = [errCh EXCEPT ![c] = Tail(@)]
      /\ caller' = [caller EXCEPT ![c] = IF e = "trySolo" THEN "solo" ELSE e]
      /\ UNCHANGED <<batchvars, applied>>
  BY DEF Receive
<1>2. e \in Answers \cup {"trySolo"} /\ Tail(errCh[c]) = <<>>
  <2>1. errCh[c] \in Seq(Answers \cup {"trySolo"}) /\ Len(errCh[c]) <= 1
    BY DEF IInv, TypeOK, OneMessagePerCall
  <2>2. ASSUME NEW S, NEW s \in Seq(S), s # <<>>, Len(s) <= 1
        PROVE  Head(s) \in S /\ Tail(s) = <<>>
    BY <2>2
  <2> QED
    BY <1>1, <2>1, <2>2
<1>3. applied[c] = Effect(e)
  BY <1>1 DEF IInv, MessagesSound
<1> HIDE DEF e
<1>4. /\ errCh' = [errCh EXCEPT ![c] = <<>>]
      /\ caller'[c] \in Answers \cup {"solo"}
      /\ \A d \in Calls : d # c => caller'[d] = caller[d]
  BY <1>1, <1>2 DEF IInv, TypeOK
<1>5. TypeOK'
  <2>1. errCh' \in [Calls -> Seq(Answers \cup {"trySolo"})]
    BY <1>4 DEF IInv, TypeOK
  <2>2. caller' \in [Calls -> Answers \cup {"idle", "waiting", "solo"}]
    BY <1>1, <1>2 DEF IInv, TypeOK
  <2> QED
    BY <1>1, <2>1, <2>2 DEF IInv, TypeOK, batchvars
<1>6. BatchesCounted'
  <2>1. Began' = Began
    BY <1>1, <1>4 DEF Began, Answers
  <2> QED
    BY <1>1, <2>1 DEF IInv, BatchesCounted, batchvars
<1>7. LifeSound' /\ CallsDistinct'
  BY <1>1 DEF IInv, LifeSound, CallsDistinct, batchvars
<1>8. CallsMade'
  <2> SUFFICES ASSUME NEW b \in Batches, NEW i \in 1 .. Len(calls[b])
               PROVE  caller'[calls[b][i]] # "idle"
    BY <1>1 DEF CallsMade, batchvars
  <2>1. calls[b][i] \in Calls /\ caller[calls[b][i]] # "idle"
    BY LengthSound DEF IInv, TypeOK, CallsMade
  <2> QED
    BY <1>4, <2>1 DEF Answers
<1>9. PendingSound'
  <2> SUFFICES ASSUME NEW b \in Batches, NEW i \in 1 .. Len(calls[b]), Pending(b, i)
               PROVE  /\ caller'[calls[b][i]] = "waiting"
                      /\ errCh'[calls[b][i]] = <<>>
                      /\ applied'[calls[b][i]] = Effect(result[b])
    BY <1>1 DEF PendingSound, Pending, batchvars
  <2>1. /\ caller[calls[b][i]] = "waiting"
        /\ errCh[calls[b][i]] = <<>>
        /\ applied[calls[b][i]] = Effect(result[b])
    BY DEF IInv, PendingSound
  <2>2. calls[b][i] \in Calls /\ calls[b][i] # c
    BY <1>1, <2>1, LengthSound DEF IInv, TypeOK
  <2> QED
    BY <1>1, <1>4, <2>1, <2>2 DEF IInv, TypeOK
<1>10. MessagesSound' /\ OneMessagePerCall'
  <2> SUFFICES ASSUME NEW d \in Calls
               PROVE  /\ errCh'[d] # <<>> =>
                           applied'[d] = Effect(Head(errCh'[d]))
                      /\ Len(errCh'[d]) <= 1
                      /\ caller'[d] # "waiting" => errCh'[d] = <<>>
    BY DEF MessagesSound, OneMessagePerCall
  <2>1. CASE d = c
    <3>1. errCh'[d] = <<>>
      BY <1>4, <2>1 DEF IInv, TypeOK
    <3>2. Len(errCh'[d]) = 0
      BY <3>1
    <3> QED
      BY <3>1, <3>2
  <2>2. CASE d # c
    BY <1>1, <1>4, <2>2 DEF IInv, TypeOK, MessagesSound, OneMessagePerCall
  <2> QED
    BY <2>1, <2>2
<1>11. EffectMatchesAnswer'
  <2> SUFFICES ASSUME NEW d \in Calls
               PROVE  /\ caller'[d] \in {"nil", "unsynced"} => applied'[d] = 1
                      /\ caller'[d] \in {"error", "solo", "idle"} => applied'[d] = 0
    BY DEF EffectMatchesAnswer
  <2>1. CASE d = c
    <3>1. caller'[d] = IF e = "trySolo" THEN "solo" ELSE e
      BY <1>1, <2>1 DEF IInv, TypeOK
    <3> QED
      BY <1>1, <1>2, <1>3, <2>1, <3>1 DEF Answers, Effect
  <2>2. CASE d # c
    BY <1>1, <1>4, <2>2 DEF IInv, EffectMatchesAnswer
  <2> QED
    BY <2>1, <2>2
<1>12. BatchSizeBounded'
  BY <1>1 DEF IInv, BatchSizeBounded, batchvars
<1> QED
  BY <1>5, <1>6, <1>7, <1>8, <1>9, <1>10, <1>11, <1>12 DEF IInv

LEMMA RunSoloStep ==
    ASSUME IInv, NEW c \in Calls, NEW err \in Answers, RunSolo(c, err)
    PROVE  IInv'
<1>1. /\ caller[c] = "solo"
      /\ caller' = [caller EXCEPT ![c] = err]
      /\ applied' = [applied EXCEPT ![c] = @ + Effect(err)]
      /\ UNCHANGED <<batchvars, errCh>>
  BY DEF RunSolo
<1>2. applied[c] = 0 /\ errCh[c] = <<>>
  BY <1>1 DEF IInv, EffectMatchesAnswer, OneMessagePerCall
<1>3. applied' = [applied EXCEPT ![c] = Effect(err)]
  <2>1. 0 + Effect(err) = Effect(err)
    BY DEF Effect
  <2> QED
    BY <1>1, <1>2, <2>1
<1>4. TypeOK'
  <2>1. Effect(err) \in Nat
    BY DEF Effect
  <2> QED
    BY <1>1, <1>3, <2>1 DEF IInv, TypeOK, batchvars
<1>5. \A d \in Calls : d # c => caller'[d] = caller[d] /\ applied'[d] = applied[d]
  BY <1>1, <1>3 DEF IInv, TypeOK
<1>6. caller'[c] = err /\ applied'[c] = Effect(err)
  BY <1>1, <1>3 DEF IInv, TypeOK
<1>7. BatchesCounted'
  <2>1. Began' = Began
    BY <1>1, <1>5, <1>6 DEF Began, Answers
  <2> QED
    BY <1>1, <2>1 DEF IInv, BatchesCounted, batchvars
<1>8. LifeSound' /\ CallsDistinct'
  BY <1>1 DEF IInv, LifeSound, CallsDistinct, batchvars
<1>9. CallsMade'
  <2> SUFFICES ASSUME NEW b \in Batches, NEW i \in 1 .. Len(calls[b])
               PROVE  caller'[calls[b][i]] # "idle"
    BY <1>1 DEF CallsMade, batchvars
  <2>1. calls[b][i] \in Calls /\ caller[calls[b][i]] # "idle"
    BY LengthSound DEF IInv, TypeOK, CallsMade
  <2> QED
    BY <1>5, <1>6, <2>1 DEF Answers
<1>10. PendingSound'
  <2> SUFFICES ASSUME NEW b \in Batches, NEW i \in 1 .. Len(calls[b]), Pending(b, i)
               PROVE  /\ caller'[calls[b][i]] = "waiting"
                      /\ errCh'[calls[b][i]] = <<>>
                      /\ applied'[calls[b][i]] = Effect(result[b])
    BY <1>1 DEF PendingSound, Pending, batchvars
  <2>1. /\ caller[calls[b][i]] = "waiting"
        /\ errCh[calls[b][i]] = <<>>
        /\ applied[calls[b][i]] = Effect(result[b])
    BY DEF IInv, PendingSound
  <2>2. calls[b][i] \in Calls /\ calls[b][i] # c
    BY <1>1, <2>1, LengthSound DEF IInv, TypeOK
  <2> QED
    BY <1>1, <1>5, <2>1, <2>2
<1>11. MessagesSound' /\ OneMessagePerCall'
  BY <1>1, <1>2, <1>5 DEF IInv, MessagesSound, OneMessagePerCall
<1>12. EffectMatchesAnswer'
  <2> SUFFICES ASSUME NEW d \in Calls
               PROVE  /\ caller'[d] \in {"nil", "unsynced"} => applied'[d] = 1
                      /\ caller'[d] \in {"error", "solo", "idle"} => applied'[d] = 0
    BY DEF EffectMatchesAnswer
  <2>1. CASE d = c
    BY <1>6, <2>1 DEF Answers, Effect
  <2>2. CASE d # c
    BY <1>5, <2>2 DEF IInv, EffectMatchesAnswer
  <2> QED
    BY <2>1, <2>2
<1>13. BatchSizeBounded'
  BY <1>1 DEF IInv, BatchSizeBounded, batchvars
<1> QED
  BY <1>4, <1>7, <1>8, <1>9, <1>10, <1>11, <1>12, <1>13 DEF IInv

-----------------------------------------------------------------------------
(* The inductive invariant holds in every state.                           *)

LEMMA InitHolds == Init => IInv
<1> SUFFICES ASSUME Init PROVE IInv
  OBVIOUS
<1>1. TypeOK
  BY BatchAssumption DEF Init, TypeOK, Answers
<1>2. BatchesCounted /\ LifeSound
  <2>1. Began = {} /\ Cardinality({}) = 0
    BY FS_EmptySet DEF Init, Began
  <2>2. \A b \in Batches : ~ (b <= 0)
    BY DEF Batches
  <2> QED
    BY <2>1, <2>2 DEF Init, BatchesCounted, LifeSound
<1>3. \A b \in Batches : \A i \in 1 .. Len(calls[b]) : FALSE
  BY DEF Init
<1>4. CallsDistinct /\ CallsMade /\ PendingSound
  BY <1>3 DEF CallsDistinct, CallsMade, PendingSound
<1>5. MessagesSound /\ EffectMatchesAnswer /\ OneMessagePerCall
  BY DEF Init, MessagesSound, EffectMatchesAnswer, OneMessagePerCall
<1>6. BatchSizeBounded
  <2>1. MaxBatchSize \in Int
    BY <1>1 DEF TypeOK
  <2>2. \A m \in Int : 0 <= IF m > 0 THEN m ELSE 1
    OBVIOUS
  <2>3. \A b \in Batches : Len(calls[b]) = 0
    BY DEF Init
  <2> QED
    BY <2>1, <2>2, <2>3 DEF BatchSizeBounded
<1> QED
  BY <1>1, <1>2, <1>4, <1>5, <1>6 DEF IInv

LEMMA StutterStep ==
    ASSUME IInv, UNCHANGED vars
    PROVE  IInv'
  BY DEF vars, batchvars, IInv, TypeOK, BatchesCounted, Began, LifeSound,
     CallsDistinct, CallsMade, PendingSound, Pending, MessagesSound,
     EffectMatchesAnswer, OneMessagePerCall, BatchSizeBounded

LEMMA StepHolds == IInv /\ [Next]_vars => IInv'
<1> SUFFICES ASSUME IInv, [Next]_vars PROVE IInv'
  OBVIOUS
<1>1. ASSUME NEW c \in Calls, CallBatch(c) \/ Return(c)
      PROVE  IInv'
  BY <1>1, CallBatchStep, ReceiveStep, RunSoloStep DEF Return, Answers
<1>2. ASSUME NEW b \in Batches,
             Run(b) \/ \E t \in {"timer", "full"} : Trigger(b, t)
      PROVE  IInv'
  BY <1>2, AttemptFailsStep, AttemptCommitsStep, PassResultStep, TriggerStep
     DEF Run, Answers
<1>3. CASE UNCHANGED vars
  BY <1>3, StutterStep
<1> QED
  BY <1>1, <1>2, <1>3 DEF Next

(* Calls wait in one place of one batch, or have one message; batches live *)
(* from their first call to their last answer.                             *)
THEOREM BatchInvariant == Spec => []IInv
<1>1. Init => IInv
  BY InitHolds
<1>2. IInv /\ [Next]_vars => IInv'
  BY StepHolds
<1> QED
  BY <1>1, <1>2, PTL DEF Spec

-----------------------------------------------------------------------------
(* What follows from it.                                                   *)

(* A call that got nil, or the error of the fdatasync after its meta page  *)
(* was written, has taken effect exactly once, one that got another error  *)
(* not at all, whatever attempts run makes in between (batch.run).         *)
THEOREM AnswersTrue == Spec => []EffectMatchesAnswer
<1>1. IInv => EffectMatchesAnswer
  BY DEF IInv
<1> QED
  BY <1>1, BatchInvariant, PTL

(* run never blocks on the channel of a call, nor sends to one that left.  *)
THEOREM ChannelNeverFull == Spec => []OneMessagePerCall
<1>1. IInv => OneMessagePerCall
  BY DEF IInv
<1> QED
  BY <1>1, BatchInvariant, PTL

(* No batch grows past MaxBatchSize.                                       *)
THEOREM BatchesBounded == Spec => []BatchSizeBounded
<1>1. IInv => BatchSizeBounded
  BY DEF IInv
<1> QED
  BY <1>1, BatchInvariant, PTL
=============================================================================
