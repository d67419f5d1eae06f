------------------------- MODULE WebhookRetry_proofs -------------------------
(***************************************************************************)
(* Proofs about WebhookRetry: for any number of webhooks, entries, retries *)
(* and faults. What an operation leaves of the list is said once for every *)
(* sequence (SuffixFewer, WithoutFewer, AppendIs); the invariant ties the  *)
(* attempts that the entries of a webhook carry to how often it was sent.  *)
(***************************************************************************)
EXTENDS WebhookRetry, SequenceTheorems, WellFoundedInduction, TLAPS

-----------------------------------------------------------------------------
(* Least elements, which stand in for induction over the numbers.          *)

\* A set of natural numbers that is not empty has a least element.
LEMMA LeastNat ==
  ASSUME NEW T, T \subseteq Nat, T # {}
  PROVE  \E x \in T : \A y \in T : x <= y
<1> DEFINE R == {ss \in Nat \X Nat : ss[1] < ss[2]}
<1>1. IsWellFoundedOn(R, Nat)
  BY NatLessThanWellFounded DEF OpToRel
<1>2. \A x, y \in Nat : y < x => <<y, x>> \in R
  OBVIOUS
<1> HIDE DEF R
<1>3. PICK x \in T : \A y \in T : ~(<<y, x>> \in R)
  BY <1>1, WFMin
<1>4. \A y \in T : x \in Nat /\ y \in Nat /\ ~(y < x)
  BY <1>2, <1>3
<1>5. \A y \in T : x <= y
  BY <1>4
<1> QED
  BY <1>5

LEMMA MinIs ==
  ASSUME NEW T, T \subseteq Nat, T # {}
  PROVE  Min(T) \in T /\ \A y \in T : Min(T) <= y
  BY LeastNat DEF Min

\* The longest wait is one of the array, so that a pass counts no further than that.
LEMMA MaxWaitIs == MaxWait \in Nat
<1> DEFINE D == 1..MaxAttempts
           Bounds(n) == {b \in Nat : \A m \in 1..n : Backoff[m] <= b}
<1>1. MaxAttempts \in Nat \ {0} /\ DOMAIN Backoff = D /\ \A n \in D : Backoff[n] \in Nat \ {0}
  BY WebhookAssumption
<1>2. Bounds(MaxAttempts) # {}
  <2> DEFINE T == {n \in D : Bounds(n) = {}}
  <2>1. T = {}
    <3> SUFFICES ASSUME T # {} PROVE FALSE
      OBVIOUS
    <3>0. T \subseteq Nat /\ \A n : n \in T <=> n \in D /\ Bounds(n) = {}
      OBVIOUS
    <3> HIDE DEF T
    <3>1. PICK n \in T : \A y \in T : n <= y
      BY <3>0, LeastNat
    <3>2. n \in D /\ Bounds(n) = {}
      BY <3>0, <3>1
    <3>3. CASE n = 1
      <4>1. Backoff[1] \in Bounds(1)
        BY <1>1, <3>2, <3>3
      <4> QED
        BY <3>2, <3>3, <4>1
    <3>4. CASE n # 1
      <4>1. n - 1 \in D
        BY <1>1, <3>2, <3>4
      <4>2. n - 1 \notin T
        BY <1>1, <3>0, <3>1, <3>2
      <4>3. PICK b \in Nat : \A m \in 1..(n - 1) : Backoff[m] <= b
        BY <3>0, <4>1, <4>2
      <4>4. \E c \in Nat : b <= c /\ Backoff[n] <= c
        <5>1. CASE b <= Backoff[n]
          BY <1>1, <3>2, <5>1
        <5>2. CASE ~(b <= Backoff[n])
          BY <1>1, <3>2, <5>2
        <5> QED
          BY <5>1, <5>2
      <4>5. PICK c \in Nat : b <= c /\ Backoff[n] <= c
        BY <4>4
      <4>6. ASSUME NEW m \in 1..n PROVE Backoff[m] <= c
        <5>1. CASE m = n
          BY <4>5, <5>1
        <5>2. CASE m # n
          BY <1>1, <3>2, <4>3, <4>5, <5>2
        <5> QED
          BY <5>1, <5>2
      <4>7. c \in Bounds(n)
        BY <4>6
      <4> QED
        BY <3>2, <4>7
    <3> QED
      BY <3>3, <3>4
  <2>2. MaxAttempts \in D
    BY <1>1
  <2> QED
    BY <2>1, <2>2
<1>3. PICK u \in Bounds(MaxAttempts) : \A b \in Bounds(MaxAttempts) : u <= b
  BY <1>2, LeastNat
<1>4. u \in Nat /\ \A m \in D : Backoff[m] <= u
  BY <1>3
<1>5. \E m \in D : Backoff[m] = u
  <2> SUFFICES ASSUME \A m \in D : Backoff[m] # u PROVE FALSE
    OBVIOUS
  <2>1. \A m \in D : Backoff[m] <= u - 1
    BY <1>1, <1>4
  <2>2. 1 \in D
    BY <1>1
  <2>3. u - 1 \in Nat
    BY <1>1, <1>4, <2>1, <2>2
  <2>4. u - 1 \in Bounds(MaxAttempts)
    BY <2>1, <2>3
  <2> QED
    BY <1>3, <1>4, <2>4
<1>6. u \in {Backoff[n] : n \in DOMAIN Backoff} /\ \A n \in DOMAIN Backoff : Backoff[n] <= u
  BY <1>1, <1>4, <1>5
<1>7. MaxWait \in {Backoff[n] : n \in DOMAIN Backoff}
  BY <1>6 DEF MaxWait
<1> QED
  BY <1>1, <1>7

-----------------------------------------------------------------------------
(* What the operations on the list leave of it.                            *)

\* t is what is left of s without its first entries.
Suffix(s, t) == \E k \in 0..Len(s) : Len(t) = Len(s) - k /\ \A i \in 1..(Len(s) - k) : t[i] = s[i + k]

LEMMA SubSeqSuffix ==
  ASSUME NEW S, NEW s \in Seq(S), NEW m \in 1..(Len(s) + 1)
  PROVE  SubSeq(s, m, Len(s)) \in Seq(S) /\ Suffix(s, SubSeq(s, m, Len(s)))
<1>1. Len(s) \in Nat /\ m \in Int /\ Len(s) \in Int
  BY LenProperties
<1>2. \A i \in m..Len(s) : s[i] \in S
  BY <1>1, ElementOfSeq
<1>3. /\ SubSeq(s, m, Len(s)) \in Seq(S)
      /\ Len(SubSeq(s, m, Len(s))) = IF m <= Len(s) THEN Len(s) - m + 1 ELSE 0
      /\ \A i \in 1..(Len(s) - m + 1) : SubSeq(s, m, Len(s))[i] = s[m + i - 1]
  BY <1>1, <1>2, SubSeqProperties
<1> DEFINE t == SubSeq(s, m, Len(s))
<1> HIDE DEF t
<1>4. Len(t) = Len(s) - (m - 1) /\ \A i \in 1..(Len(s) - (m - 1)) : t[i] = s[i + (m - 1)]
  <2>1. m + 1 - 1 = m /\ \A i \in Int : m + i - 1 = i + (m - 1)
    BY <1>1
  <2> QED
    BY <1>1, <1>3, <2>1 DEF t
<1>5. m - 1 \in 0..Len(s)
  BY <1>1
<1>6. Suffix(s, t)
  BY <1>4, <1>5 DEF Suffix
<1> QED
  BY <1>3, <1>6 DEF t

LEMMA FromDueIs ==
  ASSUME NEW s \in Seq(Item)
  PROVE  FromDue(s) \in Seq(Item) /\ Suffix(s, FromDue(s))
<1> DEFINE due == {i \in DOMAIN s : s[i].wait = 0}
<1>1. Len(s) \in Nat /\ DOMAIN s = 1..Len(s)
  BY LenProperties
<1>2. CASE due = {}
  <2>1. FromDue(s) = <<>>
    BY <1>2 DEF FromDue
  <2>2. Suffix(s, <<>>)
    <3>1. Len(s) \in 0..Len(s) /\ Len(<<>>) = Len(s) - Len(s) /\ 1..(Len(s) - Len(s)) = {}
      BY <1>1, EmptySeq
    <3> QED
      BY <3>1 DEF Suffix
  <2> QED
    BY <2>1, <2>2, EmptySeq
<1>3. CASE due # {}
  <2>1. due \subseteq Nat
    BY <1>1
  <2>2. Min(due) \in due
    BY <1>3, <2>1, MinIs
  <2>3. Min(due) \in 1..(Len(s) + 1)
    BY <1>1, <2>2
  <2>4. FromDue(s) = SubSeq(s, Min(due), Len(s))
    BY <1>3 DEF FromDue
  <2> QED
    BY <2>3, <2>4, SubSeqSuffix
<1> QED
  BY <1>2, <1>3

LEMMA TrimIs ==
  ASSUME NEW s \in Seq(Item)
  PROVE  /\ Trim(s) \in Seq(Item) /\ Suffix(s, Trim(s))
         /\ \A i \in DOMAIN s : s[i].hook \in Oldest(s) \/ \E j \in DOMAIN Trim(s) : Trim(s)[j] = s[i]
<1>1. Len(s) \in Nat /\ DOMAIN s = 1..Len(s) /\ MaxEntries \in Nat \ {0}
  BY LenProperties, WebhookAssumption
<1>2. CASE Len(s) <= MaxEntries
  <2>1. Trim(s) = s
    BY <1>1, <1>2 DEF Trim
  <2>2. Suffix(s, s)
    <3>1. 0 \in 0..Len(s) /\ Len(s) = Len(s) - 0 /\ \A i \in 1..(Len(s) - 0) : s[i] = s[i + 0]
      BY <1>1
    <3> QED
      BY <3>1 DEF Suffix
  <2> QED
    BY <2>1, <2>2
<1>3. CASE Len(s) > MaxEntries
  <2> DEFINE m == Len(s) - MaxEntries + 1
             t == SubSeq(s, m, Len(s))
  <2>1. m \in 1..(Len(s) + 1) /\ m \in Int /\ Len(s) \in Int /\ Trim(s) = t
    BY <1>1, <1>3 DEF Trim
  <2>2. t \in Seq(Item) /\ Suffix(s, t)
    BY <2>1, SubSeqSuffix
  <2>3. ASSUME NEW i \in DOMAIN s, s[i].hook \notin Oldest(s)
        PROVE  \E j \in DOMAIN t : t[j] = s[i]
    <3>1. \A k \in m..Len(s) : s[k] \in Item
      BY <1>1, <2>1, ElementOfSeq
    <3>2. Len(t) = (IF m <= Len(s) THEN Len(s) - m + 1 ELSE 0) /\ \A k \in 1..(Len(s) - m + 1) : t[k] = s[m + k - 1]
      BY <2>1, <3>1, SubSeqProperties
    <3>3. i \in 1..Len(s) /\ i \notin 1..(Len(s) - MaxEntries)
      BY <1>1, <2>3 DEF Oldest
    <3>4. i - m + 1 \in 1..(Len(s) - m + 1) /\ m + (i - m + 1) - 1 = i
      BY <1>1, <3>3
    <3>5. DOMAIN t = 1..Len(t) /\ Len(t) = Len(s) - m + 1
      BY <1>1, <1>3, <2>2, <3>2, LenProperties
    <3> QED
      BY <3>2, <3>4, <3>5
  <2> QED
    BY <2>1, <2>2, <2>3
<1> QED
  BY <1>1, <1>2, <1>3

\* LREM takes the first equal entry out and closes the gap.
LEMMA WithoutIs ==
  ASSUME NEW s \in Seq(Item), NEW item
  PROVE  /\ Without(s, item) \in Seq(Item)
         /\ \/ Without(s, item) = s /\ \A i \in DOMAIN s : ~Same(s[i], item)
            \/ \E k \in 1..Len(s) :
                  /\ Same(s[k], item) /\ Len(Without(s, item)) = Len(s) - 1
                  /\ \A i \in 1..(Len(s) - 1) : Without(s, item)[i] = IF i < k THEN s[i] ELSE s[i + 1]
<1> DEFINE I == {i \in 1..Len(s) : Same(s[i], item)}
<1>1. Len(s) \in Nat /\ DOMAIN s = 1..Len(s) /\ \A i \in 1..Len(s) : s[i] \in Item
  BY LenProperties, ElementOfSeq
<1>2. CASE I = {}
  <2>1. Without(s, item) = s
    BY <1>2 DEF Without, RemoveFirstMatch
  <2> QED
    BY <1>1, <1>2, <2>1
<1>3. CASE I # {}
  <2>1. Without(s, item) = RemoveAt(s, Min(I))
    BY <1>3 DEF Without, RemoveFirstMatch, SelectInSeq
  <2>2. I \subseteq Nat
    BY <1>1
  <2>3. Min(I) \in I
    BY <1>3, <2>2, MinIs
  <2>4. PICK k : k = Min(I)
    OBVIOUS
  <2>5. k \in 1..Len(s) /\ Same(s[k], item)
    BY <2>3, <2>4
  <2> DEFINE a == SubSeq(s, 1, k - 1)
             b == SubSeq(s, k + 1, Len(s))
  <2>6. Without(s, item) = a \o b
    BY <2>1, <2>4 DEF RemoveAt
  <2>7. a \in Seq(Item) /\ Len(a) = k - 1 /\ \A i \in 1..(k - 1) : a[i] = s[i]
    <3>1. 1 \in Int /\ k - 1 \in Int /\ \A i \in 1..(k - 1) : s[i] \in Item
      BY <1>1, <2>5
    <3>2. /\ a \in Seq(Item) /\ Len(a) = (IF 1 <= k - 1 THEN k - 1 - 1 + 1 ELSE 0)
          /\ \A i \in 1..(k - 1 - 1 + 1) : a[i] = s[1 + i - 1]
      BY <3>1, SubSeqProperties
    <3> HIDE DEF a
    <3>3. \A i \in 1..(k - 1) : 1 + i - 1 = i
      BY <1>1, <2>5
    <3>4. k - 1 - 1 + 1 = k - 1 /\ (1 <= k - 1 \/ k - 1 = 0)
      BY <1>1, <2>5
    <3>5. Len(a) = k - 1
      BY <3>2, <3>4
    <3>6. \A i \in 1..(k - 1) : a[i] = s[1 + i - 1]
      BY <3>2, <3>4
    <3>7. \A i \in 1..(k - 1) : a[i] = s[i]
      BY <3>3, <3>6
    <3> QED
      BY <3>2, <3>5, <3>7
  <2>8. b \in Seq(Item) /\ Len(b) = Len(s) - k /\ \A i \in 1..(Len(s) - k) : b[i] = s[k + i]
    <3>1. k + 1 \in Int /\ Len(s) \in Int /\ \A i \in (k + 1)..Len(s) : s[i] \in Item
      BY <1>1, <2>5
    <3>2. /\ b \in Seq(Item) /\ Len(b) = (IF k + 1 <= Len(s) THEN Len(s) - (k + 1) + 1 ELSE 0)
          /\ \A i \in 1..(Len(s) - (k + 1) + 1) : b[i] = s[k + 1 + i - 1]
      BY <3>1, SubSeqProperties
    <3> HIDE DEF b
    <3>3. \A i \in 1..(Len(s) - k) : k + 1 + i - 1 = k + i
      BY <1>1, <2>5
    <3>0. k \in Nat /\ Len(s) \in Nat /\ k <= Len(s)
      BY <1>1, <2>5
    <3>4. Len(s) - (k + 1) + 1 = Len(s) - k /\ (k + 1 <= Len(s) \/ Len(s) - k = 0)
      BY <3>0
    <3>5. Len(b) = Len(s) - k
      BY <3>2, <3>4
    <3>6. \A i \in 1..(Len(s) - k) : b[i] = s[k + 1 + i - 1]
      BY <3>2, <3>4
    <3>7. \A i \in 1..(Len(s) - k) : b[i] = s[k + i]
      BY <3>3, <3>6
    <3> QED
      BY <3>2, <3>5, <3>7
  <2> HIDE DEF a, b
  <2>9. /\ a \o b \in Seq(Item) /\ Len(a \o b) = Len(a) + Len(b)
        /\ \A i \in 1..(Len(a) + Len(b)) : (a \o b)[i] = IF i <= Len(a) THEN a[i] ELSE b[i - Len(a)]
    BY <2>7, <2>8, ConcatProperties
  <2>10. Len(a) + Len(b) = Len(s) - 1
    BY <1>1, <2>5, <2>7, <2>8
  <2>11. ASSUME NEW i \in 1..(Len(s) - 1)
         PROVE  (a \o b)[i] = IF i < k THEN s[i] ELSE s[i + 1]
    <3>1. CASE i < k
      BY <1>1, <2>5, <2>7, <2>9, <2>10, <3>1
    <3>2. CASE ~(i < k)
      <4>1. ~(i <= Len(a)) /\ i - Len(a) \in 1..(Len(s) - k) /\ k + (i - Len(a)) = i + 1
        BY <1>1, <2>5, <2>7, <3>2
      <4> QED
        BY <2>8, <2>9, <2>10, <3>2, <4>1
    <3> QED
      BY <3>1, <3>2
  <2>12. Len(a \o b) = Len(s) - 1
    BY <2>9, <2>10
  <2> QED
    BY <2>5, <2>6, <2>9, <2>11, <2>12
<1> QED
  BY <1>2, <1>3

-----------------------------------------------------------------------------
(* The entries of a webhook.                                               *)

\* s has at most one entry of h.
Once(s, h) == \A i, j \in DOMAIN s : s[i].hook = h /\ s[j].hook = h => i = j

Has(s, h, n) == \E i \in DOMAIN s : s[i].hook = h /\ s[i].attempts = n
Holds(s, h)  == \E i \in DOMAIN s : s[i].hook = h

\* t has no more entries of h than s, and none that s does not have.
Fewer(s, t, h) == (Once(s, h) => Once(t, h)) /\ \A n : Has(t, h, n) => Has(s, h, n)

LEMMA SuffixFewer ==
  ASSUME NEW s \in Seq(Item), NEW t \in Seq(Item), NEW h, Suffix(s, t)
  PROVE  Fewer(s, t, h)
<1>1. PICK k \in 0..Len(s) : Len(t) = Len(s) - k /\ \A i \in 1..(Len(s) - k) : t[i] = s[i + k]
  BY DEF Suffix
<1>2. Len(s) \in Nat /\ DOMAIN s = 1..Len(s) /\ Len(t) \in Nat /\ DOMAIN t = 1..Len(t)
  BY LenProperties
<1>3. \A i \in DOMAIN t : i + k \in DOMAIN s /\ t[i] = s[i + k] /\ i \in Int /\ k \in Int
  BY <1>1, <1>2
<1> QED
  BY <1>3 DEF Fewer, Once, Has

LEMMA WithoutFewer ==
  ASSUME NEW s \in Seq(Item), NEW item, NEW h
  PROVE  /\ Fewer(s, Without(s, item), h)
         /\ h # item.hook /\ Holds(s, h) => Holds(Without(s, item), h)
         /\ Once(s, h) /\ Has(s, h, item.attempts) /\ h = item.hook => ~Holds(Without(s, item), h)
<1>0. PICK t : t = Without(s, item)
  OBVIOUS
<1>1. t \in Seq(Item) /\ Len(s) \in Nat /\ DOMAIN s = 1..Len(s) /\ Len(t) \in Nat /\ DOMAIN t = 1..Len(t)
  BY <1>0, WithoutIs, LenProperties
<1>2. CASE t = s /\ \A i \in DOMAIN s : ~Same(s[i], item)
  BY <1>0, <1>2 DEF Fewer, Same, Has
<1>3. ASSUME NEW k \in 1..Len(s), Same(s[k], item), Len(t) = Len(s) - 1,
             \A i \in 1..(Len(s) - 1) : t[i] = IF i < k THEN s[i] ELSE s[i + 1]
      PROVE  /\ Fewer(s, t, h)
             /\ h # item.hook /\ Holds(s, h) => Holds(t, h)
             /\ Once(s, h) /\ h = item.hook => ~Holds(t, h)
  <2>1. ASSUME NEW i \in DOMAIN t
        PROVE  /\ i < k => i \in DOMAIN s /\ t[i] = s[i] /\ i # k
               /\ ~(i < k) => i + 1 \in DOMAIN s /\ t[i] = s[i + 1] /\ i + 1 # k
               /\ i \in Int
    BY <1>1, <1>3
  <2>2. Fewer(s, t, h)
    <3>1. \A n : Has(t, h, n) => Has(s, h, n)
      BY <2>1 DEF Has
    <3>2. ASSUME Once(s, h), NEW i \in DOMAIN t, NEW j \in DOMAIN t, t[i].hook = h, t[j].hook = h
          PROVE  i = j
      <4>1. CASE i < k /\ j < k
        BY <2>1, <3>2, <4>1 DEF Once
      <4>2. CASE ~(i < k) /\ ~(j < k)
        <5>1. i + 1 = j + 1
          BY <2>1, <3>2, <4>2 DEF Once
        <5> QED
          BY <2>1, <5>1
      <4>3. CASE i < k /\ ~(j < k)
        <5>1. i = j + 1
          BY <2>1, <3>2, <4>3 DEF Once
        <5> QED
          BY <2>1, <4>3, <5>1
      <4>4. CASE ~(i < k) /\ j < k
        <5>1. j = i + 1
          BY <2>1, <3>2, <4>4 DEF Once
        <5> QED
          BY <2>1, <4>4, <5>1
      <4> QED
        BY <4>1, <4>2, <4>3, <4>4
    <3> QED
      BY <3>1, <3>2 DEF Fewer, Once
  <2>3. ASSUME h # item.hook, NEW i \in DOMAIN s, s[i].hook = h
        PROVE  Holds(t, h)
    <3>1. i # k
      BY <1>3, <2>3 DEF Same
    <3>2. CASE i < k
      <4>1. i \in DOMAIN t /\ t[i] = s[i]
        BY <1>1, <1>3, <3>2
      <4> QED
        BY <2>3, <4>1 DEF Holds
    <3>3. CASE k < i
      <4>1. i - 1 \in DOMAIN t /\ ~(i - 1 < k) /\ i - 1 + 1 = i
        BY <1>1, <1>3, <3>3
      <4>2. t[i - 1] = s[i]
        BY <1>1, <1>3, <4>1
      <4> QED
        BY <2>3, <4>1, <4>2 DEF Holds
    <3> QED
      BY <1>1, <3>1, <3>2, <3>3
  <2>4. ASSUME Once(s, h), h = item.hook, Holds(t, h)
        PROVE  FALSE
    <3>1. PICK i \in DOMAIN t : t[i].hook = h
      BY <2>4 DEF Holds
    <3>2. s[k].hook = h /\ k \in DOMAIN s
      BY <1>1, <1>3, <2>4 DEF Same
    <3> QED
      BY <2>1, <2>4, <3>1, <3>2 DEF Once
  <2>5. h # item.hook /\ Holds(s, h) => Holds(t, h)
    BY <2>3 DEF Holds
  <2> QED
    BY <2>2, <2>4, <2>5
<1> QED
  BY <1>0, <1>2, <1>3, WithoutIs

-----------------------------------------------------------------------------
(* Types, and the passes.                                                  *)

PassRows == [pc : PassPc, todo : Seq(Item), elapsed : 0..MaxWait]

\* The worker's guard lets one pass run, and a pass that runs is at an entry.
PassInv ==
  /\ \A p, q \in Passes : pass[p].pc # "idle" /\ pass[q].pc # "idle" => p = q
  /\ \A p \in Passes : /\ pass[p].pc = "idle" => pass[p] = IdlePass
                       /\ pass[p].pc # "idle" => workerBusy /\ pass[p].todo # <<>>
                       /\ pass[p].pc = "requeue" => Current(p).attempts < MaxAttempts

WorkInv == TypeOK /\ PassInv

LEMMA IdleIsRow == IdlePass \in PassRows /\ IdlePass.pc = "idle" /\ IdlePass.todo = <<>> /\ IdlePass.elapsed = 0
<1>1. 0 \in 0..MaxWait /\ <<>> \in Seq(Item)
  BY MaxWaitIs, EmptySeq
<1> QED
  BY <1>1 DEF IdlePass, PassRows, PassPc

LEMMA PassIs ==
  ASSUME WorkInv, NEW p \in Passes
  PROVE  /\ pass \in [Passes -> PassRows] /\ pass[p] \in PassRows
         /\ pass[p].todo \in Seq(Item) /\ Len(pass[p].todo) \in Nat
         /\ DOMAIN pass[p].todo = 1..Len(pass[p].todo)
         /\ pass[p].pc # "idle" => 1 \in DOMAIN pass[p].todo /\ Current(p) = pass[p].todo[1] /\ Current(p) \in Item
<1>1. pass \in [Passes -> PassRows] /\ pass[p] \in PassRows /\ pass[p].todo \in Seq(Item)
  BY DEF WorkInv, TypeOK, PassRows
<1>2. Len(pass[p].todo) \in Nat /\ DOMAIN pass[p].todo = 1..Len(pass[p].todo)
  BY <1>1, LenProperties
<1>3. ASSUME pass[p].pc # "idle"
      PROVE  1 \in DOMAIN pass[p].todo /\ Current(p) = pass[p].todo[1] /\ Current(p) \in Item
  <2>1. pass[p].todo # <<>>
    BY <1>3 DEF WorkInv, PassInv
  <2>2. Len(pass[p].todo) \in Nat \ {0}
    BY <1>1, <2>1, EmptySeq
  <2>3. Current(p) = pass[p].todo[1]
    BY DEF Current
  <2> QED
    BY <1>1, <1>2, <2>2, <2>3, ElementOfSeq
<1> QED
  BY <1>1, <1>2, <1>3

LEMMA ItemIs ==
  ASSUME NEW e \in Item
  PROVE  /\ e.hook \in Hooks /\ e.attempts \in 1..MaxAttempts /\ e.wait \in Nat
         /\ e.attempts \in Nat \ {0} /\ e.attempts <= MaxAttempts
<1>1. e.hook \in Hooks /\ e.attempts \in 1..MaxAttempts /\ e.wait \in Nat
  BY DEF Item
<1>2. MaxAttempts \in Nat
  BY WebhookAssumption
<1> QED
  BY <1>1, <1>2

LEMMA WorkInit == Init => WorkInv
<1> SUFFICES ASSUME Init PROVE WorkInv
  OBVIOUS
<1>1. TypeOK
  <2>1. list \in Seq(Item)
    BY EmptySeq DEF Init
  <2>2. pass \in [Passes -> PassRows]
    BY IdleIsRow DEF Init
  <2>3. tries \in [Hooks -> Nat] /\ faults \in 0..MaxFaults
    BY WebhookAssumption DEF Init
  <2>4. workerBusy \in BOOLEAN
    BY DEF Init
  <2> QED
    BY <2>1, <2>2, <2>3, <2>4 DEF Init, TypeOK, PassRows
<1>2. PassInv
  <2>1. \A p \in Passes : pass[p] = IdlePass /\ pass[p].pc = "idle"
    BY IdleIsRow DEF Init
  <2> QED
    BY <2>1 DEF PassInv
<1> QED
  BY <1>1, <1>2 DEF WorkInv

\* A pass goes on to the next due entry, or is over.
LEMMA NextItemIs ==
  ASSUME WorkInv, NEW p \in Passes, pass[p].pc # "idle", NextItem(p)
  PROVE  /\ pass' \in [Passes -> PassRows] /\ PassInv'
         /\ workerBusy' \in BOOLEAN
         /\ \A q \in Passes \ {p} : pass'[q] = pass[q]
         /\ pass'[p].pc \in {"idle", "fetch"}
         /\ \A i \in DOMAIN pass'[p].todo : \E j \in DOMAIN pass[p].todo : j # 1 /\ pass'[p].todo[i] = pass[p].todo[j]
         /\ \A h : Fewer(pass[p].todo, pass'[p].todo, h)
<1>0. PICK s : s = pass[p].todo
  OBVIOUS
<1>1. s \in Seq(Item) /\ s # <<>> /\ pass \in [Passes -> PassRows] /\ workerBusy = TRUE
  BY <1>0, PassIs DEF WorkInv, PassInv, TypeOK
<1>2. /\ Tail(s) \in Seq(Item) /\ Len(Tail(s)) = Len(s) - 1 /\ Len(s) \in Nat \ {0}
      /\ \A i \in 1..Len(Tail(s)) : Tail(s)[i] = s[i + 1]
  BY <1>1, HeadTailProperties, EmptySeq
<1>3. Suffix(s, Tail(s))
  <2>1. 1 \in 0..Len(s) /\ Len(Tail(s)) = Len(s) - 1 /\ \A i \in 1..(Len(s) - 1) : Tail(s)[i] = s[i + 1]
    BY <1>2
  <2> QED
    BY <2>1 DEF Suffix
<1>4. PICK rest : rest = FromDue(Tail(s))
  OBVIOUS
<1>5. rest \in Seq(Item) /\ Suffix(Tail(s), rest)
  BY <1>2, <1>4, FromDueIs
<1>6. ASSUME NEW h PROVE Fewer(s, rest, h)
  <2>1. Fewer(s, Tail(s), h) /\ Fewer(Tail(s), rest, h)
    BY <1>1, <1>2, <1>3, <1>5, SuffixFewer
  <2> QED
    BY <2>1 DEF Fewer
<1>7. ASSUME NEW i \in DOMAIN rest PROVE \E j \in DOMAIN s : j # 1 /\ rest[i] = s[j]
  <2>1. PICK k \in 0..Len(Tail(s)) : Len(rest) = Len(Tail(s)) - k /\ \A x \in 1..(Len(Tail(s)) - k) : rest[x] = Tail(s)[x + k]
    BY <1>5 DEF Suffix
  <2>2. DOMAIN rest = 1..Len(rest) /\ DOMAIN s = 1..Len(s)
    BY <1>1, <1>5, LenProperties
  <2>3. i + k \in 1..Len(Tail(s)) /\ rest[i] = Tail(s)[i + k]
    BY <1>2, <2>1, <2>2
  <2>4. i + k + 1 \in DOMAIN s /\ i + k + 1 # 1 /\ rest[i] = s[i + k + 1]
    BY <1>2, <2>1, <2>2, <2>3
  <2> QED
    BY <2>4
<1>8. CASE rest = <<>>
  <2>1. pass' = [pass EXCEPT ![p] = IdlePass]
    BY <1>0, <1>4, <1>8 DEF NextItem
  <2>2. /\ pass' \in [Passes -> PassRows] /\ pass'[p] = IdlePass
        /\ \A q \in Passes \ {p} : pass'[q] = pass[q]
    BY <1>1, <2>1, IdleIsRow
  <2>3. \A q \in Passes \ {p} : pass'[q] = IdlePass
    BY <2>2 DEF WorkInv, PassInv
  <2>4. \A q \in Passes : pass'[q].pc = "idle" /\ pass'[q] = IdlePass
    BY <2>2, <2>3, IdleIsRow
  <2>5. PassInv'
    BY <2>4 DEF PassInv
  <2>6. workerBusy' \in BOOLEAN
    BY Zenon DEF NextItem, Freed
  <2> QED
    BY <1>0, <1>6, <1>7, <1>8, <2>2, <2>5, <2>6, IdleIsRow
<1>9. CASE rest # <<>>
  <2>1. pass' = [pass EXCEPT ![p] = [@ EXCEPT !.pc = "fetch", !.todo = rest]]
    BY <1>0, <1>4, <1>9 DEF NextItem
  <2>2. /\ [pass[p] EXCEPT !.pc = "fetch", !.todo = rest] \in PassRows
        /\ [pass[p] EXCEPT !.pc = "fetch", !.todo = rest].pc = "fetch"
        /\ [pass[p] EXCEPT !.pc = "fetch", !.todo = rest].todo = rest
    BY <1>1, <1>5 DEF PassRows, PassPc
  <2>3. /\ pass' \in [Passes -> PassRows] /\ pass'[p].pc = "fetch" /\ pass'[p].todo = rest
        /\ \A q \in Passes \ {p} : pass'[q] = pass[q]
    BY <1>1, <2>1, <2>2
  <2>4. workerBusy' = TRUE
    BY <1>0, <1>1, <1>4, <1>9 DEF NextItem, Freed
  <2>5. PassInv'
    <3>1. \A q \in Passes \ {p} : pass'[q] = pass[q] /\ pass[q] = IdlePass /\ pass[q].pc = "idle"
      BY <2>3, IdleIsRow DEF WorkInv, PassInv
    <3> QED
      BY <1>9, <2>3, <2>4, <3>1 DEF PassInv
  <2> QED
    BY <1>0, <1>6, <1>7, <2>3, <2>4, <2>5
<1> QED
  BY <1>8, <1>9

LEMMA TypeIs ==
  TypeOK <=> /\ list \in Seq(Item) /\ sending \subseteq Hooks /\ failing \subseteq Hooks
             /\ workerBusy \in BOOLEAN /\ pass \in [Passes -> PassRows] /\ tries \in [Hooks -> Nat]
             /\ delivered \subseteq Hooks /\ trimmed \subseteq Hooks /\ hurt \subseteq Hooks /\ faults \in 0..MaxFaults
  BY DEF TypeOK, PassRows

LEMMA FaultIs ==
  ASSUME TypeOK, NEW kind, NEW hooks \in SUBSET Hooks, Fault(kind, hooks)
  PROVE  hurt' \subseteq Hooks /\ faults' \in 0..MaxFaults /\ hooks \subseteq hurt' /\ hurt \subseteq hurt'
<1>1. faults \in 0..MaxFaults /\ MaxFaults \in Nat
  BY WebhookAssumption DEF TypeOK
<1> QED
  BY <1>1 DEF Fault, TypeOK

\* A webhook on its way into the list touches no pass.
LEMMA WorkFirst ==
  ASSUME WorkInv, NEW h \in Hooks, Fire(h) \/ First(h)
  PROVE  WorkInv'
<1> USE DEF WorkInv
<1>1. UNCHANGED <<pass, workerBusy>>
  BY DEF Fire, First, FirstAnswered, FirstFails, Enqueue
<1>2. PassInv'
  BY <1>1 DEF PassInv, Current
<1>3. CASE Fire(h)
  BY <1>2, <1>3 DEF Fire, TypeOK
<1>4. CASE FirstAnswered(h)
  BY <1>2, <1>4 DEF FirstAnswered, TypeOK
<1>5. CASE FirstFails(h)
  BY <1>2, <1>5 DEF FirstFails, TypeOK
<1>6. CASE Enqueue(h)
  <2> DEFINE item == [hook |-> h, attempts |-> 1, wait |-> Backoff[1]]
  <2>1. item \in Item
    BY WebhookAssumption DEF Item
  <2>2. PICK pushed \in Seq(Item) : pushed = Append(list, item)
    BY <2>1, AppendProperties DEF TypeOK
  <2>3. Trim(pushed) \in Seq(Item) /\ Oldest(pushed) \subseteq Hooks
    <3>1. MaxEntries \in Nat /\ Len(pushed) \in Nat
      BY WebhookAssumption, LenProperties
    <3>2. \A i \in 1..(Len(pushed) - MaxEntries) : pushed[i] \in Item
      BY <3>1, ElementOfSeq
    <3> QED
      BY <3>2, TrimIs, ItemIs DEF Oldest
  <2>4. list' \in Seq(Item) /\ trimmed' \subseteq Hooks /\ hurt' \subseteq Hooks /\ faults' \in 0..MaxFaults
    <3>1. CASE list' = Trim(pushed) /\ trimmed' = trimmed \cup Oldest(pushed) /\ UNCHANGED <<hurt, faults>>
      BY <2>3, <3>1 DEF TypeOK
    <3>2. CASE Fault("io", {h}) /\ UNCHANGED <<list, trimmed>>
      BY <3>2, FaultIs DEF TypeOK
    <3> QED
      BY <1>6, <2>2, <3>1, <3>2 DEF Enqueue
  <2> QED
    BY <1>2, <1>6, <2>4 DEF Enqueue, TypeOK
<1> QED
  BY <1>2, <1>3, <1>4, <1>5, <1>6 DEF First

LEMMA WorkPass ==
  ASSUME WorkInv, NEW p \in Passes, StartPass(p) \/ PassStep(p)
  PROVE  WorkInv'
<1> USE DEF WorkInv
<1>1. CASE StartPass(p)
  <2>1. PICK t \in Seq(Item) : t = FromDue(list) /\ t # <<>>
    BY <1>1, FromDueIs DEF StartPass, TypeOK
  <2>2. PICK r : r = [IdlePass EXCEPT !.pc = "fetch", !.todo = t]
    OBVIOUS
  <2>3. r \in PassRows /\ r.pc = "fetch" /\ r.todo = t
    BY <2>2, IdleIsRow DEF IdlePass, PassRows, PassPc
  <2>4. pass' = [pass EXCEPT ![p] = r]
    BY <1>1, <2>1, <2>2 DEF StartPass
  <2>5. pass' \in [Passes -> PassRows] /\ pass'[p] = r /\ \A q \in Passes \ {p} : pass'[q] = pass[q]
    BY <2>3, <2>4, TypeIs
  <2>6. workerBusy = FALSE /\ workerBusy' = TRUE
    BY <1>1, Zenon DEF StartPass, Free, TypeOK
  <2>7. \A q \in Passes : pass[q].pc = "idle"
    BY <2>6 DEF PassInv
  <2>8. PassInv'
    BY <2>1, <2>3, <2>5, <2>6, <2>7 DEF PassInv
  <2>9. TypeOK'
    BY <1>1, <2>5, <2>6 DEF StartPass, TypeOK, PassRows
  <2> QED
    BY <2>8, <2>9
<1>2. CASE Retry(p)
  <2>1. pass[p].pc = "fetch" /\ pass[p].pc # "idle"
    BY <1>2 DEF Retry
  <2>2. PICK c \in Item : c = Current(p) /\ c.hook \in Hooks /\ c.attempts \in Nat /\ MaxAttempts \in Nat
    BY <2>1, PassIs, ItemIs, WebhookAssumption
  <2>3. tries' \in [Hooks -> Nat]
    BY <1>2, <2>2 DEF Retry, TypeOK
  <2>4. PICK pc \in {"remove", "requeue"} : pass' = [pass EXCEPT ![p].pc = pc] /\ (pc = "requeue" => c.attempts < MaxAttempts)
    BY <1>2, <2>2 DEF Retry, Exhausted
  <2>5. /\ pass' \in [Passes -> PassRows] /\ pass'[p].pc = pc /\ pass'[p].todo = pass[p].todo
        /\ \A q \in Passes \ {p} : pass'[q] = pass[q]
    BY <2>4, TypeIs DEF PassRows, PassPc
  <2>6. \A q \in Passes : pass'[q].todo = pass[q].todo /\ (pass'[q].pc = "idle" <=> pass[q].pc = "idle") /\ (q # p => pass'[q].pc = pass[q].pc)
    BY <2>1, <2>5
  <2>7. PassInv'
    <3>1. \A q \in Passes : pass'[q].pc = "requeue" => Current(q)'.attempts < MaxAttempts
      BY <2>2, <2>4, <2>5, <2>6 DEF PassInv, Current
    <3>2. UNCHANGED workerBusy
      BY <1>2 DEF Retry
    <3>3. \A q \in Passes : pass'[q].pc = "idle" => pass'[q] = IdlePass
      BY <2>1, <2>5, <2>6 DEF PassInv
    <3> QED
      BY <2>6, <3>1, <3>2, <3>3 DEF PassInv
  <2>8. delivered' \subseteq Hooks
    BY <1>2, <2>2 DEF Retry, TypeOK
  <2>9. TypeOK'
    BY <1>2, <2>3, <2>5, <2>8 DEF Retry, TypeOK, PassRows
  <2> QED
    BY <2>7, <2>9
<1>3. CASE Unlist(p)
  <2>1. pass[p].pc # "idle" /\ NextItem(p)
    BY <1>3 DEF Unlist
  <2>2. pass' \in [Passes -> PassRows] /\ PassInv' /\ workerBusy' \in BOOLEAN
    BY <2>1, NextItemIs
  <2>3. Current(p).hook \in Hooks
    BY <2>1, PassIs, ItemIs
  <2>4. list' \in Seq(Item) /\ hurt' \subseteq Hooks /\ faults' \in 0..MaxFaults
    BY <1>3, <2>3, WithoutIs, FaultIs DEF Unlist, TypeOK
  <2>5. TypeOK'
    BY <1>3, <2>2, <2>4 DEF Unlist, TypeOK, PassRows
  <2> QED
    BY <2>2, <2>5
<1>4. CASE Requeue(p)
  <2>1. pass[p].pc = "requeue" /\ pass[p].pc # "idle" /\ NextItem(p)
    BY <1>4 DEF Requeue
  <2>2. pass' \in [Passes -> PassRows] /\ PassInv' /\ workerBusy' \in BOOLEAN
    BY <2>1, NextItemIs
  <2>3. PICK c \in Item : c = Current(p) /\ c.attempts < MaxAttempts
    BY <2>1, PassIs DEF PassInv
  <2>4. PICK again : again = [c EXCEPT !.attempts = @ + 1, !.wait = Remaining(c.attempts + 1, p)]
    OBVIOUS
  <2>5. again \in Item
    <3>1. Remaining(c.attempts + 1, p) \in Nat
      <4>1. pass[p].elapsed \in Nat
        BY MaxWaitIs, PassIs DEF PassRows
      <4> QED
        BY <4>1, WebhookAssumption DEF Remaining
    <3>2. c.attempts + 1 \in 1..MaxAttempts
      BY <2>3, WebhookAssumption DEF Item
    <3> QED
      BY <2>3, <2>4, <3>1, <3>2 DEF Item
  <2>6. list' \in Seq(Item) /\ hurt' \subseteq Hooks /\ faults' \in 0..MaxFaults
    <3>1. Without(list, c) \in Seq(Item) /\ Append(Without(list, c), again) \in Seq(Item)
      BY <2>3, <2>5, WithoutIs, AppendProperties DEF TypeOK
    <3>2. CASE list' = Requeued(list, c, again) /\ UNCHANGED <<hurt, faults>>
      BY <3>1, <3>2 DEF TypeOK, Requeued
    <3>3. CASE Fault("io", {c.hook}) /\ list' \in {list, Without(list, c)}
      BY <2>3, <3>1, <3>3, FaultIs, ItemIs DEF TypeOK
    <3> QED
      BY <1>4, <2>3, <2>4, <3>2, <3>3 DEF Requeue
  <2>7. TypeOK'
    BY <1>4, <2>2, <2>6 DEF Requeue, TypeOK, PassRows
  <2> QED
    BY <2>2, <2>7
<1> QED
  BY <1>1, <1>2, <1>3, <1>4 DEF PassStep

LEMMA WorkTick ==
  ASSUME WorkInv, Tick
  PROVE  /\ WorkInv' /\ DOMAIN list' = DOMAIN list
         /\ \A i \in DOMAIN list : list'[i].hook = list[i].hook /\ list'[i].attempts = list[i].attempts
         /\ \A p \in Passes : pass'[p].pc = pass[p].pc /\ pass'[p].todo = pass[p].todo
<1>1. list \in Seq(Item) /\ Len(list) \in Nat /\ DOMAIN list = 1..Len(list)
  BY LenProperties DEF WorkInv, TypeOK
<1> DEFINE e(i) == [list[i] EXCEPT !.wait = Countdown(@)]
<1>2. ASSUME NEW i \in 1..Len(list)
      PROVE  e(i) \in Item /\ e(i).hook = list[i].hook /\ e(i).attempts = list[i].attempts
  <2>1. list[i] \in Item
    BY <1>1, ElementOfSeq
  <2>2. Countdown(list[i].wait) \in Nat
    BY <2>1, ItemIs DEF Countdown
  <2> QED
    BY <2>1, <2>2 DEF Item
<1>3. list' = [i \in 1..Len(list) |-> e(i)]
  BY <1>1 DEF Tick
<1> HIDE DEF e
<1>4. list' \in Seq(Item) /\ DOMAIN list' = DOMAIN list /\ \A i \in DOMAIN list : list'[i] = e(i)
  BY <1>1, <1>2, <1>3, IsASeq
<1>5. /\ pass' \in [Passes -> PassRows]
      /\ \A p \in Passes : /\ pass'[p].pc = pass[p].pc /\ pass'[p].todo = pass[p].todo
                           /\ pass[p].pc = "idle" => pass'[p] = pass[p]
  <2>1. ASSUME NEW p \in Passes
        PROVE  /\ pass'[p] \in PassRows /\ pass'[p].pc = pass[p].pc /\ pass'[p].todo = pass[p].todo
               /\ pass[p].pc = "idle" => pass'[p] = pass[p]
    <3>1. pass[p] \in PassRows
      BY PassIs
    <3>2. CASE pass[p].pc = "idle" \/ pass[p].elapsed = MaxWait
      <4>1. pass'[p] = pass[p]
        BY <3>2 DEF Tick
      <4> QED
        BY <3>1, <4>1
    <3>3. CASE ~(pass[p].pc = "idle" \/ pass[p].elapsed = MaxWait)
      <4>1. pass'[p] = [pass[p] EXCEPT !.elapsed = @ + 1]
        BY <3>3 DEF Tick
      <4>2. pass[p].elapsed + 1 \in 0..MaxWait
        BY <3>1, <3>3, MaxWaitIs DEF PassRows
      <4> QED
        BY <3>1, <3>3, <4>1, <4>2 DEF PassRows
    <3> QED
      BY <3>2, <3>3
  <2>2. DOMAIN pass' = Passes /\ pass' = [p \in Passes |-> pass'[p]]
    BY DEF Tick
  <2> QED
    BY <2>1, <2>2
<1>6. PassInv'
  <2>1. UNCHANGED workerBusy
    BY DEF Tick
  <2> QED
    BY <1>5, <2>1 DEF WorkInv, PassInv, Current
<1>7. TypeOK'
  BY <1>4, <1>5 DEF Tick, WorkInv, TypeOK, PassRows
<1> QED
  BY <1>1, <1>2, <1>4, <1>5, <1>6, <1>7 DEF WorkInv

LEMMA WorkCrash ==
  ASSUME WorkInv, Crash
  PROVE  WorkInv' /\ \A p \in Passes : pass'[p] = IdlePass
<1>1. pass' \in [Passes -> PassRows] /\ \A p \in Passes : pass'[p] = IdlePass /\ pass'[p].pc = "idle"
  BY IdleIsRow DEF Crash
<1>2. PassInv'
  BY <1>1 DEF PassInv
<1>3. hurt' \subseteq Hooks /\ faults' \in 0..MaxFaults
  <2>1. \A p \in {q \in Passes : pass[q].pc # "idle"} : Current(p).hook \in Hooks
    BY PassIs, ItemIs
  <2>2. sending \cup failing \cup {Current(p).hook : p \in {q \in Passes : pass[q].pc # "idle"}} \in SUBSET Hooks
    BY <2>1 DEF WorkInv, TypeOK
  <2> QED
    BY <2>2, FaultIs DEF Crash, WorkInv
<1>4. TypeOK'
  BY <1>1, <1>3 DEF Crash, WorkInv, TypeOK, PassRows
<1> QED
  BY <1>1, <1>2, <1>4 DEF WorkInv

LEMMA WorkNext == WorkInv /\ [Next]_vars => WorkInv'
<1> SUFFICES ASSUME WorkInv, [Next]_vars PROVE WorkInv'
  OBVIOUS
<1>1. CASE UNCHANGED vars
  BY <1>1 DEF vars, WorkInv, TypeOK, PassInv, Current
<1>2. CASE Next
  BY <1>2, WorkFirst, WorkPass, WorkTick, WorkCrash DEF Next
<1> QED
  BY <1>1, <1>2

LEMMA WorkTyped == Spec => []WorkInv
<1> QED
  BY WorkInit, WorkNext, PTL DEF Spec

\* Every variable has its type: no entry of the list, and none that a pass has copied,
\* carries more attempts than processRetryQueue allows.
THEOREM WebhookTypes == Spec => []TypeOK
<1>1. WorkInv => TypeOK
  BY DEF WorkInv
<1> QED
  BY <1>1, WorkTyped, PTL

-----------------------------------------------------------------------------
(* What is known of a webhook that no fault has hit.                       *)

\* A pass has had its answer for h and has still to bring the list up to date.
At(p, h) == pass[p].pc \in {"remove", "requeue"} /\ Current(p).hook = h
Done(h) == \E p \in Passes : At(p, h)

\* There is an entry of h with n attempts, in the list or in the copy of a pass.
Ent(h, n) == Has(list, h, n) \/ \E p \in Passes : Has(pass[p].todo, h, n)

\* Its entries say how often it was sent, and none is left when it was answered but
\* for the one that a pass is about to take out.
HookInv(h) ==
  /\ Once(list, h) /\ \A p \in Passes : Once(pass[p].todo, h)
  /\ tries[h] <= MaxAttempts + 1
  /\ tries[h] = 0 => h \notin sending /\ h \notin failing /\ h \notin delivered
  /\ h \in sending \/ h \in failing => tries[h] = 1 /\ h \notin delivered /\ \A n : ~Ent(h, n)
  /\ ~(h \in sending /\ h \in failing)
  /\ \A n : Ent(h, n) => n = (IF Done(h) THEN tries[h] - 1 ELSE tries[h]) /\ (~Done(h) => h \notin delivered)
  /\ \A p \in Passes : At(p, h) =>
        IF pass[p].pc = "requeue" THEN h \notin delivered ELSE h \in delivered \/ GivenUp(h)

HooksInv == \A h \in Hooks \ hurt : HookInv(h)

LEMMA EntIs ==
  ASSUME WorkInv, NEW h, NEW n, Ent(h, n)
  PROVE  n \in 1..MaxAttempts /\ n \in Nat \ {0}
<1>1. PICK s \in Seq(Item) : Has(s, h, n)
  <2>1. CASE Has(list, h, n)
    BY <2>1 DEF WorkInv, TypeOK
  <2>2. CASE \E p \in Passes : Has(pass[p].todo, h, n)
    BY <2>2, PassIs
  <2> QED
    BY <2>1, <2>2 DEF Ent
<1>2. PICK i \in DOMAIN s : s[i].attempts = n
  BY <1>1 DEF Has
<1>3. s[i] \in Item
  BY <1>1, LenProperties, ElementOfSeq
<1> QED
  BY <1>2, <1>3, ItemIs

\* The pass that is at h has an entry of it, and no other pass runs.
LEMMA InHandIs ==
  ASSUME WorkInv, NEW p \in Passes, pass[p].pc # "idle"
  PROVE  /\ Ent(Current(p).hook, Current(p).attempts)
         /\ \A q \in Passes \ {p} : pass[q].pc = "idle" /\ pass[q].todo = <<>>
         /\ \A h : (h # Current(p).hook \/ pass[p].pc = "fetch" => ~Done(h))
<1>1. 1 \in DOMAIN pass[p].todo /\ Current(p) = pass[p].todo[1]
  BY PassIs
<1>2. Ent(Current(p).hook, Current(p).attempts)
  BY <1>1 DEF Ent, Has
<1>3. \A q \in Passes \ {p} : pass[q].pc = "idle" /\ pass[q].todo = <<>>
  BY IdleIsRow DEF WorkInv, PassInv
<1>4. \A h : (h # Current(p).hook \/ pass[p].pc = "fetch" => ~Done(h))
  BY <1>3 DEF Done, At
<1> QED
  BY <1>2, <1>3, <1>4

\* A step that sends h to nobody and adds no entry of it.
LEMMA HookKept ==
  ASSUME NEW h \in Hooks, HookInv(h),
         Once(list', h), \A p \in Passes : Once(pass'[p].todo, h),
         \A n : Has(list', h, n) => Ent(h, n),
         \A p \in Passes : \A n : Has(pass'[p].todo, h, n) => Ent(h, n),
         tries'[h] = tries[h],
         h \in sending' <=> h \in sending, h \in failing' <=> h \in failing, h \in delivered' <=> h \in delivered,
         \A p \in Passes : pass'[p].pc \in {"remove", "requeue"} /\ Head(pass'[p].todo).hook = h <=> At(p, h),
         \A p \in Passes : At(p, h) => pass'[p].pc = pass[p].pc
  PROVE  HookInv(h)'
<1>1. \A p \in Passes : At(p, h)' <=> At(p, h)
  BY DEF At, Current
<1>2. Done(h)' <=> Done(h)
  BY <1>1 DEF Done
<1>3. \A n : Ent(h, n)' => Ent(h, n)
  BY DEF Ent
<1>4. GivenUp(h)' <=> GivenUp(h)
  BY DEF GivenUp
<1>5. \A p \in Passes : At(p, h)' => IF pass'[p].pc = "requeue" THEN h \notin delivered' ELSE h \in delivered' \/ GivenUp(h)'
  BY <1>1, <1>4 DEF HookInv
<1>6. \A n : Ent(h, n)' => n = (IF Done(h)' THEN tries'[h] - 1 ELSE tries'[h]) /\ (~Done(h)' => h \notin delivered')
  BY <1>2, <1>3 DEF HookInv
<1>7. h \in sending' \/ h \in failing' => tries'[h] = 1 /\ h \notin delivered' /\ \A n : ~Ent(h, n)'
  BY <1>3 DEF HookInv
<1> QED
  BY <1>5, <1>6, <1>7 DEF HookInv

LEMMA AppendIs ==
  ASSUME NEW s \in Seq(Item), NEW e \in Item, NEW h
  PROVE  /\ Append(s, e) \in Seq(Item) /\ Holds(Append(s, e), e.hook)
         /\ h # e.hook => Fewer(s, Append(s, e), h)
         /\ ~Holds(s, h) => Once(Append(s, e), h) /\ \A n : Has(Append(s, e), h, n) => n = e.attempts
         /\ \A i \in DOMAIN s : \E j \in DOMAIN Append(s, e) : Append(s, e)[j] = s[i]
<1>1. PICK t : t = Append(s, e)
  OBVIOUS
<1>2. Len(s) \in Nat /\ DOMAIN s = 1..Len(s)
  BY LenProperties
<1>3. /\ t \in Seq(Item) /\ Len(t) = Len(s) + 1
      /\ \A i \in 1..Len(s) : t[i] = s[i]
      /\ t[Len(s) + 1] = e
  BY <1>1, AppendProperties
<1>4. DOMAIN t = 1..(Len(s) + 1)
  BY <1>2, <1>3, LenProperties
<1>5. \A i \in DOMAIN t : (i \in DOMAIN s /\ t[i] = s[i]) \/ (i = Len(s) + 1 /\ t[i] = e)
  BY <1>2, <1>3, <1>4
<1>6. Len(s) + 1 \in DOMAIN t
  BY <1>2, <1>4
<1>7. \A i \in DOMAIN s : i \in DOMAIN t /\ t[i] = s[i]
  BY <1>2, <1>3, <1>4
<1>8. h # e.hook => Fewer(s, t, h)
  BY <1>5 DEF Fewer, Once, Has
<1>9. ~Holds(s, h) => Once(t, h) /\ \A n : Has(t, h, n) => n = e.attempts
  BY <1>5 DEF Holds, Once, Has
<1> QED
  BY <1>1, <1>3, <1>6, <1>7, <1>8, <1>9 DEF Holds

LEMMA FewerEmpty == \A h : Once(<<>>, h) /\ ~Holds(<<>>, h) /\ \A n : ~Has(<<>>, h, n)
  BY DEF Once, Holds, Has

\* fireWebhook.
LEMMA HookFirst ==
  ASSUME WorkInv, NEW g \in Hooks, Fire(g) \/ First(g), NEW h \in Hooks \ hurt', h \in Hooks \ hurt, HookInv(h)
  PROVE  HookInv(h)'
<1>1. UNCHANGED pass
  BY DEF Fire, First, FirstAnswered, FirstFails, Enqueue
<1>2. list \in Seq(Item) /\ tries \in [Hooks -> Nat]
  BY DEF WorkInv, TypeOK
<1>3. Fewer(list, list', h) \/ (h = g /\ Enqueue(g))
  <2>1. CASE UNCHANGED list
    BY <2>1 DEF Fewer
  <2>2. CASE Enqueue(g) /\ h # g /\ ~UNCHANGED list
    <3> DEFINE item == [hook |-> g, attempts |-> 1, wait |-> Backoff[1]]
    <3>1. item \in Item /\ item.hook = g
      BY WebhookAssumption DEF Item
    <3>2. PICK pushed \in Seq(Item) : pushed = Append(list, item) /\ Fewer(list, pushed, h)
      BY <1>2, <2>2, <3>1, AppendIs
    <3>3. list' = Trim(pushed)
      BY <2>2, <3>2 DEF Enqueue
    <3>4. Fewer(pushed, list', h)
      BY <3>3, TrimIs, SuffixFewer
    <3> QED
      BY <3>2, <3>4 DEF Fewer
  <2> QED
    BY <2>1, <2>2 DEF Fire, First, FirstAnswered, FirstFails
<1>4. CASE h # g
  <2>1. /\ tries'[h] = tries[h] /\ (h \in sending' <=> h \in sending) /\ (h \in failing' <=> h \in failing)
        /\ (h \in delivered' <=> h \in delivered)
    BY <1>2, <1>4 DEF Fire, First, FirstAnswered, FirstFails, Enqueue
  <2>2. Once(list', h) /\ \A n : Has(list', h, n) => Ent(h, n)
    BY <1>3, <1>4 DEF Fewer, HookInv, Ent
  <2>3. \A p \in Passes : Once(pass'[p].todo, h) /\ \A n : Has(pass'[p].todo, h, n) => Ent(h, n)
    BY <1>1 DEF HookInv, Ent
  <2>4. \A p \in Passes : (pass'[p].pc \in {"remove", "requeue"} /\ Head(pass'[p].todo).hook = h <=> At(p, h)) /\ pass'[p].pc = pass[p].pc
    BY <1>1 DEF At, Current
  <2> QED
    BY <2>1, <2>2, <2>3, <2>4, HookKept
<1>5. CASE h = g
  <2>1. \A n : ~Ent(h, n)
    <3>1. CASE Fire(g)
      BY <1>5, <3>1, EntIs DEF Fire, HookInv
    <3>2. CASE First(g)
      BY <1>5, <3>2 DEF First, FirstAnswered, FirstFails, Enqueue, HookInv
    <3> QED
      BY <3>1, <3>2
  <2>2. \A p \in Passes : ~At(p, h)
    <3>1. ASSUME NEW p \in Passes, At(p, h) PROVE FALSE
      BY <2>1, <3>1, InHandIs DEF At
    <3> QED
      BY <3>1
  <2>3. (\A p \in Passes : ~At(p, h)') /\ ~Done(h)'
    BY <1>1, <2>2 DEF At, Current, Done
  <2>4. \A p \in Passes : Once(pass'[p].todo, h) /\ \A n : ~Has(pass'[p].todo, h, n)
    BY <1>1, <2>1 DEF Ent, HookInv
  <2>5. CASE UNCHANGED list
    <3>1. Once(list', h) /\ \A n : ~Ent(h, n)'
      BY <2>1, <2>4, <2>5 DEF Ent, HookInv
    <3>2. MaxAttempts \in Nat \ {0}
      BY WebhookAssumption
    <3>3. CASE Fire(g)
      <4>1. tries[h] = 0 /\ tries'[h] = 1 /\ h \in sending' /\ h \notin failing' /\ h \notin delivered'
        BY <1>2, <1>5, <3>3 DEF Fire, HookInv
      <4> QED
        BY <2>3, <2>4, <3>1, <3>2, <4>1 DEF HookInv
    <3>4. CASE FirstAnswered(g)
      <4>1. tries'[h] = tries[h] /\ tries'[h] = 1 /\ h \notin sending' /\ h \notin failing'
        BY <1>2, <1>5, <3>4 DEF FirstAnswered, HookInv
      <4> QED
        BY <2>3, <2>4, <3>1, <3>2, <4>1 DEF HookInv
    <3>5. CASE FirstFails(g)
      <4>1. tries'[h] = tries[h] /\ tries'[h] = 1 /\ h \notin sending' /\ h \notin delivered'
        BY <1>2, <1>5, <3>5 DEF FirstFails, HookInv
      <4> QED
        BY <2>3, <2>4, <3>1, <3>2, <4>1 DEF HookInv
    <3>6. CASE Enqueue(g)
      <4>1. tries'[h] = tries[h] /\ tries'[h] = 1 /\ h \notin failing' /\ h \notin delivered' /\ h \notin sending'
        BY <1>2, <1>5, <3>6 DEF Enqueue, HookInv
      <4> QED
        BY <2>3, <2>4, <3>1, <3>2, <4>1 DEF HookInv
    <3> QED
      BY <3>3, <3>4, <3>5, <3>6 DEF First
  <2>6. CASE ~UNCHANGED list
    <3> DEFINE item == [hook |-> g, attempts |-> 1, wait |-> Backoff[1]]
    <3>0. Enqueue(g)
      BY <2>6 DEF Fire, First, FirstAnswered, FirstFails
    <3>1. item \in Item /\ item.hook = g /\ item.attempts = 1
      BY WebhookAssumption DEF Item
    <3>2. ~Holds(list, h)
      BY <2>1 DEF Ent, Has, Holds
    <3>3. PICK pushed \in Seq(Item) : /\ pushed = Append(list, item)
                                      /\ Once(pushed, h) /\ \A n : Has(pushed, h, n) => n = 1
      BY <1>2, <3>1, <3>2, AppendIs
    <3>4. list' = Trim(pushed)
      BY <2>6, <3>0, <3>3 DEF Enqueue
    <3>5. Once(list', h) /\ \A n : Has(list', h, n) => n = 1
      BY <3>3, <3>4, TrimIs, SuffixFewer DEF Fewer
    <3>6. tries'[h] = 1 /\ h \notin failing' /\ h \notin delivered' /\ h \notin sending'
      BY <1>2, <1>5, <3>0 DEF Enqueue, HookInv
    <3>7. \A n : Ent(h, n)' => n = 1
      BY <2>4, <3>5 DEF Ent
    <3>8. MaxAttempts \in Nat
      BY WebhookAssumption
    <3> QED
      BY <2>3, <2>4, <3>5, <3>6, <3>7, <3>8 DEF HookInv
  <2> QED
    BY <2>5, <2>6
<1> QED
  BY <1>4, <1>5

\* A pass takes its copy of the list.
LEMMA HookStart ==
  ASSUME WorkInv, NEW p \in Passes, StartPass(p), NEW h \in Hooks, HookInv(h)
  PROVE  HookInv(h)'
<1>1. list \in Seq(Item) /\ pass \in [Passes -> PassRows] /\ \A q \in Passes : pass[q].pc = "idle"
  <2>1. workerBusy = FALSE
    BY Zenon DEF StartPass, Free, WorkInv, TypeOK
  <2> QED
    BY <2>1, PassIs DEF WorkInv, PassInv, TypeOK
<1>2. PICK t \in Seq(Item) : t = FromDue(list) /\ Fewer(list, t, h)
  BY <1>1, FromDueIs, SuffixFewer
<1>3. PICK r : r = [IdlePass EXCEPT !.pc = "fetch", !.todo = t]
  OBVIOUS
<1>4. r.pc = "fetch" /\ r.todo = t
  BY <1>3 DEF IdlePass
<1>5. pass'[p] = r /\ \A q \in Passes \ {p} : pass'[q] = pass[q]
  BY <1>1, <1>2, <1>3 DEF StartPass
<1>6. \A q \in Passes : Once(pass'[q].todo, h) /\ \A n : Has(pass'[q].todo, h, n) => Ent(h, n)
  BY <1>2, <1>4, <1>5 DEF Fewer, HookInv, Ent
<1>7. \A q \in Passes : (pass'[q].pc \in {"remove", "requeue"} /\ Head(pass'[q].todo).hook = h <=> At(q, h)) /\ ~At(q, h)
  BY <1>1, <1>4, <1>5 DEF At
<1>8. /\ Once(list', h) /\ (\A n : Has(list', h, n) => Ent(h, n))
      /\ UNCHANGED <<tries, sending, failing, delivered>>
  BY DEF StartPass, HookInv, Ent
<1> QED
  BY <1>6, <1>7, <1>8, HookKept

\* The answer of a request that a pass sent, or its failure.
LEMMA HookRetry ==
  ASSUME WorkInv, NEW p \in Passes, Retry(p), NEW h \in Hooks, HookInv(h)
  PROVE  HookInv(h)' /\ (h = Current(p).hook => h \notin delivered)
<1>1. pass[p].pc = "fetch" /\ pass[p].pc # "idle" /\ tries \in [Hooks -> Nat] /\ pass \in [Passes -> PassRows]
  BY PassIs DEF Retry, WorkInv, TypeOK
<1>2. PICK c \in Item : c = Current(p) /\ c.hook \in Hooks /\ c.attempts \in Nat /\ c.attempts <= MaxAttempts /\ MaxAttempts \in Nat
  BY <1>1, PassIs, ItemIs, WebhookAssumption
<1>3. PICK pc \in {"remove", "requeue"} : /\ pass' = [pass EXCEPT ![p].pc = pc]
                                          /\ pc = "remove" => c.hook \in delivered' \/ c.attempts >= MaxAttempts
                                          /\ pc = "requeue" => UNCHANGED delivered
  BY <1>2 DEF Retry, Exhausted
<1>4. pass'[p].pc = pc /\ pass'[p].todo = pass[p].todo /\ \A q \in Passes \ {p} : pass'[q] = pass[q]
  BY <1>1, <1>3 DEF PassRows
<1>5. \A q \in Passes : pass'[q].todo = pass[q].todo
  BY <1>4
<1>6. list' = list /\ sending' = sending /\ failing' = failing /\ tries' = [tries EXCEPT ![c.hook] = @ + 1]
  BY <1>2 DEF Retry
<1>7. \A q \in Passes : ~At(q, h)
  BY <1>1, InHandIs DEF Done, At
<1>8. Once(list', h) /\ \A q \in Passes : Once(pass'[q].todo, h)
  BY <1>5, <1>6 DEF HookInv
<1>9. CASE h # c.hook
  <2>1. /\ tries'[h] = tries[h] /\ (h \in delivered' <=> h \in delivered)
    BY <1>1, <1>2, <1>6, <1>9 DEF Retry
  <2>2. \A q \in Passes : pass'[q].pc \in {"remove", "requeue"} /\ Head(pass'[q].todo).hook = h <=> At(q, h)
    BY <1>2, <1>4, <1>7, <1>9 DEF At, Current
  <2>3. (\A n : Has(list', h, n) => Ent(h, n)) /\ \A q \in Passes : \A n : Has(pass'[q].todo, h, n) => Ent(h, n)
    BY <1>5, <1>6 DEF Ent
  <2>4. HookInv(h)'
    BY <1>6, <1>7, <1>8, <2>1, <2>2, <2>3, HookKept
  <2> QED
    BY <1>2, <1>9, <2>4
<1>10. CASE h = c.hook
  <2>1. Ent(h, c.attempts) /\ ~Done(h)
    BY <1>1, <1>2, <1>10, InHandIs
  <2>2. tries[h] = c.attempts /\ h \notin delivered /\ h \notin sending /\ h \notin failing
    BY <2>1 DEF HookInv
  <2>3. tries'[h] = c.attempts + 1
    BY <1>1, <1>2, <1>6, <1>10, <2>2
  <2>4. At(p, h)' /\ Done(h)'
    BY <1>2, <1>4, <1>10 DEF At, Current, Done
  <2>5. \A n : Ent(h, n)' <=> Ent(h, n)
    BY <1>5, <1>6 DEF Ent
  <2>6. \A n : Ent(h, n)' => n = tries'[h] - 1
    BY <1>2, <2>1, <2>2, <2>3, <2>5 DEF HookInv
  <2>7. \A q \in Passes : At(q, h)' => q = p
    BY <1>4, <1>7 DEF At, Current
  <2>8. IF pass'[p].pc = "requeue" THEN h \notin delivered' ELSE h \in delivered' \/ GivenUp(h)'
    <3>1. CASE pc = "requeue"
      BY <1>3, <1>4, <2>2, <3>1
    <3>2. CASE pc = "remove"
      <4>1. h \in delivered' \/ c.attempts = MaxAttempts
        BY <1>2, <1>3, <1>10, <3>2
      <4> QED
        BY <1>4, <2>3, <3>2, <4>1 DEF GivenUp
    <3> QED
      BY <3>1, <3>2
  <2>9. tries'[h] <= MaxAttempts + 1 /\ tries'[h] # 0
    BY <1>2, <2>3
  <2>10. h \notin sending' /\ h \notin failing'
    BY <1>6, <2>2
  <2>11. HookInv(h)'
    BY <1>8, <2>4, <2>6, <2>7, <2>8, <2>9, <2>10 DEF HookInv
  <2> QED
    BY <2>2, <2>11
<1> QED
  BY <1>9, <1>10

\* What both ways to end the work on an entry have in common: the entry is taken out of
\* the list, and for its own hook none is left.
LEMMA HookNext ==
  ASSUME WorkInv, NEW p \in Passes, pass[p].pc \in {"remove", "requeue"}, NextItem(p), NEW h \in Hooks, HookInv(h)
  PROVE  /\ \A q \in Passes : ~At(q, h)' /\ Once(pass'[q].todo, h)
         /\ \A q \in Passes : \A n : Has(pass'[q].todo, h, n) => Ent(h, n)
         /\ h # Current(p).hook => \A q \in Passes : ~At(q, h)
         /\ h = Current(p).hook =>
              /\ At(p, h) /\ Done(h) /\ tries[h] - 1 = Current(p).attempts /\ h \notin sending /\ h \notin failing
              /\ \A q \in Passes : \A n : ~Has(pass'[q].todo, h, n)
              /\ ~Holds(Without(list, Current(p)), h)
<1>1. pass[p].pc # "idle" /\ list \in Seq(Item)
  BY DEF WorkInv, TypeOK
<1>2. /\ \A q \in Passes \ {p} : pass'[q] = pass[q] /\ pass[q].pc = "idle" /\ pass[q].todo = <<>>
      /\ pass'[p].pc \in {"idle", "fetch"}
      /\ \A i \in DOMAIN pass'[p].todo : \E j \in DOMAIN pass[p].todo : j # 1 /\ pass'[p].todo[i] = pass[p].todo[j]
      /\ Fewer(pass[p].todo, pass'[p].todo, h)
  BY <1>1, NextItemIs, InHandIs
<1>3. \A q \in Passes : ~At(q, h)' /\ Once(pass'[q].todo, h)
  BY <1>2 DEF At, Fewer, HookInv
<1>4. \A q \in Passes : \A n : Has(pass'[q].todo, h, n) => Ent(h, n)
  BY <1>2 DEF Fewer, Ent
<1>5. h # Current(p).hook => \A q \in Passes : ~At(q, h)
  BY <1>2 DEF At
<1>6. ASSUME h = Current(p).hook
      PROVE  /\ At(p, h) /\ Done(h) /\ tries[h] - 1 = Current(p).attempts /\ h \notin sending /\ h \notin failing
             /\ \A q \in Passes : \A n : ~Has(pass'[q].todo, h, n)
             /\ ~Holds(Without(list, Current(p)), h)
  <2>1. At(p, h) /\ Done(h)
    BY <1>6 DEF At, Done
  <2>2. Ent(h, Current(p).attempts)
    BY <1>1, <1>6, InHandIs
  <2>3. tries[h] - 1 = Current(p).attempts /\ h \notin sending /\ h \notin failing
    BY <2>1, <2>2 DEF HookInv
  <2>4. 1 \in DOMAIN pass[p].todo /\ pass[p].todo[1].hook = h
    BY <1>1, <1>6, PassIs
  <2>5. \A q \in Passes : \A n : ~Has(pass'[q].todo, h, n)
    <3>1. \A n : ~Has(pass'[p].todo, h, n)
      BY <1>2, <2>4 DEF HookInv, Once, Has
    <3>2. \A q \in Passes \ {p} : \A n : ~Has(pass'[q].todo, h, n)
      BY <1>2, FewerEmpty
    <3> QED
      BY <3>1, <3>2
  <2>6. \A n : Has(list, h, n) => n = Current(p).attempts
    BY <2>1, <2>3 DEF HookInv, Ent
  <2>7. ~Holds(Without(list, Current(p)), h)
    <3>0. PICK c : c = Current(p)
      OBVIOUS
    <3>1. Once(list, h) /\ Fewer(list, Without(list, c), h) /\ (Once(list, h) /\ Has(list, h, c.attempts) /\ h = c.hook => ~Holds(Without(list, c), h))
      BY <1>1, WithoutFewer DEF HookInv
    <3>2. CASE Has(list, h, c.attempts)
      BY <1>6, <3>0, <3>1, <3>2
    <3>3. CASE ~Has(list, h, c.attempts)
      <4>1. \A n : ~Has(list, h, n)
        BY <2>6, <3>0, <3>3
      <4>2. \A n : ~Has(Without(list, c), h, n)
        BY <3>1, <4>1 DEF Fewer
      <4> QED
        BY <3>0, <4>2 DEF Has, Holds
    <3> QED
      BY <3>2, <3>3
  <2> QED
    BY <2>1, <2>3, <2>5, <2>7
<1> QED
  BY <1>3, <1>4, <1>5, <1>6

LEMMA HookEnd ==
  ASSUME WorkInv, NEW p \in Passes, Unlist(p) \/ Requeue(p), NEW h \in Hooks \ hurt', HookInv(h)
  PROVE  HookInv(h)'
<1>1. /\ pass[p].pc \in {"remove", "requeue"} /\ pass[p].pc # "idle" /\ NextItem(p) /\ list \in Seq(Item)
      /\ UNCHANGED <<sending, failing, tries, delivered>>
  BY DEF Unlist, Requeue, WorkInv, TypeOK
<1>2. PICK c \in Item : c = Current(p) /\ c.attempts \in Nat
  BY <1>1, PassIs, ItemIs
<1>3. PICK s \in Seq(Item) : s = Without(list, c) /\ Fewer(list, s, h)
  BY <1>1, WithoutIs, WithoutFewer
<1>4. Once(s, h) /\ Once(list, h) /\ \A n : (Has(s, h, n) => Has(list, h, n)) /\ (Has(list, h, n) => Ent(h, n))
  BY <1>3 DEF Fewer, HookInv, Ent
<1>5. PICK again : again = [c EXCEPT !.attempts = @ + 1, !.wait = Remaining(c.attempts + 1, p)]
  OBVIOUS
<1>6. ASSUME Requeue(p) PROVE again \in Item /\ again.hook = c.hook /\ again.attempts = c.attempts + 1
  <2>1. c.attempts < MaxAttempts /\ MaxAttempts \in Nat
    BY <1>1, <1>2, <1>6, WebhookAssumption DEF WorkInv, PassInv, Requeue
  <2>2. Remaining(c.attempts + 1, p) \in Nat
    <3>1. pass[p].elapsed \in Nat
      BY MaxWaitIs, PassIs DEF PassRows
    <3> QED
      BY <3>1, WebhookAssumption DEF Remaining
  <2>3. c.attempts + 1 \in 1..MaxAttempts
    BY <1>2, <2>1, ItemIs
  <2>4. c \in [hook : Hooks, attempts : 1..MaxAttempts, wait : Nat]
    BY DEF Item
  <2> QED
    BY <1>5, <2>2, <2>3, <2>4 DEF Item
<1>7. /\ list' \in {list, s} \/ (Requeue(p) /\ list' = Append(s, again))
      /\ h = c.hook => list' = IF Requeue(p) THEN Append(s, again) ELSE s
      /\ Requeue(p) => pass[p].pc = "requeue"
  <2>1. CASE Unlist(p)
    <3>1. pass[p].pc = "remove" /\ ~Requeue(p)
      BY <2>1 DEF Unlist, Requeue
    <3> QED
      BY <1>2, <1>3, <2>1, <3>1 DEF Unlist, Fault
  <2>2. CASE Requeue(p)
    BY <1>2, <1>3, <1>5, <2>2 DEF Requeue, Requeued, Fault
  <2> QED
    BY <2>1, <2>2
<1>8. /\ \A q \in Passes : ~At(q, h)' /\ Once(pass'[q].todo, h)
      /\ \A q \in Passes : \A n : Has(pass'[q].todo, h, n) => Ent(h, n)
      /\ h # c.hook => \A q \in Passes : ~At(q, h)
      /\ h = c.hook =>
           /\ At(p, h) /\ Done(h) /\ tries[h] - 1 = c.attempts /\ h \notin sending /\ h \notin failing
           /\ \A q \in Passes : \A n : ~Has(pass'[q].todo, h, n)
           /\ ~Holds(s, h)
  BY <1>1, <1>2, <1>3, HookNext
<1>9. CASE h # c.hook
  <2>1. Once(list', h) /\ \A n : Has(list', h, n) => Ent(h, n)
    <3>1. CASE list' \in {list, s}
      BY <1>4, <3>1
    <3>2. CASE Requeue(p) /\ list' = Append(s, again)
      <4>1. Fewer(s, list', h)
        BY <1>3, <1>6, <1>9, <3>2, AppendIs
      <4> QED
        BY <1>4, <4>1 DEF Fewer
    <3> QED
      BY <1>7, <3>1, <3>2
  <2>2. \A q \in Passes : pass'[q].pc \in {"remove", "requeue"} /\ Head(pass'[q].todo).hook = h <=> At(q, h)
    BY <1>8, <1>9 DEF At, Current
  <2> QED
    BY <1>1, <1>8, <1>9, <2>1, <2>2, HookKept
<1>10. CASE h = c.hook
  <2>1. ~Done(h)'
    BY <1>8 DEF Done
  <2>2. tries[h] \in Nat /\ tries[h] - 1 = c.attempts
    BY <1>8, <1>10 DEF WorkInv, TypeOK
  <2>3. tries'[h] = c.attempts + 1 /\ tries'[h] # 0 /\ tries'[h] <= MaxAttempts + 1
    BY <1>1, <1>2, <2>2 DEF HookInv
  <2>4. h \notin sending' /\ h \notin failing'
    BY <1>1, <1>8, <1>10
  <2>5. Once(list', h) /\ \A n : Has(list', h, n) => n = c.attempts + 1 /\ h \notin delivered'
    <3>1. CASE Requeue(p)
      <4>1. list' = Append(s, again) /\ h \notin delivered
        BY <1>1, <1>7, <1>8, <1>10, <3>1 DEF HookInv
      <4>2. Once(list', h) /\ \A n : Has(list', h, n) => n = again.attempts
        BY <1>3, <1>6, <1>8, <1>10, <3>1, <4>1, AppendIs
      <4> QED
        BY <1>1, <1>6, <3>1, <4>1, <4>2
    <3>2. CASE ~Requeue(p)
      <4>1. list' = s
        BY <1>7, <1>10, <3>2
      <4> QED
        BY <1>4, <1>8, <1>10, <4>1 DEF Has, Holds
    <3> QED
      BY <3>1, <3>2
  <2>6. \A n : Ent(h, n)' => n = tries'[h] /\ h \notin delivered'
    BY <1>8, <1>10, <2>3, <2>5 DEF Ent
  <2> QED
    BY <1>8, <2>1, <2>3, <2>4, <2>5, <2>6 DEF HookInv
<1> QED
  BY <1>9, <1>10

LEMMA HookTick ==
  ASSUME WorkInv, Tick, NEW h \in Hooks, HookInv(h)
  PROVE  HookInv(h)'
<1>1. /\ DOMAIN list' = DOMAIN list
      /\ \A i \in DOMAIN list : list'[i].hook = list[i].hook /\ list'[i].attempts = list[i].attempts
      /\ \A p \in Passes : pass'[p].pc = pass[p].pc /\ pass'[p].todo = pass[p].todo
      /\ UNCHANGED <<sending, failing, tries, delivered>>
  BY WorkTick DEF Tick
<1>2. Once(list', h) /\ \A n : Has(list', h, n) => Ent(h, n)
  <2>1. Once(list', h)
    BY <1>1 DEF HookInv, Once
  <2>2. \A n : Has(list', h, n) => Has(list, h, n)
    BY <1>1 DEF Has
  <2> QED
    BY <2>1, <2>2 DEF Ent
<1>3. \A p \in Passes : Once(pass'[p].todo, h) /\ \A n : Has(pass'[p].todo, h, n) => Ent(h, n)
  BY <1>1 DEF HookInv, Ent
<1>4. \A p \in Passes : pass'[p].pc \in {"remove", "requeue"} /\ Head(pass'[p].todo).hook = h <=> At(p, h)
  BY <1>1 DEF At, Current
<1> QED
  BY <1>1, <1>2, <1>3, <1>4, HookKept

LEMMA CrashHurts ==
  ASSUME Crash, NEW h \in Hooks \ hurt'
  PROVE  h \notin sending /\ h \notin failing /\ \A p \in Passes : pass[p].pc # "idle" => Current(p).hook # h
  BY DEF Crash, Fault

LEMMA HookCrash ==
  ASSUME WorkInv, Crash, NEW h \in Hooks \ hurt', HookInv(h)
  PROVE  HookInv(h)'
<1>1. \A p \in Passes : pass'[p].todo = <<>> /\ pass'[p].pc = "idle"
  BY WorkCrash, IdleIsRow
<1>2. \A p \in Passes : ~At(p, h)
  BY CrashHurts DEF At
<1>3. \A p \in Passes : Once(pass'[p].todo, h) /\ \A n : Has(pass'[p].todo, h, n) => Ent(h, n)
  BY <1>1, FewerEmpty
<1>4. h \notin sending' /\ h \notin failing' /\ UNCHANGED <<list, tries, delivered>>
  BY DEF Crash
<1>5. Once(list', h) /\ \A n : Has(list', h, n) => Ent(h, n)
  BY <1>4 DEF HookInv, Ent
<1> QED
  BY <1>1, <1>2, <1>3, <1>4, <1>5, CrashHurts, HookKept

LEMMA HurtStays == [Next]_vars => hurt \subseteq hurt'
  BY DEF Next, vars, Fire, First, FirstAnswered, FirstFails, Enqueue, StartPass, PassStep, Retry, Unlist, Requeue, Tick, Crash, Fault

LEMMA HooksInit == Init => HooksInv
<1> SUFFICES ASSUME Init, NEW h \in Hooks PROVE HookInv(h)
  BY DEF HooksInv
<1>1. list = <<>> /\ tries[h] = 0 /\ sending = {} /\ failing = {} /\ delivered = {}
  BY DEF Init
<1>2. \A p \in Passes : pass[p].todo = <<>> /\ pass[p].pc = "idle"
  BY IdleIsRow DEF Init
<1>3. (\A n : ~Ent(h, n)) /\ (\A p \in Passes : ~At(p, h)) /\ Once(list, h) /\ \A p \in Passes : Once(pass[p].todo, h)
  BY <1>1, <1>2, FewerEmpty DEF Ent, At
<1>4. tries[h] <= MaxAttempts + 1
  BY <1>1, WebhookAssumption
<1> QED
  BY <1>1, <1>3, <1>4 DEF HookInv

LEMMA HooksNext == WorkInv /\ HooksInv /\ [Next]_vars => HooksInv'
<1> SUFFICES ASSUME WorkInv, HooksInv, [Next]_vars, NEW h \in Hooks \ hurt' PROVE HookInv(h)'
  BY DEF HooksInv
<1>1. h \in Hooks \ hurt /\ HookInv(h)
  BY HurtStays DEF HooksInv
<1>2. CASE UNCHANGED vars
  <2>1. /\ list' = list /\ tries' = tries /\ pass' = pass
        /\ sending' = sending /\ failing' = failing /\ delivered' = delivered
    BY <1>2 DEF vars
  <2>2. /\ Once(list', h) /\ \A n : Has(list', h, n) => Ent(h, n)
        /\ \A p \in Passes : Once(pass'[p].todo, h) /\ \A n : Has(pass'[p].todo, h, n) => Ent(h, n)
        /\ \A p \in Passes : pass'[p].pc \in {"remove", "requeue"} /\ Head(pass'[p].todo).hook = h <=> At(p, h)
    BY <1>1, <2>1 DEF HookInv, Ent, At, Current
  <2> QED
    BY <1>1, <2>1, <2>2, HookKept
<1>3. CASE \E g \in Hooks : Fire(g) \/ First(g)
  BY <1>1, <1>3, HookFirst
<1>4. CASE \E p \in Passes : StartPass(p) \/ PassStep(p)
  BY <1>1, <1>4, HookStart, HookRetry, HookEnd DEF PassStep
<1>5. CASE Tick
  BY <1>1, <1>5, HookTick
<1>6. CASE Crash
  BY <1>1, <1>6, HookCrash
<1> QED
  BY <1>2, <1>3, <1>4, <1>5, <1>6 DEF Next

\* The inductive invariant holds in every state.
LEMMA HooksKept == Spec => [](WorkInv /\ HooksInv)
<1>1. Init => HooksInv
  BY HooksInit
<1>2. WorkInv /\ HooksInv /\ [Next]_vars => HooksInv'
  BY HooksNext
<1> QED
  BY <1>1, <1>2, WorkTyped, PTL DEF Spec

\* A webhook that no fault has hit is queued once at most and is sent at most
\* MaxAttempts + 1 times, for any number of webhooks and calls of processRetryQueue.
THEOREM WebhookOnce == Spec => []QueuedOnce
<1>1. WorkInv /\ HooksInv => QueuedOnce
  BY DEF HooksInv, HookInv, QueuedOnce, Waiting, Once
<1> QED
  BY <1>1, HooksKept, PTL

\* A step never sends a webhook again that was answered, unless a fault has hit it.
THEOREM WebhookNotSentAgain == Spec => NotSentAgain
<1>1. ASSUME WorkInv, HooksInv, [Next]_vars
      PROVE  [\A h \in delivered \ hurt : tries'[h] = tries[h]]_vars
  <2> SUFFICES ASSUME Next, NEW h \in delivered \ hurt PROVE tries'[h] = tries[h]
    BY <1>1
  <2>1. h \in Hooks /\ HookInv(h) /\ tries \in [Hooks -> Nat]
    BY <1>1 DEF WorkInv, TypeOK, HooksInv
  <2>2. CASE \E g \in Hooks : Fire(g) \/ First(g)
    BY <2>1, <2>2 DEF Fire, First, FirstAnswered, FirstFails, Enqueue, HookInv
  <2>3. ASSUME NEW p \in Passes, StartPass(p) \/ PassStep(p)
        PROVE  tries'[h] = tries[h]
    <3>1. CASE Retry(p)
      <4>1. h # Current(p).hook
        BY <1>1, <2>1, <3>1, HookRetry
      <4> QED
        BY <2>1, <3>1, <4>1 DEF Retry
    <3>2. CASE ~Retry(p)
      BY <2>3, <3>2 DEF StartPass, PassStep, Unlist, Requeue
    <3> QED
      BY <3>1, <3>2
  <2>4. CASE Tick \/ Crash
    BY <2>4 DEF Tick, Crash
  <2> QED
    BY <2>2, <2>3, <2>4 DEF Next
<1>2. Spec => [][\A h \in delivered \ hurt : tries'[h] = tries[h]]_vars
  <2> HIDE DEF WorkInv, HooksInv
  <2> QED
    BY <1>1, HooksKept, PTL DEF Spec
<1> QED
  BY <1>2 DEF NotSentAgain

-----------------------------------------------------------------------------
(* Nothing is forgotten.                                                   *)

Hand(h) == \E p \in Passes : pass[p].pc # "idle" /\ Current(p).hook = h
Alive(h) == h \in sending \/ h \in failing \/ Holds(list, h) \/ Hand(h) \/ GivenUp(h)
Remembered == \A h \in Hooks : tries[h] > 0 /\ h \notin delivered /\ h \notin trimmed /\ h \notin hurt => Alive(h)

\* A webhook whose tries and first delivery a step leaves alone.
LEMMA AliveKept ==
  ASSUME NEW h, Alive(h), tries'[h] = tries[h], h \in sending => h \in sending', h \in failing => h \in failing',
         Holds(list, h) => Holds(list', h), Hand(h) => Hand(h)'
  PROVE  Alive(h)'
  BY DEF Alive, GivenUp

LEMMA RememberedNext == WorkInv /\ HooksInv /\ Remembered /\ [Next]_vars => Remembered'
<1> SUFFICES ASSUME WorkInv, HooksInv, Remembered, [Next]_vars, NEW h \in Hooks,
                    tries'[h] > 0, h \notin delivered', h \notin trimmed', h \notin hurt'
             PROVE  Alive(h)'
  BY DEF Remembered
<1>1. h \notin hurt /\ HookInv(h) /\ tries \in [Hooks -> Nat] /\ list \in Seq(Item)
  BY HurtStays DEF HooksInv, WorkInv, TypeOK
<1>2. CASE UNCHANGED vars
  BY <1>2 DEF vars, Remembered, Alive, GivenUp, Hand, Current
<1>3. ASSUME NEW g \in Hooks, Fire(g) \/ First(g)
      PROVE  Alive(h)'
  <2>1. h \notin delivered /\ h \notin trimmed /\ UNCHANGED pass
    BY <1>3 DEF Fire, First, FirstAnswered, FirstFails, Enqueue
  <2>2. Hand(h)' <=> Hand(h)
    BY <2>1 DEF Hand, Current
  <2>3. ASSUME Holds(list, h) PROVE Holds(list', h)
    <3>1. CASE UNCHANGED list
      BY <2>3, <3>1
    <3>2. CASE Enqueue(g) /\ ~UNCHANGED list
      <4> DEFINE item == [hook |-> g, attempts |-> 1, wait |-> Backoff[1]]
      <4>1. item \in Item
        BY WebhookAssumption DEF Item
      <4>2. PICK pushed \in Seq(Item) : pushed = Append(list, item) /\ \A i \in DOMAIN list : \E j \in DOMAIN pushed : pushed[j] = list[i]
        BY <1>1, <4>1, AppendIs
      <4>3. list' = Trim(pushed) /\ trimmed' = trimmed \cup Oldest(pushed)
        BY <3>2, <4>2 DEF Enqueue
      <4>4. PICK j \in DOMAIN pushed : pushed[j].hook = h
        BY <2>3, <4>2 DEF Holds
      <4>5. \E k \in DOMAIN list' : list'[k] = pushed[j]
        BY <4>3, <4>4, TrimIs
      <4> QED
        BY <4>4, <4>5 DEF Holds
    <3> QED
      BY <1>3, <3>1, <3>2 DEF Fire, First, FirstAnswered, FirstFails
  <2>4. CASE h # g
    <3>1. tries'[h] = tries[h] /\ (h \in sending => h \in sending') /\ (h \in failing => h \in failing')
      BY <1>1, <1>3, <2>4 DEF Fire, First, FirstAnswered, FirstFails, Enqueue
    <3>2. Alive(h)
      BY <1>1, <2>1, <3>1 DEF Remembered
    <3> QED
      BY <2>2, <2>3, <3>1, <3>2, AliveKept
  <2>5. CASE h = g
    <3>1. CASE Fire(g)
      BY <2>5, <3>1 DEF Fire, Alive
    <3>2. CASE FirstAnswered(g)
      BY <2>5, <3>2 DEF FirstAnswered
    <3>3. CASE FirstFails(g)
      BY <2>5, <3>3 DEF FirstFails, Alive
    <3>4. CASE Enqueue(g)
      <4> DEFINE item == [hook |-> g, attempts |-> 1, wait |-> Backoff[1]]
      <4>1. item \in Item /\ item.hook = h
        BY <2>5, WebhookAssumption DEF Item
      <4>2. PICK pushed \in Seq(Item) : pushed = Append(list, item) /\ Holds(pushed, h)
        BY <1>1, <4>1, AppendIs
      <4>3. list' = Trim(pushed) /\ trimmed' = trimmed \cup Oldest(pushed)
        BY <2>5, <3>4, <4>2 DEF Enqueue, Fault
      <4>4. PICK j \in DOMAIN pushed : pushed[j].hook = h
        BY <4>2 DEF Holds
      <4>5. \E k \in DOMAIN list' : list'[k] = pushed[j]
        BY <4>3, <4>4, TrimIs
      <4> QED
        BY <4>4, <4>5 DEF Holds, Alive
    <3> QED
      BY <1>3, <3>1, <3>2, <3>3, <3>4 DEF First
  <2> QED
    BY <2>4, <2>5
<1>4. ASSUME NEW p \in Passes, StartPass(p) \/ PassStep(p)
      PROVE  Alive(h)'
  <2>1. h \notin delivered /\ h \notin trimmed /\ UNCHANGED <<sending, failing>>
    BY <1>4 DEF StartPass, PassStep, Retry, Unlist, Requeue
  <2>2. CASE StartPass(p)
    <3>1. workerBusy = FALSE
      BY <2>2, Zenon DEF StartPass, Free, WorkInv, TypeOK
    <3>2. ~Hand(h) /\ UNCHANGED <<list, tries>>
      BY <2>2, <3>1 DEF Hand, WorkInv, PassInv, StartPass
    <3>3. Alive(h)
      BY <1>1, <2>1, <3>2 DEF Remembered
    <3> QED
      BY <2>1, <3>2, <3>3, AliveKept
  <2>3. CASE Retry(p)
    <3>1. pass[p].pc # "idle" /\ UNCHANGED list
      BY <2>3 DEF Retry
    <3>2. PICK pc \in {"remove", "requeue"} : pass' = [pass EXCEPT ![p].pc = pc]
      BY <2>3 DEF Retry
    <3>3. pass'[p].pc # "idle" /\ pass'[p].todo = pass[p].todo /\ \A q \in Passes \ {p} : pass'[q] = pass[q]
      BY <3>2, PassIs DEF PassRows
    <3>4. Hand(h)' <=> Hand(h)
      BY <3>1, <3>3 DEF Hand, Current
    <3>5. CASE h = Current(p).hook
      BY <3>1, <3>4, <3>5 DEF Hand, Alive
    <3>6. CASE h # Current(p).hook
      <4>1. tries'[h] = tries[h]
        BY <1>1, <2>3, <3>6 DEF Retry
      <4>2. Alive(h)
        BY <1>1, <2>1, <4>1 DEF Remembered
      <4> QED
        BY <2>1, <3>1, <3>4, <4>1, <4>2, AliveKept
    <3> QED
      BY <3>5, <3>6
  <2>4. CASE Unlist(p) \/ Requeue(p)
    <3>1. pass[p].pc # "idle" /\ UNCHANGED tries
      BY <2>4 DEF Unlist, Requeue
    <3>2. PICK c \in Item : c = Current(p)
      BY <3>1, PassIs
    <3>3. PICK again : again = [c EXCEPT !.attempts = @ + 1, !.wait = Remaining(c.attempts + 1, p)]
      OBVIOUS
    <3>4. ASSUME Requeue(p) PROVE again \in Item /\ again.hook = c.hook
      <4>1. c.attempts < MaxAttempts
        BY <3>1, <3>2, <3>4 DEF Requeue, WorkInv, PassInv
      <4>2. Remaining(c.attempts + 1, p) \in Nat
        <5>1. pass[p].elapsed \in Nat
          BY MaxWaitIs, PassIs DEF PassRows
        <5> QED
          BY <5>1, WebhookAssumption DEF Remaining
      <4>3. c.attempts + 1 \in 1..MaxAttempts
        BY <4>1, ItemIs, WebhookAssumption
      <4>4. c \in [hook : Hooks, attempts : 1..MaxAttempts, wait : Nat]
        BY DEF Item
      <4> QED
        BY <3>3, <4>2, <4>3, <4>4 DEF Item
    <3>5. PICK s \in Seq(Item) : s = Without(list, c) /\ (h # c.hook /\ Holds(list, h) => Holds(s, h))
      <4>1. Without(list, c) \in Seq(Item)
        BY <1>1, WithoutIs
      <4> QED
        BY <1>1, <4>1, WithoutFewer
    <3>6. Alive(h)
      BY <1>1, <2>1, <3>1 DEF Remembered
    <3>7. CASE h # c.hook
      <4>1. ~Hand(h)
        BY <3>1, <3>2, <3>7, InHandIs DEF Hand
      <4>2. Holds(list, h) => Holds(s, h)
        BY <3>5, <3>7
      <4>3. list' \in {list, s} \/ (Requeue(p) /\ list' = Append(s, again))
        BY <2>4, <3>2, <3>3, <3>5 DEF Unlist, Requeue, Requeued
      <4>4. Requeue(p) /\ Holds(s, h) => Holds(Append(s, again), h)
        BY <3>4, AppendIs DEF Holds
      <4>5. Holds(list, h) => Holds(list', h)
        BY <4>2, <4>3, <4>4
      <4> QED
        BY <2>1, <3>1, <3>6, <4>1, <4>5, AliveKept
    <3>8. CASE h = c.hook /\ Unlist(p)
      <4>1. At(p, h) /\ pass[p].pc # "requeue"
        BY <3>2, <3>8 DEF At, Unlist
      <4>2. GivenUp(h)
        BY <1>1, <2>1, <4>1 DEF HookInv
      <4> QED
        BY <3>1, <4>2 DEF GivenUp, Alive
    <3>9. CASE h = c.hook /\ Requeue(p)
      <4>1. list' = Append(s, again)
        BY <3>2, <3>3, <3>5, <3>9 DEF Requeue, Requeued, Fault
      <4>2. Holds(list', h)
        BY <3>4, <3>9, <4>1, AppendIs
      <4> QED
        BY <4>2 DEF Alive
    <3> QED
      BY <2>4, <3>7, <3>8, <3>9
  <2> QED
    BY <1>4, <2>2, <2>3, <2>4 DEF PassStep
<1>5. CASE Tick
  <2>1. UNCHANGED <<sending, failing, tries, delivered, trimmed>>
    BY <1>5 DEF Tick
  <2>2. Alive(h)
    BY <1>1, <2>1 DEF Remembered
  <2>3. Holds(list, h) => Holds(list', h)
    BY <1>5, WorkTick DEF Holds
  <2>4. Hand(h) => Hand(h)'
    BY <1>5, WorkTick DEF Hand, Current
  <2> QED
    BY <2>1, <2>2, <2>3, <2>4, AliveKept
<1>6. CASE Crash
  <2>1. UNCHANGED <<list, tries, delivered, trimmed>>
    BY <1>6 DEF Crash
  <2>2. Alive(h)
    BY <1>1, <2>1 DEF Remembered
  <2>3. h \notin sending /\ h \notin failing /\ ~Hand(h)
    BY <1>6, CrashHurts DEF Hand
  <2> QED
    BY <2>1, <2>2, <2>3, AliveKept
<1> QED
  BY <1>2, <1>3, <1>4, <1>5, <1>6 DEF Next

\* A webhook that was fired is in its first delivery, on its way into the list, in the
\* list or in the hands of a pass, until it is answered or given up, unless the cap or a
\* fault has hit it: for any number of webhooks, and whatever comes in during a pass.
THEOREM WebhookRemembered == Spec => []NothingForgotten
<1>1. Init => Remembered
  BY DEF Init, Remembered
<1>2. WorkInv /\ HooksInv /\ Remembered /\ [Next]_vars => Remembered'
  BY RememberedNext
<1>3. Remembered => NothingForgotten
  BY DEF Remembered, Alive, NothingForgotten, Hand, InHand, Waiting, Holds
<1> QED
  BY <1>1, <1>2, <1>3, HooksKept, PTL DEF Spec
=============================================================================
