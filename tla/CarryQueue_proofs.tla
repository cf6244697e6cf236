-------------------------- MODULE CarryQueue_proofs --------------------------
(***************************************************************************)
(* Facts about the operators on a queue: what adding, removing and moving  *)
(* a task make of the list of ids, and that every edit leaves a queue      *)
(* whose order lists each of its tasks once, with a record of its type.    *)
(***************************************************************************)
EXTENDS CarryQueue, Extrema, SequenceTheorems, FiniteSetTheorems, TLAPS

Ids(order) == {order[i] : i \in 1..Len(order)}

Once(order) == \A i, j \in 1..Len(order) : order[i] = order[j] => i = j

\* A list of distinct tasks.
Listing(order) == order \in Seq(Task) /\ Once(order)

-----------------------------------------------------------------------------
(***************************************************************************)
(* Adding.                                                                 *)
(***************************************************************************)
LEMMA AppendListing ==
  ASSUME NEW order, Listing(order), NEW t \in Task, t \notin Ids(order)
  PROVE  Listing(Append(order, t)) /\ Ids(Append(order, t)) = Ids(order) \union {t}
<1> DEFINE n == Len(order)
           new == Append(order, t)
<1>1. n \in Nat /\ order \in Seq(Task) BY DEF Listing
<1>2. /\ new \in Seq(Task) /\ Len(new) = n + 1 /\ new[n + 1] = t
      /\ \A i \in 1..n : new[i] = order[i]
  BY <1>1, AppendProperties
<1>3. \A i \in 1..n : order[i] # t BY DEF Ids
<1> HIDE DEF new, n
<1>4. 1..(n + 1) = (1..n) \union {n + 1} BY <1>1
<1>5. Once(new)
  <2>. SUFFICES ASSUME NEW i \in 1..(n + 1), NEW j \in 1..(n + 1), new[i] = new[j] PROVE i = j
    BY <1>2 DEF Once
  <2>. QED BY <1>1, <1>2, <1>3, <1>4 DEF Listing, Once, n
<1>6. Ids(new) = Ids(order) \union {t}
  BY <1>2, <1>4 DEF Ids, n
<1>. QED BY <1>2, <1>5, <1>6 DEF Listing, new

-----------------------------------------------------------------------------
(***************************************************************************)
(* Filtering.                                                              *)
(***************************************************************************)
\* What the first n places leave, when left satisfies the equation of Remaining
\* up to m.
Filters(left, order, T, m) ==
  left = [n \in 0..m |->
            IF n = 0 THEN <<>>
            ELSE IF order[n] \in T THEN left[n - 1] ELSE Append(left[n - 1], order[n])]

\* The recursive definition has a solution, by extending a shorter one: there is
\* no least length without.
LEMMA FilterExists ==
  ASSUME NEW order \in Seq(Task), NEW T, NEW m \in Nat
  PROVE  \E left : Filters(left, order, T, m)
<1> DEFINE Bad == {n \in Nat : ~\E left : Filters(left, order, T, n)}
<1>. SUFFICES ASSUME Bad # {} PROVE FALSE
  <2>. QED BY DEF Bad
<1>1. PICK n \in Bad : \A k \in Bad : n <= k BY HasMin
<1>2. n \in Nat /\ \A k \in Nat : k < n => k \notin Bad
  <2>. HIDE DEF Bad
  <2>1. n \in Nat BY DEF Bad
  <2>. QED BY <1>1, <2>1
<1>3. CASE n = 0
  <2>1. Filters([k \in 0..0 |-> <<>>], order, T, 0) BY DEF Filters
  <2>. QED BY <1>1, <1>3, <2>1
<1>4. CASE n # 0
  <2>1. n - 1 \in Nat /\ n - 1 \notin Bad BY <1>2, <1>4
  <2>2. PICK old : Filters(old, order, T, n - 1) BY <2>1
  <2> DEFINE new == [k \in 0..n |->
                IF k < n THEN old[k]
                ELSE IF order[k] \in T THEN old[k - 1] ELSE Append(old[k - 1], order[k])]
  <2>3. \A k \in 0..(n - 1) : new[k] = old[k] BY <1>2
  <2>4. \A k \in 0..n : new[k] =
              IF k = 0 THEN <<>>
              ELSE IF order[k] \in T THEN new[k - 1] ELSE Append(new[k - 1], order[k])
    <3>. TAKE k \in 0..n
    <3>1. CASE k = n BY <1>2, <1>4, <2>3, <3>1
    <3>2. CASE k < n /\ k # 0
      <4>1. k \in 0..(n - 1) /\ k - 1 \in 0..(n - 1) BY <1>2, <3>2
      <4>2. old[k] = IF order[k] \in T THEN old[k - 1] ELSE Append(old[k - 1], order[k])
        BY <2>2, <3>2, <4>1 DEF Filters
      <4>. HIDE DEF new
      <4>. QED BY <2>3, <3>2, <4>1, <4>2
    <3>3. CASE k < n /\ k = 0
      <4>1. k \in 0..(n - 1) BY <1>2, <3>3
      <4>2. old[k] = <<>> BY <2>2, <3>3, <4>1 DEF Filters
      <4>. HIDE DEF new
      <4>. QED BY <2>3, <3>3, <4>1, <4>2
    <3>. QED BY <1>2, <3>1, <3>2, <3>3
  <2>5. Filters(new, order, T, n)
    <3>1. new = [k \in 0..n |-> new[k]] OBVIOUS
    <3>. HIDE DEF new
    <3>. QED BY <2>4, <3>1 DEF Filters
  <2>. QED BY <1>1, <2>5
<1>. QED BY <1>3, <1>4

\* Each place of an order keeps its id or drops it.
LEMMA FilterSteps ==
  ASSUME NEW order \in Seq(Task), NEW T
  PROVE  \E left : /\ Remaining(order, T) = left[Len(order)] /\ left[0] = <<>>
                   /\ \A n \in 1..Len(order) :
                        left[n] = IF order[n] \in T THEN left[n - 1]
                                  ELSE Append(left[n - 1], order[n])
<1> DEFINE m == Len(order)
           left == CHOOSE left : Filters(left, order, T, m)
<1>1. m \in Nat OBVIOUS
<1>2. Filters(left, order, T, m) BY <1>1, FilterExists
<1>3. Remaining(order, T) = left[m] BY DEF Remaining, Filters
<1> HIDE DEF left, m
<1>4. left[0] = <<>> /\ \A n \in 1..m :
        left[n] = IF order[n] \in T THEN left[n - 1] ELSE Append(left[n - 1], order[n])
  <2>1. \A n \in 0..m : left[n] =
          IF n = 0 THEN <<>>
          ELSE IF order[n] \in T THEN left[n - 1] ELSE Append(left[n - 1], order[n])
    BY <1>2, Zenon DEF Filters
  <2>. QED BY <1>1, <2>1
<1>. QED BY <1>3, <1>4 DEF m

\* What is left lists the ids that were listed and are not removed.
LEMMA RemainingOK ==
  ASSUME NEW order, Listing(order), NEW T
  PROVE  Listing(Remaining(order, T)) /\ Ids(Remaining(order, T)) = Ids(order) \ T
<1>0. order \in Seq(Task) /\ Len(order) \in Nat BY DEF Listing
<1>1. PICK left : /\ Remaining(order, T) = left[Len(order)] /\ left[0] = <<>>
                  /\ \A n \in 1..Len(order) :
                       left[n] = IF order[n] \in T THEN left[n - 1]
                                 ELSE Append(left[n - 1], order[n])
  BY <1>0, FilterSteps
<1> DEFINE Good(n) == /\ left[n] \in Seq(Task) /\ Once(left[n])
                      /\ Ids(left[n]) = {order[i] : i \in 1..n} \ T
           Bad == {n \in 0..Len(order) : ~Good(n)}
<1>. SUFFICES ASSUME Bad # {} PROVE FALSE
  <2>1. Bad = {} => Good(Len(order))
    <3>1. Len(order) \in 0..Len(order) BY <1>0
    <3>. HIDE DEF Good
    <3>. QED BY <3>1
  <2>2. Good(Len(order)) => Listing(left[Len(order)]) /\ Ids(left[Len(order)]) = Ids(order) \ T
    BY DEF Ids, Listing
  <2>. HIDE DEF Good
  <2>. QED BY <1>1, <2>1, <2>2
<1>2. PICK n \in Bad : \A k \in Bad : n <= k
  <2>1. Bad \in SUBSET Nat BY <1>0
  <2>. QED BY <2>1, HasMin
<1>3. n \in 0..Len(order) /\ ~Good(n) BY <1>2
<1>4. CASE n = 0
  <2>1. left[n] = <<>> /\ Len(<<>>) = 0 /\ 1..0 = {} BY <1>1, <1>4
  <2>2. Once(<<>>) /\ Ids(<<>>) = {} /\ <<>> \in Seq(Task) BY <2>1 DEF Ids, Once
  <2>3. {order[i] : i \in 1..n} \ T = {} BY <1>4, <2>1
  <2>. QED BY <1>3, <2>1, <2>2, <2>3
<1>5. CASE n # 0
  <2>1. n \in 1..Len(order) /\ n - 1 \in 0..Len(order) /\ ~(n <= n - 1) BY <1>0, <1>3, <1>5
  <2>2. Good(n - 1) BY <1>2, <2>1
  <2>3. order[n] \in Task BY <1>0, <2>1
  <2>4. {order[i] : i \in 1..n} = {order[i] : i \in 1..(n - 1)} \union {order[n]}
    BY <1>0, <2>1
  <2> DEFINE s == left[n - 1]
  <2>5. s \in Seq(Task) /\ Once(s) /\ Ids(s) = {order[i] : i \in 1..(n - 1)} \ T BY <2>2
  <2> HIDE DEF Good, s
  <2>6. CASE order[n] \in T
    <3>1. left[n] = s BY <1>1, <2>1, <2>6 DEF s
    <3>. QED BY <1>3, <2>4, <2>5, <2>6, <3>1 DEF Good
  <2>7. CASE order[n] \notin T
    <3>1. left[n] = Append(s, order[n]) BY <1>1, <2>1, <2>7 DEF s
    <3>2. order[n] \notin Ids(s)
      <4>1. \A i \in 1..(n - 1) : order[i] # order[n]
        BY <1>0, <2>1 DEF Listing, Once
      <4>. QED BY <2>5, <4>1
    <3>3. /\ Append(s, order[n]) \in Seq(Task) /\ Once(Append(s, order[n]))
          /\ Ids(Append(s, order[n])) = Ids(s) \union {order[n]}
      BY <2>3, <2>5, <3>2, AppendListing DEF Listing
    <3>. QED BY <1>3, <2>4, <2>5, <2>7, <3>1, <3>3 DEF Good
  <2>. QED BY <2>6, <2>7
<1>. QED BY <1>4, <1>5

-----------------------------------------------------------------------------
(***************************************************************************)
(* Moving.                                                                 *)
(***************************************************************************)
LEMMA PieceListing ==
  ASSUME NEW order, Listing(order), NEW m \in 1..(Len(order) + 1), NEW n \in 0..Len(order),
         m <= n + 1
  PROVE  /\ Listing(SubSeq(order, m, n))
         /\ Ids(SubSeq(order, m, n)) = {order[i] : i \in m..n}
<1> DEFINE piece == SubSeq(order, m, n)
           len == n - m + 1
<1>1. order \in Seq(Task) /\ Len(order) \in Nat /\ m \in Nat \ {0} /\ n \in Nat /\ len \in Nat
  BY DEF Listing
<1>2. /\ piece \in Seq(Task) /\ Len(piece) = len
      /\ \A i \in 1..len : piece[i] = order[m + i - 1]
  <2>1. \A i \in m..n : order[i] \in Task BY <1>1
  <2>2. (IF m <= n THEN n - m + 1 ELSE 0) = len BY <1>1
  <2>. QED BY <1>1, <2>1, <2>2, SubSeqProperties
<1>3. \A i \in 1..len : m + i - 1 \in 1..Len(order) BY <1>1
<1> HIDE DEF piece
<1>4. Once(piece)
  <2>. SUFFICES ASSUME NEW i \in 1..len, NEW j \in 1..len, piece[i] = piece[j] PROVE i = j
    BY <1>2 DEF Once
  <2>1. m + i - 1 = m + j - 1 BY <1>2, <1>3 DEF Listing, Once
  <2>. QED BY <1>1, <2>1
<1>5. Ids(piece) = {order[i] : i \in m..n}
  <2>1. \A i \in 1..len : m + i - 1 \in m..n BY <1>1
  <2>2. \A i \in m..n : i - m + 1 \in 1..len /\ m + (i - m + 1) - 1 = i BY <1>1
  <2>3. Ids(piece) \subseteq {order[i] : i \in m..n} BY <1>2, <2>1 DEF Ids
  <2>4. ASSUME NEW i \in m..n PROVE order[i] \in Ids(piece)
    <3>1. piece[i - m + 1] = order[i] BY <1>2, <2>2
    <3>. QED BY <1>2, <2>2, <3>1 DEF Ids
  <2>. QED BY <2>3, <2>4
<1>. QED BY <1>2, <1>4, <1>5 DEF Listing, piece

LEMMA JoinedListing ==
  ASSUME NEW s, Listing(s), NEW u, Listing(u), Ids(s) \intersect Ids(u) = {}
  PROVE  Listing(s \o u) /\ Ids(s \o u) = Ids(s) \union Ids(u)
<1> DEFINE m == Len(s)
           n == Len(u)
           both == s \o u
<1>1. s \in Seq(Task) /\ u \in Seq(Task) /\ m \in Nat /\ n \in Nat BY DEF Listing
<1>2. /\ both \in Seq(Task) /\ Len(both) = m + n
      /\ \A i \in 1..m : both[i] = s[i]
      /\ \A i \in 1..n : both[m + i] = u[i]
  <2>1. /\ both \in Seq(Task) /\ Len(both) = m + n
        /\ \A i \in 1..(m + n) : both[i] = IF i <= m THEN s[i] ELSE u[i - m]
    BY <1>1, ConcatProperties
  <2>2. \A i \in 1..m : i \in 1..(m + n) /\ i <= m BY <1>1
  <2>3. \A i \in 1..n : m + i \in 1..(m + n) /\ ~(m + i <= m) /\ (m + i) - m = i BY <1>1
  <2> HIDE DEF both, m, n
  <2>. QED BY <2>1, <2>2, <2>3
<1>3. \A i \in 1..m : s[i] \in Ids(s) BY DEF Ids
<1>4. \A i \in 1..n : u[i] \in Ids(u) BY DEF Ids
<1>5. \A k \in 1..(m + n) : k \in 1..m \/ \E i \in 1..n : k = m + i
  <2>. TAKE k \in 1..(m + n)
  <2>1. CASE k <= m BY <1>1, <2>1
  <2>2. CASE ~(k <= m)
    <3>1. k - m \in 1..n /\ k = m + (k - m) BY <1>1, <2>2
    <3>. QED BY <3>1
  <2>. QED BY <2>1, <2>2
<1>6. /\ \A i, j \in 1..m : s[i] = s[j] => i = j
      /\ \A i, j \in 1..n : u[i] = u[j] => i = j
  BY DEF Listing, Once
<1>7. Ids(s) = {s[i] : i \in 1..m} /\ Ids(u) = {u[i] : i \in 1..n} BY DEF Ids
<1>8. \A i \in 1..m : i \in 1..(m + n) BY <1>1
<1>9. \A i \in 1..n : m + i \in 1..(m + n) BY <1>1
<1> HIDE DEF both, m, n
<1>10. Once(both)
  <2>. SUFFICES ASSUME NEW k \in 1..(m + n), NEW l \in 1..(m + n), both[k] = both[l] PROVE k = l
    BY <1>2 DEF Once
  <2>1. CASE k \in 1..m /\ l \in 1..m BY <1>2, <1>6, <2>1
  <2>2. ASSUME NEW i \in 1..n, k = m + i, NEW j \in 1..n, l = m + j PROVE k = l
    BY <1>2, <1>6, <2>2
  <2>3. ASSUME k \in 1..m, NEW j \in 1..n, l = m + j PROVE FALSE
    BY <1>2, <1>3, <1>4, <2>3
  <2>4. ASSUME l \in 1..m, NEW j \in 1..n, k = m + j PROVE FALSE
    BY <1>2, <1>3, <1>4, <2>4
  <2>. QED BY <1>5, <2>1, <2>2, <2>3, <2>4
<1>11. Ids(both) = Ids(s) \union Ids(u)
  <2>1. Ids(both) \subseteq Ids(s) \union Ids(u)
    BY <1>2, <1>3, <1>4, <1>5 DEF Ids
  <2>2. Ids(s) \subseteq Ids(both) BY <1>2, <1>7, <1>8 DEF Ids
  <2>3. Ids(u) \subseteq Ids(both) BY <1>2, <1>7, <1>9 DEF Ids
  <2>. QED BY <2>1, <2>2, <2>3
<1>. QED BY <1>2, <1>10, <1>11 DEF Listing, both

LEMMA SingleListing ==
  ASSUME NEW t \in Task PROVE Listing(<<t>>) /\ Ids(<<t>>) = {t}
<1>1. <<t>> \in Seq(Task) /\ Len(<<t>>) = 1 /\ <<t>>[1] = t /\ 1..1 = {1} OBVIOUS
<1>2. Once(<<t>>)
  <2>1. \A i, j \in {1} : i = j OBVIOUS
  <2>. QED BY <1>1, <2>1 DEF Once
<1>3. Ids(<<t>>) = {t} BY <1>1 DEF Ids
<1>. QED BY <1>1, <1>2, <1>3 DEF Listing

LEMMA RemoveAtListing ==
  ASSUME NEW order, Listing(order), NEW k \in 1..Len(order)
  PROVE  /\ Listing(RemoveAt(order, k)) /\ Len(RemoveAt(order, k)) = Len(order) - 1
         /\ Ids(RemoveAt(order, k)) = Ids(order) \ {order[k]}
<1> DEFINE n == Len(order)
           before == SubSeq(order, 1, k - 1)
           after == SubSeq(order, k + 1, n)
<1>1. order \in Seq(Task) /\ n \in Nat /\ k \in Nat BY DEF Listing
<1>2. Listing(before) /\ Ids(before) = {order[i] : i \in 1..(k - 1)}
  <2>1. 1 \in 1..(n + 1) /\ k - 1 \in 0..n /\ 1 <= (k - 1) + 1 BY <1>1
  <2>. QED BY <2>1, PieceListing
<1>3. Listing(after) /\ Ids(after) = {order[i] : i \in (k + 1)..n}
  <2>1. k + 1 \in 1..(n + 1) /\ n \in 0..n /\ k + 1 <= n + 1 BY <1>1
  <2>. QED BY <2>1, PieceListing
<1>4. Len(before) = k - 1 /\ Len(after) = n - k
  <2>1. (\A i \in 1..(k - 1) : order[i] \in Task) /\ (\A i \in (k + 1)..n : order[i] \in Task)
    BY <1>1
  <2>2. Len(before) = IF 1 <= k - 1 THEN (k - 1) - 1 + 1 ELSE 0 BY <1>1, <2>1, SubSeqProperties
  <2>3. Len(after) = IF k + 1 <= n THEN n - (k + 1) + 1 ELSE 0 BY <1>1, <2>1, SubSeqProperties
  <2>4. (IF 1 <= k - 1 THEN (k - 1) - 1 + 1 ELSE 0) = k - 1 BY <1>1
  <2>5. (IF k + 1 <= n THEN n - (k + 1) + 1 ELSE 0) = n - k BY <1>1
  <2>. QED BY <2>2, <2>3, <2>4, <2>5
<1>5. /\ \A i \in 1..(k - 1) : i \in 1..n /\ i # k
      /\ \A i \in (k + 1)..n : i \in 1..n /\ i # k
      /\ \A i \in 1..n : i = k \/ i \in 1..(k - 1) \/ i \in (k + 1)..n
      /\ \A i \in 1..(k - 1) : \A j \in (k + 1)..n : i # j
  BY <1>1
<1>6. \A i, j \in 1..n : order[i] = order[j] => i = j BY DEF Listing, Once
<1>7. Ids(order) = {order[i] : i \in 1..n} BY DEF Ids
<1>8. RemoveAt(order, k) = before \o after BY DEF RemoveAt
<1> HIDE DEF before, after, n
<1>9. Ids(before) \intersect Ids(after) = {} BY <1>2, <1>3, <1>5, <1>6
<1>10. Ids(before) \union Ids(after) = Ids(order) \ {order[k]}
  <2>1. k \in 1..n BY DEF n
  <2>2. Ids(before) \subseteq Ids(order) \ {order[k]} BY <1>2, <1>5, <1>6, <1>7, <2>1
  <2>3. Ids(after) \subseteq Ids(order) \ {order[k]} BY <1>3, <1>5, <1>6, <1>7, <2>1
  <2>4. Ids(order) \ {order[k]} \subseteq Ids(before) \union Ids(after)
    BY <1>2, <1>3, <1>5, <1>7
  <2>. QED BY <2>2, <2>3, <2>4
<1>11. Len(before \o after) = n - 1
  <2>1. before \in Seq(Task) /\ after \in Seq(Task) BY <1>2, <1>3 DEF Listing
  <2>2. Len(before \o after) = Len(before) + Len(after) BY <2>1, ConcatProperties
  <2>. QED BY <1>1, <1>4, <2>2 DEF n
<1>. QED BY <1>2, <1>3, <1>8, <1>9, <1>10, <1>11, JoinedListing DEF n

LEMMA InsertAtListing ==
  ASSUME NEW order, Listing(order), NEW k \in 1..(Len(order) + 1), NEW t \in Task, t \notin Ids(order)
  PROVE  /\ Listing(InsertAt(order, k, t))
         /\ Ids(InsertAt(order, k, t)) = Ids(order) \union {t}
<1> DEFINE n == Len(order)
           before == SubSeq(order, 1, k - 1)
           after == SubSeq(order, k, n)
<1>1. order \in Seq(Task) /\ n \in Nat /\ k \in Nat BY DEF Listing
<1>2. Listing(before) /\ Ids(before) = {order[i] : i \in 1..(k - 1)}
  <2>1. 1 \in 1..(n + 1) /\ k - 1 \in 0..n /\ 1 <= (k - 1) + 1 BY <1>1
  <2>. QED BY <2>1, PieceListing
<1>3. Listing(after) /\ Ids(after) = {order[i] : i \in k..n}
  <2>1. k \in 1..(n + 1) /\ n \in 0..n /\ k <= n + 1 BY <1>1
  <2>. QED BY <2>1, PieceListing
<1>4. /\ \A i \in 1..(k - 1) : i \in 1..n
      /\ \A i \in k..n : i \in 1..n
      /\ \A i \in 1..n : i \in 1..(k - 1) \/ i \in k..n
      /\ \A i \in 1..(k - 1) : \A j \in k..n : i # j
  BY <1>1
<1>5. \A i, j \in 1..n : order[i] = order[j] => i = j BY DEF Listing, Once
<1>6. Ids(order) = {order[i] : i \in 1..n} BY DEF Ids
<1>7. InsertAt(order, k, t) = before \o <<t>> \o after BY DEF InsertAt
<1>8. Listing(<<t>>) /\ Ids(<<t>>) = {t} BY SingleListing
<1> HIDE DEF before, after, n
<1>9. Ids(before) \intersect Ids(after) = {} BY <1>2, <1>3, <1>4, <1>5
<1>10. Ids(before) \union Ids(after) = Ids(order) BY <1>2, <1>3, <1>4, <1>6
<1>11. /\ Listing(before \o <<t>>)
       /\ Ids(before \o <<t>>) = Ids(before) \union {t}
  <2>1. Ids(before) \intersect Ids(<<t>>) = {} BY <1>8, <1>10
  <2>. QED BY <1>2, <1>8, <2>1, JoinedListing
<1>12. Ids(before \o <<t>>) \intersect Ids(after) = {} BY <1>9, <1>10, <1>11
<1>. QED BY <1>3, <1>7, <1>10, <1>11, <1>12, JoinedListing

\* moveTask lists the same tasks.
LEMMA MovedListing ==
  ASSUME NEW order, Listing(order), NEW i \in 1..Len(order),
         NEW where \in {"top", "bottom", "up", "down"}
  PROVE  LET new == InsertAt(RemoveAt(order, i), Place(order, i, where), order[i])
         IN Listing(new) /\ Ids(new) = Ids(order)
<1> DEFINE left == RemoveAt(order, i)
           k == Place(order, i, where)
<1>1. Len(order) \in Nat /\ order \in Seq(Task) /\ order[i] \in Task /\ order[i] \in Ids(order)
  BY DEF Listing, Ids
<1>2. Listing(left) /\ Len(left) = Len(order) - 1 /\ Ids(left) = Ids(order) \ {order[i]}
  BY RemoveAtListing
<1>3. k \in 1..Len(order) BY <1>1 DEF Place
<1> HIDE DEF left, k
<1>4. k \in 1..(Len(left) + 1) BY <1>1, <1>2, <1>3
<1>5. order[i] \notin Ids(left) BY <1>2
<1>6. /\ Listing(InsertAt(left, k, order[i]))
      /\ Ids(InsertAt(left, k, order[i])) = Ids(left) \union {order[i]}
  BY <1>1, <1>2, <1>4, <1>5, InsertAtListing
<1>. QED BY <1>1, <1>2, <1>6 DEF left, k

-----------------------------------------------------------------------------
\* A list of distinct tasks is as long as there are tasks on it.
LEMMA ListingLength ==
  ASSUME NEW order, Listing(order) PROVE Len(order) = Cardinality(Ids(order))
<1> DEFINE n == Len(order)
           S == Ids(order)
<1>1. n \in Nat /\ order \in Seq(Task) /\ order \in [1..n -> Task] BY DEF Listing
<1>2. order \in [1..n -> S] BY <1>1 DEF Ids
<1>3. order \in Bijection(1..n, S)
  <2>1. \A i, j \in 1..n : order[i] = order[j] => i = j BY DEF Listing, Once
  <2>2. \A t \in S : \E i \in 1..n : order[i] = t BY DEF Ids
  <2> HIDE DEF n, S
  <2>. QED BY <1>2, <2>1, <2>2 DEF Bijection, Injection, Surjection, IsInjective
<1>. QED BY <1>1, <1>3, FS_CountingElements DEF ExistsBijection

-----------------------------------------------------------------------------
(***************************************************************************)
(* Queues.                                                                 *)
(***************************************************************************)
\* What store.mjs keeps of a queue, whoever edits it: the order lists the tasks
\* that are there, each once, and their ids were given out.
Sound(q) ==
  /\ q = [task |-> q.task, order |-> q.order, nextId |-> q.nextId, paused |-> q.paused]
  /\ q.task \in [Task -> Record \union {NoTask}]
  /\ Listing(q.order) /\ Ids(q.order) = Present(q)
  /\ q.nextId \in 1..(MaxTasks + 1) /\ \A t \in Present(q) : t < q.nextId
  /\ q.paused \in BOOLEAN

LEMMA EmptySound == Sound(EmptyQueue)
<1>1. Present(EmptyQueue) = {} BY DEF Present, EmptyQueue
<1>2. 1..0 = {} /\ Len(<<>>) = 0 OBVIOUS
<1>3. Listing(<<>>) /\ Ids(<<>>) = {}
  BY <1>2 DEF Listing, Once, Ids
<1>4. 1 \in 1..(MaxTasks + 1) BY MaxTasksType
<1>5. [t \in Task |-> NoTask] \in [Task -> Record \union {NoTask}] OBVIOUS
<1>6. EmptyQueue = [task |-> [t \in Task |-> NoTask], order |-> <<>>, nextId |-> 1, paused |-> FALSE]
  BY DEF EmptyQueue
<1>7. /\ EmptyQueue.task = [t \in Task |-> NoTask] /\ EmptyQueue.order = <<>>
      /\ EmptyQueue.nextId = 1 /\ EmptyQueue.paused = FALSE
  BY <1>6
<1>. QED BY <1>1, <1>3, <1>4, <1>5, <1>6, <1>7 DEF Sound

\* An edit of records that adds and removes none.
LEMMA EditedSound ==
  ASSUME NEW q, Sound(q), NEW f \in [Task -> Record \union {NoTask}],
         \A t \in Task : (f[t] = NoTask) <=> (q.task[t] = NoTask)
  PROVE  /\ Sound([task |-> f, order |-> q.order, nextId |-> q.nextId, paused |-> q.paused])
         /\ Sound([q EXCEPT !.task = f])
         /\ [q EXCEPT !.task = f] =
              [task |-> f, order |-> q.order, nextId |-> q.nextId, paused |-> q.paused]
         /\ Present([q EXCEPT !.task = f]) = Present(q)
<1> DEFINE q2 == [task |-> f, order |-> q.order, nextId |-> q.nextId, paused |-> q.paused]
<1>1. [q EXCEPT !.task = f] = q2 BY DEF Sound
<1>2. /\ q2.task = f /\ q2.order = q.order /\ q2.nextId = q.nextId /\ q2.paused = q.paused
      /\ q2 = [task |-> q2.task, order |-> q2.order, nextId |-> q2.nextId, paused |-> q2.paused]
  OBVIOUS
<1> HIDE DEF q2
<1>3. Present(q2) = Present(q) BY <1>2 DEF Present
<1>4. Sound(q2) BY <1>2, <1>3 DEF Sound
<1>. QED BY <1>1, <1>3, <1>4 DEF q2

\* updateTask
LEMMA UpdatedSound ==
  ASSUME NEW q, Sound(q), NEW t \in Present(q), NEW record \in Record
  PROVE  /\ Sound(Updated(q, t, record)) /\ Present(Updated(q, t, record)) = Present(q)
         /\ Updated(q, t, record).task[t] = record
         /\ \A u \in Task \ {t} : Updated(q, t, record).task[u] = q.task[u]
<1> DEFINE f == [q.task EXCEPT ![t] = record]
<1>1. t \in Task /\ q.task[t] # NoTask BY DEF Present
<1>2. f \in [Task -> Record \union {NoTask}] BY DEF Sound
<1>3. f[t] = record /\ \A u \in Task \ {t} : f[u] = q.task[u] BY <1>1 DEF Sound
<1>4. \A u \in Task : (f[u] = NoTask) <=> (q.task[u] = NoTask) BY <1>1, <1>3, NoTaskIsNoTask
<1>5. Updated(q, t, record) = [q EXCEPT !.task = f] BY DEF Updated, Sound
<1> HIDE DEF f
<1>6. Sound([q EXCEPT !.task = f]) /\ Present([q EXCEPT !.task = f]) = Present(q)
      /\ [q EXCEPT !.task = f].task = f
  BY <1>2, <1>4, EditedSound DEF Sound
<1>. QED BY <1>3, <1>5, <1>6

\* addTask
LEMMA WithTaskSound ==
  ASSUME NEW q, Sound(q), q.nextId <= MaxTasks, NEW record \in Record
  PROVE  Sound(WithTask(q, record))
<1> DEFINE n == q.nextId
           f == [q.task EXCEPT ![n] = record]
           o == Append(q.order, n)
           q2 == [task |-> f, order |-> o, nextId |-> n + 1, paused |-> q.paused]
<1>1. n \in Task /\ n + 1 \in 1..(MaxTasks + 1) /\ n \in Nat
  BY MaxTasksType DEF Task, Sound
<1>2. n \notin Present(q) BY <1>1 DEF Sound
<1>3. WithTask(q, record) = q2
  <2>1. WithTask(q, record) = [q EXCEPT !.task = f, !.order = o, !.nextId = n + 1]
    BY Zenon DEF WithTask
  <2> HIDE DEF f, o, n
  <2>. QED BY <2>1 DEF Sound
<1>4. f \in [Task -> Record \union {NoTask}] /\ f[n] = record /\ \A t \in Task \ {n} : f[t] = q.task[t]
  BY <1>1 DEF Sound
<1>5. Listing(o) /\ Ids(o) = Present(q) \union {n}
  <2>1. Listing(q.order) /\ Ids(q.order) = Present(q) BY DEF Sound
  <2>. HIDE DEF n
  <2>. QED BY <1>1, <1>2, <2>1, AppendListing
<1>6. (\A t \in Present(q) : t < n) /\ q.paused \in BOOLEAN BY DEF Sound
<1>7. /\ q2.task = f /\ q2.order = o /\ q2.nextId = n + 1 /\ q2.paused = q.paused
      /\ q2 = [task |-> q2.task, order |-> q2.order, nextId |-> q2.nextId, paused |-> q2.paused]
  <2> HIDE DEF f, o, n
  <2>. QED OBVIOUS
<1> HIDE DEF f, o, n, q2
<1>8. Present(q2) = Present(q) \union {n}
  BY <1>1, <1>4, <1>7, NoTaskIsNoTask DEF Present
<1>9. \A t \in Present(q2) : t < n + 1
  <2>1. \A t \in Present(q) : t \in Nat BY DEF Present, Task
  <2>. QED BY <1>1, <1>6, <1>8, <2>1
<1>. QED BY <1>1, <1>3, <1>4, <1>5, <1>6, <1>7, <1>8, <1>9 DEF Sound

\* removeTask, and the filter of carry cleanup --all
LEMMA WithoutSound ==
  ASSUME NEW q, Sound(q), NEW T
  PROVE  Sound(Without(q, T))
<1> DEFINE f == [t \in Task |-> IF t \in T THEN NoTask ELSE q.task[t]]
           o == Remaining(q.order, T)
           q2 == [task |-> f, order |-> o, nextId |-> q.nextId, paused |-> q.paused]
<1>1. Without(q, T) = q2
  <2>1. Without(q, T) = [q EXCEPT !.task = f, !.order = o]
    BY Zenon DEF Without
  <2> HIDE DEF f, o
  <2>. QED BY <2>1 DEF Sound
<1>2. /\ f \in [Task -> Record \union {NoTask}]
      /\ \A t \in Task : f[t] = IF t \in T THEN NoTask ELSE q.task[t]
  BY DEF Sound
<1>3. Listing(o) /\ Ids(o) = Present(q) \ T
  <2>1. Listing(q.order) /\ Ids(q.order) = Present(q) BY DEF Sound
  <2>. QED BY <2>1, RemainingOK
<1>4. /\ q2.task = f /\ q2.order = o /\ q2.nextId = q.nextId /\ q2.paused = q.paused
      /\ q2 = [task |-> q2.task, order |-> q2.order, nextId |-> q2.nextId, paused |-> q2.paused]
  <2> HIDE DEF f, o
  <2>. QED OBVIOUS
<1> HIDE DEF f, o, q2
<1>5. Present(q2) = Present(q) \ T BY <1>2, <1>4 DEF Present
<1>. QED BY <1>1, <1>2, <1>3, <1>4, <1>5 DEF Sound

\* moveTask
LEMMA MovedSound ==
  ASSUME NEW q, Sound(q), NEW i \in 1..Len(q.order), NEW where \in {"top", "bottom", "up", "down"}
  PROVE  Sound(Moved(q, i, where))
<1> DEFINE o == InsertAt(RemoveAt(q.order, i), Place(q.order, i, where), q.order[i])
           q2 == [task |-> q.task, order |-> o, nextId |-> q.nextId, paused |-> q.paused]
<1>1. Moved(q, i, where) = q2
  <2>1. Moved(q, i, where) = [q EXCEPT !.order = o] BY Zenon DEF Moved
  <2>. HIDE DEF o
  <2>. QED BY <2>1 DEF Sound
<1>2. Listing(o) /\ Ids(o) = Present(q)
  <2>1. Listing(q.order) /\ Ids(q.order) = Present(q) BY DEF Sound
  <2>. QED BY <2>1, MovedListing
<1>3. /\ q2.task = q.task /\ q2.order = o /\ q2.nextId = q.nextId /\ q2.paused = q.paused
      /\ q2 = [task |-> q2.task, order |-> q2.order, nextId |-> q2.nextId, paused |-> q2.paused]
  <2> HIDE DEF o
  <2>. QED OBVIOUS
<1> HIDE DEF o, q2
<1>4. Present(q2) = Present(q) BY <1>3 DEF Present
<1>. QED BY <1>1, <1>2, <1>3, <1>4 DEF Sound

\* carry pause and carry resume
LEMMA PausedSound ==
  ASSUME NEW q, Sound(q), NEW on \in BOOLEAN
  PROVE  Sound([q EXCEPT !.paused = on])
<1> DEFINE q2 == [task |-> q.task, order |-> q.order, nextId |-> q.nextId, paused |-> on]
<1>1. [q EXCEPT !.paused = on] = q2 BY DEF Sound
<1>2. /\ q2.task = q.task /\ q2.order = q.order /\ q2.nextId = q.nextId /\ q2.paused = on
      /\ q2 = [task |-> q2.task, order |-> q2.order, nextId |-> q2.nextId, paused |-> q2.paused]
  OBVIOUS
<1> HIDE DEF q2
<1>3. Present(q2) = Present(q) BY <1>2 DEF Present
<1>. QED BY <1>1, <1>2, <1>3 DEF Sound
==============================================================================
