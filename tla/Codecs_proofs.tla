----------------------------- MODULE Codecs_proofs -----------------------------
(***************************************************************************)
(* Proofs about Codecs, for every list of supported codecs, every set of    *)
(* unknown names and files of any length.  All lists come from one filter,  *)
(* a fold over the list; what it keeps is proved first, entry by entry from *)
(* the front, and everything else is about the lists it makes.              *)
(***************************************************************************)
EXTENDS Codecs, SequenceTheorems, WellFoundedInduction, TLAPS

-------------------------------------------------------------------------------
(* The filter, taken entry by entry. *)

\* One entry after those kept so far.
Keep(kept, r, rows) == IF r \in rows THEN Append(kept, r) ELSE kept

\* g is the fold Filtered is made of: over every set of positions of the list, the highest last.
Folding(g, rows, list, n) ==
    g = [s \in SUBSET (1 .. n) |->
            IF s = {} THEN << >> ELSE Keep(g[s \ {Max(s)}], list[Max(s)], rows)]

\* Filtering is a fold over the whole list.
LEMMA FilteredIs ==
    ASSUME NEW S, NEW list \in Seq(S), NEW rows
    PROVE  Filtered(list, rows) = (CHOOSE g : Folding(g, rows, list, Len(list)))[1 .. Len(list)]
<1>1. DOMAIN list = 1 .. Len(list)
    BY LenProperties
<1> QED BY <1>1, Zenon DEF Filtered, FoldLeft, MapThenFoldSet, Folding, Keep

\* The greatest element of a set of positions is the one no other exceeds.
LEMMA MaxIs ==
    ASSUME NEW s, NEW m \in s, s \subseteq Nat, \A k \in s : k <= m
    PROVE  Max(s) = m
  <1>1. \A k \in s : m >= k
    OBVIOUS
  <1>2. Max(s) \in s /\ \A y \in s : Max(s) >= y
    BY <1>1, Zenon DEF Max
  <1> DEFINE x == Max(s)
  <1>3. x \in Nat /\ m \in Nat /\ x <= m /\ m <= x
    <2>1. x \in s /\ x >= m
      BY <1>2
    <2> HIDE DEF x
    <2>2. x \in Nat /\ m \in Nat /\ x <= m
      BY <2>1
    <2> QED  BY <2>1, <2>2
  <1> HIDE DEF x
  <1>4. x = m
    BY <1>3
  <1> QED  BY <1>4 DEF x

\* Every set of naturals has a least element; what is proved by induction below is proved from
\* it.
LEMMA Least ==
    ASSUME NEW T, T \subseteq Nat, T # {}
    PROVE \E x \in T : \A y \in T : x <= y
  <1> DEFINE R == {p \in Nat \X Nat : p[1] < p[2]}
  <1>0. R = OpToRel(<, Nat)
    BY DEF OpToRel
  <1>1. IsWellFoundedOn(R, Nat)
    BY NatLessThanWellFounded, <1>0
  <1>2. PICK x \in T : \A y \in T : <<y, x>> \notin R
    BY <1>1, WFMin
  <1>3. \A y \in T : x <= y
    <2> TAKE y \in T
    <2>1. x \in Nat /\ y \in Nat /\ <<y, x>> \notin R
      BY <1>2
    <2> QED BY <2>1
  <1>4. QED BY <1>3

\* A set of positions has a last one, and without it all the others come before.
LEMMA MaxExists ==
    ASSUME NEW n \in Nat, NEW s \in SUBSET (1 .. n), s # {}
    PROVE  /\ Max(s) \in s /\ \A k \in s : k <= Max(s)
           /\ s \ {Max(s)} \in SUBSET (1 .. (Max(s) - 1))
  <1> DEFINE T == {k \in Nat : \A j \in s : j <= k}
  <1>1. T \subseteq Nat /\ n \in T
    OBVIOUS
  <1>2. PICK m \in T : \A k \in T : m <= k
    BY <1>1, Least
  <1>3. m \in s
    <2> SUFFICES ASSUME m \notin s PROVE FALSE
      OBVIOUS
    <2>1. m \in Nat /\ \A j \in s : j \in Nat /\ j <= m /\ j # m /\ j >= 1
      BY <1>2
    <2>2. PICK i : i \in s
      OBVIOUS
    <2>3. m - 1 \in Nat /\ \A j \in s : j <= m - 1
      BY <2>1, <2>2
    <2>4. m - 1 \in T
      BY <2>3
    <2>5. m <= m - 1
      BY <1>2, <2>4
    <2> QED  BY <2>1, <2>5
  <1>4. s \subseteq Nat /\ \A j \in s : j <= m
    OBVIOUS
  <1>5. Max(s) = m
    BY <1>3, <1>4, MaxIs
  <1>6. s \ {m} \in SUBSET (1 .. (m - 1))
    BY <1>4
  <1> QED  BY <1>3, <1>4, <1>5, <1>6

\* q and r begin with the same n entries.
Agree(q, r, n) == \A i \in 1 .. n : q[i] = r[i]

\* Two filters agree on every entry the lists have in common, however long the lists are.
LEMMA FoldingUnique ==
    ASSUME NEW rows, NEW q, NEW r, NEW n \in Nat, NEW m \in Nat, NEW g, NEW h,
           n <= m, Folding(g, rows, q, n), Folding(h, rows, r, m), Agree(q, r, n)
    PROVE  \A s \in SUBSET (1 .. n) : g[s] = h[s]
  <1> DEFINE T == {k \in 0 .. n : \E s \in SUBSET (1 .. k) : g[s] # h[s]}
  <1>1. SUFFICES ASSUME T # {} PROVE FALSE
    <2>1. n \notin T
      BY <1>1
    <2> QED  BY <2>1
  <1>a. T \subseteq Nat
    OBVIOUS
  <1> HIDE DEF T
  <1>2. PICK k \in T : \A j \in T : k <= j
    BY <1>1, <1>a, Least
  <1> USE DEF T
  <1>3. PICK s \in SUBSET (1 .. k) : g[s] # h[s]
    OBVIOUS
  <1>4. s \in SUBSET (1 .. n) /\ s \in SUBSET (1 .. m)
    OBVIOUS
  <1>5. g[s] = IF s = {} THEN << >> ELSE Keep(g[s \ {Max(s)}], q[Max(s)], rows)
    BY <1>4 DEF Folding
  <1>6. h[s] = IF s = {} THEN << >> ELSE Keep(h[s \ {Max(s)}], r[Max(s)], rows)
    BY <1>4 DEF Folding
  <1>7. s # {}
    BY <1>3, <1>5, <1>6
  <1>8. Max(s) \in 1 .. k /\ s \ {Max(s)} \in SUBSET (1 .. (Max(s) - 1))
    <2>1. k \in Nat
      OBVIOUS
    <2>2. Max(s) \in s /\ s \ {Max(s)} \in SUBSET (1 .. (Max(s) - 1))
      BY <1>7, <2>1, MaxExists
    <2> QED  BY <2>2
  <1>9. Max(s) - 1 \in 0 .. n /\ Max(s) - 1 < k
    BY <1>8
  <1>10. g[s \ {Max(s)}] = h[s \ {Max(s)}]
    <2>1. PICK j \in 0 .. n : j = Max(s) - 1
      BY <1>9
    <2>2. k \in 0 .. n /\ ~(k <= j)
      BY <1>9, <2>1
    <2>3. j \notin T
      <3> HIDE DEF T
      <3> QED  BY <1>2, <2>2
    <2>4. s \ {Max(s)} \in SUBSET (1 .. j)
      BY <1>8, <2>1
    <2> QED  BY <2>3, <2>4, Zenon
  <1>11. q[Max(s)] = r[Max(s)]
    BY <1>8 DEF Agree
  <1>12. QED
    BY <1>3, <1>5, <1>6, <1>7, <1>10, <1>11

\* A list of any length can be filtered.
LEMMA FoldingExists ==
    ASSUME NEW rows, NEW q, NEW n \in Nat
    PROVE  \E g : Folding(g, rows, q, n)
  <1> DEFINE T == {k \in Nat : ~ \E g : Folding(g, rows, q, k)}
  <1>1. SUFFICES ASSUME T # {} PROVE FALSE
    OBVIOUS
  <1>2. PICK k \in T : \A j \in T : k <= j
    BY <1>1, Least
  <1>3. k # 0
    <2> DEFINE e == [s \in SUBSET (1 .. 0) |-> << >>]
    <2>1. \A s \in SUBSET (1 .. 0) : s = {}
      OBVIOUS
    <2>2. Folding(e, rows, q, 0)
      BY <2>1 DEF Folding
    <2> QED  BY <2>2
  <1>4. k - 1 \in Nat /\ k - 1 \notin T
    BY <1>2, <1>3
  <1>5. PICK g : Folding(g, rows, q, k - 1)
    BY <1>4
  <1> DEFINE h == [s \in SUBSET (1 .. k) |->
                      IF k \in s THEN Keep(g[s \ {k}], q[k], rows) ELSE g[s]]
  <1>6. ASSUME NEW s \in SUBSET (1 .. k)
        PROVE  h[s] = IF s = {} THEN << >> ELSE Keep(h[s \ {Max(s)}], q[Max(s)], rows)
    <2>1. CASE k \in s
      <3>0. s \subseteq Nat /\ \A j \in s : j <= k
        BY <1>4
      <3>1. Max(s) = k
        BY <2>1, <3>0, MaxIs
      <3>2. h[s \ {k}] = g[s \ {k}]
        OBVIOUS
      <3> QED  BY <2>1, <3>1, <3>2
    <2>2. CASE k \notin s
      <3>1. s \in SUBSET (1 .. (k - 1)) /\ h[s] = g[s]
        BY <1>4, <2>2
      <3>2. g[s] = IF s = {} THEN << >> ELSE Keep(g[s \ {Max(s)}], q[Max(s)], rows)
        BY <1>5, <3>1 DEF Folding
      <3>3. h[s \ {Max(s)}] = g[s \ {Max(s)}]
        BY <2>2
      <3> QED  BY <3>1, <3>2, <3>3
    <2> QED  BY <2>1, <2>2
  <1>7. Folding(h, rows, q, k)
    BY <1>6, Zenon DEF Folding
  <1> QED  BY <1>7

\* A file that lists no codec brings none.
LEMMA FilteredNone ==
    ASSUME NEW rows
    PROVE  Filtered(<< >>, rows) = << >>
  <1> DEFINE none == << >>
             g == CHOOSE g : Folding(g, rows, none, Len(none))
  <1>1. none \in Seq({}) /\ Len(none) = 0 /\ 1 .. Len(none) = {}
    OBVIOUS
  <1>2. \E f : Folding(f, rows, none, Len(none))
    BY <1>1, FoldingExists
  <1>3. Folding(g, rows, none, Len(none))
    BY <1>2
  <1>4. Filtered(none, rows) = g[1 .. Len(none)]
    BY <1>1, FilteredIs
  <1> HIDE DEF g, none
  <1>5. g[1 .. Len(none)] = << >>
    BY <1>1, <1>3 DEF Folding
  <1> QED  BY <1>4, <1>5 DEF none

\* One more entry at the end is kept after the others, or not at all.
LEMMA FilteredMore ==
    ASSUME NEW rows, NEW S, NEW q \in Seq(S), NEW s \in S
    PROVE  Filtered(Append(q, s), rows) = Keep(Filtered(q, rows), s, rows)
  <1> DEFINE n == Len(q)
             r == Append(q, s)
             g == CHOOSE g : Folding(g, rows, q, n)
             h == CHOOSE h : Folding(h, rows, r, Len(r))
  <1>1. n \in Nat /\ r \in Seq(S) /\ Len(r) = n + 1 /\ r[n + 1] = s /\ \A i \in 1 .. n : q[i] = r[i]
    OBVIOUS
  <1>2. Folding(g, rows, q, n)
    <2>1. \E f : Folding(f, rows, q, n)
      BY <1>1, FoldingExists
    <2> QED  BY <2>1
  <1>3. Folding(h, rows, r, Len(r))
    <2>0. Len(r) \in Nat
      BY <1>1
    <2>1. \E f : Folding(f, rows, r, Len(r))
      BY <2>0, FoldingExists
    <2> QED  BY <2>1
  <1>4. Filtered(q, rows) = g[1 .. n]
    BY FilteredIs
  <1>5. Filtered(r, rows) = h[1 .. Len(r)]
    BY <1>1, FilteredIs
  <1> HIDE DEF n, r, g, h
  <1>6. Folding(h, rows, r, n + 1) /\ Filtered(r, rows) = h[1 .. (n + 1)]
    BY <1>1, <1>3, <1>5
  <1>7. g[1 .. n] = h[1 .. n]
    <2>1. n + 1 \in Nat /\ n <= n + 1 /\ 1 .. n \in SUBSET (1 .. n)
      BY <1>1
    <2>2. Agree(q, r, n)
      BY <1>1 DEF Agree
    <2>3. PICK m \in Nat : m = n + 1
      BY <2>1
    <2>4. n \in Nat /\ n <= m /\ Folding(h, rows, r, m)
      BY <1>1, <1>6, <2>1, <2>3
    <2>5. \A d \in SUBSET (1 .. n) : g[d] = h[d]
      BY <1>2, <2>2, <2>4, FoldingUnique
    <2> QED  BY <2>1, <2>5
  <1>8. /\ Max(1 .. (n + 1)) = n + 1 /\ (1 .. (n + 1)) \ {n + 1} = 1 .. n
        /\ 1 .. (n + 1) # {} /\ 1 .. (n + 1) \in SUBSET (1 .. (n + 1))
    <2>1. n + 1 \in 1 .. (n + 1) /\ 1 .. (n + 1) \subseteq Nat /\ \A k \in 1 .. (n + 1) : k <= n + 1
      BY <1>1
    <2>2. Max(1 .. (n + 1)) = n + 1
      BY <2>1, MaxIs
    <2>3. (1 .. (n + 1)) \ {n + 1} = 1 .. n
      BY <1>1
    <2> QED  BY <2>1, <2>2, <2>3
  <1>9. h[1 .. (n + 1)] = Keep(h[1 .. n], r[n + 1], rows)
    BY <1>6, <1>8, Zenon DEF Folding
  <1> QED  BY <1>1, <1>4, <1>6, <1>7, <1>9 DEF r

\* What holds of the empty list, and of a list with one more entry when it holds of the list, is
\* true of every list.
LEMMA FromTheFront ==
    ASSUME NEW S, NEW P, << >> \in P, \A q \in Seq(S) : q \in P => \A r \in S : Append(q, r) \in P
    PROVE  \A q \in Seq(S) : q \in P
<1> DEFINE T == {n \in Nat : \E q \in Seq(S) : Len(q) = n /\ q \notin P}
<1> SUFFICES ASSUME T # {} PROVE FALSE
    <2>1. \A q \in Seq(S) : Len(q) \in Nat
        BY LenProperties
    <2> QED BY <2>1
<1>1. T \subseteq Nat
    OBVIOUS
<1> HIDE DEF T
<1>2. PICK n \in T : \A k \in T : n <= k
    BY <1>1, Least
<1>3. PICK q \in Seq(S) : n \in Nat /\ Len(q) = n /\ q \notin P
    BY DEF T
<1>4. n # 0
    <2>1. q # << >>
        BY <1>3
    <2> QED BY <1>3, <2>1, EmptySeq
<1> DEFINE front == SubSeq(q, 1, n - 1)
<1>5. /\ front \in Seq(S) /\ Len(front) = n - 1 /\ q[n] \in S
      /\ \A i \in 1 .. n - 1 : front[i] = q[i]
    <2>1. \A i \in 1 .. n : q[i] \in S
        BY <1>3, ElementOfSeq
    <2>2. 1 \in Int /\ n - 1 \in Int /\ \A i \in 1 .. n - 1 : q[i] \in S
        BY <1>3, <2>1
    <2>3. /\ front \in Seq(S) /\ Len(front) = IF 1 <= n - 1 THEN (n - 1) - 1 + 1 ELSE 0
          /\ \A i \in 1 .. (n - 1) - 1 + 1 : front[i] = q[1 + i - 1]
        BY <2>2, SubSeqProperties
    <2> QED BY <1>3, <1>4, <2>1, <2>3
<1> HIDE DEF front
<1>6. Append(front, q[n]) = q
    <2>1. /\ Append(front, q[n]) \in Seq(S) /\ Len(Append(front, q[n])) = Len(front) + 1
          /\ \A i \in 1 .. Len(front) : Append(front, q[n])[i] = front[i]
          /\ Append(front, q[n])[Len(front) + 1] = q[n]
        BY <1>5, AppendProperties
    <2>2. Len(Append(front, q[n])) = Len(q) /\ \A i \in 1 .. Len(q) : Append(front, q[n])[i] = q[i]
        BY <1>3, <1>4, <1>5, <2>1
    <2> QED BY <2>1, <2>2, SeqEqual
<1>7. front \in P
    <2>1. n - 1 \in Nat /\ ~(n <= n - 1)
        BY <1>3, <1>4
    <2>2. n - 1 \notin T
        BY <1>2, <2>1
    <2> QED BY <1>5, <2>1, <2>2 DEF T
<1> QED BY <1>3, <1>5, <1>6, <1>7

\* The entries of a list with one more at the end.
LEMMA AppendIs ==
    ASSUME NEW S, NEW q \in Seq(S), NEW r \in S
    PROVE  /\ Append(q, r) \in Seq(S) /\ Range(Append(q, r)) = Range(q) \cup {r}
           /\ Len(q) \in Nat /\ DOMAIN q = 1 .. Len(q) /\ DOMAIN Append(q, r) = 1 .. Len(q) + 1
           /\ \A i \in 1 .. Len(q) : Append(q, r)[i] = q[i]
           /\ Append(q, r)[Len(q) + 1] = r
<1>1. /\ Append(q, r) \in Seq(S) /\ Len(Append(q, r)) = Len(q) + 1
      /\ \A i \in 1 .. Len(q) : Append(q, r)[i] = q[i]
      /\ Append(q, r)[Len(q) + 1] = r
    BY AppendProperties
<1>2. Len(q) \in Nat /\ DOMAIN q = 1 .. Len(q) /\ DOMAIN Append(q, r) = 1 .. Len(q) + 1
    BY <1>1, LenProperties
<1>3. Range(Append(q, r)) = Range(q) \cup {r}
    <2>1. 1 .. Len(q) + 1 = (1 .. Len(q)) \cup {Len(q) + 1}
        BY <1>2
    <2>2. Range(q) = {q[i] : i \in 1 .. Len(q)}
        BY <1>2 DEF Range
    <2>3. Range(Append(q, r)) = {Append(q, r)[i] : i \in 1 .. Len(q) + 1}
        BY <1>2 DEF Range
    <2> QED BY <1>1, <2>1, <2>2, <2>3, Zenon
<1> QED BY <1>1, <1>2, <1>3

\* An empty list has no entries.
LEMMA NoEntries == \A S : << >> \in Seq(S) /\ Range(<< >>) = {} /\ DOMAIN << >> = {}
BY EmptySeq DEF Range

\* A filter keeps what is among the given entries, all of it, and nothing else.
LEMMA FilteredKeeps ==
    ASSUME NEW S, NEW rows
    PROVE  \A q \in Seq(S) :
               Filtered(q, rows) \in Seq(S) /\ Range(Filtered(q, rows)) = Range(q) \cap rows
<1> DEFINE P == {q \in Seq(S) :
                    Filtered(q, rows) \in Seq(S) /\ Range(Filtered(q, rows)) = Range(q) \cap rows}
<1>1. << >> \in P
    BY FilteredNone, NoEntries
<1>2. ASSUME NEW q \in Seq(S), q \in P, NEW r \in S PROVE Append(q, r) \in P
    <2>1. Filtered(Append(q, r), rows) = Keep(Filtered(q, rows), r, rows)
        BY FilteredMore
    <2>2. /\ Append(q, r) \in Seq(S) /\ Range(Append(q, r)) = Range(q) \cup {r}
          /\ Filtered(q, rows) \in Seq(S) /\ Range(Filtered(q, rows)) = Range(q) \cap rows
        BY <1>2, AppendIs
    <2>3. /\ Append(Filtered(q, rows), r) \in Seq(S)
          /\ Range(Append(Filtered(q, rows), r)) = Range(Filtered(q, rows)) \cup {r}
        BY <2>2, AppendIs
    <2> QED BY <2>1, <2>2, <2>3 DEF Keep
<1> HIDE DEF P
<1>3. \A q \in Seq(S) : q \in P
    BY <1>1, <1>2, FromTheFront
<1> QED BY <1>3 DEF P

\* A list that is all among the given entries is kept as it is.
LEMMA FilteredAll ==
    ASSUME NEW S, NEW rows
    PROVE  \A q \in Seq(S) : Range(q) \subseteq rows => Filtered(q, rows) = q
<1> DEFINE P == {q \in Seq(S) : Range(q) \subseteq rows => Filtered(q, rows) = q}
<1>1. << >> \in P
    BY FilteredNone, NoEntries
<1>2. ASSUME NEW q \in Seq(S), q \in P, NEW r \in S PROVE Append(q, r) \in P
    <2>1. Filtered(Append(q, r), rows) = Keep(Filtered(q, rows), r, rows)
        BY FilteredMore
    <2>2. Append(q, r) \in Seq(S) /\ Range(Append(q, r)) = Range(q) \cup {r}
        BY AppendIs
    <2> QED BY <1>2, <2>1, <2>2 DEF Keep
<1> HIDE DEF P
<1>3. \A q \in Seq(S) : q \in P
    BY <1>1, <1>2, FromTheFront
<1> QED BY <1>3 DEF P

\* What is given beside the entries of the list makes no difference.
LEMMA FilteredSame ==
    ASSUME NEW S, NEW rows, NEW others
    PROVE  \A q \in Seq(S) : Range(q) \cap rows = Range(q) \cap others =>
               Filtered(q, rows) = Filtered(q, others)
<1> DEFINE P == {q \in Seq(S) : Range(q) \cap rows = Range(q) \cap others =>
                                   Filtered(q, rows) = Filtered(q, others)}
<1>1. << >> \in P
    BY FilteredNone, NoEntries
<1>2. ASSUME NEW q \in Seq(S), q \in P, NEW r \in S PROVE Append(q, r) \in P
    <2>1. /\ Filtered(Append(q, r), rows) = Keep(Filtered(q, rows), r, rows)
          /\ Filtered(Append(q, r), others) = Keep(Filtered(q, others), r, others)
        BY FilteredMore
    <2>2. Append(q, r) \in Seq(S) /\ Range(Append(q, r)) = Range(q) \cup {r}
        BY AppendIs
    <2>3. SUFFICES ASSUME Range(Append(q, r)) \cap rows = Range(Append(q, r)) \cap others
                   PROVE  Filtered(Append(q, r), rows) = Filtered(Append(q, r), others)
        BY <2>2
    <2>4. (r \in rows <=> r \in others) /\ Range(q) \cap rows = Range(q) \cap others
        BY <2>2, <2>3
    <2> QED BY <1>2, <2>1, <2>4 DEF Keep
<1> HIDE DEF P
<1>3. \A q \in Seq(S) : q \in P
    BY <1>1, <1>2, FromTheFront
<1> QED BY <1>3 DEF P

\* No name is twice in a list.
Distinct(q) == \A i, j \in DOMAIN q : q[i].name = q[j].name => i = j

\* A filter keeps the names of a list different.
LEMMA FilteredDistinct ==
    ASSUME NEW S, NEW rows
    PROVE  \A q \in Seq(S) : Distinct(q) => Distinct(Filtered(q, rows))
<1> DEFINE P == {q \in Seq(S) : Distinct(q) => Distinct(Filtered(q, rows))}
<1>1. << >> \in P
    BY FilteredNone, NoEntries
<1>2. ASSUME NEW q \in Seq(S), q \in P, NEW r \in S PROVE Append(q, r) \in P
    <2> DEFINE kept == Filtered(q, rows)
    <2>1. Filtered(Append(q, r), rows) = Keep(kept, r, rows)
        BY FilteredMore
    <2>2. kept \in Seq(S) /\ Range(kept) = Range(q) \cap rows
        BY FilteredKeeps
    <2>3. Append(q, r) \in Seq(S)
        BY AppendIs
    <2>4. SUFFICES ASSUME Distinct(Append(q, r)) PROVE Distinct(Keep(kept, r, rows))
        BY <2>1, <2>3
    <2>5. /\ Len(q) \in Nat /\ DOMAIN q = 1 .. Len(q) /\ DOMAIN Append(q, r) = 1 .. Len(q) + 1
          /\ \A i \in 1 .. Len(q) : Append(q, r)[i] = q[i]
          /\ Append(q, r)[Len(q) + 1] = r
        BY AppendIs
    <2>6. Distinct(q) /\ \A i \in DOMAIN q : q[i].name # r.name
        BY <2>4, <2>5 DEF Distinct
    <2>7. Distinct(kept)
        BY <1>2, <2>6
    <2>8. \A i \in DOMAIN kept : kept[i].name # r.name
        BY <2>2, <2>6, Zenon DEF Range
    <2> HIDE DEF kept
    <2>9. /\ Len(kept) \in Nat /\ DOMAIN kept = 1 .. Len(kept) /\ DOMAIN Append(kept, r) = 1 .. Len(kept) + 1
          /\ \A i \in 1 .. Len(kept) : Append(kept, r)[i] = kept[i]
          /\ Append(kept, r)[Len(kept) + 1] = r
        BY <2>2, AppendIs
    <2>10. Distinct(Append(kept, r))
        <3> SUFFICES ASSUME NEW i \in DOMAIN Append(kept, r), NEW j \in DOMAIN Append(kept, r),
                            Append(kept, r)[i].name = Append(kept, r)[j].name
                     PROVE  i = j
            BY DEF Distinct
        <3>1. \A k \in DOMAIN Append(kept, r) : k \in DOMAIN kept \/ k = Len(kept) + 1
            BY <2>9
        <3> QED BY <2>7, <2>8, <2>9, <3>1 DEF Distinct
    <2> QED BY <2>7, <2>10 DEF Keep
<1> HIDE DEF P
<1>3. \A q \in Seq(S) : q \in P
    BY <1>1, <1>2, FromTheFront
<1> QED BY <1>3 DEF P

-------------------------------------------------------------------------------
(* The lists of codecs. *)

\* The names of a list are those of its entries.
LEMMA NamesAre ==
    ASSUME NEW q
    PROVE  Range(NamesOf(q)) = {r.name : r \in Range(q)} /\ DOMAIN NamesOf(q) = DOMAIN q
<1>1. DOMAIN NamesOf(q) = DOMAIN q /\ \A i \in DOMAIN q : NamesOf(q)[i] = q[i].name
    BY DEF NamesOf
<1> QED BY <1>1, Zenon DEF Range

\* A list whose entries are all of one kind is a list of that kind.
LEMMA ListOf ==
    ASSUME NEW S, NEW q \in Seq(S), NEW R, Range(q) \subseteq R
    PROVE  q \in Seq(R)
<1>1. Len(q) \in Nat /\ DOMAIN q = 1 .. Len(q) /\ q \in [1 .. Len(q) -> S]
    BY LenProperties
<1>2. \A i \in 1 .. Len(q) : q[i] \in R
    BY <1>1 DEF Range
<1>3. q \in [1 .. Len(q) -> R]
    BY <1>1, <1>2
<1> QED BY <1>1, <1>3

\* Every entry of a list of codecs is one of its entries' kind.
LEMMA EntriesOf ==
    ASSUME NEW S, NEW q \in Seq(S)
    PROVE  Range(q) \subseteq S
<1>1. DOMAIN q = 1 .. Len(q) /\ q \in [1 .. Len(q) -> S]
    BY LenProperties
<1> QED BY <1>1 DEF Range

\* Choosing by name keeps the entries with those names.
LEMMA ByName ==
    ASSUME NEW S, NEW q \in Seq(S), NEW names
    PROVE  /\ WithNamesIn(q, names) \in Seq(S)
           /\ Range(WithNamesIn(q, names)) = {r \in Range(q) : r.name \in names}
BY FilteredKeeps DEF WithNamesIn

\* The default list has an entry for every codec of the program, all of them enabled.
LEMMA DefaultIs ==
    /\ Default \in Seq(Rows) /\ Range(NamesOf(Default)) = Names /\ NamesOf(Default) = Supported
    /\ \A r \in Range(Default) : r.on = TRUE
<1>1. Len(Supported) \in Nat /\ DOMAIN Supported = 1 .. Len(Supported)
    BY CodecsAssumption, LenProperties
<1>2. /\ DOMAIN Default = DOMAIN Supported
      /\ \A i \in DOMAIN Supported : Default[i] = [name |-> Supported[i], on |-> TRUE]
    BY DEF Default
<1>3. \A i \in DOMAIN Supported : Default[i] \in Rows
    <2>1. \A i \in DOMAIN Supported : Supported[i] \in Names
        BY Zenon DEF Names, Range
    <2>2. \A x \in Names : [name |-> x, on |-> TRUE] \in Rows
        BY DEF Rows
    <2> QED BY <1>2, <2>1, <2>2, Zenon
<1>4. Default \in [1 .. Len(Supported) -> Rows]
    BY <1>1, <1>2, <1>3 DEF Default
<1>5. Default \in Seq(Rows)
    BY <1>1, <1>4
<1>6. NamesOf(Default) = Supported
    <2>1. \A i \in DOMAIN Supported : Default[i].name = Supported[i]
        BY <1>2
    <2>2. NamesOf(Default) = [i \in DOMAIN Supported |-> Supported[i]]
        BY <1>2, <2>1, Zenon DEF NamesOf
    <2>3. Supported = [i \in DOMAIN Supported |-> Supported[i]]
        BY CodecsAssumption
    <2> QED BY <2>2, <2>3
<1>7. \A r \in Range(Default) : r.on = TRUE
    BY <1>2 DEF Range
<1> QED BY <1>5, <1>6, <1>7 DEF Names

\* The screen has the codecs of the list it is given and, unchecked, all others.
LEMMA ShownListsAll ==
    ASSUME NEW list \in Seq(Rows)
    PROVE  Shown(list) \in Seq(Rows) /\ Names \subseteq Range(NamesOf(Shown(list)))
<1> DEFINE given == WithNamesIn(list, Names)
           missing == WithNamesIn(Default, Names \ Range(NamesOf(given)))
           off == [i \in DOMAIN missing |-> [missing[i] EXCEPT !.on = FALSE]]
<1>1. given \in Seq(Rows)
    BY ByName
<1>2. /\ missing \in Seq(Rows)
      /\ Range(missing) = {r \in Range(Default) : r.name \in Names \ Range(NamesOf(given))}
    BY ByName, DefaultIs
<1>3. Shown(list) = given \o off
    BY DEF Shown
<1> HIDE DEF given, missing
<1>4. Len(missing) \in Nat /\ DOMAIN missing = 1 .. Len(missing) /\ \A i \in DOMAIN missing : missing[i] \in Rows
    BY <1>2, LenProperties, ElementOfSeq
<1>5. /\ off \in Seq(Rows) /\ DOMAIN off = DOMAIN missing
      /\ \A i \in DOMAIN missing : off[i].name = missing[i].name
    <2>1. \A i \in DOMAIN missing : off[i] \in Rows /\ off[i].name = missing[i].name
        BY <1>4 DEF Rows
    <2>2. off \in [1 .. Len(missing) -> Rows]
        BY <1>4, <2>1
    <2> QED BY <1>4, <2>1, <2>2
<1> HIDE DEF off
<1>6. /\ given \o off \in Seq(Rows) /\ Len(given) \in Nat /\ Len(off) \in Nat
      /\ DOMAIN given = 1 .. Len(given) /\ DOMAIN off = 1 .. Len(off)
      /\ DOMAIN (given \o off) = 1 .. Len(given) + Len(off)
      /\ \A i \in 1 .. Len(given) + Len(off) :
             (given \o off)[i] = IF i <= Len(given) THEN given[i] ELSE off[i - Len(given)]
    BY <1>1, <1>5, LenProperties, ConcatProperties
<1>7. Range(given) \subseteq Range(given \o off)
    <2>1. \A i \in DOMAIN given : i \in DOMAIN (given \o off) /\ (given \o off)[i] = given[i]
        BY <1>6
    <2> QED BY <2>1, Zenon DEF Range
<1>8. Range(off) \subseteq Range(given \o off)
    <2>1. \A i \in DOMAIN off :
              Len(given) + i \in DOMAIN (given \o off) /\ (given \o off)[Len(given) + i] = off[i]
        BY <1>6
    <2> QED BY <2>1, Zenon DEF Range
<1>9. ASSUME NEW x \in Names PROVE x \in Range(NamesOf(given \o off))
    <2>1. CASE x \in Range(NamesOf(given))
        BY <1>7, <2>1, NamesAre
    <2>2. CASE x \notin Range(NamesOf(given))
        <3>1. PICK r \in Range(Default) : r.name = x
            BY DefaultIs, NamesAre
        <3>2. r \in Range(missing)
            BY <1>2, <2>2, <3>1
        <3>3. PICK i \in DOMAIN missing : missing[i] = r
            BY <3>2 DEF Range
        <3>4. off[i] \in Range(off) /\ off[i].name = x
            BY <1>5, <3>1, <3>3 DEF Range
        <3> QED BY <1>8, <3>4, NamesAre
    <2> QED BY <2>1, <2>2
<1> QED BY <1>3, <1>6, <1>9

\* A file, whatever it names, brings only codecs of this program.
LEMMA FilesBringCodecs ==
    ASSUME NEW list \in FileLists
    PROVE  CodecsFromJson(list) \in Seq(Rows)
<1> DEFINE Entries == Rows \cup [name : Others, on : {TRUE}]
<1>1. list \in Seq(Entries)
    <2>1. PICK n \in 0 .. MaxEntries : list \in [1 .. n -> Entries]
        BY Zenon DEF FileLists
    <2>2. n \in Nat
        BY CodecsAssumption
    <2> HIDE DEF Entries
    <2> QED BY <2>1, <2>2
<1>2. /\ CodecsFromJson(list) \in Seq(Entries)
      /\ Range(CodecsFromJson(list)) = {r \in Range(list) : r.name \in Names}
    BY <1>1, ByName DEF CodecsFromJson
<1>3. \A r \in Entries : r.name \in Names => r \in Rows
    BY CodecsAssumption DEF Names, Rows
<1>4. Range(list) \subseteq Entries
    BY <1>1, EntriesOf
<1> HIDE DEF Entries
<1>5. Range(CodecsFromJson(list)) \subseteq Rows
    BY <1>2, <1>3, <1>4
<1> QED BY <1>2, <1>5, ListOf

\* The engine's list is made of the entries it is given.
LEMMA OrderedTyped ==
    ASSUME NEW list \in Seq(Rows), NEW engineList
    PROVE  /\ Ordered(list, engineList) \in Seq(Rows)
           /\ Distinct(list) =>
                  Ordered(list, engineList) = WithNamesIn(list, Range(NamesOf(engineList)))
<1> DEFINE found == WithNamesIn(list, Range(NamesOf(engineList)))
           Final(i, j) == /\ found[j].name = found[i].name
                          /\ \A k \in DOMAIN found : found[k].name = found[i].name => k <= j
           last(i) == CHOOSE j \in DOMAIN found : Final(i, j)
<1>1. found \in Seq(Rows)
    BY ByName
<1>2. Ordered(list, engineList) = [i \in DOMAIN found |-> found[last(i)]]
    BY Zenon DEF Ordered
<1>3. Distinct(list) => Distinct(found)
    BY FilteredDistinct DEF WithNamesIn
<1> HIDE DEF found
<1>4. /\ Len(found) \in Nat /\ DOMAIN found = 1 .. Len(found)
      /\ \A i \in DOMAIN found : found[i] \in Rows
    BY <1>1, LenProperties, ElementOfSeq
<1>5. ASSUME NEW i \in DOMAIN found PROVE last(i) \in DOMAIN found /\ Final(i, last(i))
    <2> DEFINE T == {n \in Nat : \A k \in DOMAIN found : found[k].name = found[i].name => k <= n}
    <2>1. T \subseteq Nat /\ Len(found) \in T
        BY <1>4
    <2>2. PICK n \in T : \A m \in T : n <= m
        BY <2>1, Least
    <2>3. PICK j \in DOMAIN found : found[j].name = found[i].name /\ n <= j
        <3> SUFFICES ASSUME \A j \in DOMAIN found : found[j].name = found[i].name => ~(n <= j)
                     PROVE  FALSE
            BY Zenon
        <3>1. n \in Nat /\ i <= n /\ i \in 1 .. Len(found)
            BY <1>4, <2>2
        <3>2. n - 1 \in Nat /\ \A k \in DOMAIN found : found[k].name = found[i].name => k <= n - 1
            BY <1>4, <3>1
        <3>3. n - 1 \in T /\ ~(n <= n - 1)
            BY <3>1, <3>2
        <3> HIDE DEF T
        <3> QED BY <2>2, <3>3
    <2>4. n \in Nat /\ \A k \in DOMAIN found : found[k].name = found[i].name => k <= n
        BY <2>2
    <2>5. \A k \in DOMAIN found : found[k].name = found[i].name => k <= j
        BY <1>4, <2>3, <2>4
    <2> HIDE DEF T
    <2>6. Final(i, j)
        BY <2>3, <2>5
    <2> QED BY <2>3, <2>6, Zenon
<1>6. \A i \in DOMAIN found : last(i) \in DOMAIN found /\ found[last(i)].name = found[i].name
    BY <1>5
<1> HIDE DEF last, Final
<1>7. Ordered(list, engineList) \in Seq(Rows)
    <2>1. [i \in DOMAIN found |-> found[last(i)]] \in [1 .. Len(found) -> Rows]
        BY <1>4, <1>6
    <2> QED BY <1>2, <1>4, <2>1
<1>8. ASSUME Distinct(list) PROVE Ordered(list, engineList) = found
    <2>1. \A i \in DOMAIN found : last(i) = i
        BY <1>3, <1>6, <1>8 DEF Distinct
    <2>2. [i \in DOMAIN found |-> found[last(i)]] = [i \in DOMAIN found |-> found[i]]
        BY <2>1, Zenon
    <2>3. found = [i \in DOMAIN found |-> found[i]]
        BY <1>1
    <2> QED BY <1>2, <2>2, <2>3
<1> QED BY <1>7, <1>8 DEF found

-------------------------------------------------------------------------------
(* The invariant. *)

Profiles == [codecs : Seq(Rows), dtmf : Methods]

\* What is offered is what the profile in force enables, as far as the engine has it; the
\* engine's list is then the profile's, cut to the names the engine had.
OfferIsOfProfile ==
    engineOn /\ inForce.codecs # << >> /\ Distinct(inForce.codecs) =>
        payloads = WithNamesIn(inForce.codecs, Range(NamesOf(payloads)))

\* The inductive invariant.
DInv ==
    /\ engineOn \in BOOLEAN /\ payloads \in Seq(Rows)
    /\ inForce \in Profiles /\ onDisk \in Profiles
    /\ screen \in [open : BOOLEAN, rows : Seq(Rows)]
    /\ dtmfFlags \in [rfc2833 : BOOLEAN, info : BOOLEAN] /\ sdk \subseteq Names
    /\ screen.open => Names \subseteq Range(NamesOf(screen.rows))
    /\ OfferIsOfProfile

\* The part of it that a step of the screen leaves to the screen.
ScreenOK ==
    /\ screen \in [open : BOOLEAN, rows : Seq(Rows)]
    /\ screen.open => Names \subseteq Range(NamesOf(screen.rows))

\* Closing the screen empties it.
LEMMA ClosedIsOK == ClosedScreen \in [open : BOOLEAN, rows : Seq(Rows)] /\ ClosedScreen.open = FALSE
BY NoEntries DEF ClosedScreen

\* The flags the engine is told are flags.
LEMMA FlagsTyped == \A method : Flags(method) \in [rfc2833 : BOOLEAN, info : BOOLEAN]
BY DEF Flags

\* A list cut to the names of an engine, cut again to the names it then has, stays as it is.
LEMMA CutTwice ==
    ASSUME NEW list \in Seq(Rows), NEW names
    PROVE  WithNamesIn(list, Range(NamesOf(WithNamesIn(list, names)))) = WithNamesIn(list, names)
<1> DEFINE cut == WithNamesIn(list, names)
<1>1. Range(cut) = {r \in Range(list) : r.name \in names}
    BY ByName
<1>2. Range(NamesOf(cut)) = {r.name : r \in Range(cut)}
    BY NamesAre
<1>3. {r \in Range(list) : r.name \in Range(NamesOf(cut))} = {r \in Range(list) : r.name \in names}
    BY <1>1, <1>2
<1> HIDE DEF cut
<1>4. WithNamesIn(list, Range(NamesOf(cut))) = WithNamesIn(list, names)
    BY <1>3, Zenon DEF WithNamesIn
<1> QED BY <1>4 DEF cut

\* A profile applied to an engine leaves it with a list of codecs that is the profile's, with
\* the names the engine had.
LEMMA AppliedList ==
    ASSUME NEW list \in Seq(Rows), NEW engineList \in Seq(Rows), NEW new,
           new = IF list = << >> THEN engineList ELSE Ordered(list, engineList)
    PROVE  /\ new \in Seq(Rows)
           /\ list # << >> /\ Distinct(list) => new = WithNamesIn(list, Range(NamesOf(new)))
<1>1. CASE list = << >>
    BY <1>1
<1>2. CASE list # << >>
    <2>1. new \in Seq(Rows)
        BY <1>2, OrderedTyped
    <2>2. ASSUME Distinct(list) PROVE new = WithNamesIn(list, Range(NamesOf(new)))
        <3>1. new = WithNamesIn(list, Range(NamesOf(engineList)))
            BY <1>2, <2>2, OrderedTyped
        <3> QED BY <3>1, CutTwice
    <2> QED BY <2>1, <2>2
<1> QED BY <1>1, <1>2

\* applyProfile() puts the profile in force: the engine's list and flags are those it asks for.
LEMMA AppliedProfile ==
    ASSUME DInv, NEW profile \in Profiles, AppliesCodecs(profile), engineOn' = engineOn
    PROVE  /\ payloads' \in Seq(Rows) /\ inForce' \in Profiles
           /\ dtmfFlags' \in [rfc2833 : BOOLEAN, info : BOOLEAN]
           /\ OfferIsOfProfile'
<1>1. /\ inForce' = profile /\ dtmfFlags' = Flags(profile.dtmf)
      /\ payloads' = IF profile.codecs = << >> THEN payloads ELSE Ordered(profile.codecs, payloads)
    BY DEF AppliesCodecs
<1>2. profile.codecs \in Seq(Rows) /\ payloads \in Seq(Rows)
    BY DEF DInv, Profiles
<1>3. /\ payloads' \in Seq(Rows)
      /\ profile.codecs # << >> /\ Distinct(profile.codecs) =>
             payloads' = WithNamesIn(profile.codecs, Range(NamesOf(payloads')))
    BY <1>1, <1>2, AppliedList
<1>4. OfferIsOfProfile'
    BY <1>1, <1>3, Zenon DEF OfferIsOfProfile
<1> QED BY <1>1, <1>3, <1>4, FlagsTyped, Zenon

\* The program starts without an engine, with a default profile on disk and the screen closed.
LEMMA DInvInit == CodecsInit => DInv
<1> SUFFICES ASSUME CodecsInit PROVE DInv
    OBVIOUS
<1>1. [codecs |-> << >>, dtmf |-> "rfc2833"] \in Profiles
    BY NoEntries, CodecsAssumption DEF Profiles
<1>2. sdk \subseteq Names
    BY DEF CodecsInit
<1> QED BY <1>1, <1>2, NoEntries, ClosedIsOK, FlagsTyped, Zenon DEF CodecsInit, DInv, OfferIsOfProfile

\* An edit of the rows, a click or a drag, leaves codecs, and a row for every one.
LEMMA EditedRows ==
    ASSUME DInv, NEW i \in DOMAIN screen.rows, Toggles(i) \/ Drags(i)
    PROVE  ScreenOK'
<1> DEFINE rows == screen.rows
<1>0. /\ rows \in Seq(Rows) /\ Len(rows) \in Nat /\ DOMAIN rows = 1 .. Len(rows)
      /\ rows \in [1 .. Len(rows) -> Rows] /\ screen.open \in BOOLEAN
    BY LenProperties DEF DInv
<1>1. ASSUME NEW list \in Seq(Rows), Edits(list),
             \A r \in Range(rows) : \E s \in Range(list) : s.name = r.name
      PROVE  ScreenOK'
    <2>1. screen.open = TRUE /\ screen' = [screen EXCEPT !.rows = list]
        BY <1>0, <1>1 DEF Edits
    <2>2. screen' \in [open : BOOLEAN, rows : Seq(Rows)] /\ screen'.rows = list
        BY <2>1 DEF DInv
    <2>3. Names \subseteq Range(NamesOf(rows))
        BY <2>1 DEF DInv
    <2>4. Range(NamesOf(rows)) = {r.name : r \in Range(rows)} /\ Range(NamesOf(list)) = {r.name : r \in Range(list)}
        BY NamesAre
    <2> HIDE DEF rows
    <2>5. Names \subseteq Range(NamesOf(list))
        BY <1>1, <2>3, <2>4
    <2> QED BY <2>2, <2>5 DEF ScreenOK
<1>2. CASE Toggles(i)
    <2> DEFINE r == [rows[i] EXCEPT !.on = ~rows[i].on]
               list == [rows EXCEPT ![i] = r]
    <2>1. rows[i] \in Rows
        BY <1>0
    <2>2. r \in Rows /\ r.name = rows[i].name
        BY <2>1 DEF Rows
    <2>3. Edits(list)
        BY <1>2 DEF Toggles
    <2> HIDE DEF r, rows
    <2>4. list \in [1 .. Len(rows) -> Rows]
        BY <1>0, <2>2
    <2>5. list \in Seq(Rows) /\ DOMAIN list = DOMAIN rows
        BY <1>0, <2>4
    <2>6. \A j \in DOMAIN rows : list[j].name = rows[j].name
        BY <1>0, <2>2
    <2> HIDE DEF list
    <2>7. \A s \in Range(rows) : \E t \in Range(list) : t.name = s.name
        BY <2>5, <2>6, Zenon DEF Range
    <2> QED BY <1>1, <2>3, <2>5, <2>7
<1>3. CASE Drags(i)
    <2> DEFINE list == [rows EXCEPT ![i] = rows[i + 1], ![i + 1] = rows[i]]
    <2>1. i \in DOMAIN rows /\ i + 1 \in DOMAIN rows /\ Edits(list)
        BY <1>3 DEF Drags
    <2> HIDE DEF rows
    <2>2. /\ list \in [1 .. Len(rows) -> Rows]
          /\ list[i] = rows[i + 1] /\ list[i + 1] = rows[i]
          /\ \A j \in DOMAIN rows : j # i /\ j # i + 1 => list[j] = rows[j]
        <3>1. i \in 1 .. Len(rows) /\ i + 1 \in 1 .. Len(rows) /\ i # i + 1
            BY <1>0, <2>1
        <3>2. rows[i] \in Rows /\ rows[i + 1] \in Rows
            BY <1>0, <3>1
        <3> QED BY <1>0, <3>1, <3>2
    <2> HIDE DEF list
    <2>3. list \in Seq(Rows) /\ DOMAIN list = DOMAIN rows
        BY <1>0, <2>2
    <2>4. \A j \in DOMAIN rows : \E k \in DOMAIN rows : list[k] = rows[j]
        BY <2>1, <2>2, Zenon
    <2>5. \A s \in Range(rows) : \E t \in Range(list) : t.name = s.name
        BY <2>3, <2>4, Zenon DEF Range
    <2> QED BY <1>1, <2>1, <2>3, <2>5
<1> QED BY <1>2, <1>3

\* Opening, saving and importing, starts and stops keep the invariant.
LEMMA DInvStep == DInv /\ [CodecsNext]_codecsVars => DInv'
<1> SUFFICES ASSUME DInv, [CodecsNext]_codecsVars PROVE DInv'
    OBVIOUS
<1>0. ASSUME ScreenOK', UNCHANGED << engineOn, sdk, payloads, inForce, onDisk, dtmfFlags >>
      PROVE  DInv'
    BY <1>0, Zenon DEF ScreenOK, DInv, OfferIsOfProfile
<1>1. CASE OpensScreen
    <2> DEFINE list == IF inForce.codecs = << >> THEN payloads ELSE inForce.codecs
    <2>1. list \in Seq(Rows)
        BY DEF DInv, Profiles
    <2>2. screen' = [open |-> TRUE, rows |-> Shown(list)]
        BY <1>1 DEF OpensScreen
    <2> HIDE DEF list
    <2>3. Shown(list) \in Seq(Rows) /\ Names \subseteq Range(NamesOf(Shown(list)))
        BY <2>1, ShownListsAll
    <2>4. ScreenOK'
        BY <2>2, <2>3 DEF ScreenOK
    <2> QED BY <1>0, <1>1, <2>4 DEF OpensScreen
<1>2. CASE ClosesScreen
    <2>1. ScreenOK'
        BY <1>2, ClosedIsOK DEF ClosesScreen, ScreenOK
    <2> QED BY <1>0, <1>2, <2>1 DEF ClosesScreen
<1>3. ASSUME NEW i \in DOMAIN screen.rows, Toggles(i) \/ Drags(i) PROVE DInv'
    <2>1. ScreenOK'
        BY <1>3, EditedRows
    <2> QED BY <1>0, <1>3, <2>1 DEF Toggles, Drags, Edits
<1>4. ASSUME NEW profile \in Profiles, AppliesCodecs(profile), SavesProfile(profile),
             engineOn' = engineOn, sdk' = sdk, ScreenOK'
      PROVE  DInv'
    <2>1. /\ payloads' \in Seq(Rows) /\ inForce' \in Profiles
          /\ dtmfFlags' \in [rfc2833 : BOOLEAN, info : BOOLEAN]
          /\ OfferIsOfProfile'
        BY <1>4, AppliedProfile
    <2>2. onDisk' \in Profiles
        BY <1>4 DEF SavesProfile
    <2> QED BY <1>4, <2>1, <2>2, Zenon DEF DInv, ScreenOK
<1>5. ASSUME NEW method \in Methods, SavesScreen(method) PROVE DInv'
    <2> DEFINE profile == [codecs |-> screen.rows, dtmf |-> method]
    <2>1. profile \in Profiles
        BY DEF DInv, Profiles
    <2>2. /\ AppliesCodecs(profile) /\ SavesProfile(profile) /\ engineOn' = engineOn /\ sdk' = sdk
          /\ screen' = ClosedScreen
        BY <1>5 DEF SavesScreen
    <2>3. ScreenOK'
        BY <2>2, ClosedIsOK DEF ScreenOK
    <2> HIDE DEF profile
    <2> QED BY <1>4, <2>1, <2>2, <2>3
<1>6. ASSUME NEW method \in Methods, NEW file \in FileLists, Imports(file, method) PROVE DInv'
    <2> DEFINE list == CodecsFromJson(file)
               profile == [codecs |-> list, dtmf |-> method]
    <2>1. list \in Seq(Rows)
        BY FilesBringCodecs
    <2>2. /\ AppliesCodecs(profile) /\ SavesProfile(profile) /\ engineOn' = engineOn /\ sdk' = sdk
          /\ screen.open
          /\ screen' = IF list = << >> THEN screen ELSE [screen EXCEPT !.rows = Shown(list)]
        BY <1>6 DEF Imports
    <2> HIDE DEF list
    <2>3. profile \in Profiles
        BY <2>1 DEF Profiles
    <2> HIDE DEF profile
    <2>4. ScreenOK'
        <3>1. CASE list = << >>
            BY <2>2, <3>1, Zenon DEF DInv, ScreenOK
        <3>2. CASE list # << >>
            <4> DEFINE shown == Shown(list)
            <4>1. shown \in Seq(Rows) /\ Names \subseteq Range(NamesOf(shown))
                BY <2>1, ShownListsAll
            <4>2. screen' = [screen EXCEPT !.rows = shown]
                BY <2>2, <3>2
            <4> HIDE DEF shown
            <4>3. screen' \in [open : BOOLEAN, rows : Seq(Rows)] /\ screen'.rows = shown
                BY <4>1, <4>2 DEF DInv
            <4> QED BY <4>1, <4>3 DEF ScreenOK
        <3> QED BY <3>1, <3>2
    <2> QED BY <1>4, <2>2, <2>3, <2>4
<1>7. ASSUME NEW built \in SUBSET Names, EngineStarts(built) PROVE DInv'
    <2> DEFINE pruned == WithNamesIn(Default, built)
    <2>1. /\ engineOn' = TRUE /\ inForce' = onDisk /\ onDisk' = onDisk /\ screen' = screen
          /\ dtmfFlags' = Flags(onDisk.dtmf) /\ sdk' = built
          /\ payloads' = IF onDisk.codecs = << >> THEN pruned ELSE Ordered(onDisk.codecs, pruned)
        BY <1>7 DEF EngineStarts
    <2>2. onDisk.codecs \in Seq(Rows) /\ pruned \in Seq(Rows)
        BY DefaultIs, ByName DEF DInv, Profiles
    <2> HIDE DEF pruned
    <2>3. /\ payloads' \in Seq(Rows)
          /\ onDisk.codecs # << >> /\ Distinct(onDisk.codecs) =>
                 payloads' = WithNamesIn(onDisk.codecs, Range(NamesOf(payloads')))
        BY <2>1, <2>2, AppliedList
    <2>4. OfferIsOfProfile'
        BY <2>1, <2>3, Zenon DEF OfferIsOfProfile
    <2>5. sdk' \subseteq Names
        BY <2>1
    <2> QED BY <2>1, <2>3, <2>4, <2>5, FlagsTyped, Zenon DEF DInv
<1>8. CASE EngineStops
    <2>1. sdk' \subseteq Names
        BY <1>8 DEF EngineStops
    <2> QED BY <1>8, <2>1, NoEntries, ClosedIsOK, Zenon DEF EngineStops, DInv, OfferIsOfProfile
<1>9. CASE UNCHANGED codecsVars
    BY <1>9, Zenon DEF codecsVars, DInv, OfferIsOfProfile
<1> QED BY <1>1, <1>2, <1>3, <1>5, <1>6, <1>7, <1>8, <1>9, Zenon DEF CodecsNext

\* The inductive invariant of the codecs.
THEOREM CodecsSound == CodecsSpec => []DInv
BY DInvInit, DInvStep, PTL DEF CodecsSpec

-------------------------------------------------------------------------------
(* The properties. *)

\* The lists hold codecs of this program only.
THEOREM CodecsTypeCorrect == CodecsSpec => []CodecsTypeOK
<1>1. DInv => CodecsTypeOK
    BY DEF DInv, CodecsTypeOK, Profiles
<1> QED BY <1>1, CodecsSound, PTL

\* While the screen is open every supported codec has a row, whatever was imported.
THEOREM NoCodecVanishes == CodecsSpec => []ScreenListsEveryCodec
<1>1. DInv => ScreenListsEveryCodec
    BY DEF DInv, ScreenListsEveryCodec
<1> QED BY <1>1, CodecsSound, PTL

\* Names are different in a list exactly if the list of its names repeats none.
LEMMA DistinctNames == \A q : IsInjective(NamesOf(q)) <=> Distinct(q)
<1>1. ASSUME NEW q PROVE IsInjective(NamesOf(q)) <=> Distinct(q)
    <2>1. DOMAIN NamesOf(q) = DOMAIN q /\ \A i \in DOMAIN q : NamesOf(q)[i] = q[i].name
        BY DEF NamesOf
    <2> QED BY <2>1, Zenon DEF IsInjective, Distinct
<1> QED BY <1>1

\* What is offered in a call is what the profile enables, in its order, as far as the engine
\* still has it.
THEOREM OfferIsTheProfiles == CodecsSpec => []OfferFollowsProfile
<1>1. DInv => OfferFollowsProfile
    BY DistinctNames, Zenon DEF DInv, OfferIsOfProfile, OfferFollowsProfile
<1> QED BY <1>1, CodecsSound, PTL

\* What a file that was exported brings back: the enabled rows, all of them.
LEMMA ExportedIsImported ==
    ASSUME NEW list \in Seq(Rows)
    PROVE  /\ CodecsFromJson(On(list)) = On(list)
           /\ On(On(list)) = On(list)
<1> DEFINE on == On(list)
           marked == {r \in Range(list) : r.on}
<1>1. on \in Seq(Rows) /\ Range(on) = Range(list) \cap marked
    BY FilteredKeeps DEF On
<1>2. Range(on) \subseteq Rows
    BY <1>1, EntriesOf
<1>3. \A r \in Range(on) : r.name \in Names /\ r.on
    BY <1>1, <1>2 DEF Rows
<1> HIDE DEF on
<1>4. WithNamesIn(on, Names) = on
    <2>1. Range(on) \subseteq {r \in Range(on) : r.name \in Names}
        BY <1>3
    <2> QED BY <1>1, <2>1, FilteredAll DEF WithNamesIn
<1>5. On(on) = on
    <2>1. Range(on) \subseteq {r \in Range(on) : r.on}
        BY <1>3
    <2> QED BY <1>1, <2>1, FilteredAll DEF On
<1> QED BY <1>4, <1>5 DEF CodecsFromJson, on

\* Two profiles that offer the same codecs and are alike in everything else.
Alike(profile, back) ==
    /\ Enabled(back.codecs) = Enabled(profile.codecs)
    /\ back = [profile EXCEPT !.codecs = back.codecs]

\* An export of a profile, imported again, is like it.
LEMMA ComesBack ==
    ASSUME NEW rows \in Seq(Rows), NEW transport \in Transports, NEW proxy, NEW profile, NEW back,
           profile = [codecs |-> rows, dtmf |-> "info", transport |-> transport, proxy |-> proxy],
           back = Imported(Exported(profile))
    PROVE  Alike(profile, back)
<1>1. PICK on : on = On(rows)
    OBVIOUS
<1>2. CodecsFromJson(on) = on /\ On(on) = on
    BY <1>1, ExportedIsImported
<1>3. profile.codecs = rows /\ profile.dtmf = "info" /\ profile.transport = transport /\ profile.proxy = proxy
    OBVIOUS
<1>4. PICK file : file = Exported(profile)
    OBVIOUS
<1>5. file = [codecs |-> on, dtmf |-> "info", transport |-> transport, proxy |-> proxy, push |-> FALSE]
    BY <1>1, <1>3, <1>4 DEF Exported
<1>6. /\ file.codecs = on /\ file.dtmf = "info" /\ file.transport = transport /\ file.proxy = proxy
      /\ file.push = FALSE
    BY <1>5
<1>7. transport # ""
    BY DEF Transports
<1>8. back = [codecs |-> on, dtmf |-> "info", transport |-> transport, proxy |-> proxy]
    BY <1>2, <1>4, <1>6, <1>7, Zenon DEF Imported
<1>9. back.codecs = on /\ back = [profile EXCEPT !.codecs = on]
    BY <1>8
<1>10. Enabled(on) = Enabled(rows)
    BY <1>1, <1>2 DEF Enabled
<1> QED BY <1>3, <1>9, <1>10 DEF Alike

\* A profile exported from the screen and imported again offers the same codecs in the same order
\* and reaches the server the same way.
THEOREM ProfileRoundTrip == CodecsSpec => []RoundTrip
<1>1. ASSUME DInv PROVE RoundTrip
    <2>1. screen.rows \in Seq(Rows)
        BY <1>1 DEF DInv
    <2> SUFFICES ASSUME NEW transport \in Transports, NEW proxy \in {"", "proxy"}
                 PROVE  LET profile == [codecs |-> screen.rows, dtmf |-> "info",
                                        transport |-> transport, proxy |-> proxy]
                        IN  LET back == Imported(Exported(profile))
                            IN  /\ Enabled(back.codecs) = Enabled(profile.codecs)
                                /\ back = [profile EXCEPT !.codecs = back.codecs]
        BY Zenon DEF RoundTrip
    <2> DEFINE profile == [codecs |-> screen.rows, dtmf |-> "info",
                           transport |-> transport, proxy |-> proxy]
               back == Imported(Exported(profile))
    <2>2. profile = [codecs |-> screen.rows, dtmf |-> "info", transport |-> transport, proxy |-> proxy]
        OBVIOUS
    <2>3. back = Imported(Exported(profile))
        OBVIOUS
    <2> HIDE DEF profile, back
    <2>4. Alike(profile, back)
        BY <2>1, <2>2, <2>3, ComesBack, Zenon
    <2> QED BY <2>4, Zenon DEF profile, back, Alike
<1> QED BY <1>1, CodecsSound, PTL

\* The engine starts with the codecs of the program that it was built with.
LEMMA PrunedNames ==
    ASSUME NEW built \in SUBSET Names
    PROVE  Range(NamesOf(WithNamesIn(Default, built))) = built
<1>1. Range(WithNamesIn(Default, built)) = {r \in Range(Default) : r.name \in built}
    BY DefaultIs, ByName
<1>2. /\ Range(NamesOf(WithNamesIn(Default, built))) = {r.name : r \in Range(WithNamesIn(Default, built))}
      /\ {r.name : r \in Range(Default)} = Names
    BY DefaultIs, NamesAre, Zenon
<1> QED BY <1>1, <1>2

\* A start offers what the saved profile enables, or everything without one, as far as the engine
\* was built with it and whatever it had forgotten before.
THEOREM RestartOffers == CodecsSpec => RestartKeepsOffer
<1> DEFINE Offers ==
        ~engineOn /\ engineOn' /\ IsInjective(NamesOf(onDisk.codecs)) =>
          LET saved == IF onDisk.codecs = << >> THEN Default ELSE onDisk.codecs
          IN  Enabled(payloads') = Enabled(WithNamesIn(saved, sdk'))
<1>1. ASSUME DInv, [CodecsNext]_codecsVars PROVE [Offers]_codecsVars
    <2> DEFINE saved == IF onDisk.codecs = << >> THEN Default ELSE onDisk.codecs
    <2> SUFFICES ASSUME ~engineOn, engineOn', IsInjective(NamesOf(onDisk.codecs))
                 PROVE  Enabled(payloads') = Enabled(WithNamesIn(saved, sdk'))
        BY Zenon
    <2>1. PICK built \in SUBSET Names : EngineStarts(built)
        BY <1>1, Zenon DEF CodecsNext, codecsVars, OpensScreen, ClosesScreen, Toggles, Drags, Edits,
            SavesScreen, Imports, EngineStops
    <2>2. /\ sdk' = built
          /\ payloads' = IF onDisk.codecs = << >> THEN WithNamesIn(Default, built)
                         ELSE Ordered(onDisk.codecs, WithNamesIn(Default, built))
        BY <2>1 DEF EngineStarts
    <2>3. onDisk.codecs \in Seq(Rows) /\ Distinct(onDisk.codecs)
        BY <1>1, DistinctNames DEF DInv, Profiles
    <2>4. CASE onDisk.codecs = << >>
        BY <2>2, <2>4
    <2>5. CASE onDisk.codecs # << >>
        <3>1. payloads' = WithNamesIn(onDisk.codecs, built)
            BY <2>2, <2>3, <2>5, OrderedTyped, PrunedNames
        <3> QED BY <2>2, <2>5, <3>1
    <2> QED BY <2>4, <2>5
<1> HIDE DEF Offers
<1>2. CodecsSpec => [][Offers]_codecsVars
    BY <1>1, CodecsSound, PTL DEF CodecsSpec
<1> QED BY <1>2 DEF RestartKeepsOffer, Offers

=============================================================================
