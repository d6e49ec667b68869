-------------------------- MODULE SsrServer_proofs --------------------------
(***************************************************************************)
(* Proofs about SsrServer, for any number of connections, requests and     *)
(* bundles, any streams and any size of the cache: no request gets lost    *)
(* between the framing and its answer, what a render is answered is its    *)
(* own, and a render runs code prepared for its own set of bundles and not *)
(* flushed since.                                                          *)
(***************************************************************************)
EXTENDS SsrServer, SequenceTheorems, FiniteSetTheorems,
        WellFoundedInduction, TLAPS

-----------------------------------------------------------------------------
(* What adding and taking an element does to an array.                     *)
LEMMA RemoveAtPositions ==
  ASSUME NEW S, NEW s \in Seq(S), NEW i \in DOMAIN s
  PROVE  /\ RemoveAt(s, i) \in Seq(S)
         /\ Len(RemoveAt(s, i)) = Len(s) - 1
         /\ \A j \in DOMAIN RemoveAt(s, i) :
              RemoveAt(s, i)[j] = IF j < i THEN s[j] ELSE s[j + 1]
  <1> DEFINE l == SubSeq(s, 1, i - 1)
             r == SubSeq(s, i + 1, Len(s))
  <1>1. l \in Seq(S) /\ Len(l) = i - 1 /\ \A j \in 1 .. (i - 1) : l[j] = s[j]
    BY SubSeqProperties
  <1>2. /\ r \in Seq(S) /\ Len(r) = Len(s) - i
        /\ \A j \in 1 .. (Len(s) - i) : r[j] = s[i + j]
    BY SubSeqProperties
  <1> HIDE DEF l, r
  <1>3. /\ l \o r \in Seq(S)
        /\ Len(l \o r) = Len(s) - 1
        /\ \A j \in 1 .. (Len(s) - 1) :
             (l \o r)[j] = IF j < i THEN s[j] ELSE s[j + 1]
    BY <1>1, <1>2
  <1>4. RemoveAt(s, i) = l \o r
    BY DEF RemoveAt, l, r
  <1> QED BY <1>3, <1>4

NoRepeats(s) == \A i, j \in DOMAIN s : s[i] = s[j] => i = j

LEMMA AppendElements ==
  ASSUME NEW S, NEW s \in Seq(S), NEW e \in S
  PROVE  /\ Append(s, e) \in Seq(S) /\ Append(s, e) # <<>>
         /\ ToSet(Append(s, e)) = ToSet(s) \cup {e}
         /\ NoRepeats(s) /\ e \notin ToSet(s) => NoRepeats(Append(s, e))
  <1> DEFINE t == Append(s, e)
  <1>1. /\ t \in Seq(S) /\ Len(t) = Len(s) + 1
        /\ \A i \in 1 .. Len(s) : t[i] = s[i]
        /\ t[Len(s) + 1] = e
    BY AppendProperties
  <1> HIDE DEF t
  <1>2. DOMAIN t = 1 .. (Len(s) + 1) /\ DOMAIN s = 1 .. Len(s) /\ Len(s) \in Nat
    BY <1>1
  <1>3. ToSet(t) = ToSet(s) \cup {e}
    <2>1. \A i \in DOMAIN t : t[i] \in ToSet(s) \cup {e}
      BY <1>1, <1>2 DEF ToSet
    <2>2. \A i \in DOMAIN s : s[i] \in ToSet(t)
      BY <1>1, <1>2 DEF ToSet
    <2>3. e \in ToSet(t)
      BY <1>1, <1>2 DEF ToSet
    <2> QED BY <2>1, <2>2, <2>3 DEF ToSet
  <1>4. NoRepeats(s) /\ e \notin ToSet(s) => NoRepeats(t)
    BY <1>1, <1>2 DEF NoRepeats, ToSet
  <1>5. t # <<>>
    BY <1>2
  <1> QED BY <1>1, <1>3, <1>4, <1>5 DEF t

LEMMA TailElements ==
  ASSUME NEW S, NEW s \in Seq(S), s # <<>>
  PROVE  /\ Tail(s) \in Seq(S) /\ Head(s) \in S
         /\ ToSet(s) = ToSet(Tail(s)) \cup {Head(s)}
  <1> DEFINE t == Tail(s)
  <1>1. /\ t \in Seq(S) /\ Len(t) = Len(s) - 1 /\ Head(s) = s[1] /\ Len(s) \in Nat
        /\ Len(s) > 0 /\ \A i \in 1 .. Len(t) : t[i] = s[i + 1]
    BY HeadTailProperties
  <1> HIDE DEF t
  <1>2. DOMAIN t = 1 .. (Len(s) - 1) /\ DOMAIN s = 1 .. Len(s)
    BY <1>1
  <1>3. \A i \in DOMAIN t : t[i] \in ToSet(s)
    BY <1>1, <1>2 DEF ToSet
  <1>4. \A i \in DOMAIN s : i # 1 => s[i] = t[i - 1] /\ i - 1 \in DOMAIN t
    BY <1>1, <1>2
  <1>5. s[1] \in ToSet(s) /\ s[1] \in S
    BY <1>1, <1>2 DEF ToSet
  <1>6. ToSet(s) \subseteq ToSet(t) \cup {s[1]}
    BY <1>4 DEF ToSet
  <1>7. ToSet(t) \subseteq ToSet(s)
    BY <1>3 DEF ToSet
  <1> QED BY <1>1, <1>5, <1>6, <1>7 DEF t

LEMMA TailOfDistinct ==
  ASSUME NEW S, NEW s \in Seq(S), s # <<>>, NoRepeats(s)
  PROVE  NoRepeats(Tail(s)) /\ Head(s) \notin ToSet(Tail(s))
  <1> DEFINE t == Tail(s)
  <1>1. /\ t \in Seq(S) /\ Len(t) = Len(s) - 1 /\ Head(s) = s[1] /\ Len(s) \in Nat
        /\ Len(s) > 0 /\ \A i \in 1 .. Len(t) : t[i] = s[i + 1]
    BY HeadTailProperties
  <1> HIDE DEF t
  <1>2. DOMAIN t = 1 .. (Len(s) - 1) /\ DOMAIN s = 1 .. Len(s)
    BY <1>1
  <1>3. NoRepeats(t)
    BY <1>1, <1>2 DEF NoRepeats
  <1>4. \A i \in DOMAIN t : t[i] # s[1]
    BY <1>1, <1>2 DEF NoRepeats
  <1> QED BY <1>1, <1>3, <1>4 DEF ToSet, t

-----------------------------------------------------------------------------
(* Induction on Nat, for a set instead of a predicate.                     *)
LEMMA NatSetInduction ==
  ASSUME NEW S, 0 \in S, \A n \in Nat : n \in S => n + 1 \in S
  PROVE  \A n \in Nat : n \in S
  <1> DEFINE T == {n \in Nat : n \notin S}
  <1>1. SUFFICES ASSUME T # {}
                 PROVE  FALSE
    OBVIOUS
  <1>2. PICK m \in T : \A k \in T : ~ (k < m)
    <2>1. \E x \in T : \A y \in T : <<y, x>> \notin OpToRel(<, Nat)
      BY <1>1, NatLessThanWellFounded, WFMin
    <2> QED BY <2>1 DEF OpToRel
  <1>3. m # 0 /\ m \in Nat
    OBVIOUS
  <1>4. m - 1 \in Nat /\ m - 1 < m /\ (m - 1) + 1 = m
    BY <1>3
  <1>5. m - 1 \in S
    BY <1>2, <1>4
  <1> QED BY <1>4, <1>5

(* There is a function defined by recursion on Nat: what unfolds the       *)
(* recursive function of a model.                                          *)
LEMMA RecursionOnNat ==
  ASSUME NEW H, NEW h0 \in H, NEW F \in [H -> H]
  PROVE  \E h \in [Nat -> H] : h[0] = h0 /\ \A n \in Nat : h[n + 1] = F[h[n]]
  <1> DEFINE Good(g, n) == g \in [0 .. n -> H] /\ g[0] = h0 /\ \A i \in Nat : i < n => g[i + 1] = F[g[i]]
  <1>1. \A n \in Nat : \E g \in [0 .. n -> H] : Good(g, n)
    <2> DEFINE S == {n \in Nat : \E g \in [0 .. n -> H] : Good(g, n)}
    <2>1. 0 \in S
      <3> DEFINE g0 == [i \in 0 .. 0 |-> h0]
      <3>1. g0 \in [0 .. 0 -> H] /\ g0[0] = h0
        OBVIOUS
      <3>2. \A i \in Nat : ~(i < 0)
        OBVIOUS
      <3>3. Good(g0, 0)
        BY <3>1, <3>2
      <3> QED BY <3>3
    <2>2. ASSUME NEW n \in Nat, n \in S
          PROVE  n + 1 \in S
      <3>1. PICK g \in [0 .. n -> H] : Good(g, n)
        BY <2>2
      <3> DEFINE k == [i \in 0 .. n + 1 |-> IF i = n + 1 THEN F[g[n]] ELSE g[i]]
      <3>2. g[n] \in H /\ F[g[n]] \in H
        OBVIOUS
      <3>3. k \in [0 .. n + 1 -> H]
        BY <3>2
      <3>4. k[0] = h0
        BY <3>1
      <3>5. ASSUME NEW i \in Nat, i < n + 1
            PROVE  k[i + 1] = F[k[i]]
        <4>1. CASE i = n
          BY <4>1
        <4>2. CASE i < n
          BY <3>1, <4>2
        <4> QED BY <3>5, <4>1, <4>2
      <3>6. Good(k, n + 1)
        BY <3>3, <3>4, <3>5
      <3>7. \E f \in [0 .. n + 1 -> H] : Good(f, n + 1)
        <4> HIDE DEF k, Good
        <4> QED BY <3>3, <3>6
      <3>8. n + 1 \in Nat
        OBVIOUS
      <3> HIDE DEF k, Good
      <3> QED BY <3>7, <3>8
    <2> HIDE DEF S
    <2>3. \A n \in Nat : n \in S
      BY <2>1, <2>2, NatSetInduction
    <2> QED BY <2>3 DEF S
  <1>2. ASSUME NEW n \in Nat, NEW m \in Nat, n <= m, NEW g, NEW k, Good(g, n), Good(k, m)
        PROVE  \A i \in Nat : i <= n => g[i] = k[i]
    <2> DEFINE S == {i \in Nat : i <= n => g[i] = k[i]}
    <2>1. 0 \in S
      BY <1>2
    <2>2. ASSUME NEW i \in Nat, i \in S
          PROVE  i + 1 \in S
      <3>1. SUFFICES ASSUME i + 1 <= n
                     PROVE  g[i + 1] = k[i + 1]
        OBVIOUS
      <3>2. i < n /\ i < m /\ i <= n
        BY <3>1, <1>2
      <3>3. g[i] = k[i] /\ g[i + 1] = F[g[i]] /\ k[i + 1] = F[k[i]]
        BY <1>2, <2>2, <3>2
      <3> QED BY <3>3
    <2> HIDE DEF S
    <2>3. \A i \in Nat : i \in S
      BY <2>1, <2>2, NatSetInduction
    <2> QED BY <2>3 DEF S
  <1> DEFINE G(n) == CHOOSE g \in [0 .. n -> H] : Good(g, n)
             h == [n \in Nat |-> G(n)[n]]
  <1>3. ASSUME NEW n \in Nat
        PROVE  Good(G(n), n)
    BY <1>1
  <1> HIDE DEF G
  <1>4. h \in [Nat -> H]
    <2>1. \A n \in Nat : G(n)[n] \in H
      BY <1>3
    <2> QED BY <2>1
  <1>5. h[0] = h0
    BY <1>3
  <1>6. ASSUME NEW n \in Nat
        PROVE  h[n + 1] = F[h[n]]
    <2>1. Good(G(n), n) /\ Good(G(n + 1), n + 1) /\ n + 1 \in Nat /\ n <= n + 1
      BY <1>3
    <2> HIDE DEF Good
    <2>2. G(n)[n] = G(n + 1)[n]
      BY <1>2, <2>1
    <2>3. G(n + 1)[n + 1] = F[G(n + 1)[n]]
      BY <2>1 DEF Good
    <2> QED BY <2>1, <2>2, <2>3
  <1> QED BY <1>4, <1>5, <1>6

(* The same, with the function's equations under a name.                   *)
Unrolls(h, h0, F, H) ==
  h \in [Nat -> H] /\ h[0] = h0 /\ \A n \in Nat : h[n + 1] = F[h[n]]

LEMMA UnrollsOnNat ==
  ASSUME NEW H, NEW h0 \in H, NEW F \in [H -> H]
  PROVE  \E h : Unrolls(h, h0, F, H)
  BY RecursionOnNat DEF Unrolls

-----------------------------------------------------------------------------
(* Positions: the first and the last of a set of them.                     *)
LEMMA LeastNat ==
  ASSUME NEW S \in SUBSET Nat, S # {}
  PROVE  \E m \in S : \A k \in S : m <= k
  <1>1. PICK m \in S : \A k \in S : <<k, m>> \notin OpToRel(<, Nat)
    BY NatLessThanWellFounded, WFMin
  <1>2. \A k \in S : ~ (k < m)
    BY <1>1 DEF OpToRel
  <1> QED BY <1>2

LEMMA MinIsLeast ==
  ASSUME NEW S \in SUBSET Nat, S # {}
  PROVE  Min(S) \in S /\ \A k \in S : Min(S) <= k
  BY LeastNat DEF Min

LEMMA MaxIsGreatest ==
  ASSUME NEW n \in Nat, NEW S \in SUBSET (1 .. n), S # {}
  PROVE  Max(S) \in S /\ \A k \in S : k <= Max(S)
  <1> DEFINE D == {n - k : k \in S}
  <1>1. D \in SUBSET Nat /\ D # {}
    <2>1. \A k \in S : n - k \in Nat
      OBVIOUS
    <2> QED BY <2>1
  <1>2. PICK d \in D : \A k \in D : d <= k
    BY <1>1, LeastNat
  <1>3. PICK m \in S : d = n - m
    OBVIOUS
  <1>4. \A k \in S : k <= m
    <2> SUFFICES ASSUME NEW k \in S PROVE k <= m
      OBVIOUS
    <2>1. n - k \in D
      OBVIOUS
    <2>2. n - m <= n - k
      BY <1>2, <1>3, <2>1
    <2>3. m \in 1 .. n /\ k \in 1 .. n
      OBVIOUS
    <2> QED BY <2>2, <2>3
  <1>5. \E x \in S : \A y \in S : x >= y
    <2>1. \A k \in S : m >= k
      BY <1>4
    <2> QED BY <2>1
  <1>6. \A y \in S : Max(S) >= y
    BY <1>5 DEF Max
  <1>7. Max(S) \in S
    BY <1>5 DEF Max
  <1> QED BY <1>6, <1>7

-----------------------------------------------------------------------------
(* What Without() leaves of an array: its elements but these, and none     *)
(* twice that was not there twice.                                         *)
Filters(w, s, these) ==
  /\ w[0] = <<>>
  /\ \A n \in 1 .. Len(s) :
       w[n] = IF s[n] \in these THEN w[n - 1] ELSE Append(w[n - 1], s[n])

LEMMA WithoutUnfolds ==
  ASSUME NEW s, NEW these, Len(s) \in Nat,
         NEW Q, <<>> \in Q, \A q \in Q : \A i \in 1 .. Len(s) : Append(q, s[i]) \in Q
  PROVE  \E w : Without(s, these) = w[Len(s)] /\ Filters(w, s, these)
  <1> DEFINE Walks(f) == f = [n \in 0 .. Len(s) |->
                                IF n = 0 THEN <<>>
                                ELSE IF s[n] \in these THEN f[n - 1] ELSE Append(f[n - 1], s[n])]
             w == CHOOSE f : Walks(f)
             H == Nat \X Q
             Longer(p) == p[1] + 1 <= Len(s) /\ s[p[1] + 1] \notin these
             F == [p \in H |-> <<p[1] + 1, IF Longer(p) THEN Append(p[2], s[p[1] + 1]) ELSE p[2]>>]
             h0 == <<0, <<>> >>
  <1>1. Without(s, these) = w[Len(s)]
    BY Zenon DEF Without
  <1>2. h0 \in H
    OBVIOUS
  <1>3. F \in [H -> H]
    <2> SUFFICES ASSUME NEW p \in H
                 PROVE  <<p[1] + 1, IF Longer(p) THEN Append(p[2], s[p[1] + 1]) ELSE p[2]>> \in H
      OBVIOUS
    <2>1. p[1] \in Nat /\ p[2] \in Q /\ p[1] + 1 \in Nat
      OBVIOUS
    <2>2. Longer(p) => p[1] + 1 \in 1 .. Len(s)
      BY <2>1
    <2>3. (IF Longer(p) THEN Append(p[2], s[p[1] + 1]) ELSE p[2]) \in Q
      <3> HIDE DEF Longer
      <3> QED BY <2>1, <2>2
    <2> HIDE DEF Longer
    <2> QED BY <2>1, <2>3
  <1>4. PICK h \in [Nat -> H] : h[0] = h0 /\ \A n \in Nat : h[n + 1] = F[h[n]]
    <2>1. \E h : Unrolls(h, h0, F, H)
      <3> HIDE DEF H, F, h0
      <3> QED BY <1>2, <1>3, UnrollsOnNat, Zenon
    <2> HIDE DEF H, F, h0
    <2> QED BY <2>1 DEF Unrolls
  <1>5. \A n \in Nat : h[n][1] = n
    <2> DEFINE T == {k \in Nat : h[k][1] = k}
    <2>1. 0 \in T
      BY <1>4
    <2>2. ASSUME NEW n \in Nat, n \in T PROVE n + 1 \in T
      <3>1. h[n] \in H /\ h[n + 1] = F[h[n]]
        BY <1>4
      <3> QED BY <3>1, <2>2
    <2> HIDE DEF T
    <2>3. \A n \in Nat : n \in T
      BY <2>1, <2>2, NatSetInduction
    <2> QED BY <2>3 DEF T
  <1> DEFINE f == [n \in 0 .. Len(s) |-> h[n][2]]
  <1>6. ASSUME NEW n \in 0 .. Len(s)
        PROVE  f[n] = IF n = 0 THEN <<>>
                      ELSE IF s[n] \in these THEN f[n - 1] ELSE Append(f[n - 1], s[n])
    <2>1. CASE n = 0
      BY <2>1, <1>4
    <2>2. CASE n # 0
      <3>1. n - 1 \in Nat /\ (n - 1) + 1 = n /\ n - 1 \in 0 .. Len(s) /\ n <= Len(s)
        BY <2>2
      <3>2. h[n] = F[h[n - 1]] /\ h[n - 1] \in H
        BY <1>4, <3>1
      <3>3. h[n - 1][1] = n - 1
        BY <1>5, <3>1
      <3>5. PICK p \in H : p = h[n - 1]
        BY <3>2
      <3>6. F[p] = <<p[1] + 1, IF Longer(p) THEN Append(p[2], s[p[1] + 1]) ELSE p[2]>>
        <4> HIDE DEF H, Longer
        <4> QED OBVIOUS
      <3>7. p[1] + 1 = n /\ (Longer(p) <=> s[n] \notin these)
        BY <3>1, <3>3, <3>5
      <3>8. F[p][2] = IF s[n] \in these THEN p[2] ELSE Append(p[2], s[n])
        <4> HIDE DEF H, Longer, F
        <4> QED BY <3>6, <3>7
      <3>4. h[n][2] = IF s[n] \in these THEN h[n - 1][2] ELSE Append(h[n - 1][2], s[n])
        <4> HIDE DEF H, F
        <4> QED BY <3>2, <3>5, <3>8
      <3> QED BY <2>2, <3>1, <3>4
    <2> QED BY <2>1, <2>2
  <1>7. Walks(f)
    <2> DEFINE v(n) == IF n = 0 THEN <<>>
                       ELSE IF s[n] \in these THEN f[n - 1] ELSE Append(f[n - 1], s[n])
    <2>1. f = [n \in 0 .. Len(s) |-> f[n]]
      OBVIOUS
    <2>2. \A n \in 0 .. Len(s) : f[n] = v(n)
      BY <1>6
    <2> HIDE DEF f, v
    <2>3. f = [n \in 0 .. Len(s) |-> v(n)]
      BY <2>1, <2>2
    <2> QED BY <2>3 DEF v
  <1>8. Walks(w)
    <2> HIDE DEF Walks, f
    <2> QED BY <1>7
  <1>9. ASSUME NEW n \in 0 .. Len(s)
        PROVE  w[n] = IF n = 0 THEN <<>>
                      ELSE IF s[n] \in these THEN w[n - 1] ELSE Append(w[n - 1], s[n])
    <2> HIDE DEF w
    <2> QED BY <1>8
  <1> HIDE DEF w
  <1>10. w[0] = <<>>
    <2>1. 0 \in 0 .. Len(s)
      OBVIOUS
    <2> QED BY <1>9, <2>1
  <1>11. \A n \in 1 .. Len(s) : w[n] = IF s[n] \in these THEN w[n - 1] ELSE Append(w[n - 1], s[n])
    BY <1>9
  <1>12. Filters(w, s, these)
    BY <1>10, <1>11 DEF Filters
  <1> QED BY <1>1, <1>12

LEMMA WithoutElements ==
  ASSUME NEW S, NEW s \in Seq(S), NEW these
  PROVE  /\ Without(s, these) \in Seq(S)
         /\ Len(Without(s, these)) <= Len(s)
         /\ ToSet(Without(s, these)) = ToSet(s) \ these
         /\ (\A i, j \in DOMAIN s : s[i] = s[j] /\ s[i] \notin these => i = j)
              => NoRepeats(Without(s, these))
  <1>0. PICK w : Without(s, these) = w[Len(s)] /\ Filters(w, s, these)
    <2>1. Len(s) \in Nat /\ <<>> \in Seq(S)
      BY EmptySeq
    <2>2. \A q \in Seq(S) : \A i \in 1 .. Len(s) : Append(q, s[i]) \in Seq(S)
      OBVIOUS
    <2>3. ASSUME NEW Q, <<>> \in Q, \A q \in Q : \A i \in 1 .. Len(s) : Append(q, s[i]) \in Q
          PROVE  \E w : Without(s, these) = w[Len(s)] /\ Filters(w, s, these)
      BY <2>1, <2>3, WithoutUnfolds, Zenon
    <2> QED BY <2>1, <2>2, <2>3, Zenon
  <1>1. /\ Without(s, these) = w[Len(s)]
        /\ w[0] = <<>>
        /\ \A n \in 1 .. Len(s) :
             w[n] = IF s[n] \in these THEN w[n - 1] ELSE Append(w[n - 1], s[n])
    BY <1>0 DEF Filters
  <1> DEFINE First(n) == {s[i] : i \in 1 .. n}
             Distinct == \A i, j \in DOMAIN s : s[i] = s[j] /\ s[i] \notin these => i = j
             Good(n) == /\ w[n] \in Seq(S)
                        /\ Len(w[n]) <= n
                        /\ ToSet(w[n]) = First(n) \ these
                        /\ Distinct => NoRepeats(w[n])
             T == {n \in Nat : n <= Len(s) => Good(n)}
  <1>2. 0 \in T
    <2>1. w[0] \in Seq(S) /\ Len(w[0]) = 0 /\ DOMAIN w[0] = {}
      BY <1>1
    <2>2. ToSet(w[0]) = {} /\ First(0) = {} /\ NoRepeats(w[0])
      BY <2>1 DEF ToSet, NoRepeats
    <2> QED BY <2>1, <2>2
  <1>3. ASSUME NEW n \in Nat, n \in T PROVE n + 1 \in T
    <2>1. SUFFICES ASSUME n + 1 <= Len(s) PROVE Good(n + 1)
      OBVIOUS
    <2>2. Good(n) /\ n + 1 \in 1 .. Len(s) /\ (n + 1) - 1 = n /\ s[n + 1] \in S
      BY <1>3, <2>1
    <2>3. w[n + 1] = IF s[n + 1] \in these THEN w[n] ELSE Append(w[n], s[n + 1])
      BY <1>1, <2>2
    <2>4. First(n + 1) = First(n) \cup {s[n + 1]}
      <3>1. 1 .. n + 1 = (1 .. n) \cup {n + 1}
        OBVIOUS
      <3> QED BY <3>1
    <2>5. CASE s[n + 1] \in these
      <3>1. First(n + 1) \ these = First(n) \ these
        BY <2>4, <2>5
      <3>2. w[n + 1] = w[n]
        BY <2>3, <2>5
      <3>3. Len(w[n]) <= n + 1
        BY <2>2
      <3> HIDE DEF First, Distinct
      <3> QED BY <2>2, <3>1, <3>2, <3>3
    <2>6. CASE s[n + 1] \notin these
      <3>1. w[n + 1] = Append(w[n], s[n + 1])
        BY <2>3, <2>6
      <3>2. w[n] \in Seq(S) /\ Len(w[n]) <= n
        BY <2>2
      <3>3. w[n + 1] \in Seq(S) /\ Len(w[n + 1]) <= n + 1
        BY <2>2, <3>1, <3>2
      <3>4. ToSet(w[n + 1]) = ToSet(w[n]) \cup {s[n + 1]}
        BY <2>2, <3>1, <3>2, AppendElements
      <3>5. ToSet(w[n + 1]) = First(n + 1) \ these
        BY <2>2, <2>4, <2>6, <3>4
      <3>6. ASSUME Distinct PROVE NoRepeats(w[n + 1])
        <4>1. s[n + 1] \notin First(n)
          <5>1. SUFFICES ASSUME NEW i \in 1 .. n, s[i] = s[n + 1] PROVE FALSE
            OBVIOUS
          <5>2. i \in DOMAIN s /\ n + 1 \in DOMAIN s /\ i # n + 1
            BY <2>1
          <5> QED BY <2>6, <3>6, <5>1, <5>2
        <4>2. s[n + 1] \notin ToSet(w[n])
          BY <2>2, <4>1
        <4>3. NoRepeats(w[n])
          BY <2>2, <3>6
        <4> QED BY <2>2, <3>1, <3>2, <4>2, <4>3, AppendElements
      <3> HIDE DEF First, Distinct
      <3> QED BY <3>3, <3>5, <3>6
    <2> QED BY <2>5, <2>6
  <1>4. Good(Len(s))
    <2>1. Len(s) \in Nat
      OBVIOUS
    <2> HIDE DEF Good
    <2>2. \A n \in Nat : n \in T
      <3> HIDE DEF T
      <3> QED BY <1>2, <1>3, NatSetInduction
    <2> QED BY <2>1, <2>2
  <1>5. First(Len(s)) = ToSet(s)
    BY DEF ToSet
  <1> QED BY <1>1, <1>4, <1>5
-----------------------------------------------------------------------------
(* The cache: entries of different sets of bundles, not too many, each     *)
(* with code that was prepared for its set and not flushed since.          *)
Entries == [key : {BundlesOf[r] : r \in Renders}, code : Renders, used : Nat]

CacheGood(c, gone) ==
  /\ c \in Seq(Entries) /\ Len(c) <= MaxBundles
  /\ \A i \in DOMAIN c : c[i].key = BundlesOf[c[i].code] /\ c[i].code \notin gone
  /\ \A i, j \in DOMAIN c : c[i].key = c[j].key => i = j

(* What follows the first k elements.                                      *)
LEMMA EndOfSequence ==
  ASSUME NEW E, NEW s \in Seq(E), NEW k \in 0 .. Len(s)
  PROVE  /\ Len(SubSeq(s, k + 1, Len(s))) = Len(s) - k
         /\ \A i \in 1 .. (Len(s) - k) : SubSeq(s, k + 1, Len(s))[i] = s[k + i]
  OBVIOUS

LEMMA ElementOf ==
  ASSUME NEW E, NEW s \in Seq(E), NEW i \in DOMAIN s
  PROVE  s[i] \in E
  OBVIOUS

(* d has the keys and the code of c; d has only entries of c.              *)
SameEntries(d, c) ==
  /\ Len(d) = Len(c)
  /\ \A i \in DOMAIN c : d[i].key = c[i].key /\ d[i].code = c[i].code
SomeEntries(d, c) == \A i \in DOMAIN d : \E j \in DOMAIN c : d[i] = c[j]

LEMMA EmptyIsGood ==
  ASSUME NEW gone
  PROVE  CacheGood(EmptyCache, gone)
  <1>1. <<>> \in Seq(Entries) /\ Len(<<>>) = 0 /\ DOMAIN <<>> = {}
    BY EmptySeq
  <1> HIDE DEF Entries
  <1> QED BY <1>1, MaxBundlesAssumption DEF CacheGood, EmptyCache

LEMMA AtFinds ==
  ASSUME NEW S, NEW c \in Seq(S), NEW key
  PROVE  /\ Has(c, key) => At(c, key) \in DOMAIN c /\ c[At(c, key)].key = key
         /\ ~Has(c, key) => \A i \in DOMAIN c : c[i].key # key
  <1> DEFINE I == {i \in 1 .. Len(c) : c[i].key = key}
  <1>1. At(c, key) = IF I # {} THEN Min(I) ELSE 0
    BY DEF At, SelectInSeq
  <1>2. I \in SUBSET Nat /\ DOMAIN c = 1 .. Len(c)
    OBVIOUS
  <1>3. CASE I = {}
    <2>1. \A i \in DOMAIN c : c[i].key # key
      BY <1>2, <1>3
    <2>2. ~Has(c, key)
      BY <1>1, <1>3 DEF Has
    <2> QED BY <2>1, <2>2
  <1>4. CASE I # {}
    <2>1. Min(I) \in I
      BY <1>2, <1>4, MinIsLeast
    <2>2. At(c, key) = Min(I)
      BY <1>1, <1>4
    <2>3. Min(I) # 0
      BY <2>1
    <2>4. Has(c, key)
      BY <2>2, <2>3 DEF Has
    <2> QED BY <1>2, <2>1, <2>2, <2>4
  <1> QED BY <1>3, <1>4

(* Ranking the times of use leaves keys and code alone.                    *)
LEMMA RankedKeeps ==
  ASSUME NEW K, NEW C, NEW U, NEW c \in Seq([key : K, code : C, used : U])
  PROVE  /\ Ranked(c) \in Seq([key : K, code : C, used : Nat])
         /\ SameEntries(Ranked(c), c)
  <1> DEFINE E == [key : K, code : C, used : Nat]
             Before(i) == {k \in DOMAIN c : c[k].used < c[i].used}
             rank(i) == Cardinality({c[j].used : j \in Before(i)})
             d == [i \in DOMAIN c |-> [c[i] EXCEPT !.used = rank(i)]]
  <1>1. Ranked(c) = d
    BY DEF Ranked
  <1>2. DOMAIN c = 1 .. Len(c) /\ Len(c) \in Nat
    OBVIOUS
  <1>3. ASSUME NEW i \in DOMAIN c
        PROVE  rank(i) \in Nat
    <2>1. IsFiniteSet(DOMAIN c)
      BY <1>2, FS_Interval
    <2>2. IsFiniteSet(Before(i))
      <3>1. Before(i) \in SUBSET DOMAIN c
        OBVIOUS
      <3> HIDE DEF Before
      <3> QED BY <2>1, <3>1, FS_Subset
    <2>3. IsFiniteSet({c[j].used : j \in Before(i)})
      <3> DEFINE T == {c[j].used : j \in Before(i)}
                 f == [j \in Before(i) |-> c[j].used]
      <3>1. f \in [Before(i) -> T] /\ \A t \in T : \E j \in Before(i) : f[j] = t
        <4> HIDE DEF Before
        <4> QED OBVIOUS
      <3>2. f \in Surjection(Before(i), T)
        <4> HIDE DEF f, T, Before
        <4> QED BY <3>1 DEF Surjection
      <3> HIDE DEF Before, f
      <3> QED BY <2>2, <3>2, FS_Surjection
    <2> QED BY <2>3, FS_CardinalityType
  <1>4. ASSUME NEW i \in DOMAIN c
        PROVE  /\ d[i] \in E
               /\ d[i].key = c[i].key /\ d[i].code = c[i].code
    <2>1. c[i] \in [key : K, code : C, used : U]
      BY ElementOf, Zenon
    <2>2. d[i] = [c[i] EXCEPT !.used = rank(i)] /\ rank(i) \in Nat
      <3> HIDE DEF rank
      <3> QED BY <1>3
    <2> HIDE DEF rank, d
    <2> QED BY <2>1, <2>2
  <1>5. d \in [1 .. Len(c) -> E]
    <2>1. d = [i \in 1 .. Len(c) |-> d[i]]
      BY <1>2
    <2>2. \A i \in 1 .. Len(c) : d[i] \in E
      BY <1>2, <1>4
    <2> HIDE DEF d, E
    <2> QED BY <2>1, <2>2
  <1>6. d \in Seq(E) /\ Len(d) = Len(c)
    <2> HIDE DEF d, E
    <2> QED BY <1>2, <1>5
  <1> HIDE DEF d
  <1>7. SameEntries(d, c)
    BY <1>4, <1>6 DEF SameEntries
  <1> QED BY <1>1, <1>6, <1>7

LEMMA UsedIsGood ==
  ASSUME NEW gone, NEW c, CacheGood(c, gone), NEW key, Has(c, key), NEW later
  PROVE  /\ CacheGood(Used(c, key, later), gone)
         /\ CodeAt(c, key) \in Renders /\ CodeAt(c, key) \notin gone
         /\ BundlesOf[CodeAt(c, key)] = key
  <1> DEFINE a == At(c, key)
             K == {BundlesOf[r] : r \in Renders}
             now == Now(c, later)
             d == [c EXCEPT ![a].used = now]
  <1>1. c \in Seq([key : K, code : Renders, used : Nat])
    BY DEF CacheGood, Entries
  <1>2. a \in DOMAIN c /\ c[a].key = key
    <2> HIDE DEF K
    <2> QED BY <1>1, AtFinds
  <1> HIDE DEF K, a, now
  <1>3. /\ c[a] \in [key : K, code : Renders, used : Nat]
        /\ CodeAt(c, key) = c[a].code
    BY <1>1, <1>2, ElementOf, Zenon DEF CodeAt, a
  <1>4. /\ d \in Seq([key : K, code : Renders, used : Nat \cup {now}])
        /\ Len(d) = Len(c) /\ DOMAIN d = DOMAIN c
        /\ \A i \in DOMAIN c : d[i].key = c[i].key /\ d[i].code = c[i].code
    <2> DEFINE E == [key : K, code : Renders, used : Nat \cup {now}]
    <2>1. DOMAIN c = 1 .. Len(c) /\ Len(c) \in Nat /\ DOMAIN d = DOMAIN c
      BY <1>1
    <2>2. ASSUME NEW i \in DOMAIN c
          PROVE  d[i] \in E /\ d[i].key = c[i].key /\ d[i].code = c[i].code
      <3>1. c[i] \in [key : K, code : Renders, used : Nat]
        BY <1>1, ElementOf, Zenon
      <3>2. CASE i = a
        <4>1. d[i] = [c[i] EXCEPT !.used = now]
          BY <1>2, <3>2
        <4> HIDE DEF d
        <4> QED BY <3>1, <4>1
      <3>3. CASE i # a
        <4>1. d[i] = c[i]
          BY <3>3
        <4> HIDE DEF d
        <4> QED BY <3>1, <4>1
      <3> QED BY <3>2, <3>3
    <2>3. d = [i \in 1 .. Len(c) |-> d[i]]
      BY <2>1
    <2> HIDE DEF d, E
    <2>4. d \in [1 .. Len(c) -> E]
      BY <2>1, <2>2, <2>3
    <2>5. d \in Seq(E) /\ Len(d) = Len(c)
      BY <2>1, <2>4
    <2> QED BY <2>1, <2>2, <2>5 DEF E
  <1>5. Used(c, key, later) = Ranked(d)
    BY DEF Used, a, now
  <1> HIDE DEF d
  <1>6. /\ Ranked(d) \in Seq([key : K, code : Renders, used : Nat])
        /\ Len(Ranked(d)) = Len(c)
        /\ \A i \in DOMAIN c : Ranked(d)[i].key = c[i].key /\ Ranked(d)[i].code = c[i].code
    <2>1. /\ Ranked(d) \in Seq([key : K, code : Renders, used : Nat])
          /\ SameEntries(Ranked(d), d)
      BY <1>4, RankedKeeps, Zenon
    <2> QED BY <1>4, <2>1 DEF SameEntries
  <1>7. DOMAIN Ranked(d) = DOMAIN c
    BY <1>1, <1>6
  <1>8. CacheGood(Ranked(d), gone)
    BY <1>6, <1>7 DEF CacheGood, Entries, K
  <1> QED BY <1>2, <1>3, <1>5, <1>8 DEF CacheGood

(* What is evicted is in the cache: there is a least recently used entry.  *)
LEMMA OldestIsThere ==
  ASSUME NEW K, NEW C, NEW c \in Seq([key : K, code : C, used : Nat]), c # <<>>
  PROVE  Oldest(c) \in DOMAIN c
  <1> DEFINE U == {c[i].used : i \in DOMAIN c}
  <1>1. DOMAIN c = 1 .. Len(c) /\ Len(c) \in Nat /\ Len(c) # 0
    BY EmptySeq
  <1>2. \A i \in DOMAIN c : c[i].used \in Nat
    <2>1. \A i \in DOMAIN c : c[i] \in [key : K, code : C, used : Nat]
      BY ElementOf, Zenon
    <2> QED BY <2>1
  <1>3. U \in SUBSET Nat /\ U # {}
    <2>1. 1 \in DOMAIN c
      BY <1>1
    <2> QED BY <1>2, <2>1
  <1>4. PICK m \in U : \A k \in U : m <= k
    <2> HIDE DEF U
    <2> QED BY <1>3, LeastNat
  <1> DEFINE I == {i \in DOMAIN c : c[i].used = m}
  <1>5. I \in SUBSET Nat /\ I # {}
    BY <1>1
  <1>6. PICK o \in I : \A k \in I : o <= k
    <2> HIDE DEF I
    <2> QED BY <1>5, LeastNat
  <1>7. ASSUME NEW j \in DOMAIN c
        PROVE  c[o].used < c[j].used \/ (c[o].used = c[j].used /\ o <= j)
    <2>1. c[j].used \in Nat /\ m <= c[j].used /\ c[o].used = m /\ m \in Nat
      BY <1>2, <1>4
    <2>2. CASE c[j].used = m
      BY <1>6, <2>1, <2>2
    <2>3. CASE c[j].used # m
      BY <2>1, <2>3
    <2> QED BY <2>2, <2>3
  <1>8. \E i \in DOMAIN c : \A j \in DOMAIN c :
          c[i].used < c[j].used \/ (c[i].used = c[j].used /\ i <= j)
    BY <1>7
  <1> QED BY <1>8 DEF Oldest

LEMMA EvictedIsGood ==
  ASSUME NEW gone, NEW c, CacheGood(c, gone), c # EmptyCache
  PROVE  /\ CacheGood(Evicted(c), gone)
         /\ Len(Evicted(c)) = Len(c) - 1
         /\ SomeEntries(Evicted(c), c)
  <1> DEFINE o == Oldest(c)
             d == RemoveAt(c, o)
  <1>1. c \in Seq(Entries) /\ Len(c) \in Nat /\ DOMAIN c = 1 .. Len(c)
    BY DEF CacheGood
  <1>2. o \in DOMAIN c
    BY <1>1, OldestIsThere DEF Entries, EmptyCache
  <1>3. Evicted(c) = d
    BY DEF Evicted
  <1> HIDE DEF o
  <1>4. /\ d \in Seq(Entries) /\ Len(d) = Len(c) - 1
        /\ \A j \in DOMAIN d : d[j] = IF j < o THEN c[j] ELSE c[j + 1]
    BY <1>1, <1>2, RemoveAtPositions
  <1> HIDE DEF d
  <1>5. DOMAIN d = 1 .. (Len(c) - 1) /\ o \in 1 .. Len(c)
    BY <1>1, <1>2, <1>4
  <1> DEFINE from(j) == IF j < o THEN j ELSE j + 1
  <1>6. ASSUME NEW j \in DOMAIN d
        PROVE  from(j) \in DOMAIN c /\ d[j] = c[from(j)]
    BY <1>1, <1>4, <1>5
  <1>7. \A j, k \in DOMAIN d : from(j) = from(k) => j = k
    BY <1>5
  <1> HIDE DEF from
  <1>8. CacheGood(d, gone)
    <2>1. Len(d) <= MaxBundles
      BY <1>1, <1>4, MaxBundlesAssumption DEF CacheGood
    <2>2. \A i \in DOMAIN d : d[i].key = BundlesOf[d[i].code] /\ d[i].code \notin gone
      BY <1>6 DEF CacheGood
    <2>3. \A i, j \in DOMAIN d : d[i].key = d[j].key => i = j
      BY <1>6, <1>7 DEF CacheGood
    <2> HIDE DEF Entries
    <2> QED BY <1>4, <2>1, <2>2, <2>3 DEF CacheGood
  <1>9. SomeEntries(d, c)
    BY <1>6 DEF SomeEntries
  <1> QED BY <1>3, <1>4, <1>8, <1>9

LEMMA PutIsGood ==
  ASSUME NEW gone, NEW c, CacheGood(c, gone), NEW r \in Renders, r \notin gone,
         ~Has(c, BundlesOf[r]), NEW later
  PROVE  CacheGood(Put(c, BundlesOf[r], r, later), gone)
  <1> DEFINE K == {BundlesOf[q] : q \in Renders}
             n == Now(c, later)
             room == IF Len(c) >= MaxBundles THEN Evicted(c) ELSE c
             new == [key |-> BundlesOf[r], code |-> r, used |-> n]
             d == Append(room, new)
             E == [key : K, code : Renders, used : Nat \cup {n}]
  <1>1. c \in Seq(Entries) /\ Len(c) \in Nat /\ Len(c) <= MaxBundles
    BY DEF CacheGood
  <1>2. \A i \in DOMAIN c : c[i].key # BundlesOf[r]
    <2> HIDE DEF Entries
    <2> QED BY <1>1, AtFinds
  <1>3. /\ CacheGood(room, gone) /\ Len(room) + 1 <= MaxBundles /\ Len(room) \in Nat
        /\ \A i \in DOMAIN room : room[i].key # BundlesOf[r]
    <2>1. CASE Len(c) >= MaxBundles
      <3>1. c # EmptyCache
        <4>1. Len(c) > 0
          BY <1>1, <2>1, MaxBundlesAssumption
        <4> QED BY <4>1 DEF EmptyCache
      <3>2. /\ CacheGood(Evicted(c), gone)
            /\ Len(Evicted(c)) = Len(c) - 1
            /\ SomeEntries(Evicted(c), c)
        BY <3>1, EvictedIsGood, Zenon
      <3>3. Len(Evicted(c)) \in Nat
        BY <3>2 DEF CacheGood
      <3>4. room = Evicted(c)
        BY <2>1
      <3> HIDE DEF room
      <3> QED BY <1>1, <1>2, <3>2, <3>3, <3>4, MaxBundlesAssumption DEF SomeEntries
    <2>2. CASE ~(Len(c) >= MaxBundles)
      <3>1. room = c
        BY <2>2
      <3> HIDE DEF room
      <3> QED BY <1>1, <1>2, <2>2, <3>1, MaxBundlesAssumption
    <2> QED BY <2>1, <2>2
  <1>4. Put(c, BundlesOf[r], r, later) = Ranked(d)
    BY DEF Put
  <1> HIDE DEF room, n
  <1>5. room \in Seq(E) /\ new \in E
    <2>1. room \in Seq([key : K, code : Renders, used : Nat])
      BY <1>3 DEF CacheGood, Entries
    <2>2. BundlesOf[r] \in K
      OBVIOUS
    <2> HIDE DEF K
    <2>3. \A i \in 1 .. Len(room) : room[i] \in E
      <3>1. \A i \in DOMAIN room : room[i] \in [key : K, code : Renders, used : Nat]
        BY <2>1, ElementOf, Zenon
      <3>2. DOMAIN room = 1 .. Len(room)
        BY <2>1
      <3> QED BY <3>1, <3>2
    <2>4. room = [i \in 1 .. Len(room) |-> room[i]]
      BY <2>1
    <2>5. new \in E
      BY <2>2
    <2> HIDE DEF E, new
    <2> QED BY <1>3, <2>3, <2>4, <2>5
  <1> HIDE DEF K
  <1>6. /\ d \in Seq(E) /\ Len(d) = Len(room) + 1 /\ DOMAIN d = 1 .. (Len(room) + 1)
        /\ DOMAIN room = 1 .. Len(room)
        /\ d[Len(room) + 1] = new
        /\ \A i \in 1 .. Len(room) : d[i] = room[i]
    <2> HIDE DEF E, new
    <2> QED BY <1>3, <1>5
  <1>7. new.key = BundlesOf[r] /\ new.code = r
    OBVIOUS
  <1> HIDE DEF d, new
  <1>8. /\ Ranked(d) \in Seq([key : K, code : Renders, used : Nat])
        /\ Len(Ranked(d)) = Len(d)
        /\ \A i \in DOMAIN d : Ranked(d)[i].key = d[i].key /\ Ranked(d)[i].code = d[i].code
    <2>1. /\ Ranked(d) \in Seq([key : K, code : Renders, used : Nat])
          /\ SameEntries(Ranked(d), d)
      BY <1>6, RankedKeeps, Zenon DEF E
    <2> QED BY <2>1 DEF SameEntries
  <1>9. DOMAIN Ranked(d) = DOMAIN d
    BY <1>6, <1>8
  <1>10. ASSUME NEW i \in DOMAIN d
         PROVE  d[i].key = BundlesOf[d[i].code] /\ d[i].code \notin gone
    <2>1. CASE i = Len(room) + 1
      BY <1>6, <1>7, <2>1
    <2>2. CASE i \in 1 .. Len(room)
      BY <1>3, <1>6, <2>2 DEF CacheGood
    <2> QED BY <1>3, <1>6, <2>1, <2>2
  <1>11. ASSUME NEW i \in DOMAIN d, NEW j \in DOMAIN d, d[i].key = d[j].key
         PROVE  i = j
    <2>1. CASE i \in 1 .. Len(room) /\ j \in 1 .. Len(room)
      BY <1>3, <1>6, <1>11, <2>1 DEF CacheGood
    <2>2. CASE i = Len(room) + 1 /\ j \in 1 .. Len(room)
      BY <1>3, <1>6, <1>7, <1>11, <2>2
    <2>3. CASE j = Len(room) + 1 /\ i \in 1 .. Len(room)
      BY <1>3, <1>6, <1>7, <1>11, <2>3
    <2>4. CASE i = Len(room) + 1 /\ j = Len(room) + 1
      BY <2>4
    <2> QED BY <1>3, <1>6, <2>1, <2>2, <2>3, <2>4
  <1>12. Ranked(d) \in Seq(Entries) /\ Len(Ranked(d)) <= MaxBundles
    BY <1>3, <1>6, <1>8 DEF Entries, K
  <1>13. CacheGood(Ranked(d), gone)
    <2> HIDE DEF Entries
    <2> QED BY <1>8, <1>9, <1>10, <1>11, <1>12 DEF CacheGood
  <1> QED BY <1>4, <1>13

(* A flush of one bundle leaves no code that was prepared from it.         *)
LEMMA FlushedIsGood ==
  ASSUME NEW gone, NEW c, CacheGood(c, gone), NEW bundle,
         NEW more, \A q \in more : Contains(BundlesOf[q], bundle)
  PROVE  CacheGood(Flushed(c, bundle), gone \cup more)
  <1> DEFINE out == {e \in ToSet(c) : Names(e.key, bundle)}
             d == Without(c, out)
  <1>1. c \in Seq(Entries) /\ DOMAIN c = 1 .. Len(c) /\ Len(c) \in Nat
    BY DEF CacheGood
  <1>2. \A i, j \in DOMAIN c : c[i] = c[j] => i = j
    BY DEF CacheGood
  <1>3. Flushed(c, bundle) = d
    BY DEF Flushed
  <1>4. /\ d \in Seq(Entries) /\ Len(d) <= Len(c)
        /\ ToSet(d) = ToSet(c) \ out
        /\ NoRepeats(d)
    <2> HIDE DEF Entries, out
    <2> QED BY <1>1, <1>2, WithoutElements
  <1>5. ASSUME NEW i \in DOMAIN d
        PROVE  /\ \E j \in DOMAIN c : d[i] = c[j]
               /\ ~Contains(d[i].key, bundle)
    <2>1. d[i] \in ToSet(d)
      BY DEF ToSet
    <2>2. d[i] \in ToSet(c) /\ d[i] \notin out
      BY <1>4, <2>1
    <2>3. ~Names(d[i].key, bundle)
      BY <2>2
    <2>4. ~Contains(d[i].key, bundle)
      BY <2>3 DEF Names
    <2> HIDE DEF d
    <2> QED BY <2>2, <2>4 DEF ToSet
  <1> HIDE DEF d
  <1>6. Len(d) <= MaxBundles
    BY <1>1, <1>4, MaxBundlesAssumption DEF CacheGood
  <1>7. ASSUME NEW i \in DOMAIN d
        PROVE  d[i].key = BundlesOf[d[i].code] /\ d[i].code \notin gone \cup more
    <2>1. d[i].key = BundlesOf[d[i].code] /\ d[i].code \notin gone
      BY <1>5 DEF CacheGood
    <2>2. d[i].code \notin more
      BY <1>5, <2>1
    <2> QED BY <2>1, <2>2
  <1>8. ASSUME NEW i \in DOMAIN d, NEW j \in DOMAIN d, d[i].key = d[j].key
        PROVE  i = j
    <2>1. PICK k \in DOMAIN c, l \in DOMAIN c : d[i] = c[k] /\ d[j] = c[l]
      BY <1>5
    <2>2. k = l
      BY <1>8, <2>1 DEF CacheGood
    <2> QED BY <1>4, <2>1, <2>2 DEF NoRepeats
  <1>9. CacheGood(d, gone \cup more)
    <2> HIDE DEF Entries
    <2> QED BY <1>4, <1>6, <1>7, <1>8 DEF CacheGood
  <1> QED BY <1>3, <1>9
-----------------------------------------------------------------------------
(* The inductive invariant, in two halves.  The wire: what has arrived is  *)
(* in the buffer or with a handler, once.                                  *)
Symbols == Requests \cup {NewLine}
Stages == {"unsent", "queued", "polling", "rendering", "answered"}
UnderWay(r) == stage[r] \in {"queued", "polling", "rendering"}

WireTypes ==
  /\ arrived \in [Conns -> Nat]
  /\ buffer \in [Conns -> Seq(Symbols)]
  /\ handlers \in [Conns -> SUBSET Seq(Requests)]
  /\ stage \in [Requests -> Stages]

(* The buffer is the end of what has arrived, and what comes from there on *)
(* has not been handed to a handler.                                       *)
Buffered ==
  \A c \in Conns :
    /\ Len(buffer[c]) <= arrived[c] /\ arrived[c] <= Len(Stream[c])
    /\ \A i \in 1 .. Len(buffer[c]) : buffer[c][i] = Stream[c][arrived[c] - Len(buffer[c]) + i]
    /\ \A i \in DOMAIN Stream[c] :
         i > arrived[c] - Len(buffer[c]) /\ Stream[c][i] # NewLine => stage[Stream[c][i]] = "unsent"

(* Who is with a handler is under way, and with no other.                  *)
HandlersHold ==
  \A c \in Conns : \A h \in handlers[c] :
    h # <<>> /\ NoRepeats(h) /\ \A r \in ToSet(h) : UnderWay(r)
OneHandlerEach ==
  \A c, d \in Conns : \A g \in handlers[c] : \A h \in handlers[d] :
    \A r \in ToSet(g) : r \in ToSet(h) => c = d /\ g = h

(* Who is under way is with a handler, which a waiting render occupies.    *)
NobodyLost ==
  /\ \A r \in Requests : UnderWay(r) => \E c \in Conns : \E h \in handlers[c] : r \in ToSet(h)
  /\ \A r \in Waiting : IsNext(r)

WInv == WireTypes /\ Buffered /\ HandlersHold /\ OneHandlerEach /\ NobodyLost

(* The renders: who is in the globals waits, what a waiting render has got *)
(* comes from those it overlaps with, and one alone has the globals.       *)
Fetches == [there : BOOLEAN, native : BOOLEAN, through : SUBSET Renders]
Answers == [status : {None, "success", "error", "timeout"}, storage : SUBSET Renders,
            document : Renders \cup {None}, through : SUBSET Renders]

EnvTypes ==
  /\ window \in Renders \cup {None} /\ fetch \in Fetches
  /\ via \in [Renders -> Fetches]
  /\ stored \in [Renders -> SUBSET Renders]
  /\ work \in [Renders -> {"none", "running", "done", "failed"}]
  /\ answer \in [Renders -> Answers]
  /\ code \in [Renders -> Renders \cup {None}]
  /\ flushed \in SUBSET Renders
  /\ overlap \in [Renders -> SUBSET Renders]

NotStarted ==
  \A r \in Renders : stage[r] \in {"unsent", "queued"} =>
    code[r] = None /\ r \notin flushed /\ work[r] = "none"
Unanswered == \A r \in Renders : stage[r] # "answered" => answer[r].status = None

Globals ==
  /\ window # None => window \in Waiting
  /\ fetch.through \subseteq Waiting
Together == \A r \in Waiting : \A q \in Waiting \cup Late : q # r => q \in overlap[r]
Sources == \A r \in Waiting : via[r].through \cup stored[r] \subseteq {r} \cup overlap[r]
Alone ==
  \A r \in Waiting : overlap[r] = {} => window = r /\ (work[r] = "done" => r \in stored[r])

Codes == \A r \in Renders : code[r] # None => BundlesOf[code[r]] = BundlesOf[r]

EInv ==
  /\ EnvTypes /\ NotStarted /\ Unanswered
  /\ Globals /\ Together /\ Sources /\ Alone
  /\ CacheGood(cache, flushed) /\ Codes /\ OwnResult

SInv == WInv /\ EInv

-----------------------------------------------------------------------------
(* Framing: the messages of a text are among its symbols up to the last    *)
(* newline, the rest is what is after it.                                  *)
LEMMA EndedWithin ==
  ASSUME NEW text \in Seq(Symbols)
  PROVE  Ended(text) \in 0 .. Len(text)
  <1> DEFINE I == {i \in 1 .. Len(text) : text[i] = NewLine}
  <1>1. Ended(text) = IF I # {} THEN Max(I) ELSE 0
    BY DEF Ended, SelectLastInSeq
  <1>2. Len(text) \in Nat /\ I \in SUBSET (1 .. Len(text))
    OBVIOUS
  <1> HIDE DEF I
  <1>3. CASE I = {}
    BY <1>1, <1>2, <1>3
  <1>4. CASE I # {}
    <2>1. Max(I) \in I
      BY <1>2, <1>4, MaxIsGreatest
    <2>2. Max(I) \in 1 .. Len(text) /\ Ended(text) = Max(I)
      BY <1>1, <1>2, <1>4, <2>1
    <2> QED BY <1>2, <2>2
  <1> QED BY <1>3, <1>4

LEMMA MessagesInText ==
  ASSUME NEW text \in Seq(Symbols)
  PROVE  /\ MessagesIn(text) \in Seq(Requests)
         /\ \A r \in ToSet(MessagesIn(text)) :
              r \in Requests /\ \E i \in 1 .. Ended(text) : text[i] = r
         /\ (\A i, j \in DOMAIN text : text[i] = text[j] /\ text[i] # NewLine => i = j)
              => NoRepeats(MessagesIn(text))
  <1> DEFINE e == Ended(text)
             t == SubSeq(text, 1, e)
             m == MessagesIn(text)
  <1>1. e \in 0 .. Len(text) /\ Len(text) \in Nat
    BY EndedWithin
  <1> HIDE DEF e
  <1>2. /\ t \in Seq(Symbols) /\ Len(t) = e /\ DOMAIN t = 1 .. e
        /\ \A i \in 1 .. e : t[i] = text[i]
    BY <1>1
  <1>3. m = Without(t, {NewLine})
    BY DEF MessagesIn, e
  <1> HIDE DEF t, m
  <1>4. /\ m \in Seq(Symbols)
        /\ ToSet(m) = ToSet(t) \ {NewLine}
        /\ (\A i, j \in DOMAIN t : t[i] = t[j] /\ t[i] \notin {NewLine} => i = j) => NoRepeats(m)
    BY <1>2, <1>3, WithoutElements
  <1>5. ASSUME NEW r \in ToSet(m)
        PROVE  r \in Requests /\ \E i \in 1 .. e : text[i] = r
    <2>1. r \in ToSet(t) /\ r # NewLine
      BY <1>4
    <2>2. PICK i \in DOMAIN t : t[i] = r
      BY <2>1 DEF ToSet
    <2>3. r \in Symbols
      BY <1>2, <2>2, ElementOf, Zenon
    <2> QED BY <1>2, <2>1, <2>2, <2>3 DEF Symbols
  <1>6. m \in Seq(Requests)
    <2>1. \A i \in 1 .. Len(m) : m[i] \in ToSet(m)
      BY <1>4 DEF ToSet
    <2>2. \A i \in 1 .. Len(m) : m[i] \in Requests
      BY <1>5, <2>1
    <2>3. Len(m) \in Nat /\ m = [i \in 1 .. Len(m) |-> m[i]]
      BY <1>4
    <2>4. m \in [1 .. Len(m) -> Requests]
      BY <2>2, <2>3
    <2> QED BY <2>3, <2>4
  <1>7. ASSUME \A i, j \in DOMAIN text : text[i] = text[j] /\ text[i] # NewLine => i = j
        PROVE  NoRepeats(m)
    <2>1. \A i \in DOMAIN t : i \in DOMAIN text
      BY <1>1, <1>2
    <2>2. \A i, j \in DOMAIN t : t[i] = t[j] /\ t[i] \notin {NewLine} => i = j
      BY <1>2, <1>7, <2>1
    <2> QED BY <1>4, <2>2
  <1> QED BY <1>5, <1>6, <1>7 DEF m, e

(* A buffer and the next chunk are a piece of the stream.                  *)
Piece(buf, st, a) == Len(buf) <= a /\ \A i \in 1 .. Len(buf) : buf[i] = st[a - Len(buf) + i]

Joined(t, u, v, S) ==
  /\ t \in Seq(S) /\ Len(u) \in Nat /\ Len(t) = Len(u) + Len(v)
  /\ \A i \in 1 .. Len(u) : t[i] = u[i]
  /\ \A i \in 1 .. Len(v) : t[Len(u) + i] = v[i]

LEMMA ConcatElements ==
  ASSUME NEW S, NEW u \in Seq(S), NEW v \in Seq(S)
  PROVE  Joined(u \o v, u, v, S)
  BY DEF Joined

LEMMA CutElements ==
  ASSUME NEW S, NEW st \in Seq(S), NEW a \in Nat, NEW n \in Nat, a + n <= Len(st)
  PROVE  /\ SubSeq(st, a + 1, a + n) \in Seq(S) /\ Len(SubSeq(st, a + 1, a + n)) = n
         /\ \A i \in 1 .. n : SubSeq(st, a + 1, a + n)[i] = st[a + i]
  OBVIOUS

LEMMA BufferAndChunk ==
  ASSUME NEW S, NEW st \in Seq(S), NEW buf \in Seq(S), NEW a \in Nat, NEW n \in Nat,
         a + n <= Len(st), Piece(buf, st, a)
  PROVE  LET text == buf \o SubSeq(st, a + 1, a + n)
             b == a - Len(buf)
         IN  /\ b \in Nat /\ text \in Seq(S)
             /\ b + Len(text) = a + n
             /\ \A i \in 1 .. Len(text) : text[i] = st[b + i] /\ b + i \in DOMAIN st
  <1> DEFINE chunk == SubSeq(st, a + 1, a + n)
             text == buf \o chunk
             l == Len(buf)
             b == a - l
  <1>1. /\ chunk \in Seq(S) /\ Len(chunk) = n
        /\ \A i \in 1 .. n : chunk[i] = st[a + i]
    BY CutElements
  <1> HIDE DEF chunk
  <1>2. /\ text \in Seq(S) /\ l \in Nat /\ Len(text) = l + n
        /\ \A i \in 1 .. l : text[i] = buf[i]
        /\ \A i \in 1 .. n : text[l + i] = chunk[i]
    <2>1. Joined(text, buf, chunk, S)
      BY <1>1, ConcatElements, Zenon
    <2> HIDE DEF text
    <2> QED BY <1>1, <2>1 DEF Joined
  <1>3. l <= a /\ \A i \in 1 .. l : buf[i] = st[b + i]
    BY DEF Piece
  <1> HIDE DEF text, l
  <1>4. b \in Nat
    BY <1>2, <1>3
  <1>5. b = a - l
    OBVIOUS
  <1> HIDE DEF b
  <1>6. b + Len(text) = a + n
    BY <1>2, <1>4, <1>5
  <1>7. ASSUME NEW i \in 1 .. Len(text)
        PROVE  text[i] = st[b + i] /\ b + i \in DOMAIN st
    <2>1. i \in Nat /\ i >= 1 /\ i <= l + n
      BY <1>2
    <2>2. b + i \in DOMAIN st
      <3>1. DOMAIN st = 1 .. Len(st) /\ Len(st) \in Nat
        OBVIOUS
      <3> QED BY <1>2, <1>4, <1>5, <2>1, <3>1
    <2>3. CASE i <= l
      BY <1>2, <1>3, <2>1, <2>2, <2>3
    <2>4. CASE i > l
      <3>1. PICK k \in 1 .. n : i = l + k
        <4>1. i - l \in 1 .. n /\ i = l + (i - l)
          BY <1>2, <2>1, <2>4
        <4> QED BY <4>1
      <3>2. a + k = b + i
        BY <1>2, <1>4, <1>5, <3>1
      <3>3. text[i] = st[a + k]
        BY <1>1, <1>2, <3>1
      <3> QED BY <2>2, <3>2, <3>3
    <2> QED BY <1>2, <2>1, <2>3, <2>4
  <1> QED BY <1>2, <1>4, <1>6, <1>7 DEF text, chunk, b, l

LEMMA TextIsFromStream ==
  ASSUME WInv, NEW c \in Conns, NEW n \in Nat, arrived[c] + n <= Len(Stream[c])
  PROVE  LET text == buffer[c] \o SubSeq(Stream[c], arrived[c] + 1, arrived[c] + n)
             b == arrived[c] - Len(buffer[c])
         IN  /\ b \in Nat /\ text \in Seq(Symbols)
             /\ b + Len(text) = arrived[c] + n
             /\ \A i \in 1 .. Len(text) : text[i] = Stream[c][b + i] /\ b + i \in DOMAIN Stream[c]
  <1>1. buffer[c] \in Seq(Symbols) /\ arrived[c] \in Nat /\ Stream[c] \in Seq(Symbols)
    BY RequestsAssumption DEF WInv, WireTypes, Symbols
  <1>2. Piece(buffer[c], Stream[c], arrived[c])
    BY DEF WInv, Buffered, Piece
  <1> QED BY <1>1, <1>2, BufferAndChunk

(* A chunk keeps the wire's half.                                          *)
LEMMA DeliverKeepsWire ==
  ASSUME WInv, NEW c \in Conns, NEW n \in 1 .. Len(Stream[c]), Deliver(c, n)
  PROVE  /\ WInv'
         /\ \A r \in Requests : stage'[r] # stage[r] => stage[r] = "unsent" /\ stage'[r] = "queued"
  <1>1. PICK text : text = buffer[c] \o SubSeq(Stream[c], arrived[c] + 1, arrived[c] + n)
    OBVIOUS
  <1>2. PICK b : b = arrived[c] - Len(buffer[c])
    OBVIOUS
  <1>3. PICK e : e = Ended(text)
    OBVIOUS
  <1>4. PICK m : m = MessagesIn(text)
    OBVIOUS
  <1>5. /\ arrived[c] + n <= Len(Stream[c])
        /\ arrived' = [arrived EXCEPT ![c] = @ + n]
        /\ buffer' = [buffer EXCEPT ![c] = Rest(text)]
        /\ handlers' = [handlers EXCEPT ![c] = IF m = <<>> THEN @ ELSE @ \cup {m}]
        /\ stage' = [r \in Requests |-> IF r \in ToSet(m) THEN "queued" ELSE stage[r]]
    BY <1>1, <1>4 DEF Deliver
  <1>6. /\ b \in Nat /\ text \in Seq(Symbols)
        /\ b + Len(text) = arrived[c] + n
        /\ \A i \in 1 .. Len(text) : text[i] = Stream[c][b + i] /\ b + i \in DOMAIN Stream[c]
    <2>1. n \in Nat
      <3>1. Len(Stream[c]) \in Nat
        BY RequestsAssumption
      <3> QED BY <3>1
    <2> QED BY <1>1, <1>2, <1>5, <2>1, TextIsFromStream
  <1>7. e \in 0 .. Len(text) /\ Len(text) \in Nat /\ DOMAIN text = 1 .. Len(text)
    BY <1>3, <1>6, EndedWithin
  <1>8. /\ Stream[c] \in Seq(Symbols) /\ DOMAIN Stream[c] = 1 .. Len(Stream[c])
        /\ Len(Stream[c]) \in Nat /\ arrived[c] \in Nat /\ n \in Nat
    BY RequestsAssumption DEF Symbols, WInv, WireTypes
  <1>9. \A i, j \in DOMAIN text : text[i] = text[j] /\ text[i] # NewLine => i = j
    <2> SUFFICES ASSUME NEW i \in DOMAIN text, NEW j \in DOMAIN text,
                        text[i] = text[j], text[i] # NewLine
                 PROVE  i = j
      OBVIOUS
    <2>1. b + i = b + j
      BY <1>6, <1>7, RequestsAssumption
    <2> QED BY <1>6, <1>7, <2>1
  <1>10. /\ m \in Seq(Requests) /\ NoRepeats(m)
         /\ \A r \in ToSet(m) : r \in Requests /\ \E i \in 1 .. e : text[i] = r
    BY <1>3, <1>4, <1>6, <1>9, MessagesInText
  <1>11. ASSUME NEW r \in ToSet(m)
         PROVE  /\ r \in Requests /\ r # NewLine /\ stage[r] = "unsent"
                /\ \E i \in 1 .. e : b + i \in DOMAIN Stream[c] /\ Stream[c][b + i] = r
    <2>1. PICK i \in 1 .. e : text[i] = r
      BY <1>10
    <2>2. Stream[c][b + i] = r /\ b + i \in DOMAIN Stream[c] /\ b + i > b
      BY <1>6, <1>7, <2>1
    <2>3. r \in Requests /\ r # NewLine
      BY <1>10, RequestsAssumption DEF NewLine
    <2>4. stage[r] = "unsent"
      BY <1>2, <2>2, <2>3 DEF WInv, Buffered
    <2> QED BY <2>2, <2>3, <2>4
  <1>12. \A r \in Requests : stage'[r] = IF r \in ToSet(m) THEN "queued" ELSE stage[r]
    BY <1>5
  <1>13. WireTypes'
    <2>1. Rest(text) \in Seq(Symbols)
      BY <1>3, <1>6, <1>7 DEF Rest
    <2>2. arrived' \in [Conns -> Nat]
      BY <1>5, <1>8 DEF WInv, WireTypes
    <2>3. buffer' \in [Conns -> Seq(Symbols)]
      BY <1>5, <2>1 DEF WInv, WireTypes
    <2>4. handlers' \in [Conns -> SUBSET Seq(Requests)]
      BY <1>5, <1>10 DEF WInv, WireTypes
    <2>5. stage' \in [Requests -> Stages]
      BY <1>5 DEF WInv, WireTypes, Stages
    <2> QED BY <2>2, <2>3, <2>4, <2>5 DEF WireTypes
  <1>14. Buffered'
    <2>1. /\ Len(Rest(text)) = Len(text) - e
          /\ \A i \in 1 .. (Len(text) - e) : Rest(text)[i] = text[e + i]
      <3>1. Rest(text) = SubSeq(text, e + 1, Len(text))
        BY <1>3 DEF Rest
      <3>2. text \in Seq(Symbols) /\ e \in 0 .. Len(text)
        BY <1>6, <1>7
      <3>3. /\ Len(SubSeq(text, e + 1, Len(text))) = Len(text) - e
            /\ \A i \in 1 .. (Len(text) - e) : SubSeq(text, e + 1, Len(text))[i] = text[e + i]
        BY <3>2, EndOfSequence
      <3> QED BY <3>1, <3>3
    <2>2. /\ arrived'[c] = arrived[c] + n /\ buffer'[c] = Rest(text)
          /\ \A d \in Conns : d # c => arrived'[d] = arrived[d] /\ buffer'[d] = buffer[d]
      BY <1>5 DEF WInv, WireTypes
    <2>3. arrived'[c] - Len(buffer'[c]) = b + e
      <3>1. PICK x, l, y : x = arrived[c] + n /\ l = Len(text) /\ y = Len(Rest(text))
        OBVIOUS
      <3>2. x \in Nat /\ l \in Nat /\ e \in 0 .. l /\ b \in Nat /\ y = l - e /\ b + l = x
        BY <1>6, <1>7, <1>8, <2>1, <3>1
      <3>3. x - y = b + e
        BY <3>2
      <3> QED BY <2>2, <3>1, <3>3
    <2>4. Len(buffer'[c]) <= arrived'[c] /\ arrived'[c] <= Len(Stream[c])
      BY <1>5, <1>6, <1>7, <1>8, <2>1, <2>2, <2>3
    <2>5. \A i \in 1 .. Len(buffer'[c]) :
            buffer'[c][i] = Stream[c][arrived'[c] - Len(buffer'[c]) + i]
      <3> SUFFICES ASSUME NEW i \in 1 .. (Len(text) - e)
                   PROVE  Rest(text)[i] = Stream[c][b + e + i]
        BY <2>1, <2>2, <2>3
      <3>1. e + i \in 1 .. Len(text) /\ b + (e + i) = b + e + i
        BY <1>6, <1>7
      <3>2. Stream[c][b + (e + i)] = text[e + i]
        BY <1>6, <3>1
      <3> QED BY <2>1, <3>1, <3>2
    <2>6. ASSUME NEW d \in Conns, NEW i \in DOMAIN Stream[d],
                 i > arrived'[d] - Len(buffer'[d]), Stream[d][i] # NewLine
          PROVE  stage'[Stream[d][i]] = "unsent"
      <3>1. Stream[d][i] \in Requests
        <4>1. Stream[d] \in Seq(Symbols)
          BY RequestsAssumption DEF Symbols
        <4>2. Stream[d][i] \in Symbols
          BY <4>1, ElementOf, Zenon
        <4> QED BY <2>6, <4>2 DEF Symbols
      <3>2. Stream[d][i] \notin ToSet(m)
        <4> SUFFICES ASSUME Stream[d][i] \in ToSet(m) PROVE FALSE
          OBVIOUS
        <4>1. PICK j \in 1 .. e : b + j \in DOMAIN Stream[c] /\ Stream[c][b + j] = Stream[d][i]
          BY <1>11
        <4>2. c = d /\ b + j = i
          BY <2>6, <4>1, RequestsAssumption
        <4> QED BY <1>6, <1>7, <2>3, <2>6, <4>2
      <3>3. stage[Stream[d][i]] = "unsent"
        <4>1. CASE d = c
          <5>1. i > b
            BY <1>6, <1>7, <1>8, <2>3, <2>6, <4>1
          <5> QED BY <1>2, <2>6, <4>1, <5>1 DEF WInv, Buffered
        <4>2. CASE d # c
          BY <2>2, <2>6, <4>2 DEF WInv, Buffered
        <4> QED BY <4>1, <4>2
      <3> QED BY <1>12, <3>1, <3>2, <3>3
    <2>7. ASSUME NEW d \in Conns
          PROVE  /\ Len(buffer'[d]) <= arrived'[d] /\ arrived'[d] <= Len(Stream[d])
                 /\ \A i \in 1 .. Len(buffer'[d]) :
                      buffer'[d][i] = Stream[d][arrived'[d] - Len(buffer'[d]) + i]
      <3>1. CASE d = c
        BY <2>4, <2>5, <3>1
      <3>2. CASE d # c
        BY <2>2, <3>2 DEF WInv, Buffered
      <3> QED BY <3>1, <3>2
    <2> QED BY <2>6, <2>7 DEF Buffered
  <1>15. ASSUME NEW d \in Conns, NEW h \in handlers'[d]
         PROVE  h \in handlers[d] \/ (d = c /\ h = m /\ m # <<>>)
    BY <1>5 DEF WInv, WireTypes
  <1>16. ASSUME NEW d \in Conns, NEW h \in handlers[d], NEW r \in ToSet(h)
         PROVE  r \notin ToSet(m) /\ r \in Requests
    <2>1. UnderWay(r)
      BY DEF WInv, HandlersHold
    <2>2. h \in Seq(Requests)
      BY DEF WInv, WireTypes
    <2>3. r \in Requests
      BY <2>2 DEF ToSet
    <2> QED BY <1>11, <2>1, <2>3 DEF UnderWay
  <1>17. ASSUME NEW r \in Requests
         PROVE  UnderWay(r)' <=> UnderWay(r) \/ r \in ToSet(m)
    BY <1>12, <1>11 DEF UnderWay
  <1>18. HandlersHold'
    <2> SUFFICES ASSUME NEW d \in Conns, NEW h \in handlers'[d]
                 PROVE  h # <<>> /\ NoRepeats(h) /\ \A r \in ToSet(h) : UnderWay(r)'
      BY DEF HandlersHold
    <2>1. CASE h \in handlers[d]
      BY <1>16, <1>17, <2>1 DEF WInv, HandlersHold
    <2>2. CASE h = m /\ m # <<>>
      BY <1>10, <1>17, <2>2
    <2> QED BY <1>15, <2>1, <2>2
  <1>19. OneHandlerEach'
    <2> SUFFICES ASSUME NEW d \in Conns, NEW k \in Conns, NEW g \in handlers'[d], NEW h \in handlers'[k],
                        NEW r \in ToSet(g), r \in ToSet(h)
                 PROVE  d = k /\ g = h
      BY DEF OneHandlerEach
    <2>1. CASE g \in handlers[d] /\ h \in handlers[k]
      BY <2>1 DEF WInv, OneHandlerEach
    <2>2. CASE g \in handlers[d] /\ h = m
      BY <1>16, <2>2
    <2>3. CASE h \in handlers[k] /\ g = m
      BY <1>16, <2>3
    <2>4. CASE d = c /\ g = m /\ k = c /\ h = m
      BY <2>4
    <2> QED BY <1>15, <2>1, <2>2, <2>3, <2>4
  <1>20. \A d \in Conns : handlers[d] \subseteq handlers'[d]
    BY <1>5 DEF WInv, WireTypes
  <1>21. ASSUME NEW r \in Requests, UnderWay(r)'
         PROVE  \E d \in Conns : \E h \in handlers'[d] : r \in ToSet(h)
    <2>1. CASE UnderWay(r)
      BY <1>20, <2>1 DEF WInv, NobodyLost
    <2>2. CASE r \in ToSet(m)
      <3>1. m # <<>>
        BY <2>2 DEF ToSet
      <3>2. m \in handlers'[c]
        BY <1>5, <3>1 DEF WInv, WireTypes
      <3> QED BY <2>2, <3>2
    <2> QED BY <1>17, <1>21, <2>1, <2>2
  <1>22. ASSUME NEW r \in Waiting'
         PROVE  IsNext(r)'
    <2>1. r \in Renders /\ r \in Requests /\ stage'[r] \in {"polling", "rendering"}
      BY DEF Waiting, Renders
    <2>2. r \in Waiting
      BY <1>12, <2>1 DEF Waiting
    <2>3. IsNext(r)
      BY <2>2 DEF WInv, NobodyLost
    <2> QED BY <1>20, <2>3 DEF IsNext
  <1>23. NobodyLost'
    BY <1>21, <1>22 DEF NobodyLost
  <1>24. WInv'
    BY <1>13, <1>14, <1>18, <1>19, <1>23 DEF WInv
  <1> QED BY <1>11, <1>12, <1>24
(* The handler a request is at the head of goes on to the next one.        *)
LEMMA AnsweredKeepsWire ==
  ASSUME WInv, NEW r \in Requests, UnderWay(r), IsNext(r), Answered(r)
  PROVE  WInv'
  <1> DEFINE left(g) == IF Head(g) = r THEN Tail(g) ELSE g
  <1>1. /\ stage' = [stage EXCEPT ![r] = "answered"]
        /\ arrived' = arrived /\ buffer' = buffer
        /\ handlers' = [c \in Conns |-> {h \in {left(g) : g \in handlers[c]} : h # <<>>}]
    BY DEF Answered
  <1>2. \A q \in Requests : stage'[q] = IF q = r THEN "answered" ELSE stage[q]
    BY <1>1 DEF WInv, WireTypes
  <1>3. \A q \in Requests : UnderWay(q)' <=> UnderWay(q) /\ q # r
    BY <1>2 DEF UnderWay
  <1>4. PICK c0 \in Conns : \E h \in handlers[c0] : Head(h) = r
    BY DEF IsNext
  <1>4a. PICK h0 \in handlers[c0] : Head(h0) = r
    BY <1>4
  <1>5. ASSUME NEW c \in Conns, NEW g \in handlers[c]
        PROVE  /\ g \in Seq(Requests) /\ g # <<>> /\ NoRepeats(g)
               /\ Tail(g) \in Seq(Requests) /\ Head(g) \in Requests /\ NoRepeats(Tail(g))
               /\ ToSet(g) = ToSet(Tail(g)) \cup {Head(g)} /\ Head(g) \notin ToSet(Tail(g))
               /\ \A q \in ToSet(g) : q \in Requests /\ UnderWay(q)
    <2>1. g \in Seq(Requests) /\ g # <<>> /\ NoRepeats(g)
      BY DEF WInv, WireTypes, HandlersHold
    <2>2. \A q \in ToSet(g) : q \in Requests /\ UnderWay(q)
      BY <2>1 DEF WInv, HandlersHold, ToSet
    <2> QED BY <2>1, <2>2, TailElements, TailOfDistinct
  <1>6. ASSUME NEW c \in Conns, NEW g \in handlers[c], r \in ToSet(g)
        PROVE  c = c0 /\ g = h0
    <2>1. r \in ToSet(h0)
      BY <1>4a, <1>5
    <2> QED BY <1>6, <2>1 DEF WInv, OneHandlerEach
  <1>7. ASSUME NEW c \in Conns, NEW g \in handlers[c]
        PROVE  /\ left(g) \in Seq(Requests) /\ NoRepeats(left(g))
               /\ ToSet(left(g)) = ToSet(g) \ {r}
    <2>1. CASE Head(g) = r
      BY <1>5, <2>1
    <2>2. CASE Head(g) # r
      <3>1. r \notin ToSet(g)
        BY <1>4a, <1>6, <2>2
      <3> QED BY <1>5, <2>2, <3>1
    <2> QED BY <2>1, <2>2
  <1> HIDE DEF left
  <1>8. \A c \in Conns : \A h : h \in handlers'[c] <=> h # <<>> /\ \E g \in handlers[c] : h = left(g)
    BY <1>1
  <1>9. WireTypes'
    <2>1. handlers' \in [Conns -> SUBSET Seq(Requests)]
      <3>1. \A c \in Conns : {h \in {left(g) : g \in handlers[c]} : h # <<>>} \in SUBSET Seq(Requests)
        BY <1>7
      <3> QED BY <1>1, <3>1
    <2>2. stage' \in [Requests -> Stages]
      BY <1>1 DEF WInv, WireTypes, Stages
    <2> QED BY <1>1, <2>1, <2>2 DEF WInv, WireTypes
  <1>10. Buffered'
    <2>1. ASSUME NEW c \in Conns, NEW i \in DOMAIN Stream[c],
                 i > arrived[c] - Len(buffer[c]), Stream[c][i] # NewLine
          PROVE  stage'[Stream[c][i]] = "unsent"
      <3>1. stage[Stream[c][i]] = "unsent"
        BY <2>1 DEF WInv, Buffered
      <3>2. Stream[c][i] \in Requests
        <4>1. Stream[c] \in Seq(Symbols)
          BY RequestsAssumption DEF Symbols
        <4>2. Stream[c][i] \in Symbols
          BY <4>1, ElementOf, Zenon
        <4> QED BY <2>1, <4>2 DEF Symbols
      <3>3. Stream[c][i] # r
        BY <3>1 DEF UnderWay
      <3> QED BY <1>2, <3>1, <3>2, <3>3
    <2> QED BY <1>1, <2>1 DEF WInv, Buffered
  <1>11. HandlersHold'
    <2> SUFFICES ASSUME NEW c \in Conns, NEW h \in handlers'[c]
                 PROVE  h # <<>> /\ NoRepeats(h) /\ \A q \in ToSet(h) : UnderWay(q)'
      BY DEF HandlersHold
    <2>1. PICK g \in handlers[c] : h = left(g) /\ h # <<>>
      BY <1>8
    <2>2. \A q \in ToSet(h) : q \in Requests /\ UnderWay(q) /\ q # r
      BY <1>5, <1>7, <2>1
    <2> QED BY <1>3, <1>7, <2>1, <2>2
  <1>12. OneHandlerEach'
    <2> SUFFICES ASSUME NEW c \in Conns, NEW d \in Conns, NEW g \in handlers'[c], NEW h \in handlers'[d],
                        NEW q \in ToSet(g), q \in ToSet(h)
                 PROVE  c = d /\ g = h
      BY DEF OneHandlerEach
    <2>1. PICK g1 \in handlers[c] : g = left(g1)
      BY <1>8
    <2>2. PICK h1 \in handlers[d] : h = left(h1)
      BY <1>8
    <2>3. q \in ToSet(g1) /\ q \in ToSet(h1)
      BY <1>7, <2>1, <2>2
    <2>4. c = d /\ g1 = h1
      BY <2>3 DEF WInv, OneHandlerEach
    <2> QED BY <2>1, <2>2, <2>4
  <1>13. ASSUME NEW q \in Requests, UnderWay(q)'
         PROVE  \E c \in Conns : \E h \in handlers'[c] : q \in ToSet(h)
    <2>1. UnderWay(q) /\ q # r
      BY <1>3, <1>13
    <2>2a. PICK c \in Conns : \E g \in handlers[c] : q \in ToSet(g)
      BY <2>1 DEF WInv, NobodyLost
    <2>2. PICK g \in handlers[c] : q \in ToSet(g)
      BY <2>2a
    <2>3. q \in ToSet(left(g))
      BY <1>7, <2>1, <2>2
    <2>4. left(g) # <<>>
      BY <2>3 DEF ToSet
    <2>5. left(g) \in handlers'[c]
      BY <1>8, <2>4
    <2> QED BY <2>3, <2>5
  <1>14. ASSUME NEW q \in Waiting'
         PROVE  IsNext(q)'
    <2>1. q \in Waiting /\ q # r
      BY <1>2 DEF Waiting, Renders
    <2>2a. PICK c \in Conns : \E g \in handlers[c] : Head(g) = q
      BY <2>1 DEF WInv, NobodyLost, IsNext
    <2>2. PICK g \in handlers[c] : Head(g) = q
      BY <2>2a
    <2>3. left(g) = g /\ g # <<>>
      BY <1>5, <2>1, <2>2 DEF left
    <2>4. g \in handlers'[c]
      BY <1>8, <2>3
    <2> QED BY <2>2, <2>4 DEF IsNext
  <1>15. NobodyLost'
    BY <1>13, <1>14 DEF NobodyLost
  <1> QED BY <1>9, <1>10, <1>11, <1>12, <1>15 DEF WInv

(* A render starts, or its page has come as far as its component.          *)
LEMMA WaitingKeepsWire ==
  ASSUME WInv, NEW r \in Renders, UnderWay(r), IsNext(r), UNCHANGED wire,
         NEW x \in {"polling", "rendering"}, stage' = [stage EXCEPT ![r] = x]
  PROVE  WInv'
  <1>1. r \in Requests
    BY DEF Renders
  <1>2. arrived' = arrived /\ buffer' = buffer /\ handlers' = handlers
    BY DEF wire
  <1>3. \A q \in Requests : stage'[q] = IF q = r THEN x ELSE stage[q]
    BY DEF WInv, WireTypes
  <1>4. \A q \in Requests : UnderWay(q)' <=> UnderWay(q)
    BY <1>3 DEF UnderWay
  <1>5. WireTypes'
    BY <1>2 DEF WInv, WireTypes, Stages
  <1>6. Buffered'
    <2>1. ASSUME NEW c \in Conns, NEW i \in DOMAIN Stream[c],
                 i > arrived[c] - Len(buffer[c]), Stream[c][i] # NewLine
          PROVE  stage'[Stream[c][i]] = "unsent"
      <3>1. stage[Stream[c][i]] = "unsent"
        BY <2>1 DEF WInv, Buffered
      <3>2. Stream[c][i] \in Requests
        <4>1. Stream[c] \in Seq(Symbols)
          BY RequestsAssumption DEF Symbols
        <4>2. Stream[c][i] \in Symbols
          BY <4>1, ElementOf, Zenon
        <4> QED BY <2>1, <4>2 DEF Symbols
      <3>3. Stream[c][i] # r
        BY <3>1 DEF UnderWay
      <3> QED BY <1>3, <3>1, <3>2, <3>3
    <2> QED BY <1>2, <2>1 DEF WInv, Buffered
  <1>7. HandlersHold'
    <2>1. ASSUME NEW c \in Conns, NEW h \in handlers[c], NEW q \in ToSet(h)
          PROVE  UnderWay(q)'
      <3>1. h \in Seq(Requests) /\ UnderWay(q)
        BY DEF WInv, WireTypes, HandlersHold
      <3>2. q \in Requests
        BY <3>1 DEF ToSet
      <3> QED BY <1>4, <3>1, <3>2
    <2> QED BY <1>2, <2>1 DEF WInv, HandlersHold
  <1>8. OneHandlerEach'
    BY <1>2 DEF WInv, OneHandlerEach
  <1>9. NobodyLost'
    <2>1. ASSUME NEW q \in Requests, UnderWay(q)'
          PROVE  \E c \in Conns : \E h \in handlers'[c] : q \in ToSet(h)
      BY <1>2, <1>4, <2>1 DEF WInv, NobodyLost
    <2>2. ASSUME NEW q \in Waiting'
          PROVE  IsNext(q)'
      <3>1. q = r \/ q \in Waiting
        BY <1>3 DEF Waiting, Renders
      <3> QED BY <1>2, <3>1 DEF WInv, NobodyLost, IsNext
    <2> QED BY <2>1, <2>2 DEF NobodyLost
  <1> QED BY <1>5, <1>6, <1>7, <1>8, <1>9 DEF WInv

LEMMA WireUntouched ==
  ASSUME WInv, UNCHANGED <<wire, stage>>
  PROVE  WInv'
  <1>1. arrived' = arrived /\ buffer' = buffer /\ handlers' = handlers /\ stage' = stage
    BY DEF wire
  <1> QED BY <1>1 DEF WInv, WireTypes, Buffered, HandlersHold, OneHandlerEach, NobodyLost,
                      UnderWay, Waiting, IsNext
-----------------------------------------------------------------------------
(* The renders' half.                                                      *)
Untouched == UNCHANGED <<cache, environment, work, answer, history>>

LEMMA NothingTouched ==
  ASSUME Untouched
  PROVE  /\ cache' = cache /\ window' = window /\ fetch' = fetch /\ via' = via
         /\ stored' = stored /\ work' = work /\ answer' = answer
         /\ code' = code /\ flushed' = flushed /\ overlap' = overlap
  BY DEF Untouched, environment, history

(* Steps that let no render begin or end.                                  *)
LEMMA StagesOnly ==
  ASSUME EInv, Untouched,
         \A r \in Renders : /\ stage'[r] \in {"polling", "rendering"} <=> stage[r] \in {"polling", "rendering"}
                            /\ stage'[r] \in {"unsent", "queued"} <=> stage[r] \in {"unsent", "queued"}
                            /\ stage'[r] = "answered" <=> stage[r] = "answered"
  PROVE  EInv'
  <1>1. /\ cache' = cache /\ window' = window /\ fetch' = fetch /\ via' = via
        /\ stored' = stored /\ work' = work /\ answer' = answer
        /\ code' = code /\ flushed' = flushed /\ overlap' = overlap
    BY NothingTouched
  <1>2. Waiting' = Waiting
    BY DEF Waiting
  <1>3. Late' = Late
    BY <1>1 DEF Late
  <1>4. EnvTypes'
    BY <1>1 DEF EInv, EnvTypes
  <1>5. NotStarted' /\ Unanswered'
    BY <1>1 DEF EInv, NotStarted, Unanswered
  <1>6. Globals' /\ Together' /\ Sources' /\ Alone'
    BY <1>1, <1>2, <1>3 DEF EInv, Globals, Together, Sources, Alone
  <1>7. CacheGood(cache, flushed)' /\ Codes' /\ OwnResult'
    BY <1>1 DEF EInv, CacheGood, Codes, OwnResult
  <1> QED BY <1>4, <1>5, <1>6, <1>7 DEF EInv

(* A render that waited is answered, and its environment destroyed: no     *)
(* other can have been alone.                                              *)
LEMMA FinishKeepsRenders ==
  ASSUME WInv, EInv, NEW r \in Waiting, stage' = [stage EXCEPT ![r] = "answered"],
         NEW a \in Answers, Answer(r, a),
         a.status = "success" =>
           /\ a.storage \cup a.through \subseteq {r} \cup overlap[r]
           /\ overlap[r] = {} => a.storage = {r} /\ a.document = r,
         Destroy(r),
         NEW w \in {"none", "running"}, work' = [work EXCEPT ![r] = w],
         w = "running" => work[r] = "running",
         UNCHANGED <<cache, history>>
  PROVE  EInv'
  <1>1. /\ window' = None /\ fetch' = NoFetch
        /\ via' = [via EXCEPT ![r] = NoFetch]
        /\ stored' = [stored EXCEPT ![r] = {}]
        /\ answer' = [answer EXCEPT ![r] = a]
        /\ cache' = cache /\ code' = code /\ flushed' = flushed /\ overlap' = overlap
    BY DEF Destroy, Answer, history
  <1>2. r \in Renders /\ r \in Requests /\ stage[r] \in {"polling", "rendering"}
    BY DEF Waiting, Renders
  <1>3. \A q \in Renders : stage'[q] = IF q = r THEN "answered" ELSE stage[q]
    BY DEF WInv, WireTypes, Renders
  <1>4. /\ \A q \in Renders : q # r => /\ via'[q] = via[q] /\ stored'[q] = stored[q]
                                       /\ answer'[q] = answer[q] /\ work'[q] = work[q]
        /\ answer'[r] = a /\ work'[r] = w
    BY <1>1, <1>2 DEF EInv, EnvTypes
  <1>5. Waiting' = Waiting \ {r}
    BY <1>3 DEF Waiting
  <1>6. Late' \subseteq Late \cup {r}
    BY <1>3, <1>4 DEF Late
  <1>7. EnvTypes'
    <2>1. NoFetch \in Fetches
      BY DEF NoFetch, Fetches
    <2>2. window' \in Renders \cup {None} /\ fetch' \in Fetches
      BY <1>1, <2>1
    <2>3. via' \in [Renders -> Fetches]
      BY <1>1, <2>1 DEF EInv, EnvTypes
    <2>4. stored' \in [Renders -> SUBSET Renders]
      BY <1>1 DEF EInv, EnvTypes
    <2>5. work' \in [Renders -> {"none", "running", "done", "failed"}]
      BY DEF EInv, EnvTypes
    <2>6. answer' \in [Renders -> Answers]
      BY <1>1 DEF EInv, EnvTypes
    <2> QED BY <1>1, <2>2, <2>3, <2>4, <2>5, <2>6 DEF EInv, EnvTypes
  <1>8. NotStarted' /\ Unanswered'
    BY <1>1, <1>3, <1>4 DEF EInv, NotStarted, Unanswered
  <1>9. Globals'
    BY <1>1 DEF Globals, NoFetch
  <1>10. Together'
    BY <1>1, <1>5, <1>6 DEF EInv, Together
  <1>11. Sources'
    BY <1>1, <1>2, <1>4, <1>5 DEF EInv, Sources, Waiting
  <1>12. Alone'
    <2>1. ASSUME NEW q \in Waiting'
          PROVE  overlap'[q] # {}
      <3>1. q \in Waiting /\ q # r
        BY <1>5
      <3>2. r \in overlap[q]
        BY <3>1 DEF EInv, Together
      <3> QED BY <1>1, <3>2
    <2> QED BY <2>1 DEF Alone
  <1>13. CacheGood(cache, flushed)' /\ Codes'
    BY <1>1 DEF EInv, CacheGood, Codes
  <1>14. OwnResult'
    <2>1. ASSUME NEW q \in Renders, answer'[q].status = "success"
          PROVE  /\ answer'[q].storage \cup answer'[q].through \subseteq {q} \cup overlap[q]
                 /\ overlap[q] = {} => answer'[q].storage = {q} /\ answer'[q].document = q
      <3>1. CASE q = r
        BY <1>4, <2>1, <3>1
      <3>2. CASE q # r
        BY <1>4, <2>1, <3>2 DEF EInv, OwnResult
      <3> QED BY <3>1, <3>2
    <2> QED BY <1>1, <2>1 DEF OwnResult
  <1> QED BY <1>7, <1>8, <1>9, <1>10, <1>11, <1>12, <1>13, <1>14 DEF EInv

(* Where a render's code comes from: prepared for it, or for an earlier    *)
(* render of the same bundles and not flushed since.                       *)
LEMMA LoadsGood ==
  ASSUME EInv, NEW r \in Renders, r \notin flushed, Loads(r)
  PROVE  /\ CacheGood(cache', flushed)
         /\ \E x \in Renders : /\ code' = [code EXCEPT ![r] = x] /\ x \notin flushed
                               /\ BundlesOf[x] = BundlesOf[r]
  <1>1. CacheGood(cache, flushed)
    BY DEF EInv
  <1>2. PICK later \in BOOLEAN :
          IF Has(cache, BundlesOf[r])
          THEN /\ cache' = Used(cache, BundlesOf[r], later)
               /\ code' = [code EXCEPT ![r] = CodeAt(cache, BundlesOf[r])]
          ELSE /\ cache' = Put(cache, BundlesOf[r], r, later)
               /\ code' = [code EXCEPT ![r] = r]
    BY DEF Loads
  <1>3. CASE Has(cache, BundlesOf[r])
    <2>1. /\ CacheGood(Used(cache, BundlesOf[r], later), flushed)
          /\ CodeAt(cache, BundlesOf[r]) \in Renders /\ CodeAt(cache, BundlesOf[r]) \notin flushed
          /\ BundlesOf[CodeAt(cache, BundlesOf[r])] = BundlesOf[r]
      BY <1>1, <1>3, UsedIsGood
    <2> QED BY <1>2, <1>3, <2>1
  <1>4. CASE ~Has(cache, BundlesOf[r])
    <2>1. CacheGood(Put(cache, BundlesOf[r], r, later), flushed)
      BY <1>1, <1>4, PutIsGood
    <2> QED BY <1>2, <1>4, <2>1
  <1> QED BY <1>3, <1>4

(* A render that fails at once has been in the globals for the length of a *)
(* step.                                                                   *)
LEMMA FailKeepsRenders ==
  ASSUME WInv, EInv, NEW r \in Requests, RenderFails(r)
  PROVE  EInv'
  <1>1. r \in Renders /\ stage[r] = "queued"
    BY DEF RenderFails, Pending
  <1>2. PICK a : a = Error("error")
    OBVIOUS
  <1>3. a \in Answers /\ a.status = "error"
    BY <1>2 DEF Error, NoAnswer, Answers
  <1>4. /\ window' = None /\ fetch' = NoFetch
        /\ via' = [via EXCEPT ![r] = NoFetch]
        /\ stored' = [stored EXCEPT ![r] = {}]
        /\ answer' = [answer EXCEPT ![r] = a]
        /\ stage' = [stage EXCEPT ![r] = "answered"]
        /\ overlap' = [q \in Renders |-> IF q \in Waiting THEN overlap[q] \cup {r} ELSE overlap[q]]
        /\ work' = work /\ flushed' = flushed /\ Loads(r)
    BY <1>2 DEF RenderFails, Destroy, Answer, Answered
  <1>5. work[r] = "none" /\ r \notin flushed /\ code[r] = None
    BY <1>1 DEF EInv, NotStarted
  <1>6. CacheGood(cache', flushed)
    BY <1>1, <1>4, <1>5, LoadsGood
  <1>7. PICK x \in Renders : /\ code' = [code EXCEPT ![r] = x] /\ x \notin flushed
                             /\ BundlesOf[x] = BundlesOf[r]
    BY <1>1, <1>4, <1>5, LoadsGood
  <1>8. \A q \in Renders : stage'[q] = IF q = r THEN "answered" ELSE stage[q]
    BY <1>4 DEF WInv, WireTypes, Renders
  <1>9. /\ \A q \in Renders : q # r => /\ via'[q] = via[q] /\ stored'[q] = stored[q]
                                       /\ answer'[q] = answer[q] /\ code'[q] = code[q]
        /\ answer'[r] = a /\ code'[r] = x
    BY <1>1, <1>4, <1>7 DEF EInv, EnvTypes
  <1>10. Waiting' = Waiting /\ r \notin Waiting
    BY <1>1, <1>8 DEF Waiting
  <1>11. Late' = Late
    BY <1>1, <1>4, <1>5, <1>8 DEF Late
  <1>12. \A q \in Renders : overlap'[q] = IF q \in Waiting THEN overlap[q] \cup {r} ELSE overlap[q]
    BY <1>4
  <1>13. EnvTypes'
    <2>1. NoFetch \in Fetches
      BY DEF NoFetch, Fetches
    <2>2. window' \in Renders \cup {None} /\ fetch' \in Fetches
      BY <1>4, <2>1
    <2>3. via' \in [Renders -> Fetches] /\ stored' \in [Renders -> SUBSET Renders]
      BY <1>4, <2>1 DEF EInv, EnvTypes
    <2>4. answer' \in [Renders -> Answers]
      BY <1>3, <1>4 DEF EInv, EnvTypes
    <2>5. code' \in [Renders -> Renders \cup {None}]
      BY <1>7 DEF EInv, EnvTypes
    <2>6. overlap' \in [Renders -> SUBSET Renders]
      BY <1>1, <1>4 DEF EInv, EnvTypes
    <2> QED BY <1>4, <2>2, <2>3, <2>4, <2>5, <2>6 DEF EInv, EnvTypes
  <1>14. NotStarted' /\ Unanswered'
    BY <1>4, <1>8, <1>9 DEF EInv, NotStarted, Unanswered
  <1>15. Globals'
    BY <1>4 DEF Globals, NoFetch
  <1>16. Together'
    <2>1. ASSUME NEW q \in Waiting, NEW p \in Waiting \cup Late, p # q
          PROVE  p \in overlap'[q]
      <3>1. p \in overlap[q] /\ q \in Renders
        BY <2>1 DEF EInv, Together, Waiting
      <3> QED BY <1>12, <3>1
    <2> QED BY <1>10, <1>11, <2>1 DEF Together
  <1>17. Sources'
    <2>1. ASSUME NEW q \in Waiting
          PROVE  via'[q].through \cup stored'[q] \subseteq {q} \cup overlap'[q]
      <3>1. q \in Renders /\ q # r /\ via[q].through \cup stored[q] \subseteq {q} \cup overlap[q]
        BY <1>10 DEF EInv, Sources, Waiting
      <3> QED BY <1>9, <1>12, <3>1
    <2> QED BY <1>10, <2>1 DEF Sources
  <1>18. Alone'
    <2>1. \A q \in Waiting : overlap'[q] # {}
      BY <1>12 DEF Waiting
    <2> QED BY <1>10, <2>1 DEF Alone
  <1>19. Codes'
    BY <1>7, <1>9 DEF EInv, Codes
  <1>20. OwnResult'
    <2>1. ASSUME NEW q \in Renders, answer'[q].status = "success"
          PROVE  /\ answer'[q].storage \cup answer'[q].through \subseteq {q} \cup overlap'[q]
                 /\ overlap'[q] = {} => answer'[q].storage = {q} /\ answer'[q].document = q
      <3>1. q # r
        BY <1>3, <1>9, <2>1
      <3>2. answer'[q] = answer[q]
        BY <1>9, <3>1
      <3>3. q \notin Waiting
        BY <2>1, <3>2 DEF EInv, Unanswered, Waiting, None
      <3> QED BY <1>12, <2>1, <3>2, <3>3 DEF EInv, OwnResult
    <2> QED BY <2>1 DEF OwnResult
  <1>21. CacheGood(cache, flushed)'
    BY <1>4, <1>6
  <1> QED BY <1>13, <1>14, <1>15, <1>16, <1>17, <1>18, <1>19, <1>20, <1>21 DEF EInv
(* A render starts: those that wait, and those that run on after their     *)
(* timeout, are what it overlaps with.                                     *)
LEMMA StartKeepsRenders ==
  ASSUME WInv, EInv, NEW r \in Requests, StartRender(r)
  PROVE  EInv'
  <1>1. r \in Renders /\ stage[r] = "queued"
    BY DEF StartRender, Pending
  <1>2. PICK f : f = Wrapped(r)
    OBVIOUS
  <1>3. PICK s : s = IF KindOf[r] = "spa" THEN "polling" ELSE "rendering"
    OBVIOUS
  <1>4. /\ window' = r /\ fetch' = f
        /\ via' = [via EXCEPT ![r] = f]
        /\ stored' = [stored EXCEPT ![r] = {}]
        /\ work' = [work EXCEPT ![r] = "running"]
        /\ stage' = [stage EXCEPT ![r] = s]
        /\ overlap' = [q \in Renders |->
                         IF q = r THEN Waiting \cup Late
                         ELSE IF q \in Waiting THEN overlap[q] \cup {r} ELSE overlap[q]]
        /\ answer' = answer /\ flushed' = flushed /\ Loads(r)
    BY <1>2, <1>3 DEF StartRender
  <1>5. work[r] = "none" /\ r \notin flushed /\ code[r] = None /\ answer[r].status = None
    BY <1>1 DEF EInv, NotStarted, Unanswered
  <1>6. CacheGood(cache', flushed)
    BY <1>1, <1>4, <1>5, LoadsGood
  <1>7. PICK x \in Renders : /\ code' = [code EXCEPT ![r] = x] /\ x \notin flushed
                             /\ BundlesOf[x] = BundlesOf[r]
    BY <1>1, <1>4, <1>5, LoadsGood
  <1>8. s \in {"polling", "rendering"}
    BY <1>3
  <1>9. \A q \in Renders : stage'[q] = IF q = r THEN s ELSE stage[q]
    BY <1>4 DEF WInv, WireTypes, Renders
  <1>10. /\ \A q \in Renders : q # r => /\ via'[q] = via[q] /\ stored'[q] = stored[q]
                                        /\ work'[q] = work[q] /\ code'[q] = code[q]
         /\ via'[r] = f /\ stored'[r] = {} /\ work'[r] = "running" /\ code'[r] = x
    BY <1>1, <1>4, <1>7 DEF EInv, EnvTypes
  <1>11. Waiting' = Waiting \cup {r} /\ r \notin Waiting
    BY <1>1, <1>8, <1>9 DEF Waiting
  <1>12. Late' = Late
    BY <1>1, <1>8, <1>9, <1>10 DEF Late
  <1>13. \A q \in Renders : overlap'[q] = IF q = r THEN Waiting \cup Late
                                          ELSE IF q \in Waiting THEN overlap[q] \cup {r} ELSE overlap[q]
    BY <1>4
  <1>14. fetch \in Fetches /\ fetch.through \subseteq Waiting
    BY DEF EInv, EnvTypes, Globals
  <1>15. f \in Fetches /\ f.through \subseteq {r} \cup Waiting
    <2>1. PICK t : t = IF fetch.there THEN fetch.through ELSE {}
      OBVIOUS
    <2>2. PICK y : y = (fetch.there /\ fetch.native)
      OBVIOUS
    <2>3. y \in BOOLEAN /\ t \subseteq Waiting
      BY <1>14, <2>1, <2>2
    <2>4. f = [there |-> TRUE, native |-> y, through |-> {r} \cup t]
      BY <1>2, <2>1, <2>2 DEF Wrapped
    <2>5. {r} \cup t \in SUBSET Renders /\ {r} \cup t \subseteq {r} \cup Waiting
      BY <1>1, <2>3 DEF Waiting
    <2> QED BY <2>3, <2>4, <2>5 DEF Fetches
  <1>16. EnvTypes'
    <2>1. window' \in Renders \cup {None} /\ fetch' \in Fetches
      BY <1>1, <1>4, <1>15
    <2>2. via' \in [Renders -> Fetches] /\ stored' \in [Renders -> SUBSET Renders]
      BY <1>4, <1>15 DEF EInv, EnvTypes
    <2>3. work' \in [Renders -> {"none", "running", "done", "failed"}]
      BY <1>4 DEF EInv, EnvTypes
    <2>4. code' \in [Renders -> Renders \cup {None}]
      BY <1>7 DEF EInv, EnvTypes
    <2>5. overlap' \in [Renders -> SUBSET Renders]
      <3>1. Waiting \cup Late \in SUBSET Renders
        BY DEF Waiting, Late
      <3>2. \A q \in Renders : overlap[q] \in SUBSET Renders
        BY DEF EInv, EnvTypes
      <3>3. \A q \in Renders : overlap[q] \cup {r} \in SUBSET Renders
        BY <1>1, <3>2
      <3>4. \A q \in Renders : overlap'[q] \in SUBSET Renders
        BY <1>13, <3>1, <3>2, <3>3
      <3> QED BY <1>4, <3>4
    <2> QED BY <1>4, <2>1, <2>2, <2>3, <2>4, <2>5 DEF EInv, EnvTypes
  <1>17. NotStarted' /\ Unanswered'
    BY <1>4, <1>5, <1>8, <1>9, <1>10 DEF EInv, NotStarted, Unanswered
  <1>18. Globals'
    BY <1>4, <1>11, <1>15 DEF Globals
  <1>19. Together'
    <2>1. ASSUME NEW q \in Waiting \cup {r}, NEW p \in Waiting \cup {r} \cup Late, p # q
          PROVE  p \in overlap'[q]
      <3>1. q \in Renders
        BY <1>1 DEF Waiting
      <3>2. CASE q = r
        BY <1>13, <2>1, <3>1, <3>2
      <3>3. CASE q # r /\ p = r
        BY <1>13, <3>1, <3>3
      <3>4. CASE q # r /\ p # r
        <4>1. p \in overlap[q]
          BY <2>1, <3>4 DEF EInv, Together
        <4> QED BY <1>13, <3>1, <3>4, <4>1
      <3> QED BY <3>2, <3>3, <3>4
    <2> QED BY <1>11, <1>12, <2>1 DEF Together
  <1>20. Sources'
    <2>1. ASSUME NEW q \in Waiting \cup {r}
          PROVE  via'[q].through \cup stored'[q] \subseteq {q} \cup overlap'[q]
      <3>1. CASE q = r
        <4>1. via'[r].through = f.through /\ stored'[r] = {}
          BY <1>10
        <4>2. overlap'[r] = Waiting \cup Late
          BY <1>1, <1>13
        <4>3. f.through \subseteq {r} \cup Waiting
          BY <1>15
        <4> QED BY <3>1, <4>1, <4>2, <4>3
      <3>2. CASE q # r
        <4>1. q \in Waiting /\ q \in Renders
          BY <3>2 DEF Waiting
        <4>2. via[q].through \cup stored[q] \subseteq {q} \cup overlap[q]
          BY <4>1 DEF EInv, Sources
        <4> QED BY <1>10, <1>13, <3>2, <4>1, <4>2
      <3> QED BY <3>1, <3>2
    <2> QED BY <1>11, <2>1 DEF Sources
  <1>21. Alone'
    <2>1. \A q \in Waiting : q \in Renders /\ overlap'[q] # {}
      BY <1>11, <1>13 DEF Waiting
    <2>2. window' = r /\ work'[r] # "done"
      BY <1>4, <1>10
    <2> QED BY <1>11, <2>1, <2>2 DEF Alone
  <1>22. Codes'
    BY <1>7, <1>10 DEF EInv, Codes
  <1>23. OwnResult'
    <2>1. ASSUME NEW q \in Renders, answer[q].status = "success"
          PROVE  overlap'[q] = overlap[q]
      <3>1. q # r
        BY <1>5, <2>1 DEF None
      <3>2. q \notin Waiting
        BY <2>1 DEF EInv, Unanswered, Waiting, None
      <3> QED BY <1>13, <3>1, <3>2
    <2> QED BY <1>4, <2>1 DEF EInv, OwnResult
  <1>24. CacheGood(cache, flushed)'
    BY <1>4, <1>6
  <1> QED BY <1>16, <1>17, <1>18, <1>19, <1>20, <1>21, <1>22, <1>23, <1>24 DEF EInv

(* A component runs, and writes to whatever storage the globals hold.      *)
LEMMA RunsKeepsRenders ==
  ASSUME WInv, EInv, NEW r \in Renders, Runs(r)
  PROVE  EInv'
  <1>1. r \in Waiting \cup Late /\ work[r] = "running"
    BY DEF Runs
  <1>2. PICK w : w = IF r \in Late THEN "none" ELSE IF window = None THEN "failed" ELSE "done"
    OBVIOUS
  <1>3. /\ work' = [work EXCEPT ![r] = w]
        /\ stored' = IF window = None THEN stored ELSE [stored EXCEPT ![window] = @ \cup {r}]
        /\ stage' = stage /\ cache' = cache /\ window' = window /\ fetch' = fetch /\ via' = via
        /\ answer' = answer /\ code' = code /\ flushed' = flushed /\ overlap' = overlap
    BY <1>2 DEF Runs, history
  <1>4. \A q \in Renders : work'[q] = IF q = r THEN w ELSE work[q]
    BY <1>3 DEF EInv, EnvTypes
  <1>5. \A q \in Renders : stored'[q] = IF q = window /\ window # None THEN stored[q] \cup {r} ELSE stored[q]
    BY <1>3 DEF EInv, EnvTypes
  <1>6. Waiting' = Waiting
    BY <1>3 DEF Waiting
  <1>7. w # "running"
    BY <1>2
  <1>8. Late' \subseteq Late
    BY <1>3, <1>4, <1>7 DEF Late
  <1>9. EnvTypes'
    <2>1. work' \in [Renders -> {"none", "running", "done", "failed"}]
      BY <1>2, <1>3 DEF EInv, EnvTypes
    <2>2. stored' \in [Renders -> SUBSET Renders]
      BY <1>3 DEF EInv, EnvTypes
    <2> QED BY <1>3, <2>1, <2>2 DEF EInv, EnvTypes
  <1>10. NotStarted' /\ Unanswered'
    <2>1. stage[r] \notin {"unsent", "queued"}
      BY <1>1 DEF Waiting, Late
    <2> QED BY <1>3, <1>4, <2>1 DEF EInv, NotStarted, Unanswered
  <1>11. Globals' /\ Together'
    BY <1>3, <1>6, <1>8 DEF EInv, Globals, Together
  <1>12. Sources'
    <2>1. ASSUME NEW q \in Waiting
          PROVE  via[q].through \cup stored'[q] \subseteq {q} \cup overlap[q]
      <3>1. r \in {q} \cup overlap[q]
        BY <1>1 DEF EInv, Together
      <3>2. q \in Renders /\ via[q].through \cup stored[q] \subseteq {q} \cup overlap[q]
        BY DEF EInv, Sources, Waiting
      <3> QED BY <1>5, <3>1, <3>2
    <2> QED BY <1>3, <1>6, <2>1 DEF Sources
  <1>13. Alone'
    <2>1. ASSUME NEW q \in Waiting, overlap[q] = {}
          PROVE  window = q /\ (work'[q] = "done" => q \in stored'[q])
      <3>1. window = q /\ q \in Renders /\ (work[q] = "done" => q \in stored[q])
        BY <2>1 DEF EInv, Alone, Waiting
      <3>2. q # None
        BY <3>1, RequestsAssumption DEF Renders
      <3>3. stored'[q] = stored[q] \cup {r}
        BY <1>5, <3>1, <3>2
      <3> QED BY <1>4, <3>1, <3>3
    <2> QED BY <1>3, <1>6, <2>1 DEF Alone
  <1>14. CacheGood(cache, flushed)' /\ Codes' /\ OwnResult'
    BY <1>3 DEF EInv, CacheGood, Codes, OwnResult
  <1> QED BY <1>9, <1>10, <1>11, <1>12, <1>13, <1>14 DEF EInv

(* A flush takes its bundles' code out of the cache.                       *)
LEMMA FlushKeepsRenders ==
  ASSUME WInv, EInv, NEW r \in Requests, HandleFlush(r)
  PROVE  EInv'
  <1>1. KindOf[r] = "flush" /\ r \notin Renders
    BY DEF HandleFlush, Renders
  <1>2. /\ cache' = IF BundlesOf[r] = <<>> THEN EmptyCache ELSE Flushed(cache, BundlesOf[r][1])
        /\ flushed' = flushed \cup Named(r)
        /\ stage' = [stage EXCEPT ![r] = "answered"]
        /\ window' = window /\ fetch' = fetch /\ via' = via /\ stored' = stored
        /\ work' = work /\ answer' = answer /\ code' = code /\ overlap' = overlap
    BY DEF HandleFlush, Answered, environment
  <1>3. \A q \in Renders : stage'[q] = stage[q]
    BY <1>1, <1>2 DEF WInv, WireTypes, Renders
  <1>4. Waiting' = Waiting
    BY <1>3 DEF Waiting
  <1>5. Late' = Late
    BY <1>2, <1>3 DEF Late
  <1>6. CacheGood(cache', flushed')
    <2>1. CASE BundlesOf[r] = <<>>
      BY <1>2, <2>1, EmptyIsGood
    <2>2. CASE BundlesOf[r] # <<>>
      <3>1. \A q \in Named(r) : Contains(BundlesOf[q], BundlesOf[r][1])
        BY <2>2 DEF Named
      <3>2. CacheGood(cache, flushed)
        BY DEF EInv
      <3>3. CacheGood(Flushed(cache, BundlesOf[r][1]), flushed \cup Named(r))
        BY <3>1, <3>2, FlushedIsGood, Zenon
      <3> QED BY <1>2, <2>2, <3>3
    <2> QED BY <2>1, <2>2
  <1>7. EnvTypes'
    BY <1>2 DEF EInv, EnvTypes, Named
  <1>8. NotStarted'
    <2>1. ASSUME NEW q \in Renders, stage[q] \in {"unsent", "queued"}
          PROVE  q \notin Named(r)
      <3>1. code[q] = None /\ q # None
        BY <2>1, RequestsAssumption DEF EInv, NotStarted, Renders
      <3> QED BY <3>1 DEF Named
    <2> QED BY <1>2, <1>3, <2>1 DEF EInv, NotStarted
  <1>9. Unanswered' /\ Globals' /\ Together' /\ Sources' /\ Alone'
    BY <1>2, <1>3, <1>4, <1>5 DEF EInv, Unanswered, Globals, Together, Sources, Alone
  <1>10. Codes' /\ OwnResult'
    BY <1>2 DEF EInv, Codes, OwnResult
  <1> QED BY <1>6, <1>7, <1>8, <1>9, <1>10 DEF EInv

(* Bundles that are not there: an error, and nothing else.                 *)
LEMMA PrepareKeepsRenders ==
  ASSUME WInv, EInv, NEW r \in Requests, PrepareFails(r)
  PROVE  EInv'
  <1>1. r \in Renders /\ stage[r] = "queued"
    BY DEF PrepareFails, Pending, Renders
  <1>2. PICK a : a = Error("error")
    OBVIOUS
  <1>3. a \in Answers /\ a.status = "error"
    BY <1>2 DEF Error, NoAnswer, Answers
  <1>4. /\ answer' = [answer EXCEPT ![r] = a]
        /\ stage' = [stage EXCEPT ![r] = "answered"]
        /\ cache' = cache /\ window' = window /\ fetch' = fetch /\ via' = via /\ stored' = stored
        /\ work' = work /\ code' = code /\ flushed' = flushed /\ overlap' = overlap
    BY <1>2 DEF PrepareFails, Answer, Answered, environment, history
  <1>5. work[r] = "none"
    BY <1>1 DEF EInv, NotStarted
  <1>6. \A q \in Renders : stage'[q] = IF q = r THEN "answered" ELSE stage[q]
    BY <1>4 DEF WInv, WireTypes, Renders
  <1>7. \A q \in Renders : answer'[q] = IF q = r THEN a ELSE answer[q]
    BY <1>4 DEF EInv, EnvTypes
  <1>8. Waiting' = Waiting
    BY <1>1, <1>6 DEF Waiting
  <1>9. Late' = Late
    BY <1>1, <1>4, <1>5, <1>6 DEF Late
  <1>10. EnvTypes'
    BY <1>3, <1>4 DEF EInv, EnvTypes
  <1>11. NotStarted' /\ Unanswered'
    BY <1>4, <1>6, <1>7 DEF EInv, NotStarted, Unanswered
  <1>12. Globals' /\ Together' /\ Sources' /\ Alone'
    BY <1>4, <1>8, <1>9 DEF EInv, Globals, Together, Sources, Alone
  <1>13. CacheGood(cache, flushed)' /\ Codes'
    BY <1>4 DEF EInv, CacheGood, Codes
  <1>14. OwnResult'
    BY <1>3, <1>4, <1>7 DEF EInv, OwnResult
  <1> QED BY <1>10, <1>11, <1>12, <1>13, <1>14 DEF EInv

-----------------------------------------------------------------------------
(* What the invariant says at a request that is at the head of a handler.  *)
LEMMA PendingIsUnderWay ==
  ASSUME NEW r, Pending(r)
  PROVE  UnderWay(r) /\ IsNext(r)
  BY DEF Pending, UnderWay

LEMMA WaitingIsUnderWay ==
  ASSUME WInv, NEW r \in Waiting
  PROVE  r \in Requests /\ UnderWay(r) /\ IsNext(r)
  BY DEF WInv, NobodyLost, Waiting, Renders, UnderWay

(* A ping or a message that is rejected: no render begins or ends.         *)
LEMMA AtOnceKeeps ==
  ASSUME SInv, NEW r \in Requests, HandleAtOnce(r)
  PROVE  SInv'
  <1>1. WInv /\ EInv
    BY DEF SInv
  <1>2. Pending(r) /\ Answered(r) /\ r \notin Renders
    BY DEF HandleAtOnce, Rejected, Renders
  <1>3. WInv'
    BY <1>1, <1>2, PendingIsUnderWay, AnsweredKeepsWire
  <1>4. Untouched
    BY DEF HandleAtOnce, Untouched
  <1>5. \A q \in Renders : stage'[q] = stage[q]
    BY <1>1, <1>2 DEF Answered, WInv, WireTypes, Renders
  <1>6. EInv'
    BY <1>1, <1>4, <1>5, StagesOnly
  <1> QED BY <1>3, <1>6 DEF SInv

(* What ends without a render having begun to wait.                        *)
LEMMA HandledKeeps ==
  ASSUME SInv, NEW r \in Requests, HandleFlush(r) \/ PrepareFails(r) \/ RenderFails(r)
  PROVE  SInv'
  <1>1. WInv /\ EInv
    BY DEF SInv
  <1>2. Pending(r) /\ Answered(r)
    BY DEF HandleFlush, PrepareFails, RenderFails
  <1>3. WInv'
    BY <1>1, <1>2, PendingIsUnderWay, AnsweredKeepsWire
  <1>4. EInv'
    BY <1>1, FlushKeepsRenders, PrepareKeepsRenders, FailKeepsRenders
  <1> QED BY <1>3, <1>4 DEF SInv

LEMMA StartKeeps ==
  ASSUME SInv, NEW r \in Requests, StartRender(r)
  PROVE  SInv'
  <1>1. WInv /\ EInv
    BY DEF SInv
  <1>2. PICK x \in {"polling", "rendering"} : stage' = [stage EXCEPT ![r] = x]
    BY DEF StartRender
  <1>3. Pending(r) /\ r \in Renders /\ UNCHANGED wire
    BY DEF StartRender
  <1>4. WInv'
    BY <1>1, <1>2, <1>3, PendingIsUnderWay, WaitingKeepsWire
  <1>5. EInv'
    BY <1>1, StartKeepsRenders
  <1> QED BY <1>4, <1>5 DEF SInv

LEMMA DeliverKeeps ==
  ASSUME SInv, NEW c \in Conns, NEW n \in 1 .. Len(Stream[c]), Deliver(c, n)
  PROVE  SInv'
  <1>1. WInv /\ EInv
    BY DEF SInv
  <1>2. WInv' /\ \A r \in Requests : stage'[r] # stage[r] => stage[r] = "unsent" /\ stage'[r] = "queued"
    BY <1>1, DeliverKeepsWire
  <1>3. Untouched
    BY DEF Deliver, Untouched
  <1>4. \A r \in Renders : stage'[r] # stage[r] => stage[r] = "unsent" /\ stage'[r] = "queued"
    BY <1>2 DEF Renders
  <1>5. EInv'
    BY <1>1, <1>3, <1>4, StagesOnly
  <1> QED BY <1>2, <1>5 DEF SInv

LEMMA AppearsKeeps ==
  ASSUME SInv, NEW r \in Renders, Appears(r)
  PROVE  SInv'
  <1>1. WInv /\ EInv
    BY DEF SInv
  <1>2. /\ r \in Waiting /\ stage[r] = "polling" /\ UNCHANGED wire /\ Untouched
        /\ stage' = [stage EXCEPT ![r] = "rendering"]
    BY DEF Appears, Waiting, Untouched
  <1>3. WInv'
    <2>1. UnderWay(r) /\ IsNext(r)
      BY <1>1, <1>2, WaitingIsUnderWay
    <2> QED BY <1>1, <1>2, <2>1, WaitingKeepsWire
  <1>4. \A q \in Renders : stage'[q] = IF q = r THEN "rendering" ELSE stage[q]
    BY <1>1, <1>2 DEF WInv, WireTypes, Renders
  <1>5. EInv'
    BY <1>1, <1>2, <1>4, StagesOnly
  <1> QED BY <1>3, <1>5 DEF SInv

LEMMA RunsKeeps ==
  ASSUME SInv, NEW r \in Renders, Runs(r)
  PROVE  SInv'
  <1>1. WInv /\ EInv
    BY DEF SInv
  <1>2. WInv'
    BY <1>1, WireUntouched DEF Runs
  <1>3. EInv'
    BY <1>1, RunsKeepsRenders
  <1> QED BY <1>2, <1>3 DEF SInv

(* A component that is ready: what is taken for the answer.                *)
LEMMA ReadyKeeps ==
  ASSUME SInv, NEW r \in Renders, Ready(r)
  PROVE  SInv'
  <1>1. WInv /\ EInv
    BY DEF SInv
  <1>2. PICK a : a = [status |-> "success", storage |-> stored[r], document |-> Document(r),
                      through |-> via[r].through]
    OBVIOUS
  <1>3. /\ Answer(r, a) /\ Destroy(r) /\ Answered(r) /\ work[r] = "done"
        /\ work' = [work EXCEPT ![r] = "none"] /\ UNCHANGED <<cache, history>>
    BY <1>2 DEF Ready
  <1>4. r \in Waiting
    BY DEF Ready, Waiting
  <1>5. WInv'
    BY <1>1, <1>3, <1>4, WaitingIsUnderWay, AnsweredKeepsWire
  <1>6. stored[r] \in SUBSET Renders /\ via[r] \in Fetches /\ window \in Renders \cup {None}
    BY <1>1 DEF EInv, EnvTypes
  <1>7. Document(r) \in Renders \cup {None} /\ via[r].through \in SUBSET Renders
    BY <1>6 DEF Document, Fetches
  <1>8. a \in Answers
    BY <1>2, <1>6, <1>7 DEF Answers
  <1>9. a.storage \cup a.through \subseteq {r} \cup overlap[r]
    BY <1>1, <1>2, <1>4 DEF EInv, Sources
  <1>10. overlap[r] = {} => a.storage = {r} /\ a.document = r
    <2>1. SUFFICES ASSUME overlap[r] = {}
                   PROVE  stored[r] = {r} /\ Document(r) = r
      BY <1>2
    <2>2. window = r /\ r \in stored[r]
      BY <1>1, <1>3, <1>4, <2>1 DEF EInv, Alone
    <2>3. stored[r] \subseteq {r}
      BY <1>1, <1>4, <2>1 DEF EInv, Sources
    <2> QED BY <2>2, <2>3 DEF Document
  <1>11. stage' = [stage EXCEPT ![r] = "answered"]
    BY <1>3 DEF Answered
  <1>12. EInv'
    BY <1>1, <1>3, <1>4, <1>8, <1>9, <1>10, <1>11, FinishKeepsRenders
  <1> QED BY <1>5, <1>12 DEF SInv

(* A component that fails, or for which nobody waits any more.             *)
LEMMA GivenUpKeeps ==
  ASSUME SInv, NEW r \in Renders, Throws(r) \/ Timeout(r)
  PROVE  SInv'
  <1>1. WInv /\ EInv
    BY DEF SInv
  <1>2. PICK a : /\ a \in {Error("error"), Error("timeout")} /\ Answer(r, a)
                 /\ Destroy(r) /\ Answered(r) /\ UNCHANGED <<cache, history>>
    BY DEF Throws, Timeout
  <1>3. a \in Answers /\ a.status # "success"
    BY <1>2 DEF Error, NoAnswer, Answers
  <1>4. PICK w \in {"none", "running"} : /\ work' = [work EXCEPT ![r] = w]
                                         /\ w = "running" => work[r] = "running"
    BY <1>1 DEF Throws, Timeout, EInv, EnvTypes
  <1>5. r \in Waiting
    BY DEF Throws, Timeout, Waiting
  <1>6. WInv'
    BY <1>1, <1>2, <1>5, WaitingIsUnderWay, AnsweredKeepsWire
  <1>7. stage' = [stage EXCEPT ![r] = "answered"]
    BY <1>2 DEF Answered
  <1>8. EInv'
    BY <1>1, <1>2, <1>3, <1>4, <1>5, <1>7, FinishKeepsRenders
  <1> QED BY <1>6, <1>8 DEF SInv

(* The server starts with nothing arrived and nothing rendered.            *)
LEMMA InitSInv == Init => SInv
  <1> SUFFICES ASSUME Init PROVE SInv
    OBVIOUS
  <1>1. \A r \in Requests : stage[r] = "unsent"
    BY DEF Init
  <1>2. \A r \in Renders : stage[r] = "unsent"
    BY <1>1 DEF Renders
  <1>3. Waiting = {} /\ Late = {}
    BY <1>2 DEF Waiting, Late
  <1>4. WInv
    <2>1. WireTypes
      <3>1. <<>> \in Seq(Symbols)
        BY EmptySeq
      <3>2. buffer \in [Conns -> Seq(Symbols)]
        BY <3>1, Zenon DEF Init
      <3> QED BY <3>2 DEF Init, WireTypes, Stages
    <2>2. Buffered
      <3>1. ASSUME NEW c \in Conns
            PROVE  /\ Len(buffer[c]) = 0 /\ arrived[c] = 0
                   /\ Len(Stream[c]) \in Nat
                   /\ \A i \in DOMAIN Stream[c] : Stream[c][i] \in Requests \cup {NewLine}
        <4>1. Stream[c] \in Seq(Requests \cup {NewLine})
          BY RequestsAssumption
        <4> QED BY <4>1 DEF Init
      <3>2. ASSUME NEW c \in Conns, NEW i \in DOMAIN Stream[c], Stream[c][i] # NewLine
            PROVE  stage[Stream[c][i]] = "unsent"
        BY <1>1, <3>1, <3>2
      <3> QED BY <3>1, <3>2 DEF Buffered
    <2>3. HandlersHold /\ OneHandlerEach
      BY DEF Init, HandlersHold, OneHandlerEach
    <2>4. NobodyLost
      BY <1>1, <1>3 DEF NobodyLost, UnderWay
    <2> QED BY <2>1, <2>2, <2>3, <2>4 DEF WInv
  <1>5. EInv
    <2>1. EnvTypes
      <3>1. NodeFetch \in Fetches /\ NoFetch \in Fetches
        BY DEF NodeFetch, NoFetch, Fetches
      <3>2. NoAnswer \in Answers
        BY DEF NoAnswer, Answers
      <3> QED BY <3>1, <3>2 DEF Init, EnvTypes
    <2>2. NotStarted /\ Unanswered
      BY DEF Init, NotStarted, Unanswered, NoAnswer
    <2>3. Globals /\ Together /\ Sources /\ Alone
      BY <1>3 DEF Init, Globals, Together, Sources, Alone, NodeFetch
    <2>4. CacheGood(cache, flushed)
      BY EmptyIsGood DEF Init
    <2>5. Codes /\ OwnResult
      BY DEF Init, Codes, OwnResult, NoAnswer, None
    <2> QED BY <2>1, <2>2, <2>3, <2>4, <2>5 DEF EInv
  <1> QED BY <1>4, <1>5 DEF SInv

LEMMA NextSInv == SInv /\ [Next]_vars => SInv'
  <1> SUFFICES ASSUME SInv, [Next]_vars PROVE SInv'
    OBVIOUS
  <1>1. CASE UNCHANGED vars
    <2>1. WInv /\ EInv /\ UNCHANGED <<wire, stage>> /\ Untouched
      BY <1>1 DEF SInv, vars, Untouched
    <2> QED BY <2>1, WireUntouched, StagesOnly DEF SInv
  <1>2. CASE \E c \in Conns : \E n \in 1 .. Len(Stream[c]) : Deliver(c, n)
    BY <1>2, DeliverKeeps
  <1>3. ASSUME NEW r \in Requests, Handle(r)
        PROVE  SInv'
    BY <1>3, AtOnceKeeps, HandledKeeps, StartKeeps DEF Handle
  <1>4. ASSUME NEW r \in Renders, Appears(r) \/ Runs(r) \/ Ready(r) \/ Throws(r) \/ Timeout(r)
        PROVE  SInv'
    BY <1>4, AppearsKeeps, RunsKeeps, ReadyKeeps, GivenUpKeeps
  <1> QED BY <1>1, <1>2, <1>3, <1>4 DEF Next

(* In every state of the server what has arrived is in the buffer or with  *)
(* one handler, and the globals, the cache and the answers are as EInv     *)
(* says.  (server.js:80-240, 262-474; environment.js:34-309)               *)
THEOREM Invariance == Spec => []SInv
  <1> QED BY InitSInv, NextSInv, PTL DEF Spec

(* What a render is answered is its own when it was alone, and comes from  *)
(* renders it overlapped with otherwise: however the chunks are cut, the   *)
(* handlers interleave and the timers go off.  (server.js:310-474,         *)
(* environment.js:211-309, http-intercept.js:19-65)                        *)
THEOREM RendersGetTheirOwn == Spec => []OwnResult
  <1>1. SInv => OwnResult
    BY DEF SInv, EInv
  <1> QED BY <1>1, Invariance, PTL

(* No request gets lost: one that has arrived whole is with a handler of   *)
(* its connection until it is answered, one that has not is in the buffer  *)
(* or still to come.  (protocol.js: messageBuffer.push(), server.js:96-128)*)
THEOREM NoRequestIsLost == Spec => [](Buffered /\ OneHandlerEach /\ NobodyLost)
  <1>1. SInv => Buffered /\ OneHandlerEach /\ NobodyLost
    BY DEF SInv, WInv
  <1> QED BY <1>1, Invariance, PTL

(* The cache never outgrows its limit, has one entry for a set of bundles, *)
(* and a render runs code that was prepared for its very set of bundles.   *)
(* (bundle-cache.js:35-115)                                                *)
THEOREM CacheServesItsBundles == Spec => [](CacheGood(cache, flushed) /\ Codes)
  <1>1. SInv => CacheGood(cache, flushed) /\ Codes
    BY DEF SInv, EInv
  <1> QED BY <1>1, Invariance, PTL

(* No render takes code that was flushed before it began, in whatever set  *)
(* of bundles.  (server.js:201-222)                                        *)
THEOREM FlushedCodeIsGone == Spec => FlushedIsGone
  <1> DEFINE Gone == \A r \in Renders : code'[r] # code[r] => code'[r] \notin flushed
  <1>1. SInv /\ [Next]_vars => [Gone]_vars
    <2> SUFFICES ASSUME SInv, Next PROVE Gone
      OBVIOUS
    <2>1. EInv /\ code \in [Renders -> Renders \cup {None}]
      BY DEF SInv, EInv, EnvTypes
    <2>2. ASSUME NEW r \in Requests, StartRender(r) \/ RenderFails(r)
          PROVE  Gone
      <3>1. r \in Renders /\ stage[r] = "queued" /\ Loads(r)
        BY <2>2 DEF StartRender, RenderFails, Pending
      <3>2. r \notin flushed
        BY <2>1, <3>1 DEF EInv, NotStarted
      <3>3. PICK x \in Renders : code' = [code EXCEPT ![r] = x] /\ x \notin flushed
        BY <2>1, <3>1, <3>2, LoadsGood
      <3> QED BY <2>1, <3>3
    <2>3. ASSUME NEW c \in Conns, NEW n \in 1 .. Len(Stream[c]), Deliver(c, n)
          PROVE  code' = code
      BY <2>3 DEF Deliver, history
    <2>4. ASSUME NEW r \in Requests, HandleAtOnce(r) \/ HandleFlush(r) \/ PrepareFails(r)
          PROVE  code' = code
      BY <2>4 DEF HandleAtOnce, HandleFlush, PrepareFails, history
    <2>5. ASSUME NEW r \in Renders, Appears(r) \/ Runs(r) \/ Ready(r) \/ Throws(r) \/ Timeout(r)
          PROVE  code' = code
      BY <2>5 DEF Appears, Runs, Ready, Throws, Timeout, history
    <2> QED BY <2>2, <2>3, <2>4, <2>5 DEF Next, Handle
  <1> QED BY <1>1, Invariance, PTL DEF Spec, FlushedIsGone
=============================================================================
