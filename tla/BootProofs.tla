----------------------------- MODULE BootProofs -----------------------------
(***************************************************************************)
(* Proofs about the first-stage boot loader, for every set of images that  *)
(* the vendor's tool lays out and DDR is large enough for.                 *)
(*                                                                         *)
(* An image is a long sequence of words, put together with FlattenSeq and  *)
(* read back at offsets that it holds itself.  The first half of the       *)
(* module proves where every word of a layout is, and that the parser      *)
(* reads from the metadata what was laid out.  The second half is the      *)
(* invariant of the loader: the header that is checked is that of the      *)
(* flash or garbage, the metadata stay in the staging area as long as they *)
(* are read, and of the partitions the iterators have passed each is where *)
(* it belongs.                                                             *)
(***************************************************************************)
EXTENDS MCSystem, SequenceTheorems, WellFoundedInduction, TLAPS

(* Every set of numbers that is not empty has a least one.                 *)
LEMMA LeastExists ==
  ASSUME NEW S, S \subseteq Nat, S # {}
  PROVE  \E m \in S : \A k \in S : m <= k
<1>1. PICK m \in S : \A k \in S : <<k, m>> \notin OpToRel(<, Nat)
  BY NatLessThanWellFounded, WFMin
<1>2. \A k \in S : ~ (k < m)
  BY <1>1, Zenon DEF OpToRel
<1> QED
  BY <1>2

-----------------------------------------------------------------------------
(* The boot loader.  First what recursive functions over numbers are.      *)

Recurs(f, A, a, F, n) ==
  /\ f \in [0 .. n -> A] /\ f[0] = a
  /\ \A i \in 1 .. n : f[i] = F[<<f[i - 1], i>>]

(* There is a function that recurs so far.                                 *)
LEMMA RecursionExists ==
  ASSUME NEW A, NEW a \in A, NEW n \in Nat, NEW F \in [A \X (1 .. n) -> A]
  PROVE  \E f : Recurs(f, A, a, F, n)
<1> DEFINE bad == {m \in 0 .. n : ~ \E f : Recurs(f, A, a, F, m)}
<1>1. SUFFICES ASSUME bad # {} PROVE FALSE
  BY n \in 0 .. n
<1>2. PICK m \in bad : \A k \in bad : m <= k
  <2>1. bad \subseteq Nat
    OBVIOUS
  <2> HIDE DEF bad
  <2> QED BY <1>1, <2>1, LeastExists
<1>3. CASE m = 0
  <2>1. Recurs([i \in 0 .. 0 |-> a], A, a, F, 0)
    BY DEF Recurs
  <2> QED BY <2>1, <1>2, <1>3
<1>4. CASE m # 0
  <2>1. m - 1 \in 0 .. n /\ m - 1 \notin bad /\ m \in 1 .. n
    BY <1>2, <1>4
  <2>2. PICK f : Recurs(f, A, a, F, m - 1)
    BY <2>1
  <2> DEFINE g == [i \in 0 .. m |-> IF i = m THEN F[<<f[m - 1], m>>] ELSE f[i]]
  <2>3. f[m - 1] \in A /\ F[<<f[m - 1], m>>] \in A
    <3>1. f \in [0 .. m - 1 -> A] /\ m - 1 \in 0 .. m - 1
      BY <2>2, <2>1 DEF Recurs
    <3>2. f[m - 1] \in A
      BY <3>1
    <3>3. <<f[m - 1], m>> \in A \X (1 .. n)
      BY <3>2, <2>1
    <3> QED BY <3>2, <3>3
  <2>4. g \in [0 .. m -> A]
    BY <2>2, <2>3, <2>1 DEF Recurs
  <2>5. g[0] = a
    BY <2>2, <2>1, <1>4 DEF Recurs
  <2>6. ASSUME NEW i \in 1 .. m PROVE g[i] = F[<<g[i - 1], i>>]
    <3>1. g[i - 1] = f[i - 1]
      BY <2>1
    <3>2. CASE i = m
      BY <3>1, <3>2
    <3>3. CASE i # m
      <4>1. i \in 1 .. m - 1
        BY <3>3, <2>1
      <4>2. f[i] = F[<<f[i - 1], i>>]
        BY <4>1, <2>2 DEF Recurs
      <4>3. g[i] = f[i]
        BY <3>3
      <4> QED BY <3>1, <4>2, <4>3
    <3> QED BY <3>2, <3>3
  <2>7. Recurs(g, A, a, F, m)
    <3> HIDE DEF g
    <3> QED BY <2>4, <2>5, <2>6 DEF Recurs
  <2> QED BY <2>7, <1>2
<1> QED BY <1>3, <1>4

Flattens(g, s) == g = [i \in 1 .. Len(s) |-> IF i = 1 THEN s[i] ELSE g[i - 1] \o s[i]]

(* What FlattenSeq of the community modules is: it flattens from the last. *)
LEMMA FlattenDefined ==
  ASSUME NEW s, Len(s) # 0, \E g : Flattens(g, s)
  PROVE \E f : Flattens(f, s) /\ Loader!FlattenSeq(s) = f[Len(s)]
<1> DEFINE flatten[i \in 1 .. Len(s)] == IF i = 1 THEN s[i] ELSE flatten[i - 1] \o s[i]
<1>1. flatten = CHOOSE f : Flattens(f, s)
  BY DEF Flattens
<1>2. Loader!FlattenSeq(s) = flatten[Len(s)]
  BY DEF Loader!FlattenSeq
<1> HIDE DEF flatten
<1>3. Flattens(flatten, s)
  BY <1>1
<1> QED BY <1>2, <1>3

(* Loader!FlattenSeq(s) joins the elements of s from the first on.                *)
LEMMA FlattenIs ==
  ASSUME NEW S, NEW s \in Seq(Seq(S)), NEW f \in [0 .. Len(s) -> Seq(S)], f[0] = <<>>,
         \A i \in 1 .. Len(s) : f[i] = f[i - 1] \o s[i]
  PROVE Loader!FlattenSeq(s) = f[Len(s)]
<1> DEFINE n == Len(s)
<1>1. n \in Nat /\ \A i \in 1 .. n : s[i] \in Seq(S)
  OBVIOUS
<1>2. CASE n = 0
  <2>1. s = <<>>
    BY <1>2
  <2> QED BY <2>1, <1>2 DEF Loader!FlattenSeq
<1>3. CASE n # 0
  <2> DEFINE g == [i \in 1 .. n |-> f[i]]
  <2>1. f[1] = s[1]
    <3>1. 1 \in 1 .. n /\ 1 - 1 = 0
      BY <1>3, <1>1
    <3>2. f[1] = <<>> \o s[1]
      BY <3>1
    <3> QED BY <3>1, <3>2, <1>1, ConcatEmptySeq
  <2>2. Flattens(g, s)
    <3>1. ASSUME NEW i \in 1 .. n PROVE f[i] = IF i = 1 THEN s[i] ELSE g[i - 1] \o s[i]
      <4>1. CASE i = 1
        BY <2>1, <4>1
      <4>2. CASE i # 1
        <5>1. i - 1 \in 1 .. n
          BY <4>2, <1>1
        <5>2. g[i - 1] = f[i - 1]
          BY <5>1
        <5>3. f[i] = f[i - 1] \o s[i]
          OBVIOUS
        <5> QED BY <5>2, <5>3, <4>2, Zenon
      <4> QED BY <4>1, <4>2
    <3>2. g = [i \in 1 .. n |-> IF i = 1 THEN s[i] ELSE g[i - 1] \o s[i]]
      BY <3>1, Zenon
    <3> QED BY <3>2 DEF Flattens
  <2>3. PICK h : Flattens(h, s) /\ Loader!FlattenSeq(s) = h[n]
    <3> HIDE DEF g
    <3> QED BY <2>2, <1>3, FlattenDefined
  <2>4. \A i \in 1 .. n : h[i] = IF i = 1 THEN s[i] ELSE h[i - 1] \o s[i]
    BY <2>3, Zenon DEF Flattens
  <2>5. ASSUME NEW i \in 1 .. n PROVE h[i] = f[i]
    <3> DEFINE bad == {j \in 1 .. n : h[j] # f[j]}
    <3>1. SUFFICES ASSUME bad # {} PROVE FALSE
      OBVIOUS
    <3>2. PICK j \in bad : \A k \in bad : j <= k
      <4>1. bad \subseteq Nat
        OBVIOUS
      <4> HIDE DEF bad
      <4> QED BY <3>1, <4>1, LeastExists
    <3>3. j \in 1 .. n /\ h[j] # f[j] /\ j # 1
      BY <2>1, <2>4, <3>2
    <3>4. j - 1 \in 1 .. n /\ j - 1 \notin bad
      <4>1. j - 1 \in 1 .. n /\ ~ (j <= j - 1)
        BY <3>3, <1>1
      <4>2. j - 1 \notin bad
        BY <4>1, <3>2
      <4> QED BY <4>1, <4>2
    <3>5. h[j - 1] = f[j - 1]
      BY <3>4
    <3>6. h[j] = h[j - 1] \o s[j] /\ f[j] = f[j - 1] \o s[j]
      BY <2>4, <3>3, Zenon
    <3> QED BY <3>3, <3>5, <3>6, Zenon
  <2>6. n \in 1 .. n
    BY <1>1, <1>3
  <2> QED BY <2>3, <2>5, <2>6
<1> QED BY <1>2, <1>3

Sums(off, s) ==
  /\ off \in [0 .. Len(s) -> Nat] /\ off[0] = 0
  /\ \A i \in 1 .. Len(s) : off[i] = off[i - 1] + Len(s[i])

(* The lengths of the sequences add up.                                    *)
LEMMA SumsExist ==
  ASSUME NEW S, NEW s \in Seq(Seq(S))
  PROVE \E off : Sums(off, s)
<1> DEFINE F == [x \in Nat \X (1 .. Len(s)) |-> x[1] + Len(s[x[2]])]
<1>1. Len(s) \in Nat /\ F \in [Nat \X (1 .. Len(s)) -> Nat]
  OBVIOUS
<1>2. PICK f : Recurs(f, Nat, 0, F, Len(s))
  <2> HIDE DEF F
  <2> QED BY <1>1, RecursionExists
<1>3. ASSUME NEW i \in 1 .. Len(s) PROVE f[i] = f[i - 1] + Len(s[i])
  <2>1. f[i] = F[<<f[i - 1], i>>] /\ f[i - 1] \in Nat
    <3>1. i - 1 \in 0 .. Len(s) /\ f \in [0 .. Len(s) -> Nat]
      BY <1>2, <1>1 DEF Recurs
    <3> HIDE DEF F
    <3> QED BY <3>1, <1>2 DEF Recurs
  <2>2. <<f[i - 1], i>> \in Nat \X (1 .. Len(s))
    BY <2>1
  <2> QED BY <2>1, <2>2
<1> QED BY <1>2, <1>3, Zenon DEF Recurs, Sums

(* Where the elements of what is joined stand.                             *)
JoinedAt(t, s, off, S) ==
  /\ t \in Seq(S) /\ Len(t) = off[Len(s)]
  /\ \A i \in 1 .. Len(s) : \A j \in 1 .. Len(s[i]) : t[off[i - 1] + j] = s[i][j]

(* Flattening joins the sequences, each where the sum of those before      *)
(* ends.                                                                   *)
LEMMA FlattenFacts ==
  ASSUME NEW S, NEW s \in Seq(Seq(S)), NEW off, Sums(off, s)
  PROVE JoinedAt(Loader!FlattenSeq(s), s, off, S)
<1> DEFINE n == Len(s)
           F == [x \in Seq(S) \X (1 .. n) |-> x[1] \o s[x[2]]]
<1>1. n \in Nat /\ \A i \in 1 .. n : s[i] \in Seq(S)
  OBVIOUS
<1>2. F \in [Seq(S) \X (1 .. n) -> Seq(S)] /\ <<>> \in Seq(S)
  BY <1>1
<1>3. PICK f : Recurs(f, Seq(S), <<>>, F, n)
  <2> HIDE DEF F, n
  <2> QED BY <1>1, <1>2, RecursionExists
<1>4. f \in [0 .. n -> Seq(S)] /\ f[0] = <<>>
  BY <1>3 DEF Recurs
<1>5. ASSUME NEW i \in 1 .. n PROVE f[i - 1] \in Seq(S) /\ f[i] = f[i - 1] \o s[i]
  <2>1. i - 1 \in 0 .. n
    BY <1>1
  <2>2. f[i - 1] \in Seq(S)
    BY <2>1, <1>4
  <2>3. f[i] = F[<<f[i - 1], i>>]
    <3> HIDE DEF F
    <3> QED BY <1>3 DEF Recurs
  <2>4. <<f[i - 1], i>> \in Seq(S) \X (1 .. n)
    BY <2>2
  <2> QED BY <2>2, <2>3, <2>4
<1>6. Loader!FlattenSeq(s) = f[n]
  <2>1. \A i \in 1 .. Len(s) : f[i] = f[i - 1] \o s[i]
    BY <1>5
  <2> QED BY <2>1, <1>4, FlattenIs
<1>7. /\ off[0] = 0 /\ \A i \in 0 .. n : off[i] \in Nat
      /\ \A i \in 1 .. n : off[i] = off[i - 1] + Len(s[i])
  BY DEF Sums
<1> DEFINE Right(m) == /\ Len(f[m]) = off[m]
                       /\ \A i \in 1 .. m : \A j \in 1 .. Len(s[i]) :
                             off[i - 1] + j <= off[m] /\ f[m][off[i - 1] + j] = s[i][j]
           bad == {m \in 0 .. n : ~ Right(m)}
<1>8. ASSUME NEW m \in 1 .. n, Right(m - 1) PROVE Right(m)
  <2>1. /\ f[m - 1] \in Seq(S) /\ f[m] = f[m - 1] \o s[m] /\ s[m] \in Seq(S)
        /\ off[m - 1] \in Nat /\ off[m] = off[m - 1] + Len(s[m]) /\ m - 1 \in Nat
    <3>1. m - 1 \in 0 .. n /\ m - 1 \in Nat
      BY <1>1
    <3> QED BY <3>1, <1>1, <1>5, <1>7
  <2>2. /\ Len(f[m - 1] \o s[m]) = Len(f[m - 1]) + Len(s[m])
        /\ \A k \in 1 .. Len(f[m - 1]) + Len(s[m]) :
              (f[m - 1] \o s[m])[k] =
                IF k <= Len(f[m - 1]) THEN f[m - 1][k] ELSE s[m][k - Len(f[m - 1])]
    BY <2>1, ConcatProperties, Zenon
  <2>3. Len(f[m - 1]) = off[m - 1] /\ Len(s[m]) \in Nat
    BY <2>1, <1>8
  <2>4. Len(f[m]) = off[m]
    BY <2>1, <2>2, <2>3, Zenon
  <2>5. \A k \in 1 .. off[m] :
          f[m][k] = IF k <= off[m - 1] THEN f[m - 1][k] ELSE s[m][k - off[m - 1]]
    BY <2>1, <2>2, <2>3, Zenon
  <2>6. ASSUME NEW i \in 1 .. m, NEW j \in 1 .. Len(s[i])
        PROVE off[i - 1] + j <= off[m] /\ f[m][off[i - 1] + j] = s[i][j]
    <3>1. i \in 1 .. n /\ i - 1 \in 0 .. n /\ off[i - 1] \in Nat /\ Len(s[i]) \in Nat
      <4>1. i \in 1 .. n /\ i - 1 \in 0 .. n
        BY <1>1
      <4> QED BY <4>1, <1>1, <1>7
    <3>2. CASE i = m
      <4>1. off[i - 1] + j <= off[m] /\ ~ (off[i - 1] + j <= off[m - 1])
            /\ (off[i - 1] + j) - off[m - 1] = j /\ off[i - 1] + j \in 1 .. off[m]
        BY <3>1, <3>2, <2>1
      <4>2. f[m][off[i - 1] + j] = s[m][j]
        BY <2>5, <4>1
      <4> QED BY <4>1, <4>2, <3>2
    <3>3. CASE i # m
      <4>1. i \in 1 .. m - 1
        BY <3>3, <2>1
      <4>2. off[i - 1] + j <= off[m - 1] /\ f[m - 1][off[i - 1] + j] = s[i][j]
        BY <4>1, <1>8
      <4>3. off[i - 1] + j \in 1 .. off[m] /\ off[i - 1] + j <= off[m]
        <5>1. off[m] \in Nat
          BY <1>7, <1>1
        <5>2. PICK a, b, c, l \in Nat : a = off[i - 1] /\ b = off[m] /\ c = off[m - 1]
                                        /\ l = Len(s[m])
          BY <5>1, <3>1, <2>1, <2>3
        <5>3. b = c + l /\ a + j <= c /\ j \in Nat \ {0}
          BY <5>2, <4>2, <2>1, <3>1
        <5>4. a + j \in 1 .. b /\ a + j <= b
          BY <5>3
        <5> QED BY <5>2, <5>4
      <4> QED BY <4>2, <4>3, <2>5
    <3> QED BY <3>2, <3>3
  <2> QED BY <2>4, <2>6
<1>9. Right(0)
  BY <1>4, <1>7
<1>10. Right(n)
  <2>1. SUFFICES ASSUME bad # {} PROVE FALSE
    <3>1. n \in 0 .. n
      BY <1>1
    <3> HIDE DEF Right
    <3> QED BY <3>1
  <2>2. PICK m \in bad : \A k \in bad : m <= k
    <3>1. bad \subseteq Nat
      OBVIOUS
    <3> HIDE DEF bad
    <3> QED BY <2>1, <3>1, LeastExists
  <2>3. m \in 0 .. n /\ ~ Right(m)
    OBVIOUS
  <2> HIDE DEF Right
  <2>4. m \in 1 .. n /\ m - 1 \in 0 .. n
    BY <2>3, <1>9, <1>1
  <2>5. m - 1 \notin bad
    BY <2>2, <2>4
  <2> HIDE DEF n
  <2>6. Right(m - 1)
    BY <2>5, <2>4
  <2> QED BY <2>6, <2>4, <2>3, <1>8
<1>11. n \in 0 .. n
  BY <1>1
<1>12. f[n] \in Seq(S)
  BY <1>4, <1>11
<1> QED BY <1>6, <1>10, <1>12 DEF JoinedAt

(* Two sequences, one behind the other.                                    *)
LEMMA Joined ==
  ASSUME NEW S
  PROVE \A a, b \in Seq(S) :
          /\ a \o b \in Seq(S) /\ Len(a \o b) = Len(a) + Len(b)
          /\ Len(a) \in Nat /\ Len(b) \in Nat
          /\ \A i \in 1 .. Len(a) : (a \o b)[i] = a[i]
          /\ \A i \in 1 .. Len(b) : (a \o b)[Len(a) + i] = b[i]
<1> TAKE a, b \in Seq(S)
<1>1. /\ a \o b \in Seq(S) /\ Len(a \o b) = Len(a) + Len(b)
      /\ \A i \in 1 .. Len(a) + Len(b) : (a \o b)[i] = IF i <= Len(a) THEN a[i] ELSE b[i - Len(a)]
  BY ConcatProperties, Zenon
<1>2. Len(a) \in Nat /\ Len(b) \in Nat
  OBVIOUS
<1>3. ASSUME NEW i \in 1 .. Len(a) PROVE (a \o b)[i] = a[i]
  <2>1. i \in 1 .. Len(a) + Len(b) /\ i <= Len(a)
    BY <1>2
  <2> QED BY <2>1, <1>1, Zenon
<1>4. ASSUME NEW i \in 1 .. Len(b) PROVE (a \o b)[Len(a) + i] = b[i]
  <2>1. Len(a) + i \in 1 .. Len(a) + Len(b) /\ ~ (Len(a) + i <= Len(a)) /\ (Len(a) + i) - Len(a) = i
    BY <1>2
  <2> QED BY <2>1, <1>1, Zenon
<1> QED BY <1>1, <1>2, <1>3, <1>4, Zenon

(* A function over 1 .. n is a sequence of n elements.                     *)
LEMMA OfLength ==
  ASSUME NEW S
  PROVE \A n \in Nat : \A f \in [1 .. n -> S] : f \in Seq(S) /\ Len(f) = n
OBVIOUS

Pads(t, s, n, w, S) ==
  /\ t \in Seq(S) /\ Len(t) = n
  /\ \A i \in 1 .. Len(s) : t[i] = s[i]
  /\ \A i \in Len(s) + 1 .. n : t[i] = w

(* Padding keeps the sequence and fills up to the length.                  *)
LEMMA PaddedFacts ==
  ASSUME NEW S
  PROVE \A s \in Seq(S), n \in Nat, w \in S : Len(s) <= n =>
          Pads(Loader!Padded(s, n, w), s, n, w, S)
<1> SUFFICES ASSUME NEW s \in Seq(S), NEW n \in Nat, NEW w \in S, Len(s) <= n
             PROVE /\ Loader!Padded(s, n, w) \in Seq(S) /\ Len(Loader!Padded(s, n, w)) = n
                   /\ \A i \in 1 .. Len(s) : Loader!Padded(s, n, w)[i] = s[i]
                   /\ \A i \in Len(s) + 1 .. n : Loader!Padded(s, n, w)[i] = w
  BY Zenon DEF Pads
<1> DEFINE t == [i \in 1 .. n - Len(s) |-> w]
<1>1. Len(s) \in Nat /\ n - Len(s) \in Nat
  OBVIOUS
<1>2. t \in Seq(S) /\ Len(t) = n - Len(s) /\ \A i \in 1 .. n - Len(s) : t[i] = w
  BY <1>1
<1> HIDE DEF t
<1>3. /\ s \o t \in Seq(S) /\ Len(s \o t) = Len(s) + Len(t)
      /\ Len(s) \in Nat /\ Len(t) \in Nat
      /\ \A i \in 1 .. Len(s) : (s \o t)[i] = s[i]
      /\ \A i \in 1 .. Len(t) : (s \o t)[Len(s) + i] = t[i]
  <2>1. s \in Seq(S) /\ t \in Seq(S)
    BY <1>2
  <2> QED BY <2>1, Joined
<1>4. Len(s) + Len(t) = n
  BY <1>1, <1>2
<1>5. ASSUME NEW i \in Len(s) + 1 .. n PROVE (s \o t)[i] = w
  <2>1. i - Len(s) \in 1 .. Len(t) /\ Len(s) + (i - Len(s)) = i /\ i - Len(s) \in 1 .. n - Len(s)
    BY <1>1, <1>2
  <2>2. (s \o t)[Len(s) + (i - Len(s))] = t[i - Len(s)] /\ t[i - Len(s)] = w
    BY <2>1, <1>2, <1>3, Zenon
  <2> QED BY <2>1, <2>2, Zenon
<1>6. Loader!Padded(s, n, w) = s \o t
  BY DEF Loader!Padded, t
<1> QED BY <1>3, <1>4, <1>5, <1>6, Zenon

(* What does not fall from one to the next falls nowhere.                  *)
LEMMA NeverFalls ==
  ASSUME NEW n \in Nat, NEW f \in [1 .. n -> Int], \A i \in 1 .. n - 1 : f[i] <= f[i + 1]
  PROVE \A i, j \in 1 .. n : i <= j => f[i] <= f[j]
<1> SUFFICES ASSUME NEW i \in 1 .. n PROVE \A j \in 1 .. n : i <= j => f[i] <= f[j]
  OBVIOUS
<1> DEFINE bad == {j \in 1 .. n : i <= j /\ ~ (f[i] <= f[j])}
<1>1. SUFFICES ASSUME bad # {} PROVE FALSE
  OBVIOUS
<1>2. PICK j \in bad : \A k \in bad : j <= k
  <2>1. bad \subseteq Nat
    OBVIOUS
  <2> HIDE DEF bad
  <2> QED BY <1>1, <2>1, LeastExists
<1>3. j \in 1 .. n /\ i <= j /\ ~ (f[i] <= f[j]) /\ i # j
  BY <1>2
<1>4. j - 1 \in 1 .. n - 1 /\ i <= j - 1 /\ ~ (j <= j - 1) /\ j - 1 \in 1 .. n /\ (j - 1) + 1 = j
  BY <1>3
<1>5. j - 1 \notin bad
  BY <1>2, <1>4
<1>6. f[i] <= f[j - 1] /\ f[j - 1] <= f[j]
  BY <1>4, <1>5
<1>7. f[i] \in Int /\ f[j - 1] \in Int /\ f[j] \in Int
  BY <1>3, <1>4
<1> QED BY <1>3, <1>6, <1>7

-----------------------------------------------------------------------------
(* How an image is laid out.                                               *)

Part_ == [dest : 0 .. 15, load : Nat, words : Nat]
Img == [name : Seq(Nat), partitions : Seq(Part_)]
Parts(im) == [k \in DOMAIN im |-> im[k].partitions]

(* The type of an image that can be laid out.                              *)
LEMMA LayableFacts ==
  ASSUME NEW im, Loader!Layable(im)
  PROVE /\ im \in Seq(Img) /\ Len(im) \in Nat \ {0} /\ DOMAIN im = 1 .. Len(im)
        /\ \A k \in 1 .. Len(im) : /\ im[k].name \in Seq(Nat) /\ im[k].partitions \in Seq(Part_)
                                   /\ Len(im[k].name) \in 0 .. 11
        /\ im[Len(im)].partitions # <<>>
        /\ 4 * Loader!DataAt(im)[Len(Loader!Partitions(im)) + 1] < LIMIT
<1>1. im \in Seq(Img) /\ im # <<>>
  BY Zenon DEF Loader!Layable, Part_, Img
<1>2. Len(im) \in Nat \ {0} /\ DOMAIN im = 1 .. Len(im) /\ \A k \in 1 .. Len(im) : im[k] \in Img
  BY <1>1
<1>3. ASSUME NEW k \in 1 .. Len(im) PROVE im[k].name \in Seq(Nat) /\ im[k].partitions \in Seq(Part_)
  BY <1>2 DEF Img
<1>4. ASSUME NEW k \in 1 .. Len(im) PROVE Len(im[k].name) \in 0 .. 11
  <2>1. Len(im[k].name) <= 11
    BY <1>2 DEF Loader!Layable
  <2>2. Len(im[k].name) \in Nat
    BY <1>3, LenProperties
  <2>3. PICK n \in Nat : n = Len(im[k].name)
    BY <2>2
  <2>4. n <= 11
    BY <2>1, <2>3, Zenon
  <2>5. n \in 0 .. 11
    BY <2>4
  <2> QED BY <2>3, <2>5
<1> QED BY <1>1, <1>2, <1>3, <1>4 DEF Loader!Layable

(* The partitions of an image, image by image.                             *)
LEMMA PartsFacts ==
  ASSUME NEW im, im \in Seq(Img)
  PROVE /\ Parts(im) \in Seq(Seq(Part_)) /\ Len(Parts(im)) = Len(im)
        /\ \A k \in 1 .. Len(im) : Parts(im)[k] = im[k].partitions
        /\ Loader!Partitions(im) = Loader!FlattenSeq(Parts(im))
<1>1. Len(im) \in Nat /\ DOMAIN im = 1 .. Len(im) /\ \A k \in 1 .. Len(im) : im[k] \in Img
  OBVIOUS
<1>2. \A k \in 1 .. Len(im) : im[k].partitions \in Seq(Part_)
  BY <1>1 DEF Img
<1>3. Parts(im) = [k \in 1 .. Len(im) |-> im[k].partitions]
  BY <1>1 DEF Parts
<1>4. Loader!Partitions(im) = Loader!FlattenSeq(Parts(im))
  BY DEF Loader!Partitions, Parts
<1>5. Parts(im) \in [1 .. Len(im) -> Seq(Part_)]
  BY <1>2, <1>3
<1> QED BY <1>1, <1>3, <1>4, <1>5, LenProperties

(* Image k has the partitions from off[k - 1] + 1 to off[k].               *)
PartitionsFrom(off, im) ==
  /\ off \in [0 .. Len(im) -> Nat] /\ off[0] = 0
  /\ \A k \in 1 .. Len(im) : off[k] = off[k - 1] + Len(im[k].partitions)
  /\ Loader!Partitions(im) \in Seq(Part_) /\ Len(Loader!Partitions(im)) = off[Len(im)]
  /\ \A k \in 0 .. Len(im) : Loader!FirstPartition(im, k + 1) = off[k] + 1

(* The partitions of one image follow those of the one before.             *)
LEMMA PartitionsAreInOrder ==
  ASSUME NEW im, im \in Seq(Img) PROVE \E off : PartitionsFrom(off, im)
<1>1. PICK off : Sums(off, Parts(im))
  BY PartsFacts, SumsExist, Zenon
<1>2. /\ Loader!Partitions(im) \in Seq(Part_) /\ Len(Loader!Partitions(im)) = off[Len(im)]
  <2>1. /\ Loader!FlattenSeq(Parts(im)) \in Seq(Part_)
        /\ Len(Loader!FlattenSeq(Parts(im))) = off[Len(Parts(im))]
    BY <1>1, PartsFacts, FlattenFacts, Zenon DEF JoinedAt
  <2> QED BY <2>1, PartsFacts, Zenon
<1>3. /\ off \in [0 .. Len(im) -> Nat] /\ off[0] = 0
      /\ \A k \in 1 .. Len(im) : off[k] = off[k - 1] + Len(im[k].partitions)
  BY <1>1, PartsFacts, Zenon DEF Sums
<1>4. ASSUME NEW k \in 0 .. Len(im) PROVE Loader!FirstPartition(im, k + 1) = off[k] + 1
  <2> DEFINE some == SubSeq(im, 1, k)
             o == [i \in 0 .. k |-> off[i]]
  <2>1. Len(im) \in Nat /\ k \in Nat /\ k <= Len(im)
    OBVIOUS
  <2>2. some \in Seq(Img) /\ Len(some) = k /\ \A i \in 1 .. k : some[i] = im[i]
    BY <2>1
  <2> HIDE DEF some
  <2>3. /\ Parts(some) \in Seq(Seq(Part_)) /\ Len(Parts(some)) = k
        /\ \A i \in 1 .. k : Parts(some)[i] = im[i].partitions
        /\ Loader!Partitions(some) = Loader!FlattenSeq(Parts(some))
    BY <2>2, PartsFacts
  <2>4. Sums(o, Parts(some))
    <3>1. o \in [0 .. k -> Nat] /\ o[0] = 0
      BY <2>1, <1>3
    <3>2. ASSUME NEW i \in 1 .. k PROVE o[i] = o[i - 1] + Len(Parts(some)[i])
      <4>1. i \in 1 .. Len(im) /\ i \in 0 .. k /\ i - 1 \in 0 .. k
        BY <2>1
      <4>2. off[i] = off[i - 1] + Len(im[i].partitions)
        BY <4>1, <1>3
      <4>3. o[i] = off[i] /\ o[i - 1] = off[i - 1]
        BY <4>1
      <4> HIDE DEF o
      <4> QED BY <4>2, <4>3, <2>3
    <3> HIDE DEF o
    <3> QED BY <3>1, <3>2, <2>3 DEF Sums
  <2>5. o[k] = off[k]
    BY <2>1
  <2> HIDE DEF o
  <2>6. Len(Loader!FlattenSeq(Parts(some))) = o[k]
    <3>1. Len(Loader!FlattenSeq(Parts(some))) = o[Len(Parts(some))]
      BY <2>3, <2>4, FlattenFacts, Zenon DEF JoinedAt
    <3> QED BY <3>1, <2>3
  <2>7. k + 1 - 1 = k
    BY <2>1
  <2>8. Loader!FirstPartition(im, k + 1) = Len(Loader!Partitions(some)) + 1
    BY <2>7 DEF Loader!FirstPartition, some
  <2> QED BY <2>3, <2>5, <2>6, <2>8
<1> QED BY <1>2, <1>3, <1>4 DEF PartitionsFrom

-----------------------------------------------------------------------------
(* Alignment only moves on.                                                *)
LEMMA AlignedFacts ==
  ASSUME NEW n \in Nat
  PROVE Loader!Aligned(n) \in Nat /\ Loader!Aligned(n) >= n
BY DEF Loader!Aligned

(* Where the headers are.                                                  *)
LEMMA Places ==
  /\ Loader!TableAt = 40
  /\ \A k \in Nat \ {0} : Loader!ImageAt(k) = 30 + 16 * k
  /\ \A im : \A p \in Nat \ {0} : Len(im) \in Nat =>
        Loader!PartitionHeaderAt(im, p) = 30 + 16 * Len(im) + 16 * p
BY DEF Loader!TableAt, Loader!ImageAt, Loader!PartitionHeaderAt, Loader!FIXED_BOOT_HEADER_SIZE

DataPlaces(f, im) ==
  f = [p \in 1 .. Len(Loader!Partitions(im)) + 1 |->
         IF p = 1
         THEN Loader!Aligned(Loader!PartitionHeaderAt(im, Len(Loader!Partitions(im)) + 1))
         ELSE Loader!Aligned(f[p - 1] + Loader!Partitions(im)[p - 1].words)]

(* DataAt is the function it is defined by.                                *)
LEMMA DataDefined ==
  ASSUME NEW im, \E g : DataPlaces(g, im) PROVE DataPlaces(Loader!DataAt(im), im)
<1> DEFINE at_[p \in 1 .. Len(Loader!Partitions(im)) + 1] ==
         IF p = 1
         THEN Loader!Aligned(Loader!PartitionHeaderAt(im, Len(Loader!Partitions(im)) + 1))
         ELSE Loader!Aligned(at_[p - 1] + Loader!Partitions(im)[p - 1].words)
<1>1. at_ = CHOOSE f : DataPlaces(f, im)
  BY DEF DataPlaces
<1>2. Loader!DataAt(im) = at_
  BY DEF Loader!DataAt
<1> HIDE DEF at_
<1> QED BY <1>1, <1>2

(* Where the data of the partitions are, and that they are in this order.  *)
LEMMA DataFacts ==
  ASSUME NEW im, Loader!Layable(im)
  PROVE LET ps == Loader!Partitions(im)
            da == Loader!DataAt(im)
            np == Len(ps)
        IN /\ np \in Nat /\ ps \in Seq(Part_)
           /\ \A p \in 1 .. np : /\ ps[p].dest \in 0 .. 15
                                 /\ ps[p].load \in Nat /\ ps[p].words \in Nat
                                 /\ da[p + 1] >= da[p] + ps[p].words
           /\ da \in [1 .. np + 1 -> Nat] /\ da[1] >= 46 + 16 * Len(im) + 16 * np
           /\ \A p, q \in 1 .. np + 1 : p <= q => da[p] <= da[q]
           /\ \A p \in 1 .. np + 1 : 4 * da[p] < LIMIT
<1> DEFINE ps == Loader!Partitions(im)
           da == Loader!DataAt(im)
           np == Len(ps)
           d0 == Loader!Aligned(Loader!PartitionHeaderAt(im, np + 1))
           F == [x \in Nat \X (1 .. np) |-> Loader!Aligned(x[1] + ps[x[2]].words)]
<1>1. im \in Seq(Img) /\ Len(im) \in Nat \ {0} /\ 4 * da[np + 1] < LIMIT /\ LIMIT \in Nat
  <2>1. im \in Seq(Img) /\ Len(im) \in Nat \ {0} /\ 4 * da[np + 1] < LIMIT
    BY LayableFacts, Zenon
  <2>2. LIMIT \in Nat
    BY MCSystemAssumption DEF Loader!BootImageAssumption
  <2> QED BY <2>1, <2>2, Zenon
<1>2. ps \in Seq(Part_)
  BY <1>1, PartitionsAreInOrder DEF PartitionsFrom
<1> HIDE DEF ps
<1>3. np \in Nat /\ \A p \in 1 .. np : ps[p] \in Part_
  BY <1>2
<1>4. \A p \in 1 .. np : ps[p].dest \in 0 .. 15 /\ ps[p].load \in Nat /\ ps[p].words \in Nat
  BY <1>3 DEF Part_
<1>5. d0 \in Nat /\ d0 >= 46 + 16 * Len(im) + 16 * np
  <2>1. np + 1 \in Nat \ {0}
    BY <1>3
  <2>2. Loader!PartitionHeaderAt(im, np + 1) = 30 + 16 * Len(im) + 16 * (np + 1)
    BY <2>1, <1>1, Places
  <2>3. PICK n \in Nat : n = Loader!PartitionHeaderAt(im, np + 1) /\ n = 46 + 16 * Len(im) + 16 * np
    BY <2>2, <1>1, <1>3
  <2> QED BY <2>3, AlignedFacts
<1> HIDE DEF d0, np
<1>6. F \in [Nat \X (1 .. np) -> Nat]
  <2>1. ASSUME NEW x \in Nat \X (1 .. np) PROVE Loader!Aligned(x[1] + ps[x[2]].words) \in Nat
    <3>1. x[1] + ps[x[2]].words \in Nat
      BY <1>4
    <3> QED BY <3>1, AlignedFacts
  <2> QED BY <2>1
<1>7. PICK f : Recurs(f, Nat, d0, F, np)
  <2> HIDE DEF F
  <2> QED BY <1>3, <1>5, <1>6, RecursionExists
<1>8. f \in [0 .. np -> Nat] /\ f[0] = d0
  BY <1>7 DEF Recurs
<1>9. ASSUME NEW i \in 1 .. np PROVE f[i] = Loader!Aligned(f[i - 1] + ps[i].words)
  <2>1. f[i - 1] \in Nat
    BY <1>8, <1>3
  <2>2. f[i] = F[<<f[i - 1], i>>]
    <3> HIDE DEF F
    <3> QED BY <1>7 DEF Recurs
  <2> QED BY <2>1, <2>2
<1> HIDE DEF F
<1> DEFINE g == [p \in 1 .. np + 1 |-> f[p - 1]]
<1>10. DataPlaces(g, im)
  <2>1. ASSUME NEW p \in 1 .. np + 1
        PROVE f[p - 1] = IF p = 1 THEN d0 ELSE Loader!Aligned(g[p - 1] + ps[p - 1].words)
    <3>1. CASE p = 1
      BY <3>1, <1>8
    <3>2. CASE p # 1
      <4>1. p - 1 \in 1 .. np /\ p - 1 \in 1 .. np + 1
        BY <3>2, <1>3
      <4>2. g[p - 1] = f[p - 1 - 1]
        BY <4>1
      <4>3. f[p - 1] = Loader!Aligned(f[p - 1 - 1] + ps[p - 1].words)
        BY <4>1, <1>9
      <4> HIDE DEF g
      <4> QED BY <3>2, <4>2, <4>3
    <3> QED BY <3>1, <3>2
  <2>2. g = [p \in 1 .. np + 1 |-> IF p = 1 THEN d0 ELSE Loader!Aligned(g[p - 1] + ps[p - 1].words)]
    BY <2>1, Zenon
  <2> HIDE DEF g
  <2> QED BY <2>2, Zenon DEF DataPlaces, ps, np, d0
<1>11. DataPlaces(da, im)
  <2> HIDE DEF g
  <2> QED BY <1>10, DataDefined
<1> HIDE DEF da
<1>12. da = [p \in 1 .. np + 1 |-> IF p = 1 THEN d0 ELSE Loader!Aligned(da[p - 1] + ps[p - 1].words)]
  BY <1>11, Zenon DEF DataPlaces, ps, np, d0
<1>13. da[1] = d0 /\ DOMAIN da = 1 .. np + 1
  BY <1>12, <1>3
<1>14. ASSUME NEW p \in 1 .. np PROVE da[p + 1] = Loader!Aligned(da[p] + ps[p].words)
  <2>1. p + 1 \in 1 .. np + 1 /\ p + 1 # 1 /\ (p + 1) - 1 = p
    BY <1>3
  <2> QED BY <2>1, <1>12
<1>15. ASSUME NEW p \in 1 .. np + 1 PROVE da[p] \in Nat
  <2> DEFINE bad == {q \in 1 .. np + 1 : da[q] \notin Nat}
  <2>1. SUFFICES ASSUME bad # {} PROVE FALSE
    OBVIOUS
  <2>2. PICK q \in bad : \A k \in bad : q <= k
    <3>1. bad \subseteq Nat
      OBVIOUS
    <3> HIDE DEF bad
    <3> QED BY <2>1, <3>1, LeastExists
  <2>3. q # 1 /\ q \in 1 .. np + 1 /\ da[q] \notin Nat
    BY <2>2, <1>13, <1>5
  <2>4. q - 1 \in 1 .. np /\ q - 1 \in 1 .. np + 1 /\ ~ (q <= q - 1) /\ (q - 1) + 1 = q
    BY <2>3, <1>3
  <2>5. da[q - 1] \in Nat
    BY <2>2, <2>4
  <2>6. da[q] = Loader!Aligned(da[q - 1] + ps[q - 1].words) /\ da[q - 1] + ps[q - 1].words \in Nat
    BY <2>4, <2>5, <1>14, <1>4
  <2> QED BY <2>3, <2>6, AlignedFacts
<1>16. ASSUME NEW p \in 1 .. np PROVE da[p + 1] >= da[p] + ps[p].words /\ da[p + 1] >= da[p]
  <2>1. da[p] \in Nat /\ da[p + 1] \in Nat /\ ps[p].words \in Nat
    BY <1>15, <1>4, <1>3
  <2>2. PICK n \in Nat : n = da[p] + ps[p].words
    BY <2>1
  <2>3. da[p + 1] = Loader!Aligned(n)
    BY <1>14, <2>2
  <2> QED BY <2>1, <2>2, <2>3, AlignedFacts
<1>17. da \in [1 .. np + 1 -> Nat]
  BY <1>12, <1>15
<1>18. \A p, q \in 1 .. np + 1 : p <= q => da[p] <= da[q]
  <2>1. PICK n \in Nat : n = np + 1
    BY <1>3
  <2>2. da \in [1 .. n -> Int] /\ \A i \in 1 .. n - 1 : da[i] <= da[i + 1]
    <3>1. n - 1 = np
      BY <2>1, <1>3
    <3>2. ASSUME NEW i \in 1 .. n - 1 PROVE da[i] <= da[i + 1]
      BY <3>1, <1>16, <1>15, <1>3
    <3>3. da \in [1 .. n -> Int]
      BY <1>17, <2>1
    <3> QED BY <3>2, <3>3
  <2> QED BY <2>1, <2>2, NeverFalls
<1>19. ASSUME NEW p \in 1 .. np + 1 PROVE 4 * da[p] < LIMIT
  <2>1. np + 1 \in 1 .. np + 1 /\ p <= np + 1
    BY <1>3
  <2>2. da[p] <= da[np + 1] /\ da[p] \in Nat /\ da[np + 1] \in Nat
    BY <2>1, <1>18, <1>15
  <2>3. 4 * da[np + 1] < LIMIT
    BY <1>1 DEF np
  <2> QED BY <2>2, <2>3, <1>1
<1> QED BY <1>2, <1>3, <1>4, <1>5, <1>13, <1>16, <1>17, <1>18, <1>19 DEF ps, np, da

(* Partitions are numbered through, image by image.                        *)
LEMMA FirstFacts ==
  ASSUME NEW im, Loader!Layable(im)
  PROVE /\ \A k \in 1 .. Len(im) + 1 : Loader!FirstPartition(im, k) \in Nat \ {0}
        /\ Loader!FirstPartition(im, 1) = 1
        /\ Loader!FirstPartition(im, Len(im) + 1) = Len(Loader!Partitions(im)) + 1
        /\ \A k \in 1 .. Len(im) :
              Loader!FirstPartition(im, k + 1) =
                Loader!FirstPartition(im, k) + Len(im[k].partitions)
        /\ \A i, j \in 1 .. Len(im) + 1 :
              i <= j => Loader!FirstPartition(im, i) <= Loader!FirstPartition(im, j)
<1>1. /\ im \in Seq(Img) /\ Len(im) \in Nat \ {0}
      /\ \A k \in 1 .. Len(im) : im[k].partitions \in Seq(Part_)
  BY LayableFacts, Zenon
<1>2. PICK off : PartitionsFrom(off, im)
  BY <1>1, PartitionsAreInOrder, Zenon
<1>3. /\ off \in [0 .. Len(im) -> Nat] /\ off[0] = 0
      /\ \A k \in 1 .. Len(im) : off[k] = off[k - 1] + Len(im[k].partitions)
      /\ Len(Loader!Partitions(im)) = off[Len(im)]
      /\ \A k \in 0 .. Len(im) : Loader!FirstPartition(im, k + 1) = off[k] + 1
  BY <1>2, Zenon DEF PartitionsFrom
<1>4. ASSUME NEW k \in 1 .. Len(im) + 1
      PROVE Loader!FirstPartition(im, k) = off[k - 1] + 1 /\ off[k - 1] \in Nat
  <2>1. k - 1 \in 0 .. Len(im) /\ (k - 1) + 1 = k
    BY <1>1
  <2>2. Loader!FirstPartition(im, (k - 1) + 1) = off[k - 1] + 1
    BY <2>1, <1>3, Zenon
  <2> QED BY <2>1, <2>2, <1>3
<1>5. ASSUME NEW k \in 1 .. Len(im) + 1 PROVE Loader!FirstPartition(im, k) \in Nat \ {0}
  BY <1>4
<1>6. Loader!FirstPartition(im, 1) = 1
  BY <1>3, <1>4, <1>1
<1>7. Loader!FirstPartition(im, Len(im) + 1) = Len(Loader!Partitions(im)) + 1
  <2>1. Len(im) + 1 \in 1 .. Len(im) + 1 /\ (Len(im) + 1) - 1 = Len(im)
    BY <1>1
  <2> QED BY <2>1, <1>3, <1>4
<1>8. ASSUME NEW k \in 1 .. Len(im)
      PROVE Loader!FirstPartition(im, k + 1) =
              Loader!FirstPartition(im, k) + Len(im[k].partitions)
  <2>1. k \in 1 .. Len(im) + 1 /\ k + 1 \in 1 .. Len(im) + 1 /\ (k + 1) - 1 = k
    BY <1>1
  <2>2. Loader!FirstPartition(im, k) = off[k - 1] + 1 /\ off[k - 1] \in Nat
        /\ Loader!FirstPartition(im, k + 1) = off[k] + 1
    BY <2>1, <1>4
  <2>3. PICK n \in Nat : n = Len(im[k].partitions)
    BY <1>1, LenProperties
  <2>4. off[k] = off[k - 1] + n
    BY <2>3, <1>3, Zenon
  <2>5. Loader!FirstPartition(im, k + 1) = Loader!FirstPartition(im, k) + n
    BY <2>2, <2>4
  <2> QED BY <2>3, <2>5, Zenon
<1>9. ASSUME NEW i \in 1 .. Len(im) + 1, NEW j \in 1 .. Len(im) + 1, i <= j
      PROVE Loader!FirstPartition(im, i) <= Loader!FirstPartition(im, j)
  <2> DEFINE f == [k \in 1 .. Len(im) + 1 |-> Loader!FirstPartition(im, k)]
  <2>1. PICK n \in Nat : n = Len(im) + 1
    BY <1>1
  <2>2. f \in [1 .. n -> Int]
    BY <2>1, <1>5
  <2>3. ASSUME NEW k \in 1 .. n - 1 PROVE f[k] <= f[k + 1]
    <3>1. k \in 1 .. Len(im) /\ k \in 1 .. Len(im) + 1 /\ k + 1 \in 1 .. Len(im) + 1
      BY <2>1, <1>1
    <3>2. PICK l \in Nat : l = Len(im[k].partitions)
      BY <3>1, <1>1, LenProperties
    <3>3. f[k + 1] = f[k] + l
      BY <3>1, <3>2, <1>8
    <3>4. f[k] \in Int /\ f[k + 1] \in Int
      BY <3>1, <2>1, <2>2
    <3> HIDE DEF f
    <3> QED BY <3>3, <3>4
  <2>4. f[i] = Loader!FirstPartition(im, i) /\ f[j] = Loader!FirstPartition(im, j)
    OBVIOUS
  <2> HIDE DEF f
  <2>5. \A k \in 1 .. n - 1 : f[k] <= f[k + 1]
    BY <2>3
  <2>6. f[i] <= f[j]
    BY <2>1, <2>2, <2>5, <1>9, NeverFalls
  <2> QED BY <2>4, <2>6
<1> QED BY <1>5, <1>6, <1>7, <1>8, <1>9, Zenon

-----------------------------------------------------------------------------
(* The words of the headers.                                               *)

Wd(im) == Int \cup {Loader!BootHeaderWords(im)[19]}

(* The words of the boot header that the parser reads.                     *)
LEMMA BootHeaderFacts ==
  ASSUME NEW im, Loader!DataAt(im)[1] \in Nat,
         Loader!PartitionHeaderAt(im, 1) \in Nat
  PROVE LET w == Loader!BootHeaderWords(im)
        IN /\ w \in Seq(Wd(im)) /\ Len(w) = 40
           /\ w[10] = 588 /\ w[13] = 4 * Loader!DataAt(im)[1] /\ w[39] = 160
<1> DEFINE v == [i \in 1 .. Loader!TableAt |->
              CASE i = 10 -> Loader!IMAGE_ID_U32 [] i = 13 -> 4 * Loader!DataAt(im)[1]
                [] i = 39 -> 4 * Loader!TableAt [] i = 40 -> 4 * Loader!PartitionHeaderAt(im, 1)
                [] OTHER -> 0]
           sum == Loader!ONES - Loader!sum_of_header(v)
           w == Loader!BootHeaderWords(im)
<1>1. w = [v EXCEPT ![19] = sum]
  BY Zenon DEF Loader!BootHeaderWords
<1>2. Loader!TableAt = 40 /\ 4 * 40 = 160 /\ Loader!IMAGE_ID_U32 = 588
  BY Places DEF Loader!IMAGE_ID_U32
<1>3. ASSUME NEW i \in 1 .. 40 PROVE v[i] \in Int
  BY <1>2
<1>4. v[10] = 588 /\ v[13] = 4 * Loader!DataAt(im)[1] /\ v[39] = 160 /\ DOMAIN v = 1 .. 40
  BY <1>2
<1> HIDE DEF v, sum, w
<1>5. w = [i \in 1 .. 40 |-> IF i = 19 THEN sum ELSE v[i]]
  BY <1>1, <1>4
<1> DEFINE X == Int \cup {w[19]}
<1>6. \A i \in 1 .. 40 : w[i] \in X
  BY <1>5, <1>3
<1> HIDE DEF X
<1>7. w \in [1 .. 40 -> X]
  BY <1>5, <1>6
<1>8. w \in Seq(X) /\ Len(w) = 40
  BY <1>7, OfLength
<1> QED BY <1>4, <1>5, <1>8 DEF w, Wd, X

(* The words of an image header that the parser reads.                     *)
LEMMA ImageHeaderFacts ==
  ASSUME NEW im, Loader!Layable(im), NEW k \in 1 .. Len(im)
  PROVE LET w == Loader!ImageHeaderWords(im, k)
        IN /\ w \in Seq(Int) /\ Len(w) = 16
           /\ w[1] = (IF k = Len(im) THEN 0 ELSE 46 + 16 * k)
           /\ w[2] = Loader!PartitionHeaderAt(im, Loader!FirstPartition(im, k))
           /\ w[4] = Len(im[k].partitions)
           /\ w[16] = Loader!ONES \/ w[16] = 0
<1>1. /\ Len(im) \in Nat \ {0} /\ k \in Nat /\ im[k].name \in Seq(Nat)
      /\ im[k].partitions \in Seq(Part_) /\ Len(im[k].name) \in 0 .. 11
  <2>1. Len(im) \in Nat \ {0}
    BY LayableFacts, Zenon
  <2>2. k \in Nat
    BY <2>1
  <2> QED BY <2>1, <2>2, LayableFacts, Zenon
<1> DEFINE a == IF k = Len(im) THEN 0 ELSE Loader!ImageAt(k + 1)
           b == Loader!PartitionHeaderAt(im, Loader!FirstPartition(im, k))
           c == Len(im[k].partitions)
           n == im[k].name
           s == <<a, b, 0, c>> \o n
           t == s \o <<0>>
<1>2. a \in Int /\ a = (IF k = Len(im) THEN 0 ELSE 46 + 16 * k)
  <2>1. Loader!ImageAt(k + 1) = 30 + 16 * (k + 1)
    <3>1. k + 1 \in Nat \ {0}
      BY <1>1
    <3> QED BY <3>1, Places, Zenon
  <2> QED BY <2>1, <1>1
<1>3. b \in Int
  <2>1. k \in 1 .. Len(im) + 1
    BY <1>1
  <2>2. Loader!FirstPartition(im, k) \in Nat \ {0}
    BY <2>1, FirstFacts, Zenon
  <2>3. PICK f \in Nat \ {0} : f = Loader!FirstPartition(im, k)
    BY <2>2
  <2>4. Loader!PartitionHeaderAt(im, f) = 30 + 16 * Len(im) + 16 * f
    BY <2>3, <1>1, Places, Zenon
  <2>5. 30 + 16 * Len(im) + 16 * f \in Int
    BY <1>1
  <2> QED BY <2>3, <2>4, <2>5, Zenon
<1>4. c \in Int
  BY <1>1, LenProperties
<1>5. n \in Seq(Int) /\ Len(n) \in 0 .. 11
  <2>1. \A q \in Seq(Nat) : q \in Seq(Int)
    OBVIOUS
  <2> QED BY <1>1, <2>1
<1>6. Loader!ONES \in Int
  BY MCSystemAssumption DEF Loader!ONES, Loader!BootImageAssumption
<1>7. Loader!ImageHeaderWords(im, k) = Loader!Padded(t, 16, Loader!ONES)
  BY Zenon DEF Loader!ImageHeaderWords
<1> HIDE DEF a, b, c, n
<1>8. <<a, b, 0, c>> \in Seq(Int) /\ Len(<<a, b, 0, c>>) = 4
  BY <1>2, <1>3, <1>4
<1>9. /\ s \in Seq(Int) /\ Len(s) = 4 + Len(n)
      /\ s[1] = a /\ s[2] = b /\ s[4] = c
  <2>1. /\ s \in Seq(Int) /\ Len(s) = Len(<<a, b, 0, c>>) + Len(n)
        /\ \A i \in 1 .. Len(<<a, b, 0, c>>) : s[i] = <<a, b, 0, c>>[i]
    BY <1>5, <1>8, Joined
  <2> HIDE DEF s
  <2>2. \A i \in 1 .. 4 : s[i] = <<a, b, 0, c>>[i]
    BY <2>1, <1>8, Zenon
  <2> QED BY <2>1, <2>2, <1>8
<1> HIDE DEF s
<1>10. <<0>> \in Seq(Int) /\ Len(<<0>>) = 1 /\ <<0>>[1] = 0
  OBVIOUS
<1>11. /\ t \in Seq(Int) /\ Len(t) = 5 + Len(n)
       /\ t[1] = a /\ t[2] = b /\ t[4] = c /\ t[5 + Len(n)] = 0
  <2>1. /\ t \in Seq(Int) /\ Len(t) = Len(s) + Len(<<0>>)
        /\ \A i \in 1 .. Len(s) : t[i] = s[i]
        /\ \A i \in 1 .. Len(<<0>>) : t[Len(s) + i] = <<0>>[i]
    BY <1>9, <1>10, Joined
  <2> HIDE DEF t
  <2>2. PICK l \in 0 .. 11 : l = Len(n)
    BY <1>5
  <2>3. \A i \in 1 .. 4 + l : t[i] = s[i]
    BY <2>1, <2>2, <1>9, Zenon
  <2>4. \A i \in 1 .. 1 : t[(4 + l) + i] = <<0>>[i]
    BY <2>1, <2>2, <1>9, <1>10, Zenon
  <2>5. t[(4 + l) + 1] = 0 /\ (4 + l) + 1 = 5 + l
    BY <2>4, <1>10
  <2> QED BY <2>1, <2>2, <2>3, <2>5, <1>9, <1>10
<1> HIDE DEF t
<1>12. PICK m \in 5 .. 16 : m = Len(t)
  <2>1. PICK l \in 0 .. 11 : l = Len(n)
    BY <1>5
  <2>2. 5 + l \in 5 .. 16 /\ 5 + l = Len(t)
    <3>1. Len(t) = 5 + l
      BY <2>1, <1>11, Zenon
    <3> QED BY <3>1
  <2> QED BY <2>2
<1> DEFINE u == Loader!Padded(t, 16, Loader!ONES)
<1>13. /\ u \in Seq(Int) /\ Len(u) = 16 /\ \A i \in 1 .. Len(t) : u[i] = t[i]
       /\ \A i \in Len(t) + 1 .. 16 : u[i] = Loader!ONES
  <2>1. t \in Seq(Int) /\ 16 \in Nat
    BY <1>11
  <2>2. m <= 16
    OBVIOUS
  <2>3. Len(t) <= 16
    BY <2>2, <1>12, Zenon
  <2>4. Pads(u, t, 16, Loader!ONES, Int)
    BY <1>6, <2>1, <2>3, PaddedFacts, Zenon
  <2> HIDE DEF u
  <2> QED BY <2>4 DEF Pads
<1> HIDE DEF u
<1>14. u[1] = a /\ u[2] = b /\ u[4] = c /\ u[m] = 0 /\ (m < 16 => u[16] = Loader!ONES)
  <2>1. t[m] = 0
    BY <1>11, <1>12
  <2>2. /\ \A i \in 1 .. m : u[i] = t[i]
        /\ \A i \in m + 1 .. 16 : u[i] = Loader!ONES
    BY <1>12, <1>13, Zenon
  <2> QED BY <2>1, <2>2, <1>11
<1>15. u[16] = Loader!ONES \/ u[16] = 0
  BY <1>14
<1>16. Loader!ImageHeaderWords(im, k) = u
  BY <1>7 DEF u
<1> QED BY <1>13, <1>14, <1>15, <1>16, <1>2 DEF b, c

(* The words of a partition header that the parser reads.                  *)
LEMMA PartitionHeaderFacts ==
  ASSUME NEW im, Loader!Layable(im), NEW p \in 1 .. Len(Loader!Partitions(im))
  PROVE LET w == Loader!PartitionHeaderWords(im, p)
            q == Loader!Partitions(im)[p]
        IN /\ w \in Seq(Int) /\ Len(w) = 16
           /\ w[3] = q.words /\ w[4] = q.load /\ w[6] = Loader!DataAt(im)[p]
           /\ w[7] = 16 * q.dest
<1> DEFINE q == Loader!Partitions(im)[p]
           d == Loader!DataAt(im)[p]
           s == <<q.words, q.words, q.words, q.load, q.load, d, 16 * q.dest, 1>>
           w == Loader!PartitionHeaderWords(im, p)
<1>1. q.dest \in Nat /\ q.load \in Nat /\ q.words \in Nat /\ d \in Nat
  <2>1. /\ Len(Loader!Partitions(im)) \in Nat /\ q.dest \in 0 .. 15
        /\ q.load \in Nat /\ q.words \in Nat
        /\ Loader!DataAt(im) \in [1 .. Len(Loader!Partitions(im)) + 1 -> Nat]
    BY DataFacts, Zenon
  <2>2. p \in 1 .. Len(Loader!Partitions(im)) + 1
    BY <2>1
  <2> HIDE DEF q
  <2>3. d \in Nat
    BY <2>1, <2>2
  <2>4. \A i \in 0 .. 15 : i \in Nat
    OBVIOUS
  <2> QED BY <2>1, <2>3, <2>4, Zenon
<1>2. w = Loader!Padded(s, 16, 0)
  BY Zenon DEF Loader!PartitionHeaderWords
<1> HIDE DEF q, d, w
<1>3. s \in Seq(Int) /\ Len(s) = 8 /\ s[3] = q.words /\ s[4] = q.load
      /\ s[6] = d /\ s[7] = 16 * q.dest
  BY <1>1
<1> HIDE DEF s
<1>4. /\ w \in Seq(Int) /\ Len(w) = 16 /\ \A i \in 1 .. Len(s) : w[i] = s[i]
  <2>1. s \in Seq(Int) /\ 16 \in Nat /\ Len(s) <= 16 /\ 0 \in Int
    BY <1>3
  <2>2. Pads(w, s, 16, 0, Int)
    BY <1>2, <2>1, PaddedFacts, Zenon
  <2> QED BY <2>2 DEF Pads
<1>5. \A i \in 1 .. 8 : w[i] = s[i]
  BY <1>3, <1>4, Zenon
<1>6. /\ w \in Seq(Int) /\ Len(w) = 16
      /\ w[3] = q.words /\ w[4] = q.load /\ w[6] = d /\ w[7] = 16 * q.dest
  BY <1>3, <1>4, <1>5
<1> QED BY <1>6 DEF w, q, d

(* Headers of 16 words, one behind the other.                              *)
Sixteens(t, s, S) ==
  /\ t \in Seq(S) /\ Len(t) = 16 * Len(s)
  /\ \A i \in 1 .. Len(s), j \in 1 .. 16 : t[16 * i - 16 + j] = s[i][j]

(* Headers of 16 words that are joined: where each of them is.             *)
LEMMA SixteensJoined ==
  ASSUME NEW S
  PROVE \A s \in Seq(Seq(S)) : (\A i \in 1 .. Len(s) : Len(s[i]) = 16) =>
          Sixteens(Loader!FlattenSeq(s), s, S)
<1> SUFFICES ASSUME NEW s \in Seq(Seq(S)), \A i \in 1 .. Len(s) : Len(s[i]) = 16
             PROVE Sixteens(Loader!FlattenSeq(s), s, S)
  BY Zenon
<1> DEFINE off == [i \in 0 .. Len(s) |-> 16 * i]
           t == Loader!FlattenSeq(s)
<1>1. Len(s) \in Nat
  OBVIOUS
<1>2. Sums(off, s)
  <2>1. off \in [0 .. Len(s) -> Nat] /\ off[0] = 0
    BY <1>1
  <2>2. ASSUME NEW i \in 1 .. Len(s) PROVE off[i] = off[i - 1] + Len(s[i])
    <3>1. i \in 0 .. Len(s) /\ i - 1 \in 0 .. Len(s) /\ i \in Nat
      BY <1>1
    <3>2. off[i] = 16 * i /\ off[i - 1] = 16 * (i - 1)
      BY <3>1
    <3>3. 16 * i = 16 * (i - 1) + 16
      BY <3>1
    <3> HIDE DEF off
    <3> QED BY <3>2, <3>3
  <2> HIDE DEF off
  <2> QED BY <2>1, <2>2, Zenon DEF Sums
<1>3. \A i \in 0 .. Len(s) : off[i] = 16 * i
  OBVIOUS
<1> HIDE DEF off, t
<1>4. /\ t \in Seq(S) /\ Len(t) = off[Len(s)]
      /\ \A i \in 1 .. Len(s) : \A j \in 1 .. Len(s[i]) : t[off[i - 1] + j] = s[i][j]
  <2>1. JoinedAt(t, s, off, S)
    BY <1>2, FlattenFacts, Zenon DEF t
  <2> QED BY <2>1, Zenon DEF JoinedAt
<1>5. Len(t) = 16 * Len(s)
  BY <1>1, <1>3, <1>4
<1>6. ASSUME NEW i \in 1 .. Len(s), NEW j \in 1 .. 16 PROVE t[16 * i - 16 + j] = s[i][j]
  <2>1. i - 1 \in 0 .. Len(s) /\ i \in Nat
    BY <1>1
  <2>2. off[i - 1] = 16 * (i - 1)
    BY <2>1, <1>3
  <2>3. off[i - 1] = 16 * i - 16
    BY <2>1, <2>2
  <2>4. j \in 1 .. Len(s[i])
    BY Zenon
  <2>5. t[off[i - 1] + j] = s[i][j]
    BY <2>4, <1>4, Zenon
  <2> QED BY <2>3, <2>5, Zenon
<1> QED BY <1>4, <1>5, <1>6, Zenon DEF Sixteens, t

(* The bodies of the partitions.                                           *)
Body(im, p) ==
  Loader!Padded([i \in 1 .. Loader!Partitions(im)[p].words |-> Loader!Content(p, i)],
                Loader!DataAt(im)[p + 1] - Loader!DataAt(im)[p], Loader!ONES)

(* Where the partitions are in what follows the metadata.                  *)
LEMMA BodyFacts ==
  ASSUME NEW im, Loader!Layable(im), NEW p \in 1 .. Len(Loader!Partitions(im))
  PROVE /\ Body(im, p) \in Seq(Int)
        /\ Len(Body(im, p)) = Loader!DataAt(im)[p + 1] - Loader!DataAt(im)[p]
        /\ \A i \in 1 .. Loader!Partitions(im)[p].words : Body(im, p)[i] = Loader!Content(p, i)
<1> DEFINE w == Loader!Partitions(im)[p].words
           a == Loader!DataAt(im)[p]
           b == Loader!DataAt(im)[p + 1]
           c == [i \in 1 .. w |-> Loader!Content(p, i)]
<1>1. Len(Loader!Partitions(im)) \in Nat /\ w \in Nat /\ b >= a + w
      /\ Loader!DataAt(im) \in [1 .. Len(Loader!Partitions(im)) + 1 -> Nat]
  BY DataFacts, Zenon
<1>2. p \in 1 .. Len(Loader!Partitions(im)) + 1 /\ p + 1 \in 1 .. Len(Loader!Partitions(im)) + 1
      /\ p \in Nat
  BY <1>1
<1>3. a \in Nat /\ b \in Nat
  <2>1. \A i \in 1 .. Len(Loader!Partitions(im)) + 1 : Loader!DataAt(im)[i] \in Nat
    BY <1>1
  <2> QED BY <1>2, <2>1, Zenon
<1>4. Loader!ONES \in Int
  BY MCSystemAssumption DEF Loader!ONES, Loader!BootImageAssumption
<1> HIDE DEF w, a, b
<1>5. c \in [1 .. w -> Int] /\ \A i \in 1 .. w : c[i] = Loader!Content(p, i)
  BY <1>1, <1>2 DEF Loader!Content
<1> HIDE DEF c
<1>6. c \in Seq(Int) /\ Len(c) = w
  BY <1>1, <1>5, OfLength, Zenon
<1>7. b - a \in Nat /\ w <= b - a
  BY <1>1, <1>3
<1>8. Len(c) <= b - a
  BY <1>6, <1>7, Zenon
<1>9. Pads(Loader!Padded(c, b - a, Loader!ONES), c, b - a, Loader!ONES, Int)
  BY <1>4, <1>6, <1>7, <1>8, PaddedFacts, Zenon
<1>10. Body(im, p) = Loader!Padded(c, b - a, Loader!ONES)
  BY Zenon DEF Body, c, w, a, b
<1>11. /\ Body(im, p) \in Seq(Int) /\ Len(Body(im, p)) = b - a
       /\ \A i \in 1 .. w : Body(im, p)[i] = c[i]
  BY <1>6, <1>9, <1>10, Zenon DEF Pads
<1>12. \A i \in 1 .. w : Body(im, p)[i] = Loader!Content(p, i)
  BY <1>5, <1>11, Zenon
<1> QED BY <1>11, <1>12, Zenon DEF w, a, b

(* A sequence over a set is one over a larger set.                         *)
LEMMA SeqInLarger ==
  ASSUME NEW S, NEW V, S \subseteq V PROVE \A s \in Seq(S) : s \in Seq(V)
OBVIOUS

Joins(t, a, b, S) ==
  /\ t \in Seq(S) /\ Len(t) = Len(a) + Len(b)
  /\ \A i \in 1 .. Len(a) : t[i] = a[i]
  /\ \A i \in 1 .. Len(b) : t[Len(a) + i] = b[i]

(* Two sequences joined, as a predicate.                                   *)
LEMMA JoinedBoth ==
  ASSUME NEW S PROVE \A a, b \in Seq(S) : Joins(a \o b, a, b, S)
<1> TAKE a, b \in Seq(S)
<1>1. /\ a \o b \in Seq(S) /\ Len(a \o b) = Len(a) + Len(b)
      /\ \A i \in 1 .. Len(a) : (a \o b)[i] = a[i]
      /\ \A i \in 1 .. Len(b) : (a \o b)[Len(a) + i] = b[i]
  BY Joined
<1> QED BY <1>1, Zenon DEF Joins

Metadata(im) ==
  Loader!BootHeaderWords(im)
  \o <<0, Len(im), Loader!PartitionHeaderAt(im, 1), Loader!ImageAt(1), 0, 0>>
  \o Loader!FlattenSeq([k \in DOMAIN im |-> Loader!ImageHeaderWords(im, k)])
  \o Loader!FlattenSeq([p \in DOMAIN Loader!Partitions(im) |-> Loader!PartitionHeaderWords(im, p)])

(* Where things are in metadata.                                           *)
ImageHeaderIn(m, im, k) ==
  \A j \in 1 .. 16 : m[30 + 16 * k + j] = Loader!ImageHeaderWords(im, k)[j]
PartitionHeaderIn(m, im, p) ==
  \A j \in 1 .. 16 :
     m[30 + 16 * Len(im) + 16 * p + j] = Loader!PartitionHeaderWords(im, p)[j]
MetadataLaidOut(m, im) ==
  /\ m[10] = 588 /\ m[13] = 4 * Loader!DataAt(im)[1] /\ m[39] = 160 /\ m[44] = 46
  /\ \A k \in 1 .. Len(im) : ImageHeaderIn(m, im, k)
  /\ \A p \in 1 .. Len(Loader!Partitions(im)) : PartitionHeaderIn(m, im, p)

(* The metadata are laid out where the parser looks for them.              *)
LEMMA MetadataFacts ==
  ASSUME NEW im, Loader!Layable(im)
  PROVE /\ Metadata(im) \in Seq(Wd(im)) /\ MetadataLaidOut(Metadata(im), im)
        /\ Len(Metadata(im)) = 46 + 16 * Len(im) + 16 * Len(Loader!Partitions(im))
<1> DEFINE S == Wd(im)
           D1 == Loader!DataAt(im)[1]
           ps == Loader!Partitions(im)
           hs == [k \in DOMAIN im |-> Loader!ImageHeaderWords(im, k)]
           gs == [p \in DOMAIN ps |-> Loader!PartitionHeaderWords(im, p)]
           b == Loader!BootHeaderWords(im)
           t == <<0, Len(im), Loader!PartitionHeaderAt(im, 1), Loader!ImageAt(1), 0, 0>>
           h == Loader!FlattenSeq(hs)
           g == Loader!FlattenSeq(gs)
<1>1. PICK K \in Nat \ {0} : K = Len(im) /\ DOMAIN im = 1 .. K
  BY LayableFacts, Zenon
<1>2. PICK np \in Nat : np = Len(ps) /\ ps \in Seq(Part_) /\ D1 \in Nat
  <2>1. /\ Len(ps) \in Nat /\ ps \in Seq(Part_)
        /\ Loader!DataAt(im) \in [1 .. Len(ps) + 1 -> Nat]
    BY DataFacts, Zenon
  <2>2. 1 \in 1 .. Len(ps) + 1
    BY <2>1
  <2>3. D1 \in Nat
    BY <2>1, <2>2
  <2> QED BY <2>1, <2>3, Zenon
<1>3. DOMAIN ps = 1 .. np
  BY <1>2
<1>4. Loader!PartitionHeaderAt(im, 1) \in Nat /\ Loader!ImageAt(1) = 46
  <2>1. Loader!PartitionHeaderAt(im, 1) = 30 + 16 * Len(im) + 16 * 1
        /\ Loader!ImageAt(1) = 30 + 16 * 1
    <3>1. 1 \in Nat \ {0} /\ Len(im) \in Nat
      BY <1>1
    <3> QED BY <3>1, Places, Zenon
  <2>2. 30 + 16 * K + 16 * 1 \in Nat /\ 30 + 16 * 1 = 46
    BY <1>1
  <2> QED BY <2>1, <2>2, <1>1, Zenon
<1>5. b \in Seq(S) /\ Len(b) = 40 /\ b[10] = 588 /\ b[13] = 4 * D1 /\ b[39] = 160
  <2>1. Loader!DataAt(im)[1] \in Nat /\ Loader!PartitionHeaderAt(im, 1) \in Nat
    BY <1>2, <1>4
  <2> HIDE DEF D1, S, b
  <2>2. /\ Loader!BootHeaderWords(im) \in Seq(Wd(im)) /\ Len(Loader!BootHeaderWords(im)) = 40
        /\ Loader!BootHeaderWords(im)[10] = 588
        /\ Loader!BootHeaderWords(im)[13] = 4 * Loader!DataAt(im)[1]
        /\ Loader!BootHeaderWords(im)[39] = 160
    BY <2>1, BootHeaderFacts
  <2> QED BY <2>2, Zenon DEF b, S, D1
<1>6. Int \subseteq S /\ \A s \in Seq(Int) : s \in Seq(S)
  BY SeqInLarger, Zenon DEF Wd
<1>7. t \in Seq(S) /\ Len(t) = 6 /\ t[4] = 46
  <2>1. t \in Seq(Int) /\ Len(t) = 6 /\ t[4] = Loader!ImageAt(1)
    BY <1>1, <1>4
  <2> HIDE DEF t
  <2> QED BY <2>1, <1>4, <1>6
<1>8. /\ hs \in Seq(Seq(S)) /\ Len(hs) = K
      /\ \A k \in 1 .. K : hs[k] = Loader!ImageHeaderWords(im, k) /\ Len(hs[k]) = 16
  <2>1. \A k \in 1 .. K : /\ Loader!ImageHeaderWords(im, k) \in Seq(S)
                          /\ Len(Loader!ImageHeaderWords(im, k)) = 16
    BY <1>1, <1>6, ImageHeaderFacts, Zenon
  <2>2. \A k \in 1 .. K : hs[k] = Loader!ImageHeaderWords(im, k)
    BY <1>1
  <2>3. hs \in [1 .. K -> Seq(S)]
    BY <1>1, <2>1
  <2>4. hs \in Seq(Seq(S)) /\ Len(hs) = K
    BY <2>3, OfLength, Zenon
  <2> QED BY <2>1, <2>2, <2>4, Zenon
<1>9. /\ gs \in Seq(Seq(S)) /\ Len(gs) = np
      /\ \A p \in 1 .. np : gs[p] = Loader!PartitionHeaderWords(im, p) /\ Len(gs[p]) = 16
  <2>1. \A p \in 1 .. np : /\ Loader!PartitionHeaderWords(im, p) \in Seq(S)
                           /\ Len(Loader!PartitionHeaderWords(im, p)) = 16
    BY <1>2, <1>6, PartitionHeaderFacts, Zenon
  <2>2. \A p \in 1 .. np : gs[p] = Loader!PartitionHeaderWords(im, p)
    BY <1>3
  <2>3. gs \in [1 .. np -> Seq(S)]
    BY <1>3, <2>1
  <2>4. gs \in Seq(Seq(S)) /\ Len(gs) = np
    BY <2>3, OfLength, Zenon
  <2> QED BY <2>1, <2>2, <2>4, Zenon
<1>10. Metadata(im) = ((b \o t) \o h) \o g
  BY Zenon DEF Metadata
<1> HIDE DEF D1, ps, hs, gs, b, t, h, g, S
<1>11. /\ h \in Seq(S) /\ Len(h) = 16 * K
       /\ \A k \in 1 .. K, j \in 1 .. 16 : h[16 * k - 16 + j] = hs[k][j]
  <2>1. Sixteens(h, hs, S)
    BY <1>8, SixteensJoined, Zenon DEF h
  <2> QED BY <2>1, <1>8, Zenon DEF Sixteens
<1>12. /\ g \in Seq(S) /\ Len(g) = 16 * np
       /\ \A p \in 1 .. np, j \in 1 .. 16 : g[16 * p - 16 + j] = gs[p][j]
  <2>1. Sixteens(g, gs, S)
    BY <1>9, SixteensJoined, Zenon DEF g
  <2> QED BY <2>1, <1>9, Zenon DEF Sixteens
<1> DEFINE m1 == b \o t
           m2 == m1 \o h
           m3 == m2 \o g
<1>13. /\ m1 \in Seq(S) /\ Len(m1) = 46
       /\ m1[10] = 588 /\ m1[13] = 4 * D1 /\ m1[39] = 160 /\ m1[44] = 46
  <2>1. Joins(m1, b, t, S)
    BY <1>5, <1>7, JoinedBoth, Zenon
  <2> HIDE DEF m1
  <2>2. m1 \in Seq(S) /\ Len(m1) = 40 + 6
    BY <2>1, <1>5, <1>7, Zenon DEF Joins
  <2>3. (\A i \in 1 .. 40 : m1[i] = b[i]) /\ \A i \in 1 .. 6 : m1[40 + i] = t[i]
    BY <2>1, <1>5, <1>7 DEF Joins
  <2> QED BY <2>2, <2>3, <1>5, <1>7
<1> HIDE DEF m1
<1>14. /\ m2 \in Seq(S) /\ Len(m2) = 46 + 16 * K
       /\ \A i \in 1 .. 46 : m2[i] = m1[i]
       /\ \A i \in 1 .. 16 * K : m2[46 + i] = h[i]
  <2>1. Joins(m2, m1, h, S)
    BY <1>13, <1>11, JoinedBoth, Zenon
  <2> HIDE DEF m2
  <2> QED BY <2>1, <1>13, <1>11 DEF Joins
<1> HIDE DEF m2
<1>15. /\ m3 \in Seq(S) /\ Len(m3) = 46 + 16 * K + 16 * np
       /\ \A i \in 1 .. 46 + 16 * K : m3[i] = m2[i]
       /\ \A i \in 1 .. 16 * np : m3[46 + 16 * K + i] = g[i]
  <2>1. Joins(m3, m2, g, S)
    BY <1>14, <1>12, JoinedBoth, Zenon
  <2> HIDE DEF m3
  <2> QED BY <2>1, <1>14, <1>12, Zenon DEF Joins
<1>16. Metadata(im) = m3
  BY <1>10, Zenon DEF m3, m2, m1
<1> HIDE DEF m3
<1>17. \A i \in {10, 13, 39, 44} : m3[i] = m1[i]
  <2>1. \A i \in {10, 13, 39, 44} : i \in 1 .. 46 /\ i \in 1 .. 46 + 16 * K
    OBVIOUS
  <2> QED BY <2>1, <1>14, <1>15, Zenon
<1>18. ASSUME NEW k \in 1 .. K, NEW j \in 1 .. 16
       PROVE m3[30 + 16 * k + j] = Loader!ImageHeaderWords(im, k)[j]
  <2>1. /\ 16 * k - 16 + j \in 1 .. 16 * K /\ 46 + (16 * k - 16 + j) = 30 + 16 * k + j
        /\ 30 + 16 * k + j \in 1 .. 46 + 16 * K
    <3>1. k \in Nat /\ k <= K
      OBVIOUS
    <3> QED BY <3>1
  <2>2. m3[30 + 16 * k + j] = m2[46 + (16 * k - 16 + j)]
    BY <2>1, <1>15, Zenon
  <2>3. m2[46 + (16 * k - 16 + j)] = h[16 * k - 16 + j]
    BY <2>1, <1>14, Zenon
  <2>4. h[16 * k - 16 + j] = hs[k][j]
    BY <1>11, Zenon
  <2> QED BY <2>2, <2>3, <2>4, <1>8, Zenon
<1>19. ASSUME NEW p \in 1 .. np, NEW j \in 1 .. 16
       PROVE m3[30 + 16 * K + 16 * p + j] = Loader!PartitionHeaderWords(im, p)[j]
  <2>1. /\ 16 * p - 16 + j \in 1 .. 16 * np
        /\ 46 + 16 * K + (16 * p - 16 + j) = 30 + 16 * K + 16 * p + j
    <3>1. p \in Nat /\ p <= np
      OBVIOUS
    <3> QED BY <3>1
  <2>2. m3[46 + 16 * K + (16 * p - 16 + j)] = g[16 * p - 16 + j]
    BY <2>1, <1>15, Zenon
  <2>3. g[16 * p - 16 + j] = gs[p][j]
    BY <1>12, Zenon
  <2> QED BY <2>1, <2>2, <2>3, <1>9, Zenon
<1>20. m3[10] = 588 /\ m3[13] = 4 * D1 /\ m3[39] = 160 /\ m3[44] = 46
  BY <1>13, <1>17
<1>21. MetadataLaidOut(m3, im)
  BY <1>1, <1>2, <1>18, <1>19, <1>20 DEF MetadataLaidOut, ImageHeaderIn, PartitionHeaderIn, D1, ps
<1> QED BY <1>1, <1>2, <1>15, <1>16, <1>21, Zenon DEF S, ps

(* Where things are in an image.                                           *)
LEMMA LayoutFacts ==
  ASSUME NEW im, Loader!Layable(im)
  PROVE LET L == Loader!Layout(im)
            da == Loader!DataAt(im)
            ps == Loader!Partitions(im)
        IN /\ L \in Seq(Wd(im)) /\ Len(L) = da[Len(ps) + 1] /\ MetadataLaidOut(L, im)
           /\ \A p \in 1 .. Len(ps) : \A i \in 1 .. ps[p].words : L[da[p] + i] = Loader!Content(p, i)
<1> DEFINE S == Wd(im)
           L == Loader!Layout(im)
           da == Loader!DataAt(im)
           ps == Loader!Partitions(im)
           m == Metadata(im)
           me == Loader!Padded(m, da[1], Loader!ONES)
           bs == [p \in DOMAIN ps |->
                 Loader!Padded([i \in 1 .. ps[p].words |-> Loader!Content(p, i)],
                        da[p + 1] - da[p], Loader!ONES)]
           bo == Loader!FlattenSeq(bs)
<1>1. PICK K \in Nat \ {0} : K = Len(im)
  BY LayableFacts, Zenon
<1>2. /\ Len(ps) \in Nat /\ ps \in Seq(Part_) /\ da \in [1 .. Len(ps) + 1 -> Nat]
      /\ da[1] >= 46 + 16 * Len(im) + 16 * Len(ps)
      /\ \A p \in 1 .. Len(ps) : ps[p].words \in Nat /\ da[p + 1] >= da[p] + ps[p].words
      /\ \A p, q \in 1 .. Len(ps) + 1 : p <= q => da[p] <= da[q]
  BY DataFacts, Zenon
<1>3. PICK np \in Nat : np = Len(ps)
  BY <1>2
<1>4. DOMAIN ps = 1 .. np
  BY <1>2, <1>3
<1>5. da \in [1 .. np + 1 -> Nat] /\ da[1] \in Nat /\ da[1] >= 46 + 16 * K + 16 * np
  <2>1. da \in [1 .. np + 1 -> Nat]
    BY <1>2, <1>3, Zenon
  <2>2. 1 \in 1 .. np + 1
    BY <1>3
  <2>3. da[1] >= 46 + 16 * K + 16 * np
    BY <1>1, <1>2, <1>3, Zenon
  <2> HIDE DEF da
  <2> QED BY <2>1, <2>2, <2>3
<1>6. m \in Seq(S) /\ MetadataLaidOut(m, im) /\ Len(m) = 46 + 16 * K + 16 * np
  <2>1. /\ m \in Seq(S) /\ MetadataLaidOut(m, im)
        /\ Len(m) = 46 + 16 * Len(im) + 16 * Len(ps)
    BY MetadataFacts, Zenon
  <2> QED BY <2>1, <1>1, <1>3, Zenon
<1>7. Int \subseteq S /\ \A s \in Seq(Int) : s \in Seq(S)
  BY SeqInLarger, Zenon DEF Wd
<1>8. Loader!ONES \in Int
  BY MCSystemAssumption DEF Loader!ONES, Loader!BootImageAssumption
<1>9. /\ bs \in Seq(Seq(S)) /\ Len(bs) = np
      /\ \A p \in 1 .. np : /\ Len(bs[p]) = da[p + 1] - da[p]
                            /\ \A i \in 1 .. ps[p].words : bs[p][i] = Loader!Content(p, i)
  <2>1. \A p \in 1 .. np : bs[p] = Body(im, p)
    BY <1>4, Zenon DEF Body
  <2>2. \A p \in 1 .. np : /\ Body(im, p) \in Seq(S) /\ Len(Body(im, p)) = da[p + 1] - da[p]
                           /\ \A i \in 1 .. ps[p].words : Body(im, p)[i] = Loader!Content(p, i)
    BY <1>3, <1>7, BodyFacts, Zenon
  <2>3. DOMAIN bs = 1 .. np /\ bs = [p \in 1 .. np |-> bs[p]]
    BY <1>4
  <2> HIDE DEF bs
  <2>4. bs \in [1 .. np -> Seq(S)]
    BY <2>1, <2>2, <2>3
  <2>5. bs \in Seq(Seq(S)) /\ Len(bs) = np
    BY <2>4, OfLength, Zenon
  <2> QED BY <2>1, <2>2, <2>5, Zenon
<1>10. L = me \o bo
  BY Zenon DEF Loader!Layout, Metadata
<1> HIDE DEF L, da, ps, m, bs, S
<1> DEFINE off == [p \in 0 .. np |-> da[p + 1] - da[1]]
<1>11. \A p \in 1 .. np + 1 : da[p] \in Nat /\ da[1] <= da[p]
  <2>1. 1 \in 1 .. np + 1
    OBVIOUS
  <2> QED BY <2>1, <1>2, <1>3, <1>5
<1>12. \A p \in 0 .. np : off[p] \in Nat /\ off[p] = da[p + 1] - da[1]
  <2>1. \A p \in 0 .. np : p + 1 \in 1 .. np + 1 /\ da[p + 1] - da[1] \in Nat
    BY <1>11, <1>5
  <2> QED BY <2>1
<1>13. Sums(off, bs)
  <2>1. off \in [0 .. np -> Nat] /\ off[0] = 0
    BY <1>12, <1>5
  <2>2. ASSUME NEW p \in 1 .. np PROVE off[p] = off[p - 1] + Len(bs[p])
    <3>1. p \in 0 .. np /\ p - 1 \in 0 .. np /\ (p - 1) + 1 = p
          /\ p \in 1 .. np + 1 /\ p + 1 \in 1 .. np + 1
      OBVIOUS
    <3>2. off[p] = da[p + 1] - da[1] /\ off[p - 1] = da[(p - 1) + 1] - da[1]
      BY <3>1, <1>12, Zenon
    <3>3. da[p] \in Nat /\ da[p + 1] \in Nat /\ da[1] \in Nat
      BY <3>1, <1>11, <1>5
    <3>4. off[p - 1] = da[p] - da[1]
      BY <3>1, <3>2, Zenon
    <3>5. Len(bs[p]) = da[p + 1] - da[p]
      BY <1>9, Zenon
    <3> HIDE DEF off
    <3> QED BY <3>2, <3>3, <3>4, <3>5
  <2> HIDE DEF off
  <2> QED BY <2>1, <2>2, <1>9 DEF Sums
<1> HIDE DEF off
<1>14. /\ bo \in Seq(S) /\ Len(bo) = da[np + 1] - da[1]
       /\ \A p \in 1 .. np : \A j \in 1 .. da[p + 1] - da[p] : bo[(da[p] - da[1]) + j] = bs[p][j]
  <2>1. JoinedAt(bo, bs, off, S)
    BY <1>9, <1>13, FlattenFacts, Zenon
  <2> HIDE DEF bo
  <2>2. /\ bo \in Seq(S) /\ Len(bo) = off[np]
        /\ \A p \in 1 .. np : \A j \in 1 .. da[p + 1] - da[p] : bo[off[p - 1] + j] = bs[p][j]
    BY <2>1, <1>9 DEF JoinedAt
  <2>3. off[np] = da[np + 1] - da[1]
    <3>1. np \in 0 .. np
      OBVIOUS
    <3> QED BY <3>1, <1>12, Zenon
  <2>4. \A p \in 1 .. np : off[p - 1] = da[p] - da[1]
    <3> TAKE p \in 1 .. np
    <3>1. p - 1 \in 0 .. np /\ (p - 1) + 1 = p
      OBVIOUS
    <3>2. off[p - 1] = da[(p - 1) + 1] - da[1]
      BY <3>1, <1>12, Zenon
    <3> QED BY <3>1, <3>2, Zenon
  <2> QED BY <2>2, <2>3, <2>4, Zenon
<1> HIDE DEF bo
<1>15. /\ me \in Seq(S) /\ Len(me) = da[1] /\ \A i \in 1 .. 46 + 16 * K + 16 * np : me[i] = m[i]
  <2>1. Loader!ONES \in S
    BY <1>7, <1>8, Zenon
  <2>2. Len(m) <= da[1]
    <3>1. PICK l \in Nat : l = Len(m) /\ l = 46 + 16 * K + 16 * np
      BY <1>6
    <3> QED BY <3>1, <1>5
  <2>3. Pads(me, m, da[1], Loader!ONES, S)
    BY <2>1, <2>2, <1>5, <1>6, PaddedFacts, Zenon
  <2> HIDE DEF me
  <2> QED BY <2>3, <1>6 DEF Pads
<1> HIDE DEF me
<1>16. /\ L \in Seq(S) /\ Len(L) = da[np + 1]
       /\ \A i \in 1 .. da[1] : L[i] = me[i]
       /\ \A i \in 1 .. da[np + 1] - da[1] : L[da[1] + i] = bo[i]
  <2>1. Joins(L, me, bo, S)
    BY <1>10, <1>14, <1>15, JoinedBoth, Zenon
  <2>2. /\ L \in Seq(S) /\ Len(L) = da[1] + (da[np + 1] - da[1])
        /\ \A i \in 1 .. da[1] : L[i] = me[i]
        /\ \A i \in 1 .. da[np + 1] - da[1] : L[da[1] + i] = bo[i]
    BY <2>1, <1>14, <1>15 DEF Joins
  <2>3. np + 1 \in 1 .. np + 1
    OBVIOUS
  <2>4. da[1] + (da[np + 1] - da[1]) = da[np + 1]
    BY <2>3, <1>11, <1>5
  <2> QED BY <2>2, <2>4, Zenon
<1>17. \A i \in 1 .. 46 + 16 * K + 16 * np : L[i] = m[i]
  <2>1. \A i \in 1 .. 46 + 16 * K + 16 * np : i \in 1 .. da[1]
    BY <1>5
  <2> QED BY <2>1, <1>15, <1>16, Zenon
<1>18. MetadataLaidOut(L, im)
  <2>1. L[10] = m[10] /\ L[13] = m[13] /\ L[39] = m[39] /\ L[44] = m[44]
    BY <1>17
  <2>2. /\ m[10] = 588 /\ m[13] = 4 * da[1] /\ m[39] = 160 /\ m[44] = 46
        /\ \A k \in 1 .. K : ImageHeaderIn(m, im, k)
        /\ \A p \in 1 .. np : PartitionHeaderIn(m, im, p)
    BY <1>1, <1>3, <1>6, Zenon DEF MetadataLaidOut, da, ps
  <2>3. ASSUME NEW k \in 1 .. K PROVE ImageHeaderIn(L, im, k)
    <3>1. ASSUME NEW j \in 1 .. 16 PROVE L[30 + 16 * k + j] = Loader!ImageHeaderWords(im, k)[j]
      <4>1. 30 + 16 * k + j \in 1 .. 46 + 16 * K + 16 * np
        <5>1. k \in Nat /\ k <= K
          OBVIOUS
        <5> QED BY <5>1
      <4>2. L[30 + 16 * k + j] = m[30 + 16 * k + j]
        BY <4>1, <1>17, Zenon
      <4>3. m[30 + 16 * k + j] = Loader!ImageHeaderWords(im, k)[j]
        <5>1. ImageHeaderIn(m, im, k)
          BY <2>2
        <5> QED BY <5>1, Zenon DEF ImageHeaderIn
      <4> QED BY <4>2, <4>3, Zenon
    <3> QED BY <3>1, Zenon DEF ImageHeaderIn
  <2>4. ASSUME NEW p \in 1 .. np PROVE PartitionHeaderIn(L, im, p)
    <3>1. ASSUME NEW j \in 1 .. 16
          PROVE L[30 + 16 * K + 16 * p + j] = Loader!PartitionHeaderWords(im, p)[j]
      <4>1. 30 + 16 * K + 16 * p + j \in 1 .. 46 + 16 * K + 16 * np
        <5>1. p \in Nat /\ p <= np
          OBVIOUS
        <5> QED BY <5>1
      <4>2. L[30 + 16 * K + 16 * p + j] = m[30 + 16 * K + 16 * p + j]
        BY <4>1, <1>17, Zenon
      <4>3. m[30 + 16 * K + 16 * p + j] = Loader!PartitionHeaderWords(im, p)[j]
        <5>1. PartitionHeaderIn(m, im, p)
          BY <2>2
        <5> QED BY <5>1, <1>1, <1>3, Zenon DEF PartitionHeaderIn
      <4> QED BY <4>2, <4>3, Zenon
    <3> QED BY <3>1, <1>1, <1>3, Zenon DEF PartitionHeaderIn
  <2>5. K = Len(im) /\ np = Len(Loader!Partitions(im))
    BY <1>1, <1>3, Zenon DEF ps
  <2>6. /\ \A k \in 1 .. K : ImageHeaderIn(L, im, k)
        /\ \A p \in 1 .. np : PartitionHeaderIn(L, im, p)
    BY <2>3, <2>4, Zenon
  <2>7. L[10] = 588 /\ L[13] = 4 * Loader!DataAt(im)[1] /\ L[39] = 160 /\ L[44] = 46
    BY <2>1, <2>2 DEF da
  <2> QED BY <2>5, <2>6, <2>7, Zenon DEF MetadataLaidOut
<1>19. ASSUME NEW p \in 1 .. np, NEW i \in 1 .. ps[p].words
       PROVE L[da[p] + i] = Loader!Content(p, i)
  <2>1. p \in 1 .. np + 1 /\ p + 1 \in 1 .. np + 1 /\ p + 1 <= np + 1 /\ np + 1 \in 1 .. np + 1
    OBVIOUS
  <2>2. /\ da[p] \in Nat /\ da[p + 1] \in Nat /\ da[np + 1] \in Nat /\ da[1] <= da[p] /\ da[1] \in Nat
        /\ da[p + 1] <= da[np + 1] /\ ps[p].words \in Nat /\ da[p + 1] >= da[p] + ps[p].words
    BY <2>1, <1>2, <1>3, <1>5, <1>11
  <2>3. /\ i \in 1 .. da[p + 1] - da[p] /\ (da[p] - da[1]) + i \in 1 .. da[np + 1] - da[1]
        /\ da[1] + ((da[p] - da[1]) + i) = da[p] + i
    BY <2>2
  <2>4. L[da[1] + ((da[p] - da[1]) + i)] = bo[(da[p] - da[1]) + i]
    BY <2>3, <1>16, Zenon
  <2>5. bo[(da[p] - da[1]) + i] = bs[p][i] /\ bs[p][i] = Loader!Content(p, i)
    BY <2>3, <1>14, <1>9, Zenon
  <2> QED BY <2>3, <2>4, <2>5, Zenon
<1>20. /\ Len(L) = da[Len(ps) + 1]
       /\ \A p \in 1 .. Len(ps) : \A i \in 1 .. ps[p].words : L[da[p] + i] = Loader!Content(p, i)
  BY <1>3, <1>16, <1>19
<1> QED BY <1>16, <1>18, <1>20 DEF L, da, ps, S

(* What the parser makes of the metadata in the staging area.              *)
Staged(data, im) ==
  /\ Len(data) = Loader!DataAt(im)[1]
  /\ \A i \in 1 .. Loader!DataAt(im)[1] : data[i] = Loader!Layout(im)[i]

ImageHeaderAt(k) == 120 + 64 * k
PartitionAt(im, p) == 120 + 64 * Len(im) + 64 * p

(* A word is read at four times its index.                                 *)
LEMMA WordAt ==
  ASSUME NEW data, NEW n \in Nat PROVE Loader!read_u32_le(data, 4 * n) = data[n + 1]
<1>1. (4 * n) \div 4 = n
  OBVIOUS
<1> QED BY <1>1 DEF Loader!read_u32_le

(* What is staged is as long as the metadata and laid out as they are.     *)
LEMMA StagedFacts ==
  ASSUME NEW im, Loader!Layable(im), NEW data, Staged(data, im)
  PROVE /\ Len(im) \in Nat \ {0} /\ Len(Loader!Partitions(im)) \in Nat /\ LIMIT \in Nat
        /\ Loader!DataAt(im)[1] \in Nat /\ 4 * Loader!DataAt(im)[1] < LIMIT
        /\ Loader!DataAt(im)[1] >= 46 + 16 * Len(im) + 16 * Len(Loader!Partitions(im))
        /\ MetadataLaidOut(data, im)
        /\ Loader!size(data) = 4 * Loader!DataAt(im)[1]
<1> DEFINE D1 == Loader!DataAt(im)[1]
           L == Loader!Layout(im)
           ps == Loader!Partitions(im)
<1>1. Len(im) \in Nat \ {0}
  BY LayableFacts, Zenon
<1>2. /\ Len(ps) \in Nat /\ Loader!DataAt(im) \in [1 .. Len(ps) + 1 -> Nat]
      /\ D1 >= 46 + 16 * Len(im) + 16 * Len(ps)
      /\ \A p \in 1 .. Len(ps) + 1 : 4 * Loader!DataAt(im)[p] < LIMIT
  BY DataFacts, Zenon
<1>3. D1 \in Nat /\ 4 * D1 < LIMIT
  <2>1. 1 \in 1 .. Len(ps) + 1
    BY <1>2
  <2> QED BY <2>1, <1>2
<1>4. LIMIT \in Nat
  BY MCSystemAssumption DEF Loader!BootImageAssumption
<1>5. MetadataLaidOut(L, im)
  BY LayoutFacts, Zenon
<1>6. Len(data) = D1 /\ \A i \in 1 .. D1 : data[i] = L[i]
  BY Zenon DEF Staged
<1>7. PICK K \in Nat \ {0}, np \in Nat : K = Len(im) /\ np = Len(ps)
  BY <1>1, <1>2
<1> HIDE DEF D1, L, ps
<1>8. \A i \in 1 .. 46 + 16 * K + 16 * np : data[i] = L[i]
  <2>1. D1 >= 46 + 16 * K + 16 * np
    BY <1>2, <1>7, Zenon
  <2>2. \A i \in 1 .. 46 + 16 * K + 16 * np : i \in 1 .. D1
    BY <2>1, <1>3
  <2> QED BY <2>2, <1>6, Zenon
<1>9. MetadataLaidOut(data, im)
  <2>1. data[10] = L[10] /\ data[13] = L[13] /\ data[39] = L[39] /\ data[44] = L[44]
    BY <1>8
  <2>2. /\ L[10] = 588 /\ L[13] = 4 * D1 /\ L[39] = 160 /\ L[44] = 46
        /\ \A k \in 1 .. K : ImageHeaderIn(L, im, k)
        /\ \A p \in 1 .. np : PartitionHeaderIn(L, im, p)
    BY <1>7, <1>5, Zenon DEF MetadataLaidOut, D1, ps
  <2>3. ASSUME NEW k \in 1 .. K PROVE ImageHeaderIn(data, im, k)
    <3>1. ASSUME NEW j \in 1 .. 16 PROVE data[30 + 16 * k + j] = Loader!ImageHeaderWords(im, k)[j]
      <4>1. 30 + 16 * k + j \in 1 .. 46 + 16 * K + 16 * np
        <5>1. k \in Nat /\ k <= K
          OBVIOUS
        <5> QED BY <5>1
      <4>2. data[30 + 16 * k + j] = L[30 + 16 * k + j]
        BY <4>1, <1>8, Zenon
      <4>3. L[30 + 16 * k + j] = Loader!ImageHeaderWords(im, k)[j]
        <5>1. ImageHeaderIn(L, im, k)
          BY <2>2
        <5> QED BY <5>1, Zenon DEF ImageHeaderIn
      <4> QED BY <4>2, <4>3, Zenon
    <3> QED BY <3>1, Zenon DEF ImageHeaderIn
  <2>4. ASSUME NEW p \in 1 .. np PROVE PartitionHeaderIn(data, im, p)
    <3>1. ASSUME NEW j \in 1 .. 16
          PROVE data[30 + 16 * K + 16 * p + j] = Loader!PartitionHeaderWords(im, p)[j]
      <4>1. 30 + 16 * K + 16 * p + j \in 1 .. 46 + 16 * K + 16 * np
        <5>1. p \in Nat /\ p <= np
          OBVIOUS
        <5> QED BY <5>1
      <4>2. data[30 + 16 * K + 16 * p + j] = L[30 + 16 * K + 16 * p + j]
        BY <4>1, <1>8, Zenon
      <4>3. L[30 + 16 * K + 16 * p + j] = Loader!PartitionHeaderWords(im, p)[j]
        <5>1. PartitionHeaderIn(L, im, p)
          BY <2>2
        <5> QED BY <5>1, <1>7, Zenon DEF PartitionHeaderIn
      <4> QED BY <4>2, <4>3, Zenon
    <3> QED BY <3>1, <1>7, Zenon DEF PartitionHeaderIn
  <2>5. K = Len(im) /\ np = Len(Loader!Partitions(im))
    BY <1>7, Zenon DEF ps
  <2>6. /\ \A k \in 1 .. K : ImageHeaderIn(data, im, k)
        /\ \A p \in 1 .. np : PartitionHeaderIn(data, im, p)
    BY <2>3, <2>4, Zenon
  <2>7. data[10] = 588 /\ data[13] = 4 * Loader!DataAt(im)[1] /\ data[39] = 160 /\ data[44] = 46
    BY <2>1, <2>2 DEF D1
  <2> QED BY <2>5, <2>6, <2>7, Zenon DEF MetadataLaidOut
<1>10. Loader!size(data) = 4 * D1
  BY <1>6 DEF Loader!size
<1> QED BY <1>1, <1>2, <1>3, <1>4, <1>9, <1>10 DEF D1, L, ps

(* The iterator starts at the first image header, or not at all.           *)
LEMMA IteratorStarts ==
  ASSUME NEW im, Loader!Layable(im), NEW data, Staged(data, im)
  PROVE Loader!image_header_iterator(data) \in {Loader!None, ImageHeaderAt(1)}
<1>1. data[39] = 160 /\ data[44] = 46
  BY StagedFacts DEF MetadataLaidOut
<1>2. Loader!image_header_table_offset(data) = 160
  BY <1>1 DEF Loader!image_header_table_offset, Loader!read_u32_le
<1>3. Loader!read_u32_le(data, 160 + 12) = 46
  BY <1>1 DEF Loader!read_u32_le
<1>4. Loader!words_to_offset(46) \in {Loader!None, 184}
  BY DEF Loader!words_to_offset
<1>5. ImageHeaderAt(1) = 184
  BY DEF ImageHeaderAt
<1> QED BY <1>2, <1>3, <1>4, <1>5 DEF Loader!image_header_iterator

(* Every image header of the image is accepted by the parser.              *)
LEMMA HeaderAccepted ==
  ASSUME NEW im, Loader!Layable(im), NEW data, Staged(data, im), NEW k \in 1 .. Len(im)
  PROVE Loader!ImageHeader_new(data, ImageHeaderAt(k)) = ImageHeaderAt(k)
<1>1. PICK K \in Nat \ {0}, np \in Nat : K = Len(im) /\ np = Len(Loader!Partitions(im))
  BY StagedFacts
<1>2. PICK D1 \in Nat : D1 >= 46 + 16 * K + 16 * np /\ Loader!size(data) = 4 * D1
                        /\ Len(data) = D1 /\ MetadataLaidOut(data, im)
  BY <1>1, StagedFacts DEF Staged
<1>3. k \in Nat /\ k >= 1 /\ k <= K
  BY <1>1
<1>4. np >= 1
  <2>1. im[Len(im)].partitions # <<>> /\ im[Len(im)].partitions \in Seq(Part_)
    <3>1. Len(im) \in 1 .. Len(im)
      BY <1>1
    <3> QED BY <3>1, LayableFacts, Zenon
  <2>2. PICK l \in Nat \ {0} : l = Len(im[Len(im)].partitions)
    BY <2>1
  <2>3. /\ K \in 1 .. K + 1
        /\ Loader!FirstPartition(im, K + 1) = Loader!FirstPartition(im, K) + l
        /\ Loader!FirstPartition(im, K + 1) = np + 1
    <3>1. K \in 1 .. K /\ K \in 1 .. K + 1
      OBVIOUS
    <3> QED BY <3>1, <2>2, <1>1, FirstFacts, Zenon
  <2>4. Loader!FirstPartition(im, K) \in Nat \ {0}
    BY <2>3, <1>1, FirstFacts, Zenon
  <2> QED BY <2>3, <2>4
<1>5. data[46 + 16 * k] = Loader!ONES \/ data[46 + 16 * k] = 0
  <2>1. Loader!ImageHeaderWords(im, k)[16] = Loader!ONES \/ Loader!ImageHeaderWords(im, k)[16] = 0
    BY ImageHeaderFacts
  <2>2. 16 \in 1 .. 16 /\ 30 + 16 * k + 16 = 46 + 16 * k
    BY <1>3
  <2>3. ImageHeaderIn(data, im, k)
    BY <1>2, Zenon DEF MetadataLaidOut
  <2>4. data[30 + 16 * k + 16] = Loader!ImageHeaderWords(im, k)[16]
    BY <2>2, <2>3, Zenon DEF ImageHeaderIn
  <2> QED BY <2>1, <2>2, <2>4, Zenon
<1>6. ImageHeaderAt(k) \div 4 = 30 + 16 * k
  <2>1. 120 + 64 * k = 4 * (30 + 16 * k) /\ 30 + 16 * k \in Nat
    BY <1>3
  <2>2. PICK n \in Nat : n = 30 + 16 * k
    BY <2>1
  <2>3. (4 * n) \div 4 = n
    OBVIOUS
  <2> QED BY <2>1, <2>2, <2>3, Zenon DEF ImageHeaderAt
<1>7. Loader!header_ends(data, ImageHeaderAt(k)) # {}
  <2>1. CASE data[46 + 16 * k] = Loader!ONES
    <3>1. 46 + 16 * k \in 30 + 16 * k + 7 .. D1
      BY <1>2, <1>3
    <3>2. 46 + 16 * k \in Loader!header_ends(data, ImageHeaderAt(k))
      BY <2>1, <3>1, <1>2, <1>6 DEF Loader!header_ends
    <3> QED BY <3>2
  <2>2. CASE data[46 + 16 * k] = 0
    <3>1. 47 + 16 * k <= D1
      BY <1>2, <1>3, <1>4
    <3>2. 47 + 16 * k \in 30 + 16 * k + 7 .. D1 /\ (47 + 16 * k) - 1 = 46 + 16 * k
      BY <3>1, <1>3
    <3>3. 47 + 16 * k \in Loader!header_ends(data, ImageHeaderAt(k))
      BY <2>2, <3>2, <1>2, <1>6 DEF Loader!header_ends
    <3> QED BY <3>3
  <2> QED BY <2>1, <2>2, <1>5
<1>8. /\ ~ (ImageHeaderAt(k) > Loader!size(data))
      /\ ~ (ImageHeaderAt(k) + Loader!ImageHeader_MIN_SIZE > Loader!size(data))
  BY <1>2, <1>3 DEF ImageHeaderAt, Loader!ImageHeader_MIN_SIZE
<1> QED BY <1>7, <1>8, Zenon DEF Loader!ImageHeader_new

(* What an image header says of the next one and of its partitions.        *)
THEOREM HeaderRead ==
  ASSUME NEW im, Loader!Layable(im), NEW data, Staged(data, im), NEW k \in 1 .. Len(im)
  PROVE LET h == ImageHeaderAt(k)
        IN /\ Loader!next_image_header_offset(data, h) =
                (IF k = Len(im) THEN 0 ELSE ImageHeaderAt(k + 1))
           /\ Loader!first_partition_header_offset(data, h) \in
                {Loader!None, PartitionAt(im, Loader!FirstPartition(im, k))}
           /\ Loader!partition_count(data, h) = Len(im[k].partitions)
<1> DEFINE h == ImageHeaderAt(k)
           w == Loader!ImageHeaderWords(im, k)
<1>1. PICK K \in Nat \ {0} : K = Len(im)
  BY StagedFacts
<1>2. k \in Nat /\ k \in 1 .. K + 1
  BY <1>1
<1>3. /\ w[1] = (IF k = Len(im) THEN 0 ELSE 46 + 16 * k)
      /\ w[2] = Loader!PartitionHeaderAt(im, Loader!FirstPartition(im, k))
      /\ w[4] = Len(im[k].partitions)
  BY ImageHeaderFacts
<1>4. PICK F \in Nat \ {0} : F = Loader!FirstPartition(im, k)
  BY <1>1, <1>2, FirstFacts, Zenon
<1> HIDE DEF w
<1>5. \A j \in 1 .. 16 : data[30 + 16 * k + j] = w[j]
  <2>1. MetadataLaidOut(data, im)
    BY StagedFacts, Zenon
  <2>2. ImageHeaderIn(data, im, k)
    BY <2>1, Zenon DEF MetadataLaidOut
  <2> QED BY <2>2, Zenon DEF ImageHeaderIn, w
<1>6. \A j \in 0 .. 15 : Loader!read_u32_le(data, h + 4 * j) = w[j + 1]
  <2> TAKE j \in 0 .. 15
  <2>1. h + 4 * j = 4 * (30 + 16 * k + j) /\ 30 + 16 * k + j \in Nat /\ j + 1 \in 1 .. 16
        /\ (30 + 16 * k + j) + 1 = 30 + 16 * k + (j + 1)
    BY <1>2 DEF ImageHeaderAt
  <2>2. Loader!read_u32_le(data, 4 * (30 + 16 * k + j)) = data[(30 + 16 * k + j) + 1]
    BY <2>1, WordAt, Zenon
  <2> QED BY <2>1, <2>2, <1>5, Zenon
<1>7. /\ Loader!read_u32_le(data, h) = w[1] /\ Loader!read_u32_le(data, h + 4) = w[2]
      /\ Loader!read_u32_le(data, h + 12) = w[4]
  <2>1. h = h + 4 * 0 /\ h + 4 = h + 4 * 1 /\ h + 12 = h + 4 * 3
    BY <1>2 DEF ImageHeaderAt
  <2>2. \A j \in {0, 1, 3} : j \in 0 .. 15
    OBVIOUS
  <2>3. /\ Loader!read_u32_le(data, h + 4 * 0) = w[0 + 1]
        /\ Loader!read_u32_le(data, h + 4 * 1) = w[1 + 1]
        /\ Loader!read_u32_le(data, h + 4 * 3) = w[3 + 1]
    BY <2>2, <1>6, Zenon
  <2>4. 0 + 1 = 1 /\ 1 + 1 = 2 /\ 3 + 1 = 4
    OBVIOUS
  <2> HIDE DEF h
  <2> QED BY <2>1, <2>3, <2>4, Zenon
<1>8. Loader!next_image_header_offset(data, h) = (IF k = Len(im) THEN 0 ELSE ImageHeaderAt(k + 1))
  <2>1. PICK D1, N, l \in Nat :
          /\ D1 = Loader!DataAt(im)[1] /\ N = Len(Loader!Partitions(im)) /\ l = LIMIT
          /\ 4 * D1 < l /\ D1 >= 46 + 16 * K + 16 * N
    BY <1>1, StagedFacts
  <2>2. CASE k = K
    <3>1. w[1] = 0
      BY <2>2, <1>1, <1>3
    <3>2. 4 * 0 < LIMIT /\ 4 * 0 = 0
      BY <2>1
    <3>3. Loader!words_to_offset(w[1]) = 0
      BY <3>1, <3>2 DEF Loader!words_to_offset
    <3> QED BY <2>2, <3>3, <1>1, <1>7, Zenon DEF Loader!next_image_header_offset
  <2>3. CASE k # K
    <3>1. w[1] = 46 + 16 * k
      BY <2>3, <1>1, <1>3
    <3>2. k \in 1 .. K /\ k <= K
      BY <1>1, <1>2
    <3>3. 4 * (46 + 16 * k) < l /\ 4 * (46 + 16 * k) = 120 + 64 * (k + 1)
      BY <2>1, <3>2, <1>2
    <3>4. Loader!words_to_offset(w[1]) = ImageHeaderAt(k + 1)
      BY <3>1, <3>3, <2>1 DEF Loader!words_to_offset, ImageHeaderAt
    <3> QED BY <2>3, <3>4, <1>1, <1>7, Zenon DEF Loader!next_image_header_offset
  <2> QED BY <2>2, <2>3
<1>9. Loader!first_partition_header_offset(data, h) \in
        {Loader!None, PartitionAt(im, Loader!FirstPartition(im, k))}
  <2>1. Loader!PartitionHeaderAt(im, F) = 30 + 16 * Len(im) + 16 * F
    BY <1>1, <1>4, Places, Zenon
  <2>2. w[2] = 30 + 16 * K + 16 * F
    BY <2>1, <1>1, <1>3, <1>4, Zenon
  <2>3. Loader!words_to_offset(w[2]) \in {Loader!None, 120 + 64 * K + 64 * F}
    BY <2>2 DEF Loader!words_to_offset
  <2> QED BY <2>3, <1>1, <1>4, <1>7, Zenon DEF Loader!first_partition_header_offset, PartitionAt
<1>10. Loader!partition_count(data, h) = Len(im[k].partitions)
  BY <1>3, <1>7, Zenon DEF Loader!partition_count
<1> QED BY <1>8, <1>9, <1>10, Zenon

(* What a partition header says is what the partition is.                  *)
THEOREM PartitionRead ==
  ASSUME NEW im, Loader!Layable(im), NEW data, Staged(data, im),
         NEW p \in 1 .. Len(Loader!Partitions(im))
  PROVE LET h == PartitionAt(im, p)
            q == Loader!Partitions(im)[p]
        IN /\ Loader!total_partition_length(data, h) = 4 * q.words
           /\ Loader!destination_load_address(data, h) = q.load
           /\ Loader!data_offset(data, h) = 4 * Loader!DataAt(im)[p]
           /\ Loader!destination_device(data, h) = q.dest
<1> DEFINE h == PartitionAt(im, p)
           q == Loader!Partitions(im)[p]
           w == Loader!PartitionHeaderWords(im, p)
           d == Loader!DataAt(im)[p]
<1>1. PICK K \in Nat \ {0}, np \in Nat : K = Len(im) /\ np = Len(Loader!Partitions(im))
  BY StagedFacts
<1>2. p \in Nat
  BY <1>1
<1>3. /\ w[3] = q.words /\ w[4] = q.load /\ w[6] = d /\ w[7] = 16 * q.dest
  BY PartitionHeaderFacts
<1>4. q.dest \in 0 .. 15
  BY DataFacts, Zenon
<1>5. PICK n \in Nat : n = 30 + 16 * K + 16 * p /\ h = 4 * n
  <2>1. 30 + 16 * K + 16 * p \in Nat /\ h = 4 * (30 + 16 * K + 16 * p)
    BY <1>1, <1>2 DEF PartitionAt
  <2> QED BY <2>1
<1>6. \A j \in 1 .. 16 : data[n + j] = w[j]
  <2>1. MetadataLaidOut(data, im)
    BY StagedFacts, Zenon
  <2>2. PartitionHeaderIn(data, im, p)
    BY <2>1, Zenon DEF MetadataLaidOut
  <2> QED BY <2>2, <1>1, <1>5, Zenon DEF PartitionHeaderIn, w
<1> HIDE DEF w, h, q, d
<1>7. \A j \in 0 .. 15 : Loader!read_u32_le(data, h + 4 * j) = w[j + 1]
  <2> TAKE j \in 0 .. 15
  <2>1. h + 4 * j = 4 * (n + j) /\ n + j \in Nat /\ j + 1 \in 1 .. 16 /\ (n + j) + 1 = n + (j + 1)
    <3>1. j \in Nat /\ j + 1 \in 1 .. 16
      OBVIOUS
    <3>2. \A x, y \in Nat : 4 * x + 4 * y = 4 * (x + y) /\ x + y \in Nat /\ (x + y) + 1 = x + (y + 1)
      OBVIOUS
    <3> QED BY <3>1, <3>2, <1>5, Zenon
  <2>2. Loader!read_u32_le(data, 4 * (n + j)) = data[(n + j) + 1]
    BY <2>1, WordAt, Zenon
  <2> QED BY <2>1, <2>2, <1>6, Zenon
<1>8. /\ Loader!read_u32_le(data, h + 8) = q.words /\ Loader!read_u32_le(data, h + 12) = q.load
      /\ Loader!read_u32_le(data, h + 20) = d /\ Loader!read_u32_le(data, h + 24) = 16 * q.dest
  <2>1. \A j \in {2, 3, 5, 6} : j \in 0 .. 15
    OBVIOUS
  <2>2. /\ Loader!read_u32_le(data, h + 4 * 2) = w[2 + 1]
        /\ Loader!read_u32_le(data, h + 4 * 3) = w[3 + 1]
        /\ Loader!read_u32_le(data, h + 4 * 5) = w[5 + 1]
        /\ Loader!read_u32_le(data, h + 4 * 6) = w[6 + 1]
    BY <2>1, <1>7, Zenon
  <2>3. /\ 2 + 1 = 3 /\ 3 + 1 = 4 /\ 5 + 1 = 6 /\ 6 + 1 = 7
        /\ 4 * 2 = 8 /\ 4 * 3 = 12 /\ 4 * 5 = 20 /\ 4 * 6 = 24
    OBVIOUS
  <2> QED BY <2>2, <2>3, <1>3
<1>9. 4 * q.words < LIMIT /\ 4 * d < LIMIT
  <2>1. /\ q.words \in Nat /\ Loader!DataAt(im)[p + 1] >= d + q.words
        /\ Loader!DataAt(im) \in [1 .. np + 1 -> Nat]
        /\ \A i \in 1 .. np + 1 : 4 * Loader!DataAt(im)[i] < LIMIT
    BY <1>1, DataFacts, Zenon DEF q, d
  <2>2. p \in 1 .. np + 1 /\ p + 1 \in 1 .. np + 1
    BY <1>1
  <2>3. PICK x, y, l \in Nat : x = Loader!DataAt(im)[p + 1] /\ y = d /\ l = LIMIT
    BY <2>1, <2>2, StagedFacts DEF d
  <2>4. PICK v \in Nat : v = q.words
    BY <2>1
  <2>5. x >= y + v /\ 4 * x < l
    BY <2>1, <2>2, <2>3, <2>4, Zenon
  <2>6. 4 * v < l /\ 4 * y < l
    BY <2>5
  <2> QED BY <2>3, <2>4, <2>6, Zenon
<1>10. Loader!total_partition_length(data, h) = 4 * q.words
  BY <1>8, <1>9 DEF Loader!total_partition_length, Loader!words_to_offset
<1>11. Loader!destination_load_address(data, h) = q.load
  BY <1>8 DEF Loader!destination_load_address
<1>12. Loader!data_offset(data, h) = 4 * d
  BY <1>8, <1>9 DEF Loader!data_offset, Loader!words_to_offset
<1>13. Loader!destination_device(data, h) = q.dest
  <2>1. \A e \in 0 .. 15 : ((16 * e) \div 16) % 16 = e
    <3> TAKE e \in 0 .. 15
    <3>1. (16 * e) \div 16 = e
      OBVIOUS
    <3>2. e % 16 = e
      OBVIOUS
    <3> QED BY <3>1, <3>2, Zenon
  <2>2. ((16 * q.dest) \div 16) % 16 = q.dest
    BY <2>1, <1>4 DEF q
  <2> QED BY <2>2, <1>8 DEF Loader!destination_device
<1> QED BY <1>10, <1>11, <1>12, <1>13, Zenon DEF h, q, d

(* The headers of the partitions of an image are all there.                *)
LEMMA PartitionsCounted ==
  ASSUME NEW im, Loader!Layable(im), NEW k \in 1 .. Len(im),
         NEW i \in 0 .. Len(im[k].partitions) - 1
  PROVE Loader!FirstPartition(im, k) + i \in 1 .. Len(Loader!Partitions(im))
<1>1. PICK K \in Nat \ {0} : K = Len(im)
  BY LayableFacts, Zenon
<1>2. PICK np \in Nat : np = Len(Loader!Partitions(im))
  BY DataFacts, Zenon
<1>3. k \in 1 .. Len(im) + 1 /\ k + 1 \in 1 .. Len(im) + 1 /\ Len(im) + 1 \in 1 .. Len(im) + 1
      /\ k + 1 <= Len(im) + 1
  BY <1>1
<1>4. PICK F, nx, E \in Nat \ {0} :
        /\ F = Loader!FirstPartition(im, k) /\ nx = Loader!FirstPartition(im, k + 1)
        /\ E = Loader!FirstPartition(im, Len(im) + 1) /\ nx <= E /\ E = np + 1
        /\ nx = F + Len(im[k].partitions)
  <2>1. /\ Loader!FirstPartition(im, k) \in Nat \ {0}
        /\ Loader!FirstPartition(im, k + 1) \in Nat \ {0}
        /\ Loader!FirstPartition(im, Len(im) + 1) \in Nat \ {0}
        /\ Loader!FirstPartition(im, k + 1) <= Loader!FirstPartition(im, Len(im) + 1)
        /\ Loader!FirstPartition(im, Len(im) + 1) = Len(Loader!Partitions(im)) + 1
        /\ Loader!FirstPartition(im, k + 1) =
             Loader!FirstPartition(im, k) + Len(im[k].partitions)
    BY <1>3, FirstFacts, Zenon
  <2> QED BY <2>1, <1>2, Zenon
<1>5. PICK l \in Nat : l = Len(im[k].partitions)
  <2>1. im[k].partitions \in Seq(Part_)
    BY LayableFacts, Zenon
  <2> QED BY <2>1, LenProperties
<1>6. nx = F + l /\ i \in 0 .. l - 1
  BY <1>4, <1>5
<1>7. F + i \in 1 .. np
  BY <1>4, <1>6
<1> QED BY <1>2, <1>4, <1>7, Zenon

(* The header of the image says where the metadata end.                    *)
LEMMA SourceOffset ==
  ASSUME NEW im, Loader!Layable(im), NEW data,
         \A i \in 1 .. 40 : data[i] = Loader!Layout(im)[i]
  PROVE Loader!source_offset(data) = 4 * Loader!DataAt(im)[1]
<1>1. MetadataLaidOut(Loader!Layout(im), im)
  BY LayoutFacts, Zenon
<1>2. Loader!Layout(im)[13] = 4 * Loader!DataAt(im)[1]
  BY <1>1, Zenon DEF MetadataLaidOut
<1>3. data[13] = Loader!Layout(im)[13]
  OBVIOUS
<1> QED BY <1>2, <1>3 DEF Loader!source_offset, Loader!read_u32_le

(* A header of nothing but garbage is not taken for one.                   *)
LEMMA GarbageRefused ==
  ASSUME NEW data, \A i \in 1 .. 40 : data[i] = Loader!GARBAGE
  PROVE ~ Loader!BootHeader_valid(data)
<1>1. data[10] = 1
  BY DEF Loader!GARBAGE
<1>2. Loader!image_id(data) = 1
  BY <1>1 DEF Loader!image_id, Loader!read_u32_le
<1> QED BY <1>2 DEF Loader!BootHeader_valid, Loader!IMAGE_ID_U32

(* What is in DDR of the partitions before one, and where the loader is to *)
(* jump to.  Words of DDR are counted from one.                            *)
LoadedOf(im, e) ==
  {p \in DOMAIN Loader!Partitions(im) :
     /\ p > Len(im[1].partitions) /\ Loader!Partitions(im)[p].dest = e
     /\ e = 2 => Loader!Partitions(im)[p].words > 0}
Base(im, p) == (Loader!Partitions(im)[p].load - ELF_BASE_ADDR) \div 4
ExtentOf(im, p) == Base(im, p) + 1 .. Base(im, p) + Loader!Partitions(im)[p].words
MetadataWords(im) == Loader!STAGING + 1 .. Loader!STAGING + Loader!DataAt(im)[1]

LoadableOf(im) ==
  /\ LoadedOf(im, 1) # {}
  /\ \A p \in LoadedOf(im, 1) :
        p < Len(Loader!Partitions(im)) => ExtentOf(im, p) \cap MetadataWords(im) = {}
  /\ \A p, q \in LoadedOf(im, 1) : p # q => ExtentOf(im, p) \cap ExtentOf(im, q) = {}

IsDdr(d) == d = [i \in 1 .. DDR_WORDS |-> d[i]]
MetadataHeld(im, d) ==
  \A i \in 1 .. Loader!DataAt(im)[1] : d[Loader!STAGING + i] = Loader!Layout(im)[i]
PartitionHeld(im, d, p) ==
  /\ ExtentOf(im, p) \subseteq 1 .. DDR_WORDS
  /\ \A i \in ExtentOf(im, p) : d[i] = Loader!Content(p, i - Base(im, p))
LoadedBefore(im, e, n) == {p \in LoadedOf(im, e) : p < n}
LowestOf(im, n, j) ==
  IF LoadedBefore(im, 1, n) = {} THEN j = Loader!None
  ELSE /\ \E p \in LoadedBefore(im, 1, n) : j = Loader!Partitions(im)[p].load
       /\ \A p \in LoadedBefore(im, 1, n) : j <= Loader!Partitions(im)[p].load
DdrUpTo(im, n, d, j) ==
  /\ n <= Len(Loader!Partitions(im)) => MetadataHeld(im, d)
  /\ \A p \in LoadedBefore(im, 1, n) : PartitionHeld(im, d, p)
  /\ LowestOf(im, n, j)
PlUpTo(im, n, h) ==
  \A p \in LoadedBefore(im, 2, n) :
     (\A q \in LoadedBefore(im, 2, n) : q <= p) => h = 4 * Loader!DataAt(im)[p]

CopiedTo(d, words, to) ==
  [i \in DOMAIN d |-> IF i - to \in DOMAIN words THEN words[i - to] ELSE d[i]]

(* The images that are assumed to be in the flash fit into DDR.            *)
LEMMA BootImagesFit ==
  ASSUME NEW im \in BootImages
  PROVE /\ Loader!Layable(im)
        /\ Loader!STAGING + Loader!DataAt(im)[1] <= DDR_WORDS
        /\ \A p \in LoadedOf(im, 1) : Base(im, p) + Loader!Partitions(im)[p].words <= DDR_WORDS
<1>1. /\ Loader!Layable(im)
      /\ 4 * Loader!DataAt(im)[1] + BOOT_BIN_STAGING_OFFSET <= 4 * DDR_WORDS
      /\ \A p \in DOMAIN Loader!Partitions(im) :
            /\ p > Len(im[1].partitions)
            /\ Loader!Partitions(im)[p].dest = 1
            => (Loader!Partitions(im)[p].load - ELF_BASE_ADDR) \div 4
               + Loader!Partitions(im)[p].words <= DDR_WORDS
  BY MCSystemAssumption, Zenon DEF Loader!BootAssumption
<1>2. Loader!STAGING + Loader!DataAt(im)[1] <= DDR_WORDS
  <2>1. BOOT_BIN_STAGING_OFFSET \in Nat /\ DDR_WORDS \in Nat
    BY MCSystemAssumption DEF Loader!BootAssumption
  <2>2. PICK d \in Nat : d = Loader!DataAt(im)[1]
    <3>1. Len(Loader!Partitions(im)) \in Nat
          /\ Loader!DataAt(im) \in [1 .. Len(Loader!Partitions(im)) + 1 -> Nat]
      BY <1>1, DataFacts, Zenon
    <3>2. 1 \in 1 .. Len(Loader!Partitions(im)) + 1
      BY <3>1
    <3> QED BY <3>1, <3>2
  <2> QED BY <1>1, <2>1, <2>2 DEF Loader!STAGING
<1>3. ASSUME NEW p \in LoadedOf(im, 1)
      PROVE Base(im, p) + Loader!Partitions(im)[p].words <= DDR_WORDS
  <2>1. p \in DOMAIN Loader!Partitions(im) /\ p > Len(im[1].partitions)
        /\ Loader!Partitions(im)[p].dest = 1
    BY DEF LoadedOf
  <2> QED BY <1>1, <2>1, Zenon DEF Base
<1> QED BY <1>1, <1>2, <1>3

(* What is known of a partition that is loaded.                            *)
LEMMA LoadedFacts ==
  ASSUME NEW im, Loader!Layable(im), NEW e, NEW p \in LoadedOf(im, e)
  PROVE /\ p \in 1 .. Len(Loader!Partitions(im)) /\ Len(Loader!Partitions(im)) \in Nat
        /\ p \in Nat
        /\ Loader!Partitions(im)[p].load \in Nat /\ Loader!Partitions(im)[p].words \in Nat
        /\ Base(im, p) \in Int
<1>1. Len(Loader!Partitions(im)) \in Nat /\ Loader!Partitions(im) \in Seq(Part_)
  BY DataFacts, Zenon
<1>2. p \in DOMAIN Loader!Partitions(im)
  BY DEF LoadedOf
<1>3. p \in 1 .. Len(Loader!Partitions(im)) /\ p \in Nat
  BY <1>1, <1>2
<1>4. Loader!Partitions(im)[p].load \in Nat /\ Loader!Partitions(im)[p].words \in Nat
  BY <1>3, DataFacts, Zenon
<1>5. PICK l \in Nat : l = Loader!Partitions(im)[p].load
  BY <1>4
<1>6. (l - ELF_BASE_ADDR) \div 4 \in Int
  BY MCSystemAssumption DEF Loader!BootAssumption
<1> QED BY <1>1, <1>3, <1>4, <1>5, <1>6 DEF Base

(* A copy changes the words it goes to and no others.                      *)
LEMMA CopiedFacts ==
  ASSUME NEW d, IsDdr(d), NEW words, NEW to
  PROVE /\ IsDdr(CopiedTo(d, words, to))
        /\ \A i \in 1 .. DDR_WORDS :
              CopiedTo(d, words, to)[i] = IF i - to \in DOMAIN words THEN words[i - to] ELSE d[i]
<1>1. DOMAIN d = 1 .. DDR_WORDS
  BY DEF IsDdr
<1>2. CopiedTo(d, words, to) =
        [i \in 1 .. DDR_WORDS |-> IF i - to \in DOMAIN words THEN words[i - to] ELSE d[i]]
  BY <1>1 DEF CopiedTo
<1>3. \A i \in 1 .. DDR_WORDS :
         CopiedTo(d, words, to)[i] = IF i - to \in DOMAIN words THEN words[i - to] ELSE d[i]
  BY <1>2
<1>4. CopiedTo(d, words, to) = [i \in 1 .. DDR_WORDS |-> CopiedTo(d, words, to)[i]]
  BY <1>2
<1> QED BY <1>3, <1>4 DEF IsDdr

(* The partition n is not loaded by the processor.                         *)
LEMMA NotLoaded ==
  ASSUME NEW im, Loader!Layable(im), NEW n \in Nat, NEW d, NEW j,
         n \notin LoadedOf(im, 1), DdrUpTo(im, n, d, j)
  PROVE DdrUpTo(im, n + 1, d, j)
<1>1. LoadedBefore(im, 1, n + 1) = LoadedBefore(im, 1, n)
  <2>1. \A p \in LoadedOf(im, 1) : p \in Nat /\ p # n
    BY LoadedFacts
  <2> QED BY <2>1 DEF LoadedBefore
<1>2. n + 1 <= Len(Loader!Partitions(im)) => n <= Len(Loader!Partitions(im))
  BY DataFacts
<1>3. LowestOf(im, n + 1, j) = LowestOf(im, n, j)
  BY <1>1, Zenon DEF LowestOf
<1> QED BY <1>1, <1>2, <1>3, Zenon DEF DdrUpTo

(* The partition n is not loaded to the PL.                                *)
LEMMA NotForPl ==
  ASSUME NEW im, Loader!Layable(im), NEW n \in Nat, NEW h,
         n \notin LoadedOf(im, 2), PlUpTo(im, n, h)
  PROVE PlUpTo(im, n + 1, h)
<1>1. LoadedBefore(im, 2, n + 1) = LoadedBefore(im, 2, n)
  <2>1. \A p \in LoadedOf(im, 2) : p \in Nat /\ p # n
    BY LoadedFacts
  <2> QED BY <2>1 DEF LoadedBefore
<1> QED BY <1>1, Zenon DEF PlUpTo

(* The partition n is loaded to the PL, and is the last there so far.      *)
LEMMA PlLoaded ==
  ASSUME NEW im, Loader!Layable(im), NEW n \in LoadedOf(im, 2)
  PROVE PlUpTo(im, n + 1, 4 * Loader!DataAt(im)[n])
<1>1. n \in Nat /\ \A p \in LoadedOf(im, 2) : p \in Nat
  BY LoadedFacts
<1>2. n \in LoadedBefore(im, 2, n + 1) /\ \A p \in LoadedBefore(im, 2, n + 1) : p \in Nat /\ p <= n
  BY <1>1 DEF LoadedBefore
<1>3. ASSUME NEW p \in LoadedBefore(im, 2, n + 1), \A q \in LoadedBefore(im, 2, n + 1) : q <= p
      PROVE p = n
  BY <1>1, <1>2, <1>3
<1> QED BY <1>3, Zenon DEF PlUpTo

(* Nothing is loaded of the first image.                                   *)
LEMMA FirstImageSkipped ==
  ASSUME NEW im, Loader!Layable(im), NEW d, NEW j, DdrUpTo(im, 1, d, j)
  PROVE /\ DdrUpTo(im, Loader!FirstPartition(im, 2), d, j)
        /\ \A h : PlUpTo(im, Loader!FirstPartition(im, 2), h)
<1>1. PICK f, s \in Nat : /\ f = Loader!FirstPartition(im, 2) /\ s = Len(im[1].partitions)
                          /\ f = s + 1
  <2>1. Len(im) \in Nat \ {0}
    BY LayableFacts, Zenon
  <2>2. 1 \in 1 .. Len(im) /\ 1 + 1 = 2
    BY <2>1
  <2>3. /\ Loader!FirstPartition(im, 1 + 1) = Loader!FirstPartition(im, 1) + Len(im[1].partitions)
        /\ Loader!FirstPartition(im, 1) = 1 /\ im[1].partitions \in Seq(Part_)
    BY <2>2, FirstFacts, LayableFacts, Zenon
  <2>4. PICK s \in Nat : s = Len(im[1].partitions)
    BY <2>3, LenProperties
  <2>5. Loader!FirstPartition(im, 2) = 1 + s
    BY <2>2, <2>3, <2>4, Zenon
  <2> QED BY <2>4, <2>5
<1>2. \A e : LoadedBefore(im, e, f) = {} /\ LoadedBefore(im, e, 1) = {}
  <2>1. \A e : \A p \in LoadedOf(im, e) : p \in Nat /\ p > s
    <3>1. \A e : \A p \in LoadedOf(im, e) : p \in Nat
      BY LoadedFacts
    <3> QED BY <3>1, <1>1 DEF LoadedOf
  <2> QED BY <2>1, <1>1 DEF LoadedBefore
<1>3. f <= Len(Loader!Partitions(im)) => MetadataHeld(im, d)
  <2>1. 1 <= f
    BY <1>1
  <2> QED BY <1>1, <2>1, DataFacts DEF DdrUpTo
<1>4. j = Loader!None
  BY <1>2, Zenon DEF DdrUpTo, LowestOf
<1> QED BY <1>1, <1>2, <1>3, <1>4, Zenon DEF DdrUpTo, PlUpTo, LowestOf

(* The partition n is copied, and the jump goes there if it is the lowest. *)
LEMMA PsLoaded ==
  ASSUME NEW im \in BootImages, LoadableOf(im), NEW n \in LoadedOf(im, 1), NEW d, IsDdr(d), NEW j,
         Loader!Partitions(im)[n].load >= ELF_BASE_ADDR, DdrUpTo(im, n, d, j),
         NEW words, DOMAIN words = 1 .. Loader!Partitions(im)[n].words,
         \A i \in 1 .. Loader!Partitions(im)[n].words : words[i] = Loader!Content(n, i)
  PROVE LET new == CopiedTo(d, words, Base(im, n))
            lowest == IF j = Loader!None \/ Loader!Partitions(im)[n].load < j
                      THEN Loader!Partitions(im)[n].load ELSE j
        IN DdrUpTo(im, n + 1, new, lowest)
<1> DEFINE N == Len(Loader!Partitions(im))
           new == CopiedTo(d, words, Base(im, n))
           load == Loader!Partitions(im)[n].load
           w == Loader!Partitions(im)[n].words
           lowest == IF j = Loader!None \/ load < j THEN load ELSE j
<1>1. Loader!Layable(im)
  BY BootImagesFit
<1>2. /\ n \in 1 .. N /\ N \in Nat /\ n \in Nat /\ load \in Nat /\ w \in Nat /\ Base(im, n) \in Int
      /\ Base(im, n) + w <= DDR_WORDS
  BY <1>1, LoadedFacts, BootImagesFit, Zenon
<1>3. Base(im, n) >= 0
  BY <1>2, MCSystemAssumption DEF Base, Loader!BootAssumption
<1>4. \A p \in LoadedOf(im, 1) : p \in Nat /\ Loader!Partitions(im)[p].load \in Nat
  BY <1>1, LoadedFacts
<1>5. LoadedBefore(im, 1, n + 1) = LoadedBefore(im, 1, n) \cup {n}
  BY <1>2, <1>4 DEF LoadedBefore
<1>6. /\ \A i \in 1 .. DDR_WORDS : i \in ExtentOf(im, n)
                                     => new[i] = Loader!Content(n, i - Base(im, n))
      /\ \A i \in 1 .. DDR_WORDS : i \notin ExtentOf(im, n) => new[i] = d[i]
  <2>1. \A i \in 1 .. DDR_WORDS :
           new[i] = IF i - Base(im, n) \in DOMAIN words THEN words[i - Base(im, n)] ELSE d[i]
    BY CopiedFacts, Zenon
  <2>2. DDR_WORDS \in Nat
    BY MCSystemAssumption DEF Loader!BootAssumption
  <2>3. PICK b \in Int, v \in Nat : b = Base(im, n) /\ v = w
    BY <1>2
  <2>4. \A i \in 1 .. DDR_WORDS : i \in ExtentOf(im, n) <=> i - b \in 1 .. v
    BY <2>2, <2>3 DEF ExtentOf
  <2>5. \A i \in 1 .. DDR_WORDS : new[i] = IF i - b \in 1 .. v THEN words[i - b] ELSE d[i]
    BY <2>1, <2>3, Zenon
  <2> HIDE DEF new
  <2>6. \A i \in 1 .. v : words[i] = Loader!Content(n, i)
    BY <2>3
  <2> QED BY <2>3, <2>4, <2>5, <2>6, Zenon
<1> HIDE DEF new
<1>7. PartitionHeld(im, new, n)
  <2>1. ExtentOf(im, n) \subseteq 1 .. DDR_WORDS
    <3>1. PICK b \in Nat, v \in Nat : b = Base(im, n) /\ v = w /\ b + v <= DDR_WORDS
      BY <1>2, <1>3
    <3>2. DDR_WORDS \in Nat
      BY MCSystemAssumption DEF Loader!BootAssumption
    <3>3. \A i \in b + 1 .. b + v : i \in 1 .. DDR_WORDS
      BY <3>1, <3>2
    <3>4. ExtentOf(im, n) = b + 1 .. b + v
      BY <3>1 DEF ExtentOf
    <3> QED BY <3>3, <3>4
  <2>2. \A i \in ExtentOf(im, n) : new[i] = Loader!Content(n, i - Base(im, n))
    BY <2>1, <1>6
  <2> QED BY <2>1, <2>2 DEF PartitionHeld
<1>8. ASSUME NEW p \in LoadedBefore(im, 1, n) PROVE PartitionHeld(im, new, p)
  <2>1. PartitionHeld(im, d, p) /\ p \in LoadedOf(im, 1) /\ p # n
    BY <1>2 DEF DdrUpTo, LoadedBefore
  <2>2. ExtentOf(im, p) \cap ExtentOf(im, n) = {}
    BY <2>1, Zenon DEF LoadableOf
  <2>3. \A i \in ExtentOf(im, p) : new[i] = d[i]
    BY <2>1, <2>2, <1>6 DEF PartitionHeld
  <2> QED BY <2>1, <2>3, Zenon DEF PartitionHeld
<1>9. ASSUME n + 1 <= N PROVE MetadataHeld(im, new)
  <2>1. n <= N /\ n < N
    BY <1>2, <1>9
  <2>2. MetadataHeld(im, d)
    BY <2>1 DEF DdrUpTo
  <2>3. ExtentOf(im, n) \cap MetadataWords(im) = {}
    BY <2>1, Zenon DEF LoadableOf
  <2>4. ASSUME NEW i \in 1 .. Loader!DataAt(im)[1]
        PROVE Loader!STAGING + i \in MetadataWords(im) /\ Loader!STAGING + i \in 1 .. DDR_WORDS
    <3>1. PICK s, a \in Nat : s = Loader!STAGING /\ a = Loader!DataAt(im)[1] /\ s + a <= DDR_WORDS
      <4>1. Loader!STAGING \in Nat
        BY MCSystemAssumption DEF Loader!BootAssumption, Loader!STAGING
      <4>2. Loader!DataAt(im)[1] \in Nat
        <5>1. Loader!DataAt(im) \in [1 .. N + 1 -> Nat]
          BY <1>1, DataFacts, Zenon
        <5>2. 1 \in 1 .. N + 1
          BY <1>2
        <5> QED BY <5>1, <5>2
      <4> QED BY <4>1, <4>2, BootImagesFit
    <3>2. DDR_WORDS \in Nat
      BY MCSystemAssumption DEF Loader!BootAssumption
    <3>3. s + i \in s + 1 .. s + a /\ s + i \in 1 .. DDR_WORDS
      BY <3>1, <3>2
    <3> QED BY <3>1, <3>3, Zenon DEF MetadataWords
  <2>5. \A i \in 1 .. Loader!DataAt(im)[1] : new[Loader!STAGING + i] = d[Loader!STAGING + i]
    BY <2>3, <2>4, <1>6
  <2> QED BY <2>2, <2>5, Zenon DEF MetadataHeld
<1>10. LowestOf(im, n + 1, lowest)
  <2>1. n \in LoadedBefore(im, 1, n + 1)
    BY <1>5
  <2>2. CASE LoadedBefore(im, 1, n) = {}
    <3>1. j = Loader!None
      BY <2>2, Zenon DEF DdrUpTo, LowestOf
    <3>2. lowest = load /\ LoadedBefore(im, 1, n + 1) = {n}
      BY <2>2, <3>1, <1>5
    <3>3. load <= load
      BY <1>2
    <3> HIDE DEF lowest
    <3>4. /\ LoadedBefore(im, 1, n + 1) # {} /\ \E p \in LoadedBefore(im, 1, n + 1) : lowest = load
          /\ \A p \in LoadedBefore(im, 1, n + 1) : p = n
      BY <3>2
    <3> QED BY <3>2, <3>3, <3>4, Zenon DEF LowestOf
  <2>3. CASE LoadedBefore(im, 1, n) # {}
    <3>1. /\ \E p \in LoadedBefore(im, 1, n) : j = Loader!Partitions(im)[p].load
          /\ \A p \in LoadedBefore(im, 1, n) : j <= Loader!Partitions(im)[p].load
      BY <2>3, Zenon DEF DdrUpTo, LowestOf
    <3>2. PICK q \in LoadedBefore(im, 1, n) : j = Loader!Partitions(im)[q].load
      BY <3>1
    <3>3. \A p \in LoadedBefore(im, 1, n) : Loader!Partitions(im)[p].load \in Nat
      BY <1>4 DEF LoadedBefore
    <3>4. j \in Nat /\ j # Loader!None
      <4>1. j \in Nat
        BY <3>2, <3>3
      <4> QED BY <4>1 DEF Loader!None
    <3>5. lowest \in Nat /\ lowest <= load /\ lowest <= j /\ lowest \in {load, j}
      BY <3>4, <1>2
    <3> HIDE DEF lowest
    <3>6. \A p \in LoadedBefore(im, 1, n + 1) : lowest <= Loader!Partitions(im)[p].load
      <4>1. ASSUME NEW p \in LoadedBefore(im, 1, n) PROVE lowest <= Loader!Partitions(im)[p].load
        <5>1. PICK l \in Nat : l = Loader!Partitions(im)[p].load /\ j <= l
          BY <3>1, <3>3
        <5>2. lowest <= l
          BY <3>4, <3>5, <5>1
        <5> QED BY <5>1, <5>2
      <4> QED BY <4>1, <3>5, <1>5
    <3>7. \E p \in LoadedBefore(im, 1, n + 1) : lowest = Loader!Partitions(im)[p].load
      BY <3>2, <3>5, <1>5
    <3> QED BY <2>1, <3>6, <3>7, Zenon DEF LowestOf
  <2> QED BY <2>2, <2>3
<1>11. \A p \in LoadedBefore(im, 1, n + 1) : PartitionHeld(im, new, p)
  BY <1>5, <1>7, <1>8
<1>12. DdrUpTo(im, n + 1, new, lowest)
  BY <1>9, <1>10, <1>11, Zenon DEF DdrUpTo
<1> QED BY <1>12, Zenon DEF new

(* The inductive invariant of the loader.                                  *)

BootTypeOK ==
  /\ images \in BootImages /\ qspi_flash = Loader!Layout(images)
  /\ IsDdr(ddr) /\ unclean \subseteq {"L1", "L2"}
  /\ pl = [dma |-> pl.dma, reset |-> pl.reset, holds |-> pl.holds]
  /\ boot_step # "pl_wait" => pl.dma = "idle"

(* A header that is copied is that of the image, or nothing but garbage.   *)
HeaderHeld(im, d) == \A i \in 1 .. 40 : d[Loader!STAGING + i] = Loader!Layout(im)[i]
HeaderOrGarbage(im, busy, d) ==
  \/ \A i \in 1 .. 40 : d[Loader!STAGING + i] = Loader!GARBAGE
  \/ ~ busy /\ HeaderHeld(im, d)

HeaderInv ==
  boot_step \in {"header", "copy_header", "check_header"} =>
    /\ header_len = 160 /\ jump_addr = Loader!None /\ index = 0
    /\ boot_step = "copy_header" => guard
    /\ boot_step = "check_header" => HeaderOrGarbage(images, registers, ddr)

MetadataInv ==
  boot_step \in {"metadata", "copy_metadata"} =>
    /\ ~ registers /\ header_len = 4 * Loader!DataAt(images)[1]
    /\ jump_addr = Loader!None /\ index = 0
    /\ boot_step = "copy_metadata" => guard
    /\ HeaderHeld(images, ddr)

(* From then on the flash answers and the length is that of the metadata.  *)
ParserInv ==
  boot_step \in {"images", "next_image", "image", "partitions", "next_partition", "ps", "pl",
                 "pl_wait"} =>
    ~ registers /\ header_len = 4 * Loader!DataAt(images)[1]

ImagesInv ==
  boot_step = "images" =>
    index = 0 /\ jump_addr = Loader!None /\ ~ guard /\ MetadataHeld(images, ddr)

NextHeader(im, k) == IF k = Len(im) THEN 0 ELSE ImageHeaderAt(k + 1)
UpTo(im, n, d, j, h) == DdrUpTo(im, n, d, j) /\ PlUpTo(im, n, h)

NextImageInv ==
  boot_step = "next_image" =>
    /\ index \in 0 .. Len(images) /\ next_header = NextHeader(images, index) /\ ~ guard
    /\ UpTo(images, Loader!FirstPartition(images, index + 1), ddr, jump_addr, pl.holds)

ImageInv ==
  boot_step \in {"image", "partitions"} =>
    /\ index \in 2 .. Len(images) /\ next_header = NextHeader(images, index)
    /\ header = ImageHeaderAt(index)
    /\ boot_step = "partitions" => guard
    /\ UpTo(images, Loader!FirstPartition(images, index), ddr, jump_addr, pl.holds)

(* The partition after those the iterator has returned.                    *)
Following == Loader!FirstPartition(images, index) + partition_index

PartitionsInv ==
  boot_step \in {"next_partition", "ps", "pl", "pl_wait"} =>
    /\ index \in 2 .. Len(images) /\ next_header = NextHeader(images, index) /\ guard
    /\ count = Len(images[index].partitions) /\ partition_index \in 0 .. count
    /\ partition = PartitionAt(images, Following)
    /\ boot_step = "next_partition" => UpTo(images, Following, ddr, jump_addr, pl.holds)

(* A partition is loaded.                                                  *)
LoadingInv ==
  boot_step \in {"ps", "pl", "pl_wait"} =>
    /\ partition_index # 0
    /\ Loader!Partitions(images)[Following - 1].dest = (IF boot_step = "ps" THEN 1 ELSE 2)
    /\ DdrUpTo(images, Following - 1, ddr, jump_addr)
    /\ boot_step # "pl_wait" => PlUpTo(images, Following - 1, pl.holds)
    /\ boot_step = "pl_wait" =>
         /\ Loader!Partitions(images)[Following - 1].words > 0
         /\ pl.dma = "done" => pl.holds = 4 * Loader!DataAt(images)[Following - 1]

StartInv ==
  boot_step \in {"deassert_reset", "clean_l1", "clean_l2", "jump"} =>
    /\ ~ guard
    /\ boot_step # "deassert_reset" => ~ pl.reset
    /\ UpTo(images, Len(Loader!Partitions(images)) + 1, ddr, jump_addr, pl.holds)
    /\ boot_step = "clean_l2" => "L1" \notin unclean
    /\ boot_step = "jump" => unclean = {}

LoadInv ==
  /\ HeaderInv /\ MetadataInv /\ ParserInv /\ ImagesInv /\ NextImageInv /\ ImageInv
  /\ PartitionsInv /\ LoadingInv /\ StartInv

BootInv == BootTypeOK /\ (LoadableOf(images) => LoadInv)

(* What the loader sees of DDR and of the flash.                           *)
LEMMA SliceFacts ==
  ASSUME NEW d, IsDdr(d), NEW n \in Nat, Loader!STAGING + n <= DDR_WORDS
  PROVE LET s == SubSeq(d, Loader!STAGING + 1, Loader!STAGING + n)
        IN Len(s) = n /\ \A i \in 1 .. n : s[i] = d[Loader!STAGING + i]
<1> DEFINE S == {d[i] : i \in 1 .. DDR_WORDS}
<1>1. DDR_WORDS \in Nat /\ Loader!STAGING \in Nat
  BY MCSystemAssumption DEF Loader!BootAssumption, Loader!STAGING
<1>2. d \in [1 .. DDR_WORDS -> S]
  BY DEF IsDdr
<1> HIDE DEF S
<1>3. d \in Seq(S) /\ Len(d) = DDR_WORDS
  BY <1>1, <1>2, OfLength, Zenon
<1>4. PICK a \in Nat : a = Loader!STAGING
  BY <1>1
<1>5. a + 1 \in 1 .. Len(d) + 1 /\ a + n \in (a + 1) - 1 .. Len(d)
  BY <1>1, <1>3, <1>4
<1>6. /\ Len(SubSeq(d, a + 1, a + n)) = (a + n) - (a + 1) + 1
      /\ \A i \in 1 .. (a + n) - (a + 1) + 1 : SubSeq(d, a + 1, a + n)[i] = d[(a + 1) + i - 1]
  BY <1>3, <1>5, SubSeqProperties
<1>7. (a + n) - (a + 1) + 1 = n /\ \A i \in 1 .. n : (a + 1) + i - 1 = a + i
  OBVIOUS
<1>8. Len(SubSeq(d, a + 1, a + n)) = n /\ \A i \in 1 .. n : SubSeq(d, a + 1, a + n)[i] = d[a + i]
  BY <1>6, <1>7
<1> QED BY <1>4, <1>8, Zenon

(* The sizes of an image, of its metadata and of DDR.                      *)
LEMMA ImageSizes ==
  ASSUME NEW im \in BootImages
  PROVE /\ Loader!Layable(im) /\ Len(im) \in Nat \ {0} /\ Len(Loader!Partitions(im)) \in Nat
        /\ Loader!DataAt(im)[1] \in Nat /\ Loader!DataAt(im)[1] > 40
        /\ Loader!DataAt(im)[1] >= 46 + 16 * Len(im) + 16 * Len(Loader!Partitions(im))
        /\ Len(Loader!Layout(im)) \in Nat /\ Loader!DataAt(im)[1] <= Len(Loader!Layout(im))
        /\ DOMAIN Loader!Layout(im) = 1 .. Len(Loader!Layout(im))
        /\ Loader!STAGING \in Nat /\ DDR_WORDS \in Nat
        /\ Loader!STAGING + Loader!DataAt(im)[1] <= DDR_WORDS
<1>1. Loader!Layable(im) /\ Loader!STAGING + Loader!DataAt(im)[1] <= DDR_WORDS
  BY BootImagesFit
<1>2. DDR_WORDS \in Nat /\ Loader!STAGING \in Nat
  BY MCSystemAssumption DEF Loader!BootAssumption, Loader!STAGING
<1>3. Len(im) \in Nat \ {0}
  BY <1>1, LayableFacts, Zenon
<1>4. PICK N \in Nat : N = Len(Loader!Partitions(im))
  BY <1>1, DataFacts, Zenon
<1>5. /\ Loader!DataAt(im) \in [1 .. N + 1 -> Nat]
      /\ Loader!DataAt(im)[1] >= 46 + 16 * Len(im) + 16 * N
      /\ \A p, q \in 1 .. N + 1 : p <= q => Loader!DataAt(im)[p] <= Loader!DataAt(im)[q]
  BY <1>1, <1>4, DataFacts
<1>6. 1 \in 1 .. N + 1 /\ N + 1 \in 1 .. N + 1 /\ 1 <= N + 1
  OBVIOUS
<1>7. PICK a, b \in Nat : /\ a = Loader!DataAt(im)[1] /\ b = Loader!DataAt(im)[N + 1] /\ a <= b
  BY <1>5, <1>6
<1>8. a > 40
  BY <1>3, <1>5, <1>7
<1>9. /\ Loader!Layout(im) \in Seq(Wd(im))
      /\ Len(Loader!Layout(im)) = Loader!DataAt(im)[N + 1]
  BY <1>1, <1>4, LayoutFacts
<1>10. DOMAIN Loader!Layout(im) = 1 .. Len(Loader!Layout(im))
  BY <1>9
<1> QED BY <1>1, <1>2, <1>3, <1>4, <1>5, <1>7, <1>8, <1>9, <1>10

(* The slice of the metadata, whatever is in it, and when they are staged. *)
LEMMA SliceOfMetadata ==
  ASSUME BootTypeOK, header_len = 4 * Loader!DataAt(images)[1]
  PROVE /\ Len(Loader!boot_header_slice) = Loader!DataAt(images)[1]
        /\ MetadataHeld(images, ddr) => Staged(Loader!boot_header_slice, images)
<1>1. PICK a \in Nat : a = Loader!DataAt(images)[1] /\ Loader!STAGING + a <= DDR_WORDS
  BY ImageSizes DEF BootTypeOK
<1>2. header_len \div 4 = a
  BY <1>1
<1>3. Loader!boot_header_slice = SubSeq(ddr, Loader!STAGING + 1, Loader!STAGING + a)
  BY <1>2, Zenon DEF Loader!boot_header_slice
<1>4. /\ Len(Loader!boot_header_slice) = a
      /\ \A i \in 1 .. a : Loader!boot_header_slice[i] = ddr[Loader!STAGING + i]
  BY <1>1, <1>3, SliceFacts, Zenon DEF BootTypeOK
<1> QED BY <1>1, <1>4 DEF MetadataHeld, Staged

(* A read of the flash that answers.                                       *)
LEMMA FlashRead ==
  ASSUME BootTypeOK, ~ registers, guard, NEW a \in Nat, NEW n \in Nat,
         a + n <= Len(Loader!Layout(images))
  PROVE /\ DOMAIN Loader!qspi_read(4 * a, n) = 1 .. n
        /\ \A i \in 1 .. n : Loader!qspi_read(4 * a, n)[i] = Loader!Layout(images)[a + i]
<1>1. (4 * a) \div 4 = a
  OBVIOUS
<1>2. \A i \in 1 .. n : a + i \in DOMAIN Loader!Layout(images)
  <2>1. /\ Len(Loader!Layout(images)) \in Nat
        /\ DOMAIN Loader!Layout(images) = 1 .. Len(Loader!Layout(images))
    BY ImageSizes DEF BootTypeOK
  <2> QED BY <2>1
<1>3. qspi_flash = Loader!Layout(images)
  BY DEF BootTypeOK
<1>4. Loader!qspi_read(4 * a, n) =
        [i \in 1 .. n |-> IF a + i \notin DOMAIN qspi_flash THEN Loader!GARBAGE
                          ELSE qspi_flash[a + i]]
  BY <1>1 DEF Loader!qspi_read
<1> QED BY <1>2, <1>3, <1>4

(* What the loader copies is words of DDR, and stays in the L1 cache.      *)
LEMMA Copies ==
  ASSUME BootTypeOK, NEW words, NEW to, Loader!copy(words, to)
  PROVE /\ ddr' = CopiedTo(ddr, words, to \div 4) /\ IsDdr(ddr') /\ unclean' \subseteq {"L1", "L2"}
<1>1. ddr' = CopiedTo(ddr, words, to \div 4)
  BY DEF Loader!copy, CopiedTo
<1>2. IsDdr(CopiedTo(ddr, words, to \div 4))
  BY CopiedFacts, Zenon DEF BootTypeOK
<1>3. unclean' \subseteq {"L1", "L2"}
  BY DEF Loader!copy, BootTypeOK
<1> QED BY <1>1, <1>2, <1>3, Zenon

(* The loader starts with the types it keeps.                              *)
LEMMA BootTypeInit ==
  ASSUME Loader!BootInit PROVE BootTypeOK
<1>1. IsDdr(ddr)
  BY DEF Loader!BootInit, IsDdr
<1> QED BY <1>1 DEF Loader!BootInit, BootTypeOK

(* Every step of the loader keeps the types.                               *)
LEMMA BootTypeStep ==
  ASSUME BootTypeOK, [Loader!BootNext]_loaderVars PROVE BootTypeOK'
<1> USE DEF Loader!flash_vars
<1>1. CASE UNCHANGED <<images, qspi_flash, ddr, unclean, pl>> /\ boot_step # "pl_wait"
  BY <1>1, Zenon DEF BootTypeOK
<1>2. CASE UNCHANGED loaderVars
  BY <1>2, Zenon DEF BootTypeOK, loaderVars
<1>3. CASE Loader!read_guard("header", "copy_header")
           \/ Loader!read_guard("metadata", "copy_metadata")
           \/ Loader!read_guard("image", "partitions")
  BY <1>1, <1>3 DEF Loader!read_guard
<1>4. CASE Loader!read_header
  <2>1. /\ UNCHANGED <<images, qspi_flash, pl>> /\ boot_step = "copy_header"
        /\ boot_step' = "check_header"
    BY <1>4 DEF Loader!read_header
  <2>2. IsDdr(ddr') /\ unclean' \subseteq {"L1", "L2"}
    BY <1>4, Copies, Zenon DEF Loader!read_header
  <2> QED BY <2>1, <2>2 DEF BootTypeOK
<1>5. CASE Loader!check_header
  BY <1>1, <1>5 DEF Loader!check_header
<1>6. CASE Loader!read_metadata
  <2>1. /\ UNCHANGED <<images, qspi_flash, pl>> /\ boot_step = "copy_metadata"
        /\ boot_step' = "images"
    BY <1>6 DEF Loader!read_metadata
  <2>2. IsDdr(ddr') /\ unclean' \subseteq {"L1", "L2"}
    BY <1>6, Copies, Zenon DEF Loader!read_metadata
  <2> QED BY <2>1, <2>2 DEF BootTypeOK
<1>7. CASE Loader!iterate_images \/ Loader!next_image \/ Loader!iterate_partitions
           \/ Loader!next_partition
  BY <1>1, <1>7 DEF Loader!iterate_images, Loader!next_image, Loader!iterate_partitions,
                    Loader!next_partition
<1>8. CASE Loader!load_ps
  <2>1. /\ UNCHANGED <<images, qspi_flash, pl>> /\ boot_step = "ps"
    BY <1>8 DEF Loader!load_ps
  <2>2. IsDdr(ddr') /\ unclean' \subseteq {"L1", "L2"}
    <3>1. CASE UNCHANGED <<ddr, unclean>>
      BY <3>1 DEF BootTypeOK
    <3>2. CASE ~ UNCHANGED <<ddr, unclean>>
      <4>1. Loader!copy(Loader!qspi_read(Loader!offset, Loader!length \div 4),
                        Loader!load_addr - ELF_BASE_ADDR)
        BY <1>8, <3>2, Zenon DEF Loader!load_ps
      <4> QED BY <4>1, Copies, Zenon
    <3> QED BY <3>1, <3>2, Zenon
  <2> QED BY <2>1, <2>2 DEF BootTypeOK
<1>9. CASE Loader!start_dma
  <2>1. /\ UNCHANGED <<images, qspi_flash, ddr, unclean>> /\ boot_step = "pl"
        /\ \/ UNCHANGED pl
           \/ /\ boot_step' = "pl_wait"
              /\ \E outcome \in {"runs", "failed"} : pl' = [pl EXCEPT !.dma = outcome]
    BY <1>9, Zenon DEF Loader!start_dma
  <2>2. CASE UNCHANGED pl
    BY <2>1, <2>2, <1>1
  <2>3. CASE \E outcome \in {"runs", "failed"} : pl' = [pl EXCEPT !.dma = outcome]
    <3>1. pl' = [dma |-> pl'.dma, reset |-> pl'.reset, holds |-> pl'.holds]
      BY <2>3 DEF BootTypeOK
    <3>2. CASE UNCHANGED pl
      BY <3>2, <2>2
    <3>3. CASE ~ UNCHANGED pl
      BY <2>1, <3>1, <3>3 DEF BootTypeOK
    <3> QED BY <3>2, <3>3
  <2> QED BY <2>1, <2>2, <2>3
<1>10. CASE Loader!dma_done
  <2>1. /\ UNCHANGED <<images, qspi_flash, ddr, unclean, boot_step>> /\ boot_step = "pl_wait"
    BY <1>10 DEF Loader!dma_done, BootTypeOK
  <2>2. pl' = [dma |-> pl'.dma, reset |-> pl'.reset, holds |-> pl'.holds]
    BY <1>10 DEF BootTypeOK, Loader!dma_done
  <2> QED BY <2>1, <2>2 DEF BootTypeOK
<1>11. CASE Loader!end_pl
  <2>1. /\ UNCHANGED <<images, qspi_flash, ddr, unclean>> /\ pl' = [pl EXCEPT !.dma = "idle"]
    BY <1>11 DEF Loader!end_pl
  <2> QED BY <2>1 DEF BootTypeOK
<1>12. CASE Loader!deassert_reset
  <2>1. /\ UNCHANGED <<images, qspi_flash, ddr, unclean>> /\ pl' = [pl EXCEPT !.reset = FALSE]
        /\ boot_step = "deassert_reset"
    BY <1>12 DEF Loader!deassert_reset
  <2> QED BY <2>1 DEF BootTypeOK
<1>13. CASE Loader!clean_l1 \/ Loader!clean_l2 \/ Loader!evict
  <2>1. /\ UNCHANGED <<images, qspi_flash, ddr, pl>> /\ unclean' \subseteq {"L1", "L2"}
        /\ UNCHANGED boot_step \/ boot_step \in {"clean_l1", "clean_l2"}
    BY <1>13 DEF Loader!clean_l1, Loader!clean_l2, Loader!evict, BootTypeOK
  <2> QED BY <2>1 DEF BootTypeOK
<1>14. CASE Loader!registers_written
  BY <1>14, Zenon DEF Loader!registers_written, BootTypeOK
<1> QED BY <1>2, <1>3, <1>4, <1>5, <1>6, <1>7, <1>8, <1>9, <1>10, <1>11, <1>12, <1>13, <1>14, Zenon
        DEF Loader!BootNext, Loader!qspi_boot

(* Where a copy of n words to the word a leaves them.                      *)
LEMMA WordsCopied ==
  ASSUME BootTypeOK, NEW words, NEW a, NEW n, DOMAIN words = 1 .. n, ddr' = CopiedTo(ddr, words, a)
  PROVE \A k \in 1 .. DDR_WORDS : ddr'[k] = IF k - a \in 1 .. n THEN words[k - a] ELSE ddr[k]
<1>1. DOMAIN ddr = 1 .. DDR_WORDS
  BY DEF BootTypeOK, IsDdr
<1>2. ddr' = [i \in 1 .. DDR_WORDS |-> IF i - a \in 1 .. n THEN words[i - a] ELSE ddr[i]]
  BY <1>1 DEF CopiedTo
<1> QED BY <1>2

(* LoadedBefore anything is read the invariant of loading holds.                 *)
LEMMA LoadInvInit ==
  ASSUME Loader!BootInit PROVE LoadInv
<1>1. boot_step = "header" /\ header_len = 160 /\ jump_addr = Loader!None /\ index = 0
  BY DEF Loader!BootInit, Loader!FIXED_BOOT_HEADER_SIZE
<1> QED BY <1>1 DEF LoadInv, HeaderInv, MetadataInv, ParserInv, ImagesInv, NextImageInv, ImageInv,
                    PartitionsInv, LoadingInv, StartInv

(* Nothing but the step and the guard changes.                             *)
LEMMA GuardStep ==
  ASSUME LoadInv, \/ Loader!read_guard("header", "copy_header")
                  \/ Loader!read_guard("metadata", "copy_metadata")
                  \/ Loader!read_guard("image", "partitions")
  PROVE LoadInv'
<1>1. /\ guard' = TRUE
      /\ UNCHANGED <<images, qspi_flash, registers, ddr, unclean, header_len, header, next_header,
                     index, partition, partition_index, count, jump_addr, pl>>
      /\ \/ boot_step = "header" /\ boot_step' = "copy_header"
         \/ boot_step = "metadata" /\ boot_step' = "copy_metadata"
         \/ boot_step = "image" /\ boot_step' = "partitions"
  BY Zenon DEF Loader!read_guard, Loader!flash_vars, Loader!images_vars, Loader!partition_vars
<1>2. CASE boot_step = "header" /\ boot_step' = "copy_header"
  BY <1>1, <1>2 DEF LoadInv, HeaderInv, MetadataInv, ParserInv, ImagesInv, NextImageInv, ImageInv,
                    PartitionsInv, LoadingInv, StartInv
<1>3. CASE boot_step = "metadata" /\ boot_step' = "copy_metadata"
  BY <1>1, <1>3 DEF LoadInv, HeaderInv, MetadataInv, ParserInv, ImagesInv, NextImageInv, ImageInv,
                    PartitionsInv, LoadingInv, StartInv
<1>4. CASE boot_step = "image" /\ boot_step' = "partitions"
  BY <1>1, <1>4 DEF LoadInv, HeaderInv, MetadataInv, ParserInv, ImagesInv, NextImageInv, ImageInv,
                    PartitionsInv, LoadingInv, StartInv
<1> QED BY <1>1, <1>2, <1>3, <1>4, Zenon

(* The header is copied, or garbage when the flash does not answer.        *)
LEMMA ReadHeaderStep ==
  ASSUME BootTypeOK, LoadInv, Loader!read_header PROVE LoadInv'
<1>1. /\ boot_step = "copy_header" /\ boot_step' = "check_header"
      /\ Loader!copy(Loader!qspi_read(0, 40), BOOT_BIN_STAGING_OFFSET)
      /\ UNCHANGED <<images, registers, header_len, jump_addr, index>>
  BY DEF Loader!read_header, Loader!flash_vars, Loader!images_vars, Loader!FIXED_BOOT_HEADER_SIZE
<1>2. header_len = 160 /\ jump_addr = Loader!None /\ index = 0 /\ guard
  BY <1>1 DEF LoadInv, HeaderInv
<1> DEFINE words == Loader!qspi_read(0, 40)
<1>3. ddr' = CopiedTo(ddr, words, Loader!STAGING)
  BY <1>1, Copies, Zenon DEF Loader!STAGING
<1>4. DOMAIN words = 1 .. 40
  BY DEF Loader!qspi_read
<1>5. PICK s \in Nat : s = Loader!STAGING /\ s + 40 <= DDR_WORDS /\ DDR_WORDS \in Nat
  BY ImageSizes DEF BootTypeOK
<1>6. \A i \in 1 .. 40 : ddr'[Loader!STAGING + i] = words[i]
  <2> HIDE DEF words
  <2>1. \A k \in 1 .. DDR_WORDS : ddr'[k] = IF k - s \in 1 .. 40 THEN words[k - s] ELSE ddr[k]
    <3>1. ddr' = CopiedTo(ddr, words, s)
      BY <1>3, <1>5, Zenon
    <3>2. PICK n \in Nat : n = 40
      OBVIOUS
    <3>3. DOMAIN words = 1 .. n
      BY <3>2, <1>4, Zenon
    <3>4. \A k \in 1 .. DDR_WORDS : ddr'[k] = IF k - s \in 1 .. n THEN words[k - s] ELSE ddr[k]
      BY <3>1, <3>3, WordsCopied, Zenon
    <3> QED BY <3>2, <3>4, Zenon
  <2>2. \A i \in 1 .. 40 : s + i \in 1 .. DDR_WORDS /\ (s + i) - s = i
    BY <1>5
  <2>3. \A i \in 1 .. 40 : ddr'[s + i] =
                          IF (s + i) - s \in 1 .. 40 THEN words[(s + i) - s] ELSE ddr[s + i]
    BY <2>1, <2>2, Zenon
  <2>4. \A i \in 1 .. 40 : ddr'[s + i] = words[i]
    BY <2>2, <2>3, Zenon
  <2> QED BY <2>4, <1>5, Zenon
<1>7. HeaderOrGarbage(images', registers', ddr')
  <2>1. CASE registers
    <3>1. \A i \in 1 .. 40 : words[i] = Loader!GARBAGE
      BY <2>1 DEF Loader!qspi_read
    <3> HIDE DEF words
    <3> QED BY <3>1, <1>6 DEF HeaderOrGarbage
  <2>2. CASE ~ registers
    <3>1. \A i \in 1 .. 40 : Loader!qspi_read(4 * 0, 40)[i] = Loader!Layout(images)[0 + i]
      <4>1. 0 \in Nat /\ 40 \in Nat /\ 0 + 40 <= Len(Loader!Layout(images))
        BY ImageSizes DEF BootTypeOK
      <4> QED BY <4>1, <2>2, <1>2, FlashRead, Zenon
    <3>2. 4 * 0 = 0 /\ \A i \in 1 .. 40 : 0 + i = i
      OBVIOUS
    <3>3. \A i \in 1 .. 40 : words[i] = Loader!Layout(images)[i]
      BY <3>1, <3>2, Zenon
    <3> HIDE DEF words
    <3> QED BY <2>2, <3>3, <1>1, <1>6 DEF HeaderOrGarbage, HeaderHeld
  <2> QED BY <2>1, <2>2
<1> QED BY <1>1, <1>2, <1>7 DEF LoadInv, HeaderInv, MetadataInv, ParserInv, ImagesInv, NextImageInv,
           ImageInv, PartitionsInv, LoadingInv, StartInv

(* A header that passes the check is the one in the flash.                 *)
LEMMA CheckHeaderStep ==
  ASSUME BootTypeOK, LoadInv, Loader!check_header PROVE LoadInv'
<1> DEFINE data == Loader!boot_header_slice
<1>1. /\ boot_step = "check_header"
      /\ UNCHANGED <<images, registers, ddr, jump_addr, index>>
      /\ \/ /\ Loader!BootHeader_valid(data) /\ boot_step' = "metadata"
            /\ header_len' = Loader!source_offset(data)
         \/ boot_step' = "panic"
  BY Zenon DEF Loader!check_header, Loader!flash_vars, Loader!images_vars
<1>2. /\ header_len = 160 /\ jump_addr = Loader!None /\ index = 0
      /\ HeaderOrGarbage(images, registers, ddr)
  BY <1>1 DEF LoadInv, HeaderInv
<1>3. \A i \in 1 .. 40 : data[i] = ddr[Loader!STAGING + i]
  <2>1. 160 \div 4 = 40 /\ 40 \in Nat
    OBVIOUS
  <2>2. data = SubSeq(ddr, Loader!STAGING + 1, Loader!STAGING + 40)
    BY <2>1, <1>2, Zenon DEF Loader!boot_header_slice
  <2>3. Loader!STAGING + 40 <= DDR_WORDS
    BY ImageSizes DEF BootTypeOK
  <2> QED BY <2>1, <2>2, <2>3, SliceFacts, Zenon DEF BootTypeOK
<1> HIDE DEF data
<1>4. CASE boot_step' = "panic"
  BY <1>4 DEF LoadInv, HeaderInv, MetadataInv, ParserInv, ImagesInv, NextImageInv, ImageInv,
              PartitionsInv, LoadingInv, StartInv
<1>5. CASE /\ Loader!BootHeader_valid(data) /\ boot_step' = "metadata"
           /\ header_len' = Loader!source_offset(data)
  <2>1. ~ \A i \in 1 .. 40 : ddr[Loader!STAGING + i] = Loader!GARBAGE
    <3>1. SUFFICES ASSUME \A i \in 1 .. 40 : ddr[Loader!STAGING + i] = Loader!GARBAGE PROVE FALSE
      OBVIOUS
    <3>2. \A i \in 1 .. 40 : data[i] = Loader!GARBAGE
      BY <1>3, <3>1, Zenon
    <3> QED BY <3>2, <1>5, GarbageRefused, Zenon
  <2>2. ~ registers /\ HeaderHeld(images, ddr)
    BY <1>2, <2>1, Zenon DEF HeaderOrGarbage
  <2>3. header_len' = 4 * Loader!DataAt(images)[1]
    <3>1. \A i \in 1 .. 40 : data[i] = Loader!Layout(images)[i]
      BY <1>3, <2>2, Zenon DEF HeaderHeld
    <3>2. Loader!Layable(images)
      BY ImageSizes DEF BootTypeOK
    <3> QED BY <3>1, <3>2, <1>5, SourceOffset, Zenon
  <2> QED BY <2>2, <2>3, <1>1, <1>2, <1>5 DEF LoadInv, HeaderInv, MetadataInv, ParserInv, ImagesInv,
             NextImageInv, ImageInv, PartitionsInv, LoadingInv, StartInv
<1> QED BY <1>1, <1>4, <1>5, Zenon

(* All metadata are staged after the second copy.                          *)
LEMMA ReadMetadataStep ==
  ASSUME BootTypeOK, LoadInv, Loader!read_metadata PROVE LoadInv'
<1>1. /\ boot_step = "copy_metadata" /\ boot_step' = "images" /\ guard' = FALSE
      /\ Loader!copy(Loader!qspi_read(160, (header_len - 160) \div 4), BOOT_BIN_STAGING_OFFSET + 160)
      /\ UNCHANGED <<images, registers, header_len, jump_addr, index>>
  BY DEF Loader!read_metadata, Loader!flash_vars, Loader!images_vars, Loader!FIXED_BOOT_HEADER_SIZE
<1>2. /\ ~ registers /\ header_len = 4 * Loader!DataAt(images)[1]
      /\ jump_addr = Loader!None /\ index = 0 /\ guard /\ HeaderHeld(images, ddr)
  BY <1>1 DEF LoadInv, MetadataInv
<1>3. PICK s, a, l \in Nat : /\ s = Loader!STAGING /\ a = Loader!DataAt(images)[1] /\ a > 40
                             /\ l = Len(Loader!Layout(images)) /\ a <= l
                             /\ s + a <= DDR_WORDS /\ DDR_WORDS \in Nat
  BY ImageSizes DEF BootTypeOK
<1>4. 160 = 4 * 40 /\ (header_len - 160) \div 4 = a - 40 /\ a - 40 \in Nat /\ 40 + (a - 40) = a
  <2>1. PICK n \in Nat : n = a - 40
    BY <1>3
  <2>2. header_len = 4 * a
    BY <1>2, <1>3, Zenon
  <2>3. header_len - 160 = 4 * n
    BY <2>1, <2>2
  <2>4. (4 * n) \div 4 = n
    OBVIOUS
  <2>5. 160 = 4 * 40 /\ 40 + (a - 40) = a
    OBVIOUS
  <2> QED BY <2>1, <2>3, <2>4, <2>5, Zenon
<1>5. (BOOT_BIN_STAGING_OFFSET + 160) \div 4 = s + 40
  <2>1. BOOT_BIN_STAGING_OFFSET \in Nat /\ BOOT_BIN_STAGING_OFFSET % 4 = 0
    BY MCSystemAssumption DEF Loader!BootAssumption
  <2>2. s = BOOT_BIN_STAGING_OFFSET \div 4
    BY <1>3 DEF Loader!STAGING
  <2> QED BY <2>1, <2>2
<1> DEFINE words == Loader!qspi_read(4 * 40, a - 40)
<1>6. DOMAIN words = 1 .. a - 40 /\ \A i \in 1 .. a - 40 : words[i] = Loader!Layout(images)[40 + i]
  <2>1. 40 \in Nat /\ a - 40 \in Nat /\ 40 + (a - 40) <= Len(Loader!Layout(images))
    BY <1>3, <1>4
  <2> QED BY <2>1, <1>2, FlashRead, Zenon
<1>7. ddr' = CopiedTo(ddr, words, s + 40)
  <2>1. Loader!qspi_read(160, (header_len - 160) \div 4) = words
    BY <1>4, Zenon
  <2> HIDE DEF words
  <2>2. Loader!copy(words, BOOT_BIN_STAGING_OFFSET + 160)
    BY <1>1, <2>1, Zenon
  <2>3. ddr' = CopiedTo(ddr, words, (BOOT_BIN_STAGING_OFFSET + 160) \div 4)
    BY <2>2, Copies, Zenon
  <2> QED BY <2>3, <1>5, Zenon
<1> HIDE DEF words
<1>8. \A i \in 1 .. a : ddr'[s + i] = Loader!Layout(images)[i]
  <2>1. \A k \in 1 .. DDR_WORDS :
           ddr'[k] = IF k - (s + 40) \in 1 .. a - 40 THEN words[k - (s + 40)] ELSE ddr[k]
    BY <1>6, <1>7, WordsCopied, Zenon
  <2> TAKE i \in 1 .. a
  <2>2. s + i \in 1 .. DDR_WORDS /\ (s + i) - (s + 40) = i - 40
    BY <1>3
  <2>3. ddr'[s + i] = IF i - 40 \in 1 .. a - 40 THEN words[i - 40] ELSE ddr[s + i]
    BY <2>1, <2>2, Zenon
  <2>4. CASE i <= 40
    <3>1. i \in 1 .. 40 /\ ~ (i - 40 \in 1 .. a - 40)
      BY <2>4
    <3>2. ddr[s + i] = Loader!Layout(images)[i]
      BY <3>1, <1>2, <1>3, Zenon DEF HeaderHeld
    <3> QED BY <2>3, <3>1, <3>2, Zenon
  <2>5. CASE ~ (i <= 40)
    <3>1. i - 40 \in 1 .. a - 40 /\ 40 + (i - 40) = i
      BY <2>5, <1>3
    <3>2. words[i - 40] = Loader!Layout(images)[40 + (i - 40)]
      BY <3>1, <1>6, Zenon
    <3> QED BY <2>3, <3>1, <3>2, Zenon
  <2> QED BY <2>4, <2>5, Zenon
<1>9. MetadataHeld(images', ddr')
  BY <1>1, <1>3, <1>8, Zenon DEF MetadataHeld
<1> QED BY <1>1, <1>2, <1>9 DEF LoadInv, HeaderInv, MetadataInv, ParserInv, ImagesInv, NextImageInv,
           ImageInv, PartitionsInv, LoadingInv, StartInv

(* The iterator over the images starts with nothing loaded.                *)
LEMMA IterateImagesStep ==
  ASSUME BootTypeOK, LoadInv, Loader!iterate_images PROVE LoadInv'
<1>1. /\ boot_step = "images"
      /\ next_header' = Loader!image_header_iterator(Loader!boot_header_slice)
      /\ boot_step' = IF next_header' = Loader!None THEN "panic" ELSE "next_image"
      /\ UNCHANGED <<images, registers, ddr, header_len, guard, jump_addr, index, pl>>
  BY DEF Loader!iterate_images, Loader!flash_vars
<1>2. /\ ~ registers /\ header_len = 4 * Loader!DataAt(images)[1]
      /\ index = 0 /\ jump_addr = Loader!None /\ ~ guard /\ MetadataHeld(images, ddr)
  BY <1>1 DEF LoadInv, ImagesInv, ParserInv
<1>3. Loader!Layable(images) /\ Len(images) \in Nat \ {0}
  BY ImageSizes DEF BootTypeOK
<1>4. CASE boot_step' = "panic"
  BY <1>4 DEF LoadInv, HeaderInv, MetadataInv, ParserInv, ImagesInv, NextImageInv, ImageInv,
              PartitionsInv, LoadingInv, StartInv
<1>5. CASE boot_step' # "panic"
  <2>1. boot_step' = "next_image" /\ next_header' = ImageHeaderAt(1)
    <3>1. Staged(Loader!boot_header_slice, images)
      BY <1>2, SliceOfMetadata
    <3>2. Loader!image_header_iterator(Loader!boot_header_slice) \in {Loader!None, ImageHeaderAt(1)}
      BY <3>1, <1>3, IteratorStarts
    <3> QED BY <3>2, <1>1, <1>5
  <2>2. 0 \in 0 .. Len(images) /\ ~ (0 = Len(images)) /\ 0 + 1 = 1
    BY <1>3
  <2>3. next_header' = NextHeader(images, 0)
    BY <2>1, <2>2 DEF NextHeader
  <2>4. Loader!FirstPartition(images, 1) = 1
    BY <1>3, FirstFacts, Zenon
  <2>5. LoadedBefore(images, 1, 1) = {} /\ LoadedBefore(images, 2, 1) = {}
    <3>1. \A e : \A p \in LoadedOf(images, e) : p \in Nat /\ p >= 1
      BY <1>3, LoadedFacts
    <3> QED BY <3>1 DEF LoadedBefore
  <2>6. UpTo(images, 1, ddr, jump_addr, pl.holds)
    BY <2>5, <1>2, Zenon DEF UpTo, DdrUpTo, PlUpTo, LowestOf
  <2> QED BY <2>1, <2>2, <2>3, <2>4, <2>6, <1>1, <1>2 DEF LoadInv, HeaderInv, MetadataInv,
             ParserInv, ImagesInv, NextImageInv, ImageInv, PartitionsInv, LoadingInv, StartInv
<1> QED BY <1>4, <1>5

(* The last image holds a partition, so every image begins before the end. *)
LEMMA BeginsBeforeTheEnd ==
  ASSUME NEW im, Loader!Layable(im), NEW k \in 1 .. Len(im)
  PROVE Loader!FirstPartition(im, k) <= Len(Loader!Partitions(im))
<1>1. PICK K \in Nat \ {0}, np \in Nat : K = Len(im) /\ np = Len(Loader!Partitions(im))
  BY LayableFacts, DataFacts
<1>2. PICK l \in Nat \ {0} : l = Len(im[K].partitions)
  <2>1. im[Len(im)].partitions # <<>> /\ im[Len(im)].partitions \in Seq(Part_)
    <3>1. Len(im) \in 1 .. Len(im)
      BY <1>1
    <3> QED BY <3>1, LayableFacts, Zenon
  <2> QED BY <2>1, <1>1
<1>3. k \in 1 .. Len(im) + 1 /\ K \in 1 .. Len(im) /\ K \in 1 .. Len(im) + 1 /\ k <= K
  BY <1>1
<1>4. /\ Loader!FirstPartition(im, k) \in Nat \ {0} /\ Loader!FirstPartition(im, K) \in Nat \ {0}
      /\ Loader!FirstPartition(im, k) <= Loader!FirstPartition(im, K)
      /\ Loader!FirstPartition(im, K + 1) = Loader!FirstPartition(im, K) + l
      /\ Loader!FirstPartition(im, K + 1) = np + 1
  BY <1>1, <1>2, <1>3, FirstFacts, Zenon
<1>5. PICK f, g \in Nat : f = Loader!FirstPartition(im, k) /\ g = Loader!FirstPartition(im, K)
  BY <1>4
<1> QED BY <1>1, <1>2, <1>4, <1>5

(* The metadata are there as long as a partition is to be loaded.          *)
LEMMA StillStaged ==
  ASSUME BootTypeOK, header_len = 4 * Loader!DataAt(images)[1],
         NEW p, p <= Len(Loader!Partitions(images)), NEW j, DdrUpTo(images, p, ddr, j)
  PROVE Staged(Loader!boot_header_slice, images)
<1>1. MetadataHeld(images, ddr)
  BY Zenon DEF DdrUpTo
<1> QED BY <1>1, SliceOfMetadata, Zenon

(* The iterator stands at an image: it begins before the end, and what     *)
(* follows its partitions is the next image.                               *)
LEMMA AnImage ==
  ASSUME BootTypeOK, index \in 1 .. Len(images)
  PROVE /\ Loader!Layable(images) /\ Len(images) \in Nat /\ index \in Nat
        /\ Loader!FirstPartition(images, index) \in Nat \ {0}
        /\ Loader!FirstPartition(images, index) <= Len(Loader!Partitions(images))
        /\ Loader!FirstPartition(images, index + 1) =
             Loader!FirstPartition(images, index) + Len(images[index].partitions)
        /\ Len(images[index].partitions) \in Nat
<1>1. Loader!Layable(images) /\ Len(images) \in Nat \ {0}
  BY ImageSizes DEF BootTypeOK
<1>2. index \in 1 .. Len(images) + 1 /\ index \in Nat
  BY <1>1
<1>3. Loader!FirstPartition(images, index) \in Nat \ {0}
  BY <1>1, <1>2, FirstFacts, Zenon
<1>4. Loader!FirstPartition(images, index) <= Len(Loader!Partitions(images))
  BY <1>1, BeginsBeforeTheEnd, Zenon
<1>5. Loader!FirstPartition(images, index + 1) =
        Loader!FirstPartition(images, index) + Len(images[index].partitions)
  BY <1>1, FirstFacts, Zenon
<1>6. Len(images[index].partitions) \in Nat
  <2>1. images[index].partitions \in Seq(Part_)
    BY <1>1, LayableFacts, Zenon
  <2> QED BY <2>1, LenProperties
<1> QED BY <1>1, <1>2, <1>3, <1>4, <1>5, <1>6

(* The next image, or the end: then all partitions are behind.             *)
LEMMA NextImageStep ==
  ASSUME BootTypeOK, LoadInv, Loader!next_image PROVE LoadInv'
<1> DEFINE data == Loader!boot_header_slice
           this == IF next_header = 0 THEN Loader!None ELSE Loader!ImageHeader_new(data, next_header)
           next == IF this \in {Loader!None, Loader!Panic} THEN Loader!None
                   ELSE Loader!next_image_header_offset(data, this)
<1>1. /\ boot_step = "next_image"
      /\ UNCHANGED <<images, registers, ddr, guard, header_len, jump_addr, pl>>
      /\ \/ /\ next = Loader!None
            /\ boot_step' = IF this = Loader!Panic THEN "panic" ELSE "deassert_reset"
         \/ /\ next # Loader!None
            /\ header' = this /\ next_header' = next /\ index' = index + 1
            /\ boot_step' \in {"panic", IF index = 0 THEN "next_image" ELSE "image"}
  BY DEF Loader!next_image, Loader!flash_vars
<1>2. /\ ~ registers /\ header_len = 4 * Loader!DataAt(images)[1] /\ ~ guard
      /\ index \in 0 .. Len(images) /\ next_header = NextHeader(images, index)
      /\ UpTo(images, Loader!FirstPartition(images, index + 1), ddr, jump_addr, pl.holds)
  BY <1>1 DEF LoadInv, ParserInv, NextImageInv
<1>3. Loader!Layable(images) /\ Len(images) \in Nat \ {0} /\ index \in Nat
  BY <1>2, ImageSizes DEF BootTypeOK
<1>4. CASE boot_step' = "panic"
  BY <1>4 DEF LoadInv, HeaderInv, MetadataInv, ParserInv, ImagesInv, NextImageInv, ImageInv,
              PartitionsInv, LoadingInv, StartInv
<1>5. CASE boot_step' # "panic" /\ index = Len(images)
  <2>1. next_header = 0
    BY <1>2, <1>5 DEF NextHeader
  <2>2. this = Loader!None
    BY <2>1
  <2>3. next = Loader!None
    BY <2>2
  <2> HIDE DEF this, next
  <2>4. boot_step' = "deassert_reset"
    BY <1>1, <1>5, <2>3
  <2>5. UpTo(images, Len(Loader!Partitions(images)) + 1, ddr, jump_addr, pl.holds)
    BY <1>2, <1>3, <1>5, FirstFacts, Zenon
  <2> QED BY <2>4, <2>5, <1>1, <1>2 DEF LoadInv, HeaderInv, MetadataInv, ParserInv, ImagesInv,
             NextImageInv, ImageInv, PartitionsInv, LoadingInv, StartInv
<1>6. CASE boot_step' # "panic" /\ index # Len(images)
  <2>1. PICK k \in Nat \ {0} : k = index + 1 /\ k \in 1 .. Len(images)
    BY <1>2, <1>3, <1>6
  <2>2. next_header = ImageHeaderAt(k) /\ next_header # 0
    <3>1. next_header = ImageHeaderAt(index + 1)
      BY <1>2, <1>6, Zenon DEF NextHeader
    <3>2. ImageHeaderAt(k) # 0
      BY <2>1 DEF ImageHeaderAt
    <3> QED BY <3>1, <3>2, <2>1
  <2>3. Loader!FirstPartition(images, k) <= Len(Loader!Partitions(images))
    BY <1>3, <2>1, BeginsBeforeTheEnd, Zenon
  <2>4. DdrUpTo(images, Loader!FirstPartition(images, k), ddr, jump_addr)
    BY <1>2, <2>1, Zenon DEF UpTo
  <2>5. Staged(data, images)
    BY <1>2, <2>3, <2>4, StillStaged, Zenon
  <2> HIDE DEF data
  <2>6. this = ImageHeaderAt(k)
    BY <2>1, <2>2, <2>5, <1>3, HeaderAccepted
  <2>7. this # Loader!None /\ this # Loader!Panic
    BY <2>1, <2>6 DEF ImageHeaderAt, Loader!None, Loader!Panic
  <2> HIDE DEF this
  <2>8. next = NextHeader(images, k)
    <3>1. next = Loader!next_image_header_offset(data, ImageHeaderAt(k))
      BY <2>6, <2>7
    <3>2. k \in 1 .. Len(images)
      BY <2>1
    <3>3. Loader!next_image_header_offset(data, ImageHeaderAt(k)) =
            (IF k = Len(images) THEN 0 ELSE ImageHeaderAt(k + 1))
      BY <3>2, <2>5, <1>3, HeaderRead
    <3> HIDE DEF next
    <3> QED BY <3>1, <3>3, Zenon DEF NextHeader
  <2>9. next # Loader!None
    BY <2>1, <2>8 DEF NextHeader, ImageHeaderAt, Loader!None
  <2> HIDE DEF next
  <2>10. /\ header' = ImageHeaderAt(k) /\ next_header' = NextHeader(images, k) /\ index' = k
         /\ boot_step' = IF index = 0 THEN "next_image" ELSE "image"
    BY <1>1, <1>6, <2>1, <2>6, <2>8, <2>9
  <2>11. CASE index = 0
    <3>1. k = 1 /\ 1 \in 0 .. Len(images)
      BY <2>1, <2>11, <1>3
    <3>2. Loader!FirstPartition(images, 1) = 1
      BY <1>3, FirstFacts, Zenon
    <3>3. DdrUpTo(images, 1, ddr, jump_addr)
      BY <2>4, <3>1, <3>2, Zenon
    <3>4. UpTo(images, Loader!FirstPartition(images, 2), ddr, jump_addr, pl.holds)
      BY <3>3, <1>3, FirstImageSkipped, Zenon DEF UpTo
    <3>5. boot_step' = "next_image" /\ index' = 1 /\ next_header' = NextHeader(images, 1) /\ 1 + 1 = 2
      BY <2>10, <2>11, <3>1
    <3>6. UpTo(images, Loader!FirstPartition(images, index' + 1), ddr, jump_addr, pl.holds)
      BY <3>4, <3>5, Zenon
    <3> QED BY <3>1, <3>5, <3>6, <1>1, <1>2 DEF LoadInv, HeaderInv, MetadataInv, ParserInv,
               ImagesInv, NextImageInv, ImageInv, PartitionsInv, LoadingInv, StartInv
  <2>12. CASE index # 0
    <3>1. k \in 2 .. Len(images)
      BY <2>1, <2>12, <1>3
    <3>2. UpTo(images, Loader!FirstPartition(images, k), ddr, jump_addr, pl.holds)
      BY <1>2, <2>1, Zenon
    <3> QED BY <3>1, <3>2, <2>10, <2>12, <1>1, <1>2 DEF LoadInv, HeaderInv, MetadataInv, ParserInv,
               ImagesInv, NextImageInv, ImageInv, PartitionsInv, LoadingInv, StartInv
  <2> QED BY <2>11, <2>12
<1> QED BY <1>4, <1>5, <1>6

(* The iterator over partitions starts at the first one of the image.      *)
LEMMA IteratePartitionsStep ==
  ASSUME BootTypeOK, LoadInv, Loader!iterate_partitions PROVE LoadInv'
<1>1. /\ boot_step = "partitions" /\ boot_step' \in {"panic", "next_partition"}
      /\ partition' = Loader!first_partition_header_offset(Loader!boot_header_slice, header)
      /\ partition' = Loader!None => boot_step' = "panic"
      /\ partition_index' = 0
      /\ count' = Loader!partition_count(Loader!boot_header_slice, header)
      /\ UNCHANGED <<images, registers, ddr, guard, header_len, next_header, index, jump_addr, pl>>
  BY DEF Loader!iterate_partitions, Loader!flash_vars, Loader!images_vars
<1>2. /\ ~ registers /\ header_len = 4 * Loader!DataAt(images)[1] /\ guard
      /\ index \in 2 .. Len(images) /\ next_header = NextHeader(images, index)
      /\ header = ImageHeaderAt(index)
      /\ UpTo(images, Loader!FirstPartition(images, index), ddr, jump_addr, pl.holds)
  BY <1>1 DEF LoadInv, ParserInv, ImageInv
<1>3. index \in 1 .. Len(images)
  BY <1>2
<1>4. CASE boot_step' = "panic"
  BY <1>4 DEF LoadInv, HeaderInv, MetadataInv, ParserInv, ImagesInv, NextImageInv, ImageInv,
              PartitionsInv, LoadingInv, StartInv
<1>5. CASE boot_step' = "next_partition"
  <2>1. Staged(Loader!boot_header_slice, images)
    BY <1>2, <1>3, AnImage, StillStaged, Zenon DEF UpTo
  <2>2. Loader!Layable(images)
    BY <1>3, AnImage, Zenon
  <2>3. /\ partition' = PartitionAt(images, Loader!FirstPartition(images, index))
        /\ count' = Len(images[index].partitions)
    <3>1. /\ Loader!first_partition_header_offset(Loader!boot_header_slice, ImageHeaderAt(index)) \in
               {Loader!None, PartitionAt(images, Loader!FirstPartition(images, index))}
          /\ Loader!partition_count(Loader!boot_header_slice, ImageHeaderAt(index)) =
               Len(images[index].partitions)
      BY <2>1, <2>2, <1>3, HeaderRead, Zenon
    <3> QED BY <3>1, <1>1, <1>2, <1>5
  <2>4. PICK f \in Nat : f = Loader!FirstPartition(images, index)
    BY <1>3, AnImage
  <2>5. f + 0 = f /\ 0 \in 0 .. count'
    BY <2>3, <1>3, AnImage
  <2>6. Following' = f
    BY <2>4, <2>5, <1>1, Zenon DEF Following
  <2>7. /\ partition' = PartitionAt(images, Following')
        /\ UpTo(images, Following', ddr, jump_addr, pl.holds)
    BY <2>3, <2>4, <2>6, <1>2, Zenon
  <2> QED BY <2>3, <2>5, <2>7, <1>1, <1>2, <1>5 DEF LoadInv, HeaderInv, MetadataInv, ParserInv,
             ImagesInv, NextImageInv, ImageInv, PartitionsInv, LoadingInv, StartInv
<1> QED BY <1>1, <1>4, <1>5

(* The partition the iterator stands at.                                   *)
LEMMA APartition ==
  ASSUME BootTypeOK, index \in 2 .. Len(images), count = Len(images[index].partitions),
         partition_index \in 0 .. count
  PROVE /\ Loader!Layable(images) /\ Following \in Nat \ {0} /\ partition_index \in Nat
        /\ partition_index # count => Following \in 1 .. Len(Loader!Partitions(images))
        /\ partition_index = count => Following = Loader!FirstPartition(images, index + 1)
        /\ Following > Len(images[1].partitions)
        /\ partition_index # 0 =>
             /\ Following - 1 \in 1 .. Len(Loader!Partitions(images))
             /\ Following - 1 > Len(images[1].partitions)
<1>1. index \in 1 .. Len(images)
  OBVIOUS
<1>2. PICK f, c, K \in Nat : /\ f = Loader!FirstPartition(images, index) /\ f # 0 /\ c = count
                             /\ Loader!FirstPartition(images, index + 1) = f + c
                             /\ K = Len(images) /\ index \in Nat
  BY <1>1, AnImage
<1>3. Loader!Layable(images)
  BY <1>1, AnImage, Zenon
<1>4. Following = f + partition_index /\ partition_index \in 0 .. c
  BY <1>2, Zenon DEF Following
<1>5. PICK np \in Nat : np = Len(Loader!Partitions(images))
  BY <1>3, DataFacts
<1>6. \A i \in 0 .. c - 1 : f + i \in 1 .. np
  BY <1>1, <1>2, <1>3, <1>5, PartitionsCounted, Zenon
<1>7. PICK s \in Nat : s = Len(images[1].partitions) /\ f >= s + 1
  <2>1. 1 \in 1 .. Len(images) /\ 1 + 1 = 2
    BY <1>1, <1>2
  <2>2. images[1].partitions \in Seq(Part_)
    BY <1>3, <2>1, LayableFacts, Zenon
  <2>3. PICK s \in Nat : s = Len(images[1].partitions)
    BY <2>2, LenProperties
  <2>4. Loader!FirstPartition(images, 2) = 1 + s
    BY <1>3, <2>1, <2>3, FirstFacts, Zenon
  <2>5. 2 \in 1 .. Len(images) + 1 /\ index \in 1 .. Len(images) + 1 /\ 2 <= index
    BY <1>1, <1>2
  <2>6. Loader!FirstPartition(images, 2) <= Loader!FirstPartition(images, index)
    BY <1>3, <2>5, FirstFacts, Zenon
  <2> QED BY <2>3, <2>4, <2>6, <1>2
<1>8. PICK i \in Nat : i = partition_index /\ i <= c
  BY <1>4, <1>2
<1>9. i # c => f + i \in 1 .. np
  BY <1>6, <1>8
<1>10. i # 0 => (f + i) - 1 \in 1 .. np
  <2>1. i # 0 => i - 1 \in 0 .. c - 1 /\ f + (i - 1) = (f + i) - 1
    BY <1>8
  <2> QED BY <2>1, <1>6
<1>11. Following = f + i
  BY <1>4, <1>8
<1>12. Following \in Nat \ {0} /\ Following > s /\ (i # 0 => Following - 1 > s)
  BY <1>7, <1>8, <1>11
<1> QED BY <1>2, <1>3, <1>5, <1>7, <1>8, <1>9, <1>10, <1>11, <1>12

(* The next partition, for the device it says, or the end of the image.    *)
LEMMA NextPartitionStep ==
  ASSUME BootTypeOK, LoadInv, Loader!next_partition PROVE LoadInv'
<1> DEFINE data == Loader!boot_header_slice
           has == Loader!has_partition(data, partition, partition_index, count)
           device == Loader!destination_device(data, partition)
<1>1. /\ boot_step = "next_partition"
      /\ UNCHANGED <<images, registers, ddr, header_len, next_header, index, count, jump_addr, pl>>
      /\ \/ /\ ~ has /\ guard' = FALSE /\ boot_step' = "next_image"
            /\ UNCHANGED <<partition, partition_index>>
         \/ /\ has /\ UNCHANGED guard
            /\ partition' = partition + 64 /\ partition_index' = partition_index + 1
            /\ boot_step' = CASE device = 1 -> "ps" [] device = 2 -> "pl" [] OTHER -> "next_partition"
  BY Zenon DEF Loader!next_partition, Loader!flash_vars, Loader!images_vars,
         Loader!PartitionHeader_SIZE
<1>2. /\ ~ registers /\ header_len = 4 * Loader!DataAt(images)[1] /\ guard
      /\ index \in 2 .. Len(images) /\ next_header = NextHeader(images, index)
      /\ count = Len(images[index].partitions) /\ partition_index \in 0 .. count
      /\ partition = PartitionAt(images, Following)
      /\ UpTo(images, Following, ddr, jump_addr, pl.holds)
  BY <1>1 DEF LoadInv, ParserInv, PartitionsInv
<1>3. PICK p \in Nat \ {0} : p = Following
  BY <1>2, APartition
<1>4. /\ Loader!Layable(images) /\ partition_index \in Nat
      /\ partition_index # count => p \in 1 .. Len(Loader!Partitions(images))
      /\ partition_index = count => p = Loader!FirstPartition(images, index + 1)
  BY <1>2, <1>3, APartition
<1>5. PICK K, np, a \in Nat : /\ K = Len(images) /\ np = Len(Loader!Partitions(images))
                              /\ a = Loader!DataAt(images)[1] /\ a >= 46 + 16 * K + 16 * np
  BY ImageSizes DEF BootTypeOK
<1>6. PICK i, c \in Nat : i = partition_index /\ c = count /\ i <= c
  <2>1. index \in 1 .. Len(images)
    BY <1>2, <1>5
  <2>2. count \in Nat
    BY <2>1, <1>2, AnImage
  <2>3. partition_index \in 0 .. count
    BY <1>2
  <2>4. partition_index \in Nat /\ partition_index <= count
    BY <2>2, <2>3
  <2> QED BY <2>2, <2>4
<1>7. partition = 120 + 64 * K + 64 * p /\ PartitionAt(images, p + 1) = partition + 64
  BY <1>2, <1>3, <1>5 DEF PartitionAt
<1>8. Loader!size(data) = 4 * a
  BY <1>2, <1>5, SliceOfMetadata DEF Loader!size
<1> HIDE DEF data
<1>9. has <=> i # c
  <2>1. i # c => p \in 1 .. np
    BY <1>4, <1>5, <1>6
  <2>2. i # c => partition + 64 <= 4 * a
    BY <2>1, <1>5, <1>7
  <2> QED BY <2>2, <1>6, <1>8 DEF Loader!has_partition, Loader!PartitionHeader_SIZE
<1>10. CASE ~ has
  <2>1. p = Loader!FirstPartition(images, index + 1)
    BY <1>4, <1>6, <1>9, <1>10
  <2>2. /\ UpTo(images, Loader!FirstPartition(images, index + 1), ddr, jump_addr, pl.holds)
        /\ index \in 0 .. Len(images)
    <3>1. index \in 0 .. Len(images)
      BY <1>2
    <3> QED BY <3>1, <2>1, <1>2, <1>3, Zenon
  <2> HIDE DEF has
  <2>3. boot_step' = "next_image" /\ guard' = FALSE
    BY <1>1, <1>10
  <2> QED BY <2>2, <2>3, <1>1, <1>2 DEF LoadInv, HeaderInv, MetadataInv, ParserInv,
             ImagesInv, NextImageInv, ImageInv, PartitionsInv, LoadingInv, StartInv
<1>11. CASE has
  <2>1. i # c /\ p \in 1 .. Len(Loader!Partitions(images)) /\ p <= Len(Loader!Partitions(images))
    BY <1>4, <1>5, <1>6, <1>9, <1>11
  <2>2. DdrUpTo(images, p, ddr, jump_addr) /\ PlUpTo(images, p, pl.holds)
    BY <1>2, <1>3, Zenon DEF UpTo
  <2>3. Staged(data, images)
    BY <1>2, <2>1, <2>2, StillStaged, Zenon DEF data
  <2>4. device = Loader!Partitions(images)[p].dest
    BY <1>2, <1>3, <1>4, <2>1, <2>3, PartitionRead, Zenon
  <2> HIDE DEF has, device
  <2>5. /\ UNCHANGED guard /\ partition' = partition + 64 /\ partition_index' = i + 1
        /\ boot_step' = CASE device = 1 -> "ps" [] device = 2 -> "pl" [] OTHER -> "next_partition"
    BY <1>1, <1>6, <1>11
  <2>6. Following' = p + 1
    <3>1. PICK f \in Nat : f = Loader!FirstPartition(images, index) /\ p = f + i
      <4>1. Loader!FirstPartition(images, index) \in Nat
        <5>1. index \in 1 .. Len(images)
          BY <1>2, <1>5
        <5> QED BY <5>1, AnImage
      <4> QED BY <4>1, <1>3, <1>6 DEF Following
    <3>2. Following' = f + (i + 1)
      BY <3>1, <2>5, <1>1, Zenon DEF Following
    <3> QED BY <3>1, <3>2
  <2>7. /\ partition' = PartitionAt(images, Following') /\ Following' - 1 = p
        /\ partition_index' \in 0 .. count /\ partition_index' # 0
    <3>1. i + 1 \in 0 .. c /\ i + 1 # 0
      BY <2>1, <1>6
    <3>2. partition' = PartitionAt(images, Following')
      BY <2>5, <2>6, <1>7, Zenon
    <3> QED BY <3>1, <3>2, <2>5, <2>6, <1>6
  <2>8. CASE device = 1 \/ device = 2
    <3>1. boot_step' = IF device = 1 THEN "ps" ELSE "pl"
      BY <2>5, <2>8
    <3>2. Loader!Partitions(images)[Following' - 1].dest = (IF boot_step' = "ps" THEN 1 ELSE 2)
      BY <3>1, <2>4, <2>7, <2>8
    <3>3. DdrUpTo(images, Following' - 1, ddr, jump_addr) /\ PlUpTo(images, Following' - 1, pl.holds)
      BY <2>2, <2>7, Zenon
    <3>4. boot_step' \in {"ps", "pl"}
      BY <3>1
    <3> QED BY <3>2, <3>3, <3>4, <2>5, <2>7, <1>1, <1>2 DEF LoadInv, HeaderInv, MetadataInv,
               ParserInv, ImagesInv, NextImageInv, ImageInv, PartitionsInv, LoadingInv, StartInv
  <2>9. CASE ~ (device = 1 \/ device = 2)
    <3>1. boot_step' = "next_partition"
      BY <2>5, <2>9
    <3>2. p \notin LoadedOf(images, 1) /\ p \notin LoadedOf(images, 2)
      BY <2>4, <2>9, Zenon DEF LoadedOf
    <3>3. UpTo(images, p + 1, ddr, jump_addr, pl.holds)
      BY <2>2, <3>2, <1>4, NotLoaded, NotForPl, Zenon DEF UpTo
    <3>4. UpTo(images, Following', ddr, jump_addr, pl.holds)
      BY <3>3, <2>6, Zenon
    <3> QED BY <3>1, <3>4, <2>5, <2>7, <1>1, <1>2 DEF LoadInv, HeaderInv, MetadataInv,
               ParserInv, ImagesInv, NextImageInv, ImageInv, PartitionsInv, LoadingInv, StartInv
  <2> QED BY <2>8, <2>9
<1> QED BY <1>10, <1>11

(* What the loader knows of the partition it loads.                        *)
LEMMA ThePartition ==
  ASSUME BootTypeOK, LoadInv, boot_step \in {"ps", "pl", "pl_wait"}
  PROVE \E p \in Nat \ {0} :
          /\ Following = p + 1 /\ p \in 1 .. Len(Loader!Partitions(images))
          /\ p > Len(images[1].partitions) /\ Loader!Layable(images)
          /\ Loader!Partitions(images)[p].dest = (IF boot_step = "ps" THEN 1 ELSE 2)
          /\ DdrUpTo(images, p, ddr, jump_addr)
          /\ boot_step # "pl_wait" => PlUpTo(images, p, pl.holds)
          /\ boot_step = "pl_wait" => Loader!Partitions(images)[p].words > 0
          /\ boot_step = "pl_wait" /\ pl.dma = "done" => pl.holds = 4 * Loader!DataAt(images)[p]
          /\ Loader!offset = 4 * Loader!DataAt(images)[p]
          /\ Loader!length = 4 * Loader!Partitions(images)[p].words
          /\ Loader!load_addr = Loader!Partitions(images)[p].load
<1>1. /\ ~ registers /\ header_len = 4 * Loader!DataAt(images)[1] /\ guard
      /\ index \in 2 .. Len(images) /\ next_header = NextHeader(images, index)
      /\ count = Len(images[index].partitions) /\ partition_index \in 0 .. count
      /\ partition = PartitionAt(images, Following) /\ partition_index # 0
  BY DEF LoadInv, ParserInv, PartitionsInv, LoadingInv
<1>2. /\ Following \in Nat \ {0} /\ Loader!Layable(images)
      /\ Following - 1 \in 1 .. Len(Loader!Partitions(images))
      /\ Following - 1 > Len(images[1].partitions)
  BY <1>1, APartition
<1>3. PICK np, K \in Nat : np = Len(Loader!Partitions(images)) /\ K = Len(images)
  BY ImageSizes DEF BootTypeOK
<1>4. PICK p \in Nat \ {0} : p = Following - 1 /\ Following = p + 1
  BY <1>2, <1>3
<1>5. p \in 1 .. np /\ p <= np /\ p > Len(images[1].partitions)
  BY <1>2, <1>3, <1>4
<1>6. /\ Loader!Partitions(images)[p].dest = (IF boot_step = "ps" THEN 1 ELSE 2)
      /\ DdrUpTo(images, p, ddr, jump_addr)
      /\ boot_step # "pl_wait" => PlUpTo(images, p, pl.holds)
      /\ boot_step = "pl_wait" => Loader!Partitions(images)[p].words > 0
      /\ boot_step = "pl_wait" /\ pl.dma = "done" => pl.holds = 4 * Loader!DataAt(images)[p]
  BY <1>4 DEF LoadInv, LoadingInv
<1>7. Staged(Loader!boot_header_slice, images)
  BY <1>1, <1>3, <1>5, <1>6, StillStaged, Zenon
<1>8. Loader!current = PartitionAt(images, p)
  BY <1>1, <1>3, <1>4 DEF Loader!current, PartitionAt, Loader!PartitionHeader_SIZE
<1>9. /\ Loader!offset = 4 * Loader!DataAt(images)[p]
      /\ Loader!length = 4 * Loader!Partitions(images)[p].words
      /\ Loader!load_addr = Loader!Partitions(images)[p].load
  BY <1>2, <1>3, <1>5, <1>7, <1>8, PartitionRead, Zenon
     DEF Loader!offset, Loader!length, Loader!load_addr
<1> QED BY <1>2, <1>3, <1>4, <1>5, <1>6, <1>9, Zenon

(* The loader is done with the partition before Following.                 *)
LEMMA BackToTheIterator ==
  ASSUME BootTypeOK, LoadInv, boot_step \in {"ps", "pl", "pl_wait"}, boot_step' = "next_partition",
         UNCHANGED <<images, registers, guard, header_len, next_header, index, partition,
                     partition_index, count>>,
         UpTo(images, Following, ddr', jump_addr', pl'.holds)
  PROVE LoadInv'
<1>1. /\ ~ registers /\ header_len = 4 * Loader!DataAt(images)[1] /\ guard
      /\ index \in 2 .. Len(images) /\ next_header = NextHeader(images, index)
      /\ count = Len(images[index].partitions) /\ partition_index \in 0 .. count
      /\ partition = PartitionAt(images, Following)
  BY DEF LoadInv, ParserInv, PartitionsInv
<1>2. Following' = Following
  BY Zenon DEF Following
<1>3. UpTo(images', Following', ddr', jump_addr', pl'.holds)
  BY <1>2, Zenon
<1> QED BY <1>1, <1>2, <1>3 DEF LoadInv, HeaderInv, MetadataInv, ParserInv,
           ImagesInv, NextImageInv, ImageInv, PartitionsInv, LoadingInv, StartInv

(* A partition for the processor is copied whole.                          *)
LEMMA LoadPsStep ==
  ASSUME BootTypeOK, LoadInv, LoadableOf(images), Loader!load_ps PROVE LoadInv'
<1>1. /\ boot_step = "ps"
      /\ UNCHANGED <<images, registers, guard, header_len, next_header, index, partition,
                     partition_index, count, pl>>
      /\ \/ boot_step' = "panic"
         \/ /\ ~ (Loader!load_addr < ELF_BASE_ADDR) /\ boot_step' = "next_partition"
            /\ Loader!copy(Loader!qspi_read(Loader!offset, Loader!length \div 4),
                           Loader!load_addr - ELF_BASE_ADDR)
            /\ jump_addr' = Loader!new_jump_addr(Loader!load_addr)
  BY Zenon DEF Loader!load_ps, Loader!flash_vars, Loader!images_vars, Loader!partition_vars
<1>2. CASE boot_step' = "panic"
  BY <1>2 DEF LoadInv, HeaderInv, MetadataInv, ParserInv, ImagesInv, NextImageInv, ImageInv,
              PartitionsInv, LoadingInv, StartInv
<1>3. CASE /\ ~ (Loader!load_addr < ELF_BASE_ADDR) /\ boot_step' = "next_partition"
           /\ Loader!copy(Loader!qspi_read(Loader!offset, Loader!length \div 4),
                          Loader!load_addr - ELF_BASE_ADDR)
           /\ jump_addr' = Loader!new_jump_addr(Loader!load_addr)
  <2>1. PICK p \in Nat \ {0} :
          /\ Following = p + 1 /\ p \in 1 .. Len(Loader!Partitions(images))
          /\ p > Len(images[1].partitions) /\ Loader!Layable(images)
          /\ Loader!Partitions(images)[p].dest = 1
          /\ DdrUpTo(images, p, ddr, jump_addr) /\ PlUpTo(images, p, pl.holds)
          /\ Loader!offset = 4 * Loader!DataAt(images)[p]
          /\ Loader!length = 4 * Loader!Partitions(images)[p].words
          /\ Loader!load_addr = Loader!Partitions(images)[p].load
    BY <1>1, ThePartition
  <2>2. images \in BootImages /\ IsDdr(ddr) /\ ~ registers /\ guard
    BY <1>1 DEF BootTypeOK, LoadInv, ParserInv, PartitionsInv
  <2>3. p \in LoadedOf(images, 1) /\ p \notin LoadedOf(images, 2)
    <3>1. p \in DOMAIN Loader!Partitions(images)
      <4>1. Loader!Partitions(images) \in Seq(Part_)
        BY <2>1, DataFacts, Zenon
      <4> QED BY <4>1, <2>1
    <3> QED BY <3>1, <2>1 DEF LoadedOf
  <2>4. PICK w, from, l \in Nat : /\ w = Loader!Partitions(images)[p].words
                                /\ from = Loader!DataAt(images)[p]
                                /\ l = Loader!Partitions(images)[p].load
                                /\ from + w <= Len(Loader!Layout(images))
    <3>1. PICK np \in Nat : np = Len(Loader!Partitions(images))
      BY <2>2, ImageSizes
    <3>2. p \in 1 .. np + 1 /\ p + 1 \in 1 .. np + 1 /\ np + 1 \in 1 .. np + 1 /\ p + 1 <= np + 1
      BY <2>1, <3>1
    <3>3. /\ Loader!Partitions(images)[p].words \in Nat /\ Loader!Partitions(images)[p].load \in Nat
          /\ Loader!DataAt(images) \in [1 .. np + 1 -> Nat]
          /\ Loader!DataAt(images)[p + 1] >=
               Loader!DataAt(images)[p] + Loader!Partitions(images)[p].words
          /\ Loader!DataAt(images)[p + 1] <= Loader!DataAt(images)[np + 1]
      BY <2>1, <3>1, <3>2, DataFacts, Zenon
    <3>4. Len(Loader!Layout(images)) = Loader!DataAt(images)[np + 1]
      BY <2>1, <3>1, LayoutFacts, Zenon
    <3>5. PICK w, l, x, y, z \in Nat : /\ w = Loader!Partitions(images)[p].words
                                       /\ l = Loader!Partitions(images)[p].load
                                       /\ x = Loader!DataAt(images)[p]
                                       /\ y = Loader!DataAt(images)[p + 1]
                                       /\ z = Loader!DataAt(images)[np + 1]
      BY <3>2, <3>3
    <3>6. x + w <= z
      BY <3>3, <3>5
    <3> QED BY <3>4, <3>5, <3>6, Zenon
  <2> DEFINE words == Loader!qspi_read(4 * from, w)
  <2>5. /\ DOMAIN words = 1 .. w
        /\ \A i \in 1 .. w : words[i] = Loader!Content(p, i)
    <3>1. /\ DOMAIN words = 1 .. w
          /\ \A i \in 1 .. w : words[i] = Loader!Layout(images)[from + i]
      BY <2>2, <2>4, FlashRead, Zenon
    <3>2. \A i \in 1 .. w : Loader!Layout(images)[from + i] = Loader!Content(p, i)
      BY <2>1, <2>4, LayoutFacts, Zenon
    <3> HIDE DEF words
    <3> QED BY <3>1, <3>2, Zenon
  <2>6. ddr' = CopiedTo(ddr, words, Base(images, p))
    <3>1. Loader!length \div 4 = w
      <4>1. (4 * w) \div 4 = w
        OBVIOUS
      <4> QED BY <4>1, <2>1, <2>4, Zenon
    <3>2. Loader!qspi_read(Loader!offset, Loader!length \div 4) = words
      BY <3>1, <2>1, <2>4, Zenon
    <3> HIDE DEF words
    <3>3. Loader!copy(words, Loader!load_addr - ELF_BASE_ADDR)
      BY <3>2, <1>3, Zenon
    <3>4. ddr' = CopiedTo(ddr, words, (Loader!load_addr - ELF_BASE_ADDR) \div 4)
      BY <3>3, Copies, Zenon
    <3> QED BY <3>4, <2>1, Zenon DEF Base
  <2> HIDE DEF words
  <2>7. l >= ELF_BASE_ADDR
    <3>1. ELF_BASE_ADDR \in Nat
      BY MCSystemAssumption DEF Loader!BootAssumption
    <3>2. ~ (l < ELF_BASE_ADDR)
      BY <1>3, <2>1, <2>4, Zenon
    <3> QED BY <3>1, <3>2
  <2>8. jump_addr' = IF jump_addr = Loader!None \/ Loader!Partitions(images)[p].load < jump_addr
                     THEN Loader!Partitions(images)[p].load ELSE jump_addr
    BY <1>3, <2>1, Zenon DEF Loader!new_jump_addr
  <2>9. DdrUpTo(images, p + 1, ddr', jump_addr')
    <3>1. /\ DOMAIN words = 1 .. Loader!Partitions(images)[p].words
          /\ \A i \in 1 .. Loader!Partitions(images)[p].words : words[i] = Loader!Content(p, i)
          /\ Loader!Partitions(images)[p].load >= ELF_BASE_ADDR
      BY <2>4, <2>5, <2>7, Zenon
    <3>2. LET new == CopiedTo(ddr, words, Base(images, p))
              lowest == IF jump_addr = Loader!None \/ Loader!Partitions(images)[p].load < jump_addr
                        THEN Loader!Partitions(images)[p].load ELSE jump_addr
          IN DdrUpTo(images, p + 1, new, lowest)
      BY <3>1, <2>1, <2>2, <2>3, PsLoaded
    <3> QED BY <3>2, <2>6, <2>8, Zenon
  <2>10. PlUpTo(images, p + 1, pl.holds)
    BY <2>1, <2>3, NotForPl, Zenon
  <2>11. UpTo(images, Following, ddr', jump_addr', pl'.holds)
    BY <2>1, <2>9, <2>10, <1>1, Zenon DEF UpTo
  <2> QED BY <2>11, <1>1, <1>3, BackToTheIterator
<1> QED BY <1>1, <1>2, <1>3

(* A partition for the PL is given to the DMA unless it is empty.          *)
LEMMA StartDmaStep ==
  ASSUME BootTypeOK, LoadInv, Loader!start_dma PROVE LoadInv'
<1>1. /\ boot_step = "pl"
      /\ UNCHANGED <<images, registers, ddr, guard, header_len, next_header, index, partition,
                     partition_index, count, jump_addr>>
      /\ \/ boot_step' = "panic"
         \/ Loader!length = 0 /\ boot_step' = "next_partition" /\ UNCHANGED pl
         \/ /\ Loader!length # 0 /\ boot_step' = "pl_wait"
            /\ \E outcome \in {"runs", "failed"} : pl' = [pl EXCEPT !.dma = outcome]
  BY Zenon DEF Loader!start_dma, Loader!flash_vars, Loader!images_vars, Loader!partition_vars
<1>2. PICK p \in Nat \ {0} :
        /\ Following = p + 1 /\ p \in 1 .. Len(Loader!Partitions(images))
        /\ Loader!Layable(images) /\ Loader!Partitions(images)[p].dest = 2
        /\ DdrUpTo(images, p, ddr, jump_addr) /\ PlUpTo(images, p, pl.holds)
        /\ Loader!length = 4 * Loader!Partitions(images)[p].words
  BY <1>1, ThePartition
<1>3. PICK w \in Nat : w = Loader!Partitions(images)[p].words /\ Loader!length = 4 * w
  BY <1>2, DataFacts
<1>4. CASE boot_step' = "panic"
  BY <1>4 DEF LoadInv, HeaderInv, MetadataInv, ParserInv, ImagesInv, NextImageInv, ImageInv,
              PartitionsInv, LoadingInv, StartInv
<1>5. CASE Loader!length = 0 /\ boot_step' = "next_partition" /\ UNCHANGED pl
  <2>1. p \notin LoadedOf(images, 1) /\ p \notin LoadedOf(images, 2)
    <3>1. ~ (Loader!Partitions(images)[p].words > 0)
      BY <1>3, <1>5
    <3> QED BY <3>1, <1>2 DEF LoadedOf
  <2>2. UpTo(images, p + 1, ddr, jump_addr, pl.holds)
    BY <2>1, <1>2, NotLoaded, NotForPl, Zenon DEF UpTo
  <2>3. UpTo(images, Following, ddr', jump_addr', pl'.holds)
    BY <2>2, <1>1, <1>2, <1>5, Zenon
  <2> QED BY <2>3, <1>1, <1>5, BackToTheIterator
<1>6. CASE /\ Loader!length # 0 /\ boot_step' = "pl_wait"
           /\ \E outcome \in {"runs", "failed"} : pl' = [pl EXCEPT !.dma = outcome]
  <2>1. pl'.dma # "done"
    BY <1>6 DEF BootTypeOK
  <2>2. Loader!Partitions(images)[p].words > 0
    BY <1>3, <1>6
  <2>3. Following' = Following /\ Following - 1 = p
    BY <1>1, <1>2 DEF Following
  <2>4. /\ ~ registers /\ header_len = 4 * Loader!DataAt(images)[1] /\ guard
        /\ index \in 2 .. Len(images) /\ next_header = NextHeader(images, index)
        /\ count = Len(images[index].partitions) /\ partition_index \in 0 .. count
        /\ partition = PartitionAt(images, Following) /\ partition_index # 0
    BY <1>1 DEF LoadInv, ParserInv, PartitionsInv, LoadingInv
  <2> QED BY <2>1, <2>2, <2>3, <2>4, <1>1, <1>2, <1>6 DEF LoadInv, HeaderInv, MetadataInv,
             ParserInv, ImagesInv, NextImageInv, ImageInv, PartitionsInv, LoadingInv, StartInv
<1> QED BY <1>1, <1>4, <1>5, <1>6

(* The DMA ends with the partition in the PL.                              *)
LEMMA DmaDoneStep ==
  ASSUME BootTypeOK, LoadInv, Loader!dma_done PROVE LoadInv'
<1>1. /\ boot_step = "pl_wait"
      /\ UNCHANGED <<images, registers, ddr, boot_step, guard, header_len, next_header, index,
                     partition, partition_index, count, jump_addr>>
      /\ pl' = [pl EXCEPT !.dma = "done",
                          !.holds = IF guard /\ ~ registers THEN Loader!offset ELSE Loader!GARBAGE]
  BY DEF Loader!dma_done, Loader!flash_vars, Loader!images_vars, Loader!partition_vars, BootTypeOK
<1>2. PICK p \in Nat \ {0} :
        /\ Following = p + 1 /\ Loader!Partitions(images)[p].dest = 2
        /\ DdrUpTo(images, p, ddr, jump_addr) /\ Loader!Partitions(images)[p].words > 0
        /\ Loader!offset = 4 * Loader!DataAt(images)[p]
  BY <1>1, ThePartition
<1>3. /\ ~ registers /\ header_len = 4 * Loader!DataAt(images)[1] /\ guard
      /\ index \in 2 .. Len(images) /\ next_header = NextHeader(images, index)
      /\ count = Len(images[index].partitions) /\ partition_index \in 0 .. count
      /\ partition = PartitionAt(images, Following) /\ partition_index # 0
  BY <1>1 DEF LoadInv, ParserInv, PartitionsInv, LoadingInv
<1>4. pl'.holds = 4 * Loader!DataAt(images)[p]
  BY <1>1, <1>2, <1>3 DEF BootTypeOK
<1>5. Following' = Following /\ Following - 1 = p
  BY <1>1, <1>2 DEF Following
<1> QED BY <1>1, <1>2, <1>3, <1>4, <1>5 DEF LoadInv, HeaderInv, MetadataInv,
           ParserInv, ImagesInv, NextImageInv, ImageInv, PartitionsInv, LoadingInv, StartInv

(* The loader has seen the end of the DMA.                                 *)
LEMMA EndPlStep ==
  ASSUME BootTypeOK, LoadInv, Loader!end_pl PROVE LoadInv'
<1>1. /\ boot_step = "pl_wait" /\ boot_step' = "next_partition" /\ pl.dma = "done"
      /\ UNCHANGED <<images, registers, ddr, guard, header_len, next_header, index,
                     partition, partition_index, count, jump_addr>>
      /\ pl' = [pl EXCEPT !.dma = "idle"]
  BY DEF Loader!end_pl, Loader!flash_vars, Loader!images_vars, Loader!partition_vars
<1>2. PICK p \in Nat \ {0} :
        /\ Following = p + 1 /\ p \in 1 .. Len(Loader!Partitions(images))
        /\ p > Len(images[1].partitions) /\ Loader!Layable(images)
        /\ Loader!Partitions(images)[p].dest = 2
        /\ DdrUpTo(images, p, ddr, jump_addr) /\ Loader!Partitions(images)[p].words > 0
        /\ pl.holds = 4 * Loader!DataAt(images)[p]
  BY <1>1, ThePartition
<1>3. p \in LoadedOf(images, 2) /\ p \notin LoadedOf(images, 1)
  <2>1. p \in DOMAIN Loader!Partitions(images)
    <3>1. Loader!Partitions(images) \in Seq(Part_)
      BY <1>2, DataFacts, Zenon
    <3> QED BY <3>1, <1>2
  <2> QED BY <2>1, <1>2 DEF LoadedOf
<1>4. PlUpTo(images, p + 1, pl.holds)
  BY <1>2, <1>3, PlLoaded, Zenon
<1>5. DdrUpTo(images, p + 1, ddr, jump_addr)
  BY <1>2, <1>3, NotLoaded, Zenon
<1>6. pl'.holds = pl.holds
  BY <1>1 DEF BootTypeOK
<1>7. UpTo(images, Following, ddr', jump_addr', pl'.holds)
  BY <1>1, <1>2, <1>4, <1>5, <1>6, Zenon DEF UpTo
<1> QED BY <1>7, <1>1, BackToTheIterator

(* The PL leaves its reset with what it holds.                             *)
LEMMA DeassertResetStep ==
  ASSUME BootTypeOK, LoadInv, Loader!deassert_reset PROVE LoadInv'
<1>1. /\ boot_step = "deassert_reset" /\ boot_step' \in {"panic", "clean_l1"}
      /\ pl' = [pl EXCEPT !.reset = FALSE] /\ UNCHANGED <<images, ddr, guard, jump_addr>>
  BY DEF Loader!deassert_reset, Loader!flash_vars
<1>2. ~ pl'.reset /\ pl'.holds = pl.holds
  BY <1>1 DEF BootTypeOK
<1>3. /\ ~ guard
      /\ UpTo(images, Len(Loader!Partitions(images)) + 1, ddr, jump_addr, pl.holds)
  BY <1>1 DEF LoadInv, StartInv
<1>4. UpTo(images', Len(Loader!Partitions(images')) + 1, ddr', jump_addr', pl'.holds)
  BY <1>1, <1>2, <1>3, Zenon
<1> QED BY <1>1, <1>2, <1>3, <1>4 DEF LoadInv, HeaderInv, MetadataInv,
           ParserInv, ImagesInv, NextImageInv, ImageInv, PartitionsInv, LoadingInv, StartInv

(* The caches are cleaned, the second after the first.                     *)
LEMMA CleanStep ==
  ASSUME BootTypeOK, LoadInv, Loader!clean_l1 \/ Loader!clean_l2 PROVE LoadInv'
<1>1. /\ UNCHANGED <<images, ddr, guard, jump_addr, pl>>
      /\ \/ boot_step = "clean_l1" /\ boot_step' = "clean_l2" /\ "L1" \notin unclean'
         \/ boot_step = "clean_l2" /\ boot_step' = "jump" /\ unclean' = unclean \ {"L2"}
  BY DEF Loader!clean_l1, Loader!clean_l2, Loader!flash_vars
<1>2. /\ ~ guard /\ ~ pl.reset
      /\ boot_step = "clean_l2" => "L1" \notin unclean
      /\ UpTo(images, Len(Loader!Partitions(images)) + 1, ddr, jump_addr, pl.holds)
  BY <1>1 DEF LoadInv, StartInv
<1>3. boot_step = "clean_l2" => unclean' = {}
  <2>1. unclean \subseteq {"L1", "L2"}
    BY DEF BootTypeOK
  <2>2. boot_step = "clean_l2" => unclean' = unclean \ {"L2"}
    BY <1>1
  <2> QED BY <2>1, <2>2, <1>2
<1> QED BY <1>1, <1>2, <1>3 DEF LoadInv, HeaderInv, MetadataInv,
           ParserInv, ImagesInv, NextImageInv, ImageInv, PartitionsInv, LoadingInv, StartInv

(* An eviction changes neither DDR nor what is loaded.                     *)
LEMMA EvictStep ==
  ASSUME LoadInv, Loader!evict PROVE LoadInv'
<1>1. /\ UNCHANGED <<images, registers, ddr, boot_step, guard, header_len, header, next_header, index,
                     partition, partition_index, count, jump_addr, pl>>
      /\ "L1" \in unclean /\ unclean' = unclean \cup {"L2"}
  BY Zenon DEF Loader!evict, Loader!flash_vars, Loader!images_vars, Loader!partition_vars
<1>2. Following' = Following
  BY <1>1, Zenon DEF Following
<1>3. StartInv'
  <2>1. boot_step # "clean_l2" /\ boot_step # "jump"
    BY <1>1 DEF LoadInv, StartInv
  <2> QED BY <2>1, <1>1 DEF LoadInv, StartInv
<1>4. /\ HeaderInv' /\ MetadataInv' /\ ParserInv' /\ ImagesInv' /\ NextImageInv' /\ ImageInv'
      /\ PartitionsInv' /\ LoadingInv'
  BY <1>1, <1>2 DEF LoadInv, HeaderInv, MetadataInv, ParserInv, ImagesInv, NextImageInv, ImageInv,
                    PartitionsInv, LoadingInv
<1> QED BY <1>3, <1>4, Zenon DEF LoadInv

(* The flash answers again, and a header of garbage stays one.             *)
LEMMA RegistersWrittenStep ==
  ASSUME LoadInv, Loader!registers_written PROVE LoadInv'
<1>1. /\ UNCHANGED <<images, ddr, unclean, boot_step, guard, header_len, header, next_header, index,
                     partition, partition_index, count, jump_addr, pl>>
      /\ registers /\ registers' = FALSE
  BY Zenon DEF Loader!registers_written, Loader!flash_vars, Loader!images_vars, Loader!partition_vars
<1>2. Following' = Following
  BY <1>1, Zenon DEF Following
<1>3. HeaderOrGarbage(images, registers, ddr) => HeaderOrGarbage(images', registers', ddr')
  BY <1>1, Zenon DEF HeaderOrGarbage
<1>4. HeaderInv'
  BY <1>1, <1>3 DEF LoadInv, HeaderInv
<1>5. /\ MetadataInv' /\ ParserInv' /\ ImagesInv' /\ NextImageInv' /\ ImageInv'
      /\ PartitionsInv' /\ LoadingInv' /\ StartInv'
  BY <1>1, <1>2 DEF LoadInv, MetadataInv, ParserInv, ImagesInv, NextImageInv, ImageInv,
                    PartitionsInv, LoadingInv, StartInv
<1> QED BY <1>4, <1>5, Zenon DEF LoadInv

(* Nothing changes.                                                        *)
LEMMA LoadInvUnchanged ==
  ASSUME LoadInv, UNCHANGED Loader!bootVars PROVE LoadInv'
<1>1. UNCHANGED <<images, registers, ddr, unclean, boot_step, guard, header_len, header, next_header,
                  index, partition, partition_index, count, jump_addr, pl>>
  BY Zenon DEF Loader!bootVars
<1>2. Following' = Following
  BY <1>1, Zenon DEF Following
<1>3. HeaderOrGarbage(images, registers, ddr) => HeaderOrGarbage(images', registers', ddr')
  BY <1>1, Zenon
<1> QED BY <1>1, <1>2, <1>3 DEF LoadInv, HeaderInv, MetadataInv, ParserInv, ImagesInv, NextImageInv,
           ImageInv, PartitionsInv, LoadingInv, StartInv

(* One step of the loader, whichever.                                      *)
LEMMA LoadInvStep ==
  ASSUME BootTypeOK, LoadInv, LoadableOf(images), [Loader!BootNext]_(Loader!bootVars) PROVE LoadInv'
<1>1. CASE Loader!BootNext
  BY <1>1, GuardStep, ReadHeaderStep, CheckHeaderStep, ReadMetadataStep, IterateImagesStep,
     NextImageStep, IteratePartitionsStep, NextPartitionStep, LoadPsStep, StartDmaStep, DmaDoneStep,
     EndPlStep, DeassertResetStep, CleanStep, EvictStep, RegistersWrittenStep, Zenon
     DEF Loader!BootNext, Loader!qspi_boot
<1>2. CASE UNCHANGED Loader!bootVars
  BY <1>2, LoadInvUnchanged, Zenon
<1> QED BY <1>1, <1>2, Zenon

(* Once the iterators are through, everything is loaded.                   *)
LEMMA LoadedBeforeTheJump ==
  ASSUME BootInv PROVE Loader!JumpsToWhole
<1>1. SUFFICES ASSUME boot_step = "jump", Loader!Loadable
               PROVE /\ unclean = {}
                     /\ \A p \in Loader!Loaded(1) : \A i \in Loader!Extent(p) :
                           ddr[i] = Loader!Content(p, i - (Loader!Partitions(images)[p].load
                                                           - ELF_BASE_ADDR) \div 4)
                     /\ jump_addr \in {Loader!Partitions(images)[p].load : p \in Loader!Loaded(1)}
                     /\ \A p \in Loader!Loaded(1) : jump_addr <= Loader!Partitions(images)[p].load
                     /\ \A p \in Loader!Loaded(2) : (\A q \in Loader!Loaded(2) : q <= p) =>
                           pl.holds = 4 * Loader!DataAt(images)[p]
                     /\ ~ pl.reset /\ ~ guard
  BY DEF Loader!JumpsToWhole
<1>2. \A e : Loader!Loaded(e) = LoadedOf(images, e)
  BY Zenon DEF Loader!Loaded, LoadedOf, Loader!Skipped
<1>3. \A p : Loader!Extent(p) = ExtentOf(images, p)
  BY Zenon DEF Loader!Extent, ExtentOf, Base
<1>4. LoadableOf(images)
  BY <1>1, <1>2, <1>3, Zenon DEF LoadableOf, Loader!Loadable, Loader!metadata_words, MetadataWords
<1>5. /\ ~ guard /\ ~ pl.reset /\ unclean = {}
      /\ UpTo(images, Len(Loader!Partitions(images)) + 1, ddr, jump_addr, pl.holds)
  BY <1>1, <1>4 DEF BootInv, LoadInv, StartInv
<1>6. PICK n \in Nat : n = Len(Loader!Partitions(images))
  BY ImageSizes DEF BootInv, BootTypeOK
<1>7. Loader!Layable(images)
  BY ImageSizes DEF BootInv, BootTypeOK
<1>8. \A e : LoadedBefore(images, e, n + 1) = LoadedOf(images, e)
  <2>1. \A e : \A p \in LoadedOf(images, e) : p < n + 1
    <3>1. \A e : \A p \in LoadedOf(images, e) : p \in 1 .. n
      BY <1>6, <1>7, LoadedFacts, Zenon
    <3> QED BY <3>1
  <2> QED BY <2>1, Zenon DEF LoadedBefore
<1>9. /\ \A p \in LoadedOf(images, 1) : PartitionHeld(images, ddr, p)
      /\ LowestOf(images, n + 1, jump_addr)
      /\ \A p \in LoadedOf(images, 2) : (\A q \in LoadedOf(images, 2) : q <= p) =>
            pl.holds = 4 * Loader!DataAt(images)[p]
  BY <1>5, <1>6, <1>8, Zenon DEF UpTo, DdrUpTo, PlUpTo
<1>10. /\ \E p \in LoadedOf(images, 1) : jump_addr = Loader!Partitions(images)[p].load
       /\ \A p \in LoadedOf(images, 1) : jump_addr <= Loader!Partitions(images)[p].load
  <2>1. LoadedOf(images, 1) # {}
    BY <1>4, Zenon DEF LoadableOf
  <2> QED BY <2>1, <1>8, <1>9, Zenon DEF LowestOf
<1>11. \A p \in LoadedOf(images, 1) : \A i \in ExtentOf(images, p) :
          ddr[i] = Loader!Content(p, i - (Loader!Partitions(images)[p].load - ELF_BASE_ADDR) \div 4)
  BY <1>9, Zenon DEF PartitionHeld, Base
<1>12. jump_addr \in {Loader!Partitions(images)[p].load : p \in Loader!Loaded(1)}
  BY <1>2, <1>10, Zenon
<1> QED BY <1>2, <1>3, <1>5, <1>9, <1>10, <1>11, <1>12, Zenon

(* The loader jumps only when each partition for DDR is where its header   *)
(* says, and the lowest load address is where it jumps to, the bitstream is *)
(* in the PL, caches are clean and the flash's guard is dropped: load_image *)
(* zedboard-fsbl, for every image that DDR has room for.                   *)
THEOREM LoaderJumpsToWhole == Loader!BootSpec => []JumpsToWhole
<1>1. Loader!BootInit => BootInv
  BY BootTypeInit, LoadInvInit, Zenon DEF BootInv
<1>2. BootInv /\ [Loader!BootNext]_(Loader!bootVars) => BootInv'
  <2>1. SUFFICES ASSUME BootInv, [Loader!BootNext]_(Loader!bootVars) PROVE BootInv'
    OBVIOUS
  <2>2. BootTypeOK'
    BY <2>1, BootTypeStep, Zenon DEF BootInv, loaderVars, Loader!bootVars
  <2>3. images' = images
    BY <2>1, Zenon DEF Loader!bootVars, Loader!BootNext, Loader!qspi_boot, Loader!flash_vars,
       Loader!read_guard, Loader!read_header, Loader!check_header, Loader!read_metadata,
       Loader!iterate_images, Loader!next_image, Loader!iterate_partitions, Loader!next_partition,
       Loader!load_ps, Loader!start_dma, Loader!dma_done, Loader!end_pl, Loader!deassert_reset,
       Loader!clean_l1, Loader!clean_l2, Loader!evict, Loader!registers_written
  <2>4. LoadableOf(images') => LoadInv'
    <3>1. LoadableOf(images') => LoadableOf(images)
      BY <2>3, Zenon
    <3> QED BY <3>1, <2>1, LoadInvStep, Zenon DEF BootInv
  <2> QED BY <2>2, <2>4, Zenon DEF BootInv
<1>3. BootInv => JumpsToWhole
  BY LoadedBeforeTheJump, Zenon DEF JumpsToWhole
<1> QED BY <1>1, <1>2, <1>3, PTL DEF Loader!BootSpec
=============================================================================
