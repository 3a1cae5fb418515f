---------------------------- MODULE SeriesProofs ----------------------------
(***************************************************************************)
(* What the series of ITGDec hold, for any flows, records and intervals:   *)
(* the rows of the bitrate series the bytes of their intervals, and all    *)
(* rows together the total bytes and losses.                               *)
(*                                                                         *)
(* A row of a file is what the records of its interval add (SeriesFound,   *)
(* by induction over the records of the file); what the records of all     *)
(* files weigh is what the records of the log weigh, whatever the weight   *)
(* of a record (FilesMade, by induction over the steps of ITGDec); the     *)
(* weight that is a record's size inside the interval, and 0 outside, is   *)
(* a row of the merged series (BitRows).                                   *)
(***************************************************************************)
EXTENDS MeasurementProofs

-----------------------------------------------------------------------------
(* Sums over the numbers up to some number. *)

\* The sum over the numbers up to n of integers is one.
LEMMA SumTypes ==
  ASSUME NEW n \in Nat, NEW F \in [1 .. n -> Int]
  PROVE  SumFunction(F) \in Int
<1> DEFINE S == 1 .. n
<1>1. IsFiniteSet(S) /\ F \in [S -> Int]
  BY FS_Interval
<1> HIDE DEF S
<1>2. \E I : /\ I \in [SUBSET S -> Int] /\ I[{}] = 0 /\ SumFunction(F) = I[S]
             /\ InAnyOrder(I, S, F)
  BY <1>1, SumsUp
<1>3. S \in SUBSET S
  OBVIOUS
<1> QED
  BY <1>2, <1>3

DiffersAt(F, G, S, k) ==
  F \in [S -> Int] /\ G \in [S -> Int] /\ k \in S /\ \A i \in S \ {k} : G[i] = F[i]
LEMMA SumDiffers ==
  ASSUME NEW S, IsFiniteSet(S), NEW F, NEW G, NEW k, DiffersAt(F, G, S, k)
  PROVE  SumFunction(F) \in Int /\ SumFunction(G) = (SumFunction(F) - F[k]) + G[k]
<1>1. F \in [S -> Int] /\ G \in [S -> Int] /\ k \in S /\ \A i \in S \ {k} : G[i] = F[i]
  BY DEF DiffersAt
<1> QED
  BY <1>1, SumChange

\* A sum is added up step by step.
AddedUp(C, n, F) == C \in [0 .. n -> Int] /\ C[0] = 0 /\ \A i \in 1 .. n : C[i] = C[i - 1] + F[i]
LEMMA SumSteps ==
  ASSUME NEW n \in Nat, NEW F \in [1 .. n -> Int]
  PROVE  \E C : AddedUp(C, n, F) /\ SumFunction(F) = C[n]
<1> DEFINE Part(i) == [j \in 1 .. i |-> F[j]]
           C == [i \in 0 .. n |-> SumFunction(Part(i))]
<1>1. ASSUME NEW i \in 0 .. n PROVE i \in Nat /\ Part(i) \in [1 .. i -> Int]
  <2>1. 1 .. i \subseteq 1 .. n
    OBVIOUS
  <2> QED
    BY <2>1
<1>2. C \in [0 .. n -> Int]
  <2>1. \A i \in 0 .. n : SumFunction(Part(i)) \in Int
    <3> HIDE DEF Part
    <3> QED
      BY <1>1, SumTypes
  <2> QED
    BY <2>1
<1>3. C[0] = 0
  <2>1. Part(0) \in [{} -> Int] /\ C[0] = SumFunction(Part(0))
    OBVIOUS
  <2> HIDE DEF Part, C
  <2> QED
    BY <2>1, SumNone
<1>4. ASSUME NEW i \in 1 .. n PROVE C[i] = C[i - 1] + F[i]
  <2>1. i - 1 \in Nat /\ i - 1 \in 0 .. n /\ i \in 0 .. n /\ (i - 1) + 1 = i
    OBVIOUS
  <2>2. PICK k \in Nat : k = i - 1 /\ k + 1 = i
    BY <2>1
  <2>3. Part(k) \in [1 .. k -> Int] /\ Part(k + 1) \in [1 .. k + 1 -> Int]
    BY <1>1, <2>1, <2>2
  <2>4. Part(k + 1)[k + 1] = F[i] /\ \A j \in 1 .. k : Part(k + 1)[j] = Part(k)[j]
    BY <2>2
  <2>5. C[i] = SumFunction(Part(k + 1)) /\ C[i - 1] = SumFunction(Part(k))
    BY <2>1, <2>2
  <2> DEFINE G == Part(k)
             H == Part(k + 1)
  <2> HIDE DEF G, H, Part, C
  <2>6. G \in [1 .. k -> Int] /\ H \in [1 .. k + 1 -> Int] /\ H[k + 1] = F[i] /\ \A j \in 1 .. k : H[j] = G[j]
    BY <2>3, <2>4 DEF G, H
  <2>7. SumFunction(H) = SumFunction(G) + H[k + 1]
    BY <2>6, SumAppend
  <2> QED
    BY <2>5, <2>6, <2>7 DEF G, H
<1>5. SumFunction(F) = C[n]
  <2>1. Part(n) = F
    OBVIOUS
  <2> QED
    BY <2>1
<1> HIDE DEF C
<1> QED
  BY <1>2, <1>3, <1>4, <1>5 DEF AddedUp

\* Two sums of the same values are the same.
LEMMA SumSame ==
  ASSUME NEW n \in Nat, NEW F, NEW G, NEW C, NEW D, AddedUp(C, n, F), AddedUp(D, n, G),
         \A i \in 1 .. n : F[i] = G[i]
  PROVE  C[n] = D[n]
<1>1. C[0] = D[0]
  BY DEF AddedUp
<1>2. \A i \in 1 .. n : C[i - 1] = D[i - 1] => C[i] = D[i]
  BY DEF AddedUp
<1>3. SameSteps(C, D, n)
  BY <1>1, <1>2 DEF SameSteps
<1> QED
  BY <1>3, SameAtLast

\* Sums of sums.
LEMMA SumPlus ==
  ASSUME NEW n \in Nat, NEW F \in [1 .. n -> Int], NEW G \in [1 .. n -> Int], NEW H \in [1 .. n -> Int],
         \A i \in 1 .. n : H[i] = F[i] + G[i]
  PROVE  SumFunction(H) = SumFunction(F) + SumFunction(G)
<1>1. PICK C : AddedUp(C, n, F) /\ SumFunction(F) = C[n]
  BY SumSteps
<1>2. PICK D : AddedUp(D, n, G) /\ SumFunction(G) = D[n]
  BY SumSteps
<1>3. PICK E : AddedUp(E, n, H) /\ SumFunction(H) = E[n]
  BY SumSteps
<1> DEFINE P == [i \in 0 .. n |-> C[i] + D[i]]
<1>4. E[0] = P[0]
  BY <1>1, <1>2, <1>3 DEF AddedUp
<1>5. ASSUME NEW i \in 1 .. n, E[i - 1] = P[i - 1] PROVE E[i] = P[i]
  <2>1. i \in 0 .. n /\ i - 1 \in 0 .. n
    OBVIOUS
  <2>2. PICK c \in Int, d \in Int, f \in Int, g \in Int :
          c = C[i - 1] /\ d = D[i - 1] /\ f = F[i] /\ g = G[i]
    BY <1>1, <1>2, <2>1 DEF AddedUp
  <2>3. C[i] = c + f /\ D[i] = d + g /\ E[i] = E[i - 1] + (f + g) /\ E[i - 1] = c + d
    BY <1>1, <1>2, <1>3, <1>5, <2>1, <2>2 DEF AddedUp
  <2>4. P[i] = (c + f) + (d + g) /\ E[i] = (c + d) + (f + g)
    BY <2>1, <2>3
  <2> QED
    BY <2>4
<1> HIDE DEF P
<1>6. E[n] = P[n]
  BY <1>4, <1>5, SameAtLast DEF SameSteps
<1>7. n \in 0 .. n /\ P[n] = C[n] + D[n]
  BY DEF P
<1> QED
  BY <1>1, <1>2, <1>3, <1>6, <1>7

\* Values that are not there add nothing, apart from one of them.
Padded(F, G, n, k) ==
  /\ F \in [1 .. n -> Int] /\ G \in [1 .. n + k -> Int]
  /\ \A i \in 1 .. n : G[i] = F[i]
  /\ \A i \in n + 1 .. n + k : G[i] = 0
LEMMA SumZeros ==
  ASSUME NEW n \in Nat, NEW k \in Nat, NEW F, NEW G, Padded(F, G, n, k)
  PROVE  SumFunction(G) = SumFunction(F)
<1> USE DEF Padded
<1>1. PICK C : AddedUp(C, n, F) /\ SumFunction(F) = C[n]
  BY SumSteps
<1>2. PICK D : AddedUp(D, n + k, G) /\ SumFunction(G) = D[n + k]
  <2>1. n + k \in Nat
    OBVIOUS
  <2> QED
    BY <2>1, SumSteps
<1>3. C[n] = D[n]
  <2>1. /\ 0 .. n \subseteq 0 .. n + k /\ 1 .. n \subseteq 1 .. n + k
        /\ D[0] = 0 /\ \A i \in 1 .. n + k : D[i] = D[i - 1] + G[i]
        /\ C[0] = 0 /\ \A i \in 1 .. n : C[i] = C[i - 1] + F[i]
    BY <1>1, <1>2 DEF AddedUp
  <2>2. C[0] = D[0] /\ \A i \in 1 .. n : C[i - 1] = D[i - 1] => C[i] = D[i]
    BY <2>1
  <2> QED
    BY <2>2, SameAtLast DEF SameSteps
<1> DEFINE E == [i \in 0 .. k |-> D[n + i]]
           Z == [i \in 0 .. k |-> D[n]]
<1>4. E[0] = Z[0]
  BY SMT
<1>5. ASSUME NEW i \in 1 .. k, E[i - 1] = Z[i - 1] PROVE E[i] = Z[i]
  <2>1. /\ n + i \in 1 .. n + k /\ n + i \in n + 1 .. n + k /\ (n + i) - 1 = n + (i - 1) /\ n + (i - 1) \in 0 .. n + k
        /\ i \in 0 .. k /\ i - 1 \in 0 .. k
    OBVIOUS
  <2>2. D[n + i] = D[(n + i) - 1] + G[n + i] /\ G[n + i] = 0 /\ D[n + (i - 1)] \in Int
    BY <1>2, <2>1 DEF AddedUp
  <2>3. D[n + i] = D[n + (i - 1)]
    BY <2>1, <2>2
  <2> QED
    BY <1>5, <2>1, <2>3
<1>6. E[k] = Z[k]
  <2> HIDE DEF E, Z
  <2> QED
    BY <1>4, <1>5, SameAtLast DEF SameSteps
<1>7. D[n + k] = D[n]
  <2>1. k \in 0 .. k
    OBVIOUS
  <2> QED
    BY <1>6, <2>1
<1> QED
  BY <1>1, <1>2, <1>3, <1>7

\* One number among zeroes at the end is what it adds to the sum.
LEMMA SumSpike ==
  ASSUME NEW n \in Nat, NEW k \in Nat, NEW F \in [1 .. n -> Int], NEW G \in [1 .. n + k -> Int],
         \A i \in 1 .. n : G[i] = F[i], NEW p \in n + 1 .. n + k, \A i \in n + 1 .. n + k : i # p => G[i] = 0
  PROVE  SumFunction(G) = SumFunction(F) + G[p]
<1> DEFINE S == 1 .. n + k
           H == [G EXCEPT ![p] = 0]
<1>1. p \in S /\ IsFiniteSet(S) /\ H \in [S -> Int] /\ H[p] = 0 /\ \A i \in S \ {p} : H[i] = G[i]
  <2>1. n + k \in Nat /\ 0 \in Int
    OBVIOUS
  <2> QED
    BY <2>1, FS_Interval
<1> HIDE DEF H
<1>2. SumFunction(H) = SumFunction(F)
  <2>1. \A i \in 1 .. n : H[i] = F[i]
    BY <1>1
  <2>2. \A i \in n + 1 .. n + k : H[i] = 0
    BY <1>1
  <2>3. H \in [1 .. n + k -> Int]
    BY <1>1
  <2>4. Padded(F, H, n, k)
    BY <2>1, <2>2, <2>3 DEF Padded
  <2> QED
    BY <2>4, SumZeros
<1>3. SumFunction(H) \in Int /\ SumFunction(G) = (SumFunction(H) - H[p]) + G[p]
  <2>1. G \in [S -> Int] /\ \A i \in S \ {p} : G[i] = H[i]
    BY <1>1
  <2>2. DiffersAt(H, G, S, p)
    BY <1>1, <2>1 DEF DiffersAt
  <2> HIDE DEF S
  <2> QED
    BY SMTT(30), <1>1, <2>2, SumDiffers
<1> QED
  BY <1>1, <1>2, <1>3

\* The sum of no more than zeros.
LEMMA SumNothing ==
  ASSUME NEW n \in Nat, NEW F \in [1 .. n -> Int], \A i \in 1 .. n : F[i] = 0
  PROVE  SumFunction(F) = 0
<1>1. PICK C : AddedUp(C, n, F) /\ SumFunction(F) = C[n]
  BY SumSteps
<1> DEFINE Z == [i \in 0 .. n |-> 0]
<1>2. SameSteps(C, Z, n)
  <2>1. C[0] = Z[0]
    BY <1>1 DEF AddedUp
  <2>2. ASSUME NEW i \in 1 .. n, C[i - 1] = Z[i - 1] PROVE C[i] = Z[i]
    <3>1. i - 1 \in 0 .. n /\ i \in 0 .. n
      OBVIOUS
    <3> QED
      BY <1>1, <2>2, <3>1 DEF AddedUp
  <2> HIDE DEF Z
  <2> QED
    BY <2>1, <2>2 DEF SameSteps
<1>3. C[n] = Z[n]
  <2> HIDE DEF Z
  <2> QED
    BY <1>2, SameAtLast
<1> QED
  BY <1>1, <1>3

\* What is lost between two numbers, one after the other.
LEMMA SumTelescopes ==
  ASSUME NEW n \in Nat, NEW L \in [0 .. n -> Int], NEW F \in [1 .. n -> Int], L[0] = 0,
         \A i \in 1 .. n : F[i] = L[i] - L[i - 1]
  PROVE  SumFunction(F) = L[n]
<1>1. PICK C : AddedUp(C, n, F) /\ SumFunction(F) = C[n]
  BY SumSteps
<1>2. SameSteps(C, L, n)
  <2>1. C[0] = L[0]
    BY <1>1 DEF AddedUp
  <2>2. ASSUME NEW i \in 1 .. n, C[i - 1] = L[i - 1] PROVE C[i] = L[i]
    <3>1. i - 1 \in 0 .. n /\ i \in 0 .. n
      OBVIOUS
    <3>2. PICK a \in Int, b \in Int : a = L[i - 1] /\ b = L[i]
      BY <3>1
    <3>3. C[i] = a + (b - a)
      BY <1>1, <2>2, <3>2 DEF AddedUp
    <3> QED
      BY <3>2, <3>3
  <2> QED
    BY <2>1, <2>2 DEF SameSteps
<1>3. C[n] = L[n]
  BY <1>2, SameAtLast
<1> QED
  BY <1>1, <1>3

\* The sum of the rows of a table is that of its columns.
LEMMA SumSwap ==
  ASSUME NEW m \in Nat, NEW n \in Nat, NEW A \in [1 .. m -> [1 .. n -> Int]]
  PROVE  SumFunction([i \in 1 .. m |-> SumFunction(A[i])])
           = SumFunction([z \in 1 .. n |-> SumFunction([i \in 1 .. m |-> A[i][z]])])
<1> DEFINE R == [i \in 1 .. m |-> SumFunction(A[i])]
           Part(k, z) == [i \in 1 .. k |-> A[i][z]]
           Col(k) == [z \in 1 .. n |-> SumFunction(Part(k, z))]
           Y == [k \in 0 .. m |-> SumFunction(Col(k))]
<1>1. ASSUME NEW i \in 1 .. m PROVE A[i] \in [1 .. n -> Int] /\ SumFunction(A[i]) \in Int
  <2> DEFINE a == A[i]
  <2>1. a \in [1 .. n -> Int]
    BY <1>1
  <2> HIDE DEF a
  <2>2. SumFunction(a) \in Int
    BY <2>1, SumTypes
  <2> QED
    BY <2>1, <2>2 DEF a
<1>2. R \in [1 .. m -> Int]
  BY <1>1
<1>3. ASSUME NEW k \in 0 .. m, NEW z \in 1 .. n PROVE Part(k, z) \in [1 .. k -> Int] /\ k \in Nat
  <2>1. \A i \in 1 .. k : i \in 1 .. m
    OBVIOUS
  <2>2. \A i \in 1 .. k : A[i][z] \in Int
    BY <1>1, <2>1
  <2> QED
    BY <2>2
<1>4. ASSUME NEW k \in 0 .. m PROVE Col(k) \in [1 .. n -> Int]
  <2>1. \A z \in 1 .. n : SumFunction(Part(k, z)) \in Int
    <3> HIDE DEF Part
    <3> QED
      BY <1>3, SumTypes
  <2> QED
    BY <2>1
<1>5. PICK C : AddedUp(C, m, R) /\ SumFunction(R) = C[m]
  <2> HIDE DEF R
  <2> QED
    BY <1>2, SumSteps
<1>6. Y[0] = 0
  <2>1. 0 \in 0 .. m /\ Y[0] = SumFunction(Col(0))
    OBVIOUS
  <2>2. \A z \in 1 .. n : Col(0)[z] = 0
    <3> TAKE z \in 1 .. n
    <3>1. Part(0, z) \in [{} -> Int]
      BY <2>1, <1>3
    <3>2. Col(0)[z] = SumFunction(Part(0, z))
      OBVIOUS
    <3> HIDE DEF Part, Col
    <3> QED
      BY <3>1, <3>2, SumNone
  <2> HIDE DEF Col, Y
  <2>3. Col(0) \in [1 .. n -> Int]
    BY <1>4, <2>1
  <2> DEFINE G == Col(0)
  <2> HIDE DEF G
  <2>4. SumFunction(G) = 0
    BY <2>2, <2>3, SumNothing DEF G
  <2> QED
    BY <2>1, <2>4 DEF G
<1>7. ASSUME NEW k \in 1 .. m PROVE Y[k] = Y[k - 1] + R[k]
  <2>1. k - 1 \in 0 .. m /\ k \in 0 .. m
    OBVIOUS
  <2>2. PICK j \in Nat : j = k - 1 /\ j + 1 = k
    BY <2>1
  <2> DEFINE F == Col(j)
             G == A[k]
             H == Col(j + 1)
  <2>3. F \in [1 .. n -> Int] /\ G \in [1 .. n -> Int] /\ H \in [1 .. n -> Int]
    <3> HIDE DEF Col
    <3> QED
      BY <1>1, <1>4, <2>1, <2>2
  <2>4. ASSUME NEW z \in 1 .. n PROVE H[z] = F[z] + G[z]
    <3> DEFINE f == Part(j, z)
               g == Part(j + 1, z)
    <3>1. f \in [1 .. j -> Int] /\ g \in [1 .. j + 1 -> Int]
      <4> HIDE DEF Part
      <4> QED
        BY <1>3, <2>1, <2>2
    <3>2. g[j + 1] = G[z] /\ \A i \in 1 .. j : g[i] = f[i]
      BY <2>2
    <3>3. H[z] = SumFunction(g) /\ F[z] = SumFunction(f)
      OBVIOUS
    <3> HIDE DEF f, g, F, G, H, Part, Col
    <3>4. SumFunction(g) = SumFunction(f) + g[j + 1]
      BY <3>1, <3>2, SumAppend
    <3> QED
      BY <3>2, <3>3, <3>4
  <2>5. Y[k] = SumFunction(H) /\ Y[k - 1] = SumFunction(F) /\ R[k] = SumFunction(G)
    <3> HIDE DEF Col
    <3> QED
      BY <2>1, <2>2
  <2> HIDE DEF F, G, H, Y, R, Col, Part
  <2>6. SumFunction(H) = SumFunction(F) + SumFunction(G)
    BY <2>3, <2>4, SumPlus
  <2> QED
    BY <2>5, <2>6
<1>8. SameSteps(C, Y, m)
  <2> HIDE DEF Y, R
  <2> QED
    BY <1>5, <1>6, <1>7 DEF SameSteps, AddedUp
<1>9. C[m] = Y[m]
  <2> HIDE DEF Y
  <2> QED
    BY <1>8, SameAtLast
<1>10. Y[m] = SumFunction(Col(m))
  <2> HIDE DEF Col
  <2>1. m \in 0 .. m
    OBVIOUS
  <2> QED
    BY <2>1
<1> HIDE DEF Y
<1>11. SumFunction(R) = SumFunction(Col(m))
  BY <1>5, <1>9, <1>10
<1> QED
  BY <1>11

\* Size is the sum of the sizes.
LEMMA SizeIsSum ==
  ASSUME NEW S, NEW packets \in Seq(S), \A p \in S : p.size \in Nat,
         NEW F, F = [i \in DOMAIN packets |-> packets[i].size]
  PROVE  SumFunction(F) = Size(packets)
<1>1. PICK n \in Nat : n = Len(packets) /\ DOMAIN packets = 1 .. n
  BY LenProperties
<1>2. F \in [1 .. n -> Int]
  BY <1>1
<1>3. PICK C : AddedUp(C, n, F) /\ SumFunction(F) = C[n]
  BY <1>2, SumSteps
<1>4. PICK D : SizedUpTo(D, Len(packets), packets) /\ Size(packets) = D[Len(packets)]
  BY SizeRecursion
<1>5. SameSteps(C, D, n)
  BY <1>1, <1>3, <1>4 DEF AddedUp, SizedUpTo, SameSteps
<1>6. C[n] = D[n]
  BY <1>5, SameAtLast
<1> QED
  BY <1>1, <1>3, <1>4, <1>6
-----------------------------------------------------------------------------
(* Intervals. *)

\* Products with one more, with one less, and with a greater factor.
LEMMA TimesMore ==
  ASSUME NEW a \in Int, NEW b \in Int, NEW m \in Nat \ {0}
  PROVE  /\ a * m \in Int /\ (a + 1) * m = a * m + m /\ (a - 1) * m = a * m - m
         /\ a <= b => a * m <= b * m
         /\ a < b => a * m + m <= b * m
<1>1. a * m \in Int /\ b * m \in Int
  OBVIOUS
<1>2. (a + 1) * m = a * m + m /\ (a - 1) * m = a * m - m
  OBVIOUS
<1>3. ASSUME a <= b PROVE a * m <= b * m
  <2>1. PICK k \in Nat : k = b - a
    BY <1>3
  <2>2. b * m = a * m + k * m /\ k * m >= 0
    BY <2>1
  <2> QED
    BY <1>1, <2>2
<1>4. ASSUME a < b PROVE a * m + m <= b * m
  <2>1. PICK k \in Nat : k = b - a - 1
    BY <1>4
  <2>2. b * m = a * m + m + k * m /\ k * m >= 0
    BY <2>1
  <2> QED
    BY <1>1, <2>2
<1> QED
  BY <1>1, <1>2, <1>3, <1>4

\* The least number of intervals that reach to d (ceil in elabsplit).
LEMMA CeilBounds ==
  ASSUME NEW d \in Nat, NEW ms \in Nat \ {0}
  PROVE  /\ Ceil(d, ms) \in Int /\ d <= Ceil(d, ms) * ms
         /\ (Ceil(d, ms) - 1) * ms < d
<1>1. PICK a \in Int : a = d + ms - 1
  OBVIOUS
<1>2. PICK q \in Int : q = a \div ms
  OBVIOUS
<1>3. q * ms <= a /\ a < q * ms + ms
  BY <1>2
<1>4. Ceil(d, ms) = q
  BY <1>1, <1>2 DEF Ceil
<1>5. q * ms \in Int /\ (q - 1) * ms = q * ms - ms
  BY TimesMore
<1> QED
  BY <1>1, <1>3, <1>4, <1>5
-----------------------------------------------------------------------------
(* Rows of a series. *)

Cells == [sum : Int, n : Int]
SeriesStates == [rows : Seq(Cells), open : Cells]

\* Rows put behind others.
LEMMA JoinsTo ==
  ASSUME NEW S, NEW a \in Seq(S), NEW k \in Nat, NEW b \in [1 .. k -> S]
  PROVE  /\ a \o b \in Seq(S) /\ Len(a \o b) = Len(a) + k
         /\ \A z \in 1 .. Len(a) : (a \o b)[z] = a[z]
         /\ \A z \in Len(a) + 1 .. Len(a) + k : (a \o b)[z] = b[z - Len(a)] /\ z - Len(a) \in 1 .. k
<1>1. b \in Seq(S) /\ Len(b) = k
  OBVIOUS
<1>2. PICK n \in Nat : n = Len(a)
  BY LenProperties
<1>3. \A z \in n + 1 .. n + k : z - n \in 1 .. k
  OBVIOUS
<1>4. a \o b \in Seq(S) /\ Len(a \o b) = Len(a) + Len(b)
      /\ \A z \in 1 .. Len(a) + Len(b) : (a \o b)[z] = IF z <= Len(a) THEN a[z] ELSE b[z - Len(a)]
  BY <1>1
<1>5. \A z \in n + 1 .. n + k : z \in 1 .. n + k /\ ~(z <= n)
  OBVIOUS
<1>6. \A z \in 1 .. n : z \in 1 .. n + k /\ z <= n
  OBVIOUS
<1> QED
  BY <1>1, <1>2, <1>3, <1>4, <1>5, <1>6

\* What CloseRows makes of some rows: k more of them, with what was open in one of them or
\* still open.
Closes(s, t, c, k) ==
  /\ t \in SeriesStates /\ c = Len(s.rows) /\ Len(t.rows) = c + k
  /\ \A z \in 1 .. c : t.rows[z] = s.rows[z]
  /\ \/ t.open = s.open /\ \A z \in c + 1 .. c + k : t.rows[z] = Zero
     \/ \E p \in c + 1 .. c + k :
          t.rows[p] = s.open /\ t.open = Zero /\ \A z \in c + 1 .. c + k : z # p => t.rows[z] = Zero

\* As many rows as intervals have ended before d; the first of them closes if the flow has begun.
Fits(c, k, d, ms) ==
  /\ d <= (c + 1) * ms => k = 0
  /\ d > (c + 1) * ms => (c + k) * ms < d /\ d <= (c + k + 1) * ms /\ k > 0
ClosesFirst(s, t, c, k, d, ms) ==
  d <= (c + 1) * ms /\ k > 0 => t.rows[c + 1] = s.open /\ t.open = Zero

\* CloseRows closes rows up to the interval of the record, and puts what was open into one of them.
LEMMA RowsClose ==
  ASSUME NEW s \in SeriesStates, NEW rx \in Nat, NEW begin \in Nat, NEW loc \in Nat, NEW ms \in Nat \ {0},
         begin <= rx, NEW c \in Nat, c = Len(s.rows), NEW d \in Nat, d = rx - begin,
         NEW t, t = CloseRows(s, rx, ms, begin, loc)
  PROVE  \E k \in Nat :
           Closes(s, t, c, k) /\ Fits(c, k, d, ms) /\ ClosesFirst(s, t, c, k, loc - begin, ms)
<1> DEFINE q == Ceil(d, ms)
           k == IF d > (c + 1) * ms THEN q - c - 1 ELSE 0
           Early(z) == (c + z) * ms + begin < loc
           opened == {z \in 1 .. k : ~Early(z)}
           new == [z \in 1 .. k |-> IF z \in opened /\ \A y \in opened : z <= y THEN s.open ELSE Zero]
<1>1. /\ (c + 1) * ms \in Nat /\ c * ms \in Nat /\ (c + 1) * ms = c * ms + ms
      /\ q \in Int /\ d <= q * ms /\ (q - 1) * ms < d
  <2>1. q \in Int /\ d <= q * ms /\ (q - 1) * ms < d
    BY CeilBounds
  <2>2. c * ms \in Int /\ (c + 1) * ms = c * ms + ms
    BY TimesMore
  <2>3. 0 * ms <= c * ms /\ 0 * ms = 0
    BY TimesMore
  <2>4. c * ms \in Nat
    BY <2>2, <2>3
  <2>5. c * ms + ms \in Nat
    BY <2>4
  <2> QED
    BY <2>1, <2>2, <2>4, <2>5
<1>2. ASSUME d > (c + 1) * ms PROVE q > c + 1
  <2>1. CASE q <= c + 1
    <3>1. q * ms <= (c + 1) * ms
      BY <1>1, <2>1, TimesMore
    <3>2. q * ms \in Int
      BY <1>1
    <3> QED
      BY SMTT(30), <1>1, <1>2, <3>1, <3>2
  <2> QED
    BY <1>1, <2>1
<1>3. k \in Nat
  <2>1. c + 1 \in Int
    OBVIOUS
  <2>2. CASE d > (c + 1) * ms
    <3>1. q > c + 1 /\ q \in Int
      BY <1>1, <1>2, <2>2
    <3>2. q - c - 1 \in Nat
      BY <3>1
    <3> QED
      BY <2>2, <3>2
  <2> QED
    BY <2>2
<1>4. t = [rows |-> s.rows \o new, open |-> IF opened = {} THEN s.open ELSE Zero]
  <2>1. rx - (c * ms + begin) > ms <=> d > (c + 1) * ms
    BY SMTT(30), <1>1
  <2> HIDE DEF q
  <2>2. Ceil(rx - begin, ms) = q
    BY DEF q
  <2> QED
    BY <2>1, <2>2 DEF CloseRows
<1>14. /\ d <= (c + 1) * ms => k = 0
       /\ d > (c + 1) * ms => (c + k) * ms < d /\ d <= (c + k + 1) * ms /\ k > 0
  <2>1. d <= (c + 1) * ms => k = 0
    BY <1>1
  <2>2. ASSUME d > (c + 1) * ms PROVE (c + k) * ms < d /\ d <= (c + k + 1) * ms /\ k > 0
    <3>1. k = q - c - 1
      BY <2>2
    <3> HIDE DEF k, q
    <3>2. q \in Int /\ q > c + 1
      BY <1>1, <1>2, <2>2
    <3>3. c + k = q - 1 /\ c + k + 1 = q /\ k > 0
      BY <3>1, <3>2
    <3> QED
      BY <1>1, <3>3
  <2> QED
    BY <2>1, <2>2
<1> HIDE DEF k
<1>5. s.open \in Cells /\ Zero \in Cells /\ s.rows \in Seq(Cells)
  BY DEF SeriesStates, Cells, Zero
<1>6. new \in [1 .. k -> Cells]
  BY <1>5
<1>7. opened \subseteq 1 .. k
  OBVIOUS
<1>8. \A z \in 1 .. k : new[z] = IF z \in opened /\ \A y \in opened : z <= y THEN s.open ELSE Zero
  OBVIOUS
<1>9. \A z \in 1 .. k : z \in opened <=> ~Early(z)
  OBVIOUS
<1> HIDE DEF new, opened
<1>10. t.rows = s.rows \o new /\ t.open = IF opened = {} THEN s.open ELSE Zero
  BY <1>4
<1>11. /\ t \in SeriesStates /\ Len(t.rows) = c + k
       /\ \A z \in 1 .. c : t.rows[z] = s.rows[z]
       /\ \A z \in c + 1 .. c + k : t.rows[z] = new[z - c] /\ z - c \in 1 .. k
  <2> DEFINE a == s.rows
  <2>1. a \in Seq(Cells) /\ c = Len(a)
    BY <1>5
  <2> HIDE DEF a
  <2>2. /\ a \o new \in Seq(Cells) /\ Len(a \o new) = c + k
        /\ \A z \in 1 .. c : (a \o new)[z] = a[z]
        /\ \A z \in c + 1 .. c + k : (a \o new)[z] = new[z - c] /\ z - c \in 1 .. k
    BY <1>3, <1>6, <2>1, JoinsTo
  <2>3. t.rows = a \o new
    BY <1>10 DEF a
  <2>4. t \in SeriesStates
    <3>1. t.open \in Cells /\ t.rows \in Seq(Cells)
      BY <1>5, <1>10, <2>2, <2>3
    <3>2. t = [rows |-> t.rows, open |-> t.open]
      BY <1>4
    <3> QED
      BY <3>1, <3>2 DEF SeriesStates
  <2> QED
    BY <2>2, <2>3, <2>4 DEF a
<1>15. Fits(c, k, d, ms)
  BY <1>14 DEF Fits
<1>12. CASE opened = {}
  <2>1. \A z \in 1 .. k : new[z] = Zero
    BY <1>8, <1>12
  <2>2. Closes(s, t, c, k)
    <3>1. \A z \in c + 1 .. c + k : t.rows[z] = Zero
      BY <1>11, <2>1
    <3>2. t.open = s.open
      BY <1>10, <1>12
    <3> QED
      BY <1>11, <3>1, <3>2 DEF Closes
  <2>3. ASSUME loc - begin <= (c + 1) * ms, k > 0 PROVE FALSE
    <3>1. 1 \in 1 .. k
      BY <1>3, <2>3
    <3>2. Early(1)
      BY <1>9, <1>12, <3>1
    <3> QED
      BY <1>1, <2>3, <3>2
  <2> QED
    BY <1>3, <1>15, <2>2, <2>3 DEF ClosesFirst
<1>13. CASE opened # {}
  <2>1. PICK p \in opened : \A y \in opened : p <= y
    <3>1. opened \subseteq Nat
      BY <1>3, <1>7
    <3> DEFINE Less == {ss \in Nat \X Nat : ss[1] < ss[2]}
    <3>2. IsWellFoundedOn(Less, Nat)
      BY NatLessThanWellFounded DEF OpToRel
    <3>3. PICK p \in opened : \A y \in opened : <<y, p>> \notin Less
      <4> HIDE DEF Less
      <4> QED
        BY <1>13, <3>1, <3>2, WFMin, Zenon
    <3>4. \A y \in opened : ~(y < p)
      BY <3>1, <3>3
    <3> QED
      BY <3>1, <3>4
  <2>2. p \in 1 .. k /\ \A z \in 1 .. k : (z \in opened /\ \A y \in opened : z <= y) <=> z = p
    BY <1>3, <1>7, <2>1
  <2>3. new[p] = s.open /\ \A z \in 1 .. k : z # p => new[z] = Zero
    BY <1>8, <2>2
  <2>4. PICK r \in c + 1 .. c + k : r = c + p
    BY <1>3, <2>2
  <2>5. t.rows[r] = s.open
    <3>1. r - c = p
      BY <1>3, <2>2, <2>4
    <3> QED
      BY <1>11, <2>3, <2>4, <3>1
  <2>6. ASSUME NEW z \in c + 1 .. c + k, z # r PROVE t.rows[z] = Zero
    <3>1. z - c # p
      BY <1>3, <2>2, <2>4, <2>6
    <3> QED
      BY <1>11, <2>3, <3>1
  <2>7. Closes(s, t, c, k)
    BY <1>10, <1>11, <1>13, <2>5, <2>6 DEF Closes
  <2>8. ASSUME loc - begin <= (c + 1) * ms, k > 0 PROVE t.rows[c + 1] = s.open /\ t.open = Zero
    <3>1. 1 \in 1 .. k
      BY <1>3, <2>8
    <3>2. ~Early(1)
      BY <1>1, <2>8
    <3>3. p = 1
      BY <1>3, <1>9, <2>1, <2>2, <3>1, <3>2
    <3> QED
      BY <1>10, <1>13, <2>4, <2>5, <3>3
  <2> QED
    BY <1>3, <1>15, <2>7, <2>8 DEF ClosesFirst
<1> QED
  BY <1>12, <1>13

\* The losses up to a record are given step by step.
LossesUpTo(L, n, recs) ==
  /\ L \in [0 .. n -> Nat] /\ L[0] = 0
  /\ \A i \in 1 .. n : L[i] = IF recs[i].seq > i + L[i - 1] THEN recs[i].seq - i ELSE L[i - 1]
LEMMA LostRecursion ==
  ASSUME NEW recs \in Seq(MarkedRecords)
  PROVE  LossesUpTo(LostUpTo(recs), Len(recs), recs)
<1> DEFINE n   == Len(recs)
           Lost(v, i) == IF recs[i].seq > i + v THEN recs[i].seq - i ELSE v
           def == CHOOSE F : F = [i \in 0 .. n |-> IF i = 0 THEN 0 ELSE Lost(F[i - 1], i)]
           step == [i \in 1 .. n |-> [v \in Nat |-> Lost(v, i)]]
<1>1. n \in Nat /\ \A i \in 1 .. n : recs[i].seq \in Nat
  <2>1. \A r \in MarkedRecords : r.seq \in Nat
    BY DEF MarkedRecords
  <2> QED
    BY <2>1, LenProperties
<1> HIDE DEF n
<1>2. ASSUME NEW i \in 1 .. n, NEW v \in Nat PROVE Lost(v, i) \in Nat
  <2>1. PICK q \in Nat : q = recs[i].seq
    BY <1>1
  <2>2. i \in Nat /\ (q > i + v => q - i \in Nat)
    OBVIOUS
  <2> QED
    BY <2>1, <2>2
<1>3. step \in [1 .. n -> [Nat -> Nat]]
  <2> HIDE DEF Lost
  <2> QED
    BY <1>2
<1> HIDE DEF Lost
<1>4. PICK F : Recursive(F, n, Nat, 0, step)
  <2> HIDE DEF step
  <2> QED
    BY <1>1, <1>3, ByRecursion
<1>5. F \in [0 .. n -> Nat] /\ F[0] = 0 /\ \A i \in 1 .. n : F[i] = Lost(F[i - 1], i)
  <2>1. \A i \in 1 .. n : F[i - 1] \in Nat
    <3>1. \A i \in 1 .. n : i - 1 \in 0 .. n
      BY <1>1
    <3> QED
      BY <1>4, <3>1 DEF Recursive
  <2> QED
    BY <1>4, <2>1 DEF Recursive
<1>6. F = [i \in 0 .. n |-> IF i = 0 THEN 0 ELSE Lost(F[i - 1], i)]
  <2>1. \A i \in 0 .. n : i = 0 \/ i \in 1 .. n
    BY <1>1
  <2> QED
    BY <1>5, <2>1
<1>7. def = [i \in 0 .. n |-> IF i = 0 THEN 0 ELSE Lost(def[i - 1], i)]
  BY <1>6
<1>8. LostUpTo(recs) = def
  BY DEF LostUpTo, n, Lost
<1> HIDE DEF def
<1>9. def[0] = 0 /\ \A i \in 1 .. n : def[i] = Lost(def[i - 1], i)
  <2>1. \A i \in 1 .. n : i \in 0 .. n /\ i # 0
    BY <1>1
  <2>2. 0 \in 0 .. n
    BY <1>1
  <2> QED
    BY <1>7, <2>1, <2>2
<1>10. ASSUME NEW m \in 0 .. n PROVE def[m] = F[m]
  <2>1. m \in Nat /\ 1 .. m \subseteq 1 .. n
    BY <1>1
  <2>2. SameSteps(def, F, m)
    BY <1>5, <1>9, <2>1 DEF SameSteps
  <2> QED
    BY <2>1, <2>2, SameAtLast
<1>11. def \in [0 .. n -> Nat]
  BY <1>5, <1>7, <1>10
<1> QED
  BY <1>8, <1>9, <1>11 DEF LossesUpTo, n, Lost

\* What a record adds to a series is a number.
LEMMA AddsTypes ==
  ASSUME NEW recs \in Seq(MarkedRecords), NEW i \in DOMAIN recs, NEW kind \in Kinds
  PROVE  Adds(kind, recs, i) \in Int
<1>1. PICK n \in Nat : n = Len(recs) /\ DOMAIN recs = 1 .. n
  BY LenProperties
<1>2. \A j \in 1 .. n : Late(recs[j]) \in Int
  BY <1>1, LateTypes
<1>3. recs[i].size \in Int
  <2>1. \A r \in MarkedRecords : r.size \in Int
    BY DEF MarkedRecords
  <2> QED
    BY <2>1
<1>4. i = 1 \/ i - 1 \in 1 .. n
  BY <1>1
<1>5. CASE kind = "bit"
  BY <1>3, <1>5 DEF Adds
<1>6. CASE kind = "del"
  BY <1>1, <1>2, <1>6 DEF Adds
<1>7. CASE kind = "jit"
  <2>1. CASE i = 1
    BY <1>7, <2>1 DEF Adds
  <2>2. CASE i # 1
    <3>1. Late(recs[i]) \in Int /\ Late(recs[i - 1]) \in Int
      BY <1>1, <1>2, <1>4, <2>2
    <3>2. Late(recs[i]) - Late(recs[i - 1]) \in Int
      BY <3>1
    <3> QED
      BY <1>7, <2>2, <3>2, AbsTypes DEF Adds
  <2> QED
    BY <2>1, <2>2
<1>8. CASE kind = "pkt"
  <2>1. LossesUpTo(LostUpTo(recs), n, recs)
    BY <1>1, LostRecursion
  <2>2. i \in 0 .. n /\ i - 1 \in 0 .. n
    BY <1>1
  <2>3. LostUpTo(recs)[i] \in Nat /\ LostUpTo(recs)[i - 1] \in Nat
    BY <2>1, <2>2 DEF LossesUpTo
  <2> QED
    BY <1>8, <2>3 DEF Adds
<1> QED
  BY <1>5, <1>6, <1>7, <1>8 DEF Kinds

\* elabsplit: what a record does to a series.
WithRecord(kind, recs, s, i) ==
  [s EXCEPT !.open = [sum |-> @.sum + Adds(kind, recs, i), n |-> @.n + Counts(kind, i)]]
Stepped(kind, recs, ms, begin, s, i) ==
  WithRecord(kind, recs, CloseRows(s, recs[i].rx, ms, begin, recs[1].rx), i)
SeriesUpTo(A, n, kind, recs, ms, begin) ==
  /\ A \in [0 .. n -> SeriesStates] /\ A[0] = [rows |-> <<>>, open |-> Zero]
  /\ \A i \in 1 .. n : A[i] = Stepped(kind, recs, ms, begin, A[i - 1], i)

\* A series with one more record is one.
LEMMA SteppedTypes ==
  ASSUME NEW recs \in Seq(MarkedRecords), NEW i \in DOMAIN recs, NEW kind \in Kinds,
         NEW ms \in Nat \ {0}, NEW begin \in Nat, \A j \in DOMAIN recs : begin <= recs[j].rx,
         NEW s \in SeriesStates
  PROVE  Stepped(kind, recs, ms, begin, s, i) \in SeriesStates
<1>1. PICK n \in Nat : n = Len(recs) /\ DOMAIN recs = 1 .. n
  BY LenProperties
<1>2. \A r \in MarkedRecords : r.rx \in Nat
  BY DEF MarkedRecords
<1>3. recs[i].rx \in Nat /\ recs[1].rx \in Nat /\ begin <= recs[i].rx
  <2>1. 1 \in 1 .. n
    BY <1>1
  <2> QED
    BY <1>1, <1>2, <2>1
<1>4. PICK c \in Nat, d \in Nat : c = Len(s.rows) /\ d = recs[i].rx - begin
  <2>1. s.rows \in Seq(Cells)
    BY DEF SeriesStates
  <2>2. Len(s.rows) \in Nat
    BY <2>1, LenProperties
  <2>3. recs[i].rx - begin \in Nat
    BY <1>3
  <2> QED
    BY <2>2, <2>3
<1>5. PICK t : t = CloseRows(s, recs[i].rx, ms, begin, recs[1].rx)
  OBVIOUS
<1>6. \E k \in Nat : Closes(s, t, c, k)
  <2> DEFINE rx == recs[i].rx
             loc == recs[1].rx
  <2>1. rx \in Nat /\ loc \in Nat /\ begin <= rx /\ d = rx - begin /\ t = CloseRows(s, rx, ms, begin, loc)
    BY <1>3, <1>4, <1>5
  <2> HIDE DEF rx, loc
  <2> QED
    BY <1>4, <2>1, RowsClose
<1>7. t \in SeriesStates
  BY <1>6 DEF Closes
<1>8. PICK a \in Int, b \in Int : a = Adds(kind, recs, i) /\ b = Counts(kind, i)
  BY AddsTypes DEF Counts
<1>9. t.open.sum + a \in Int /\ t.open.n + b \in Int
  BY <1>7 DEF SeriesStates, Cells
<1>10. [sum |-> t.open.sum + a, n |-> t.open.n + b] \in Cells
  BY <1>9 DEF Cells
<1>11. WithRecord(kind, recs, t, i) = [t EXCEPT !.open = [sum |-> t.open.sum + a, n |-> t.open.n + b]]
  BY <1>8 DEF WithRecord
<1>12. WithRecord(kind, recs, t, i) \in SeriesStates
  BY <1>7, <1>10, <1>11 DEF SeriesStates
<1> QED
  BY <1>5, <1>12 DEF Stepped

\* The series of a file is given step by step.
LEMMA SeriesRecursion ==
  ASSUME NEW recs \in Seq(MarkedRecords), NEW kind \in Kinds, NEW ms \in Nat \ {0}, NEW begin \in Nat,
         \A j \in DOMAIN recs : begin <= recs[j].rx
  PROVE  \E A : /\ SeriesUpTo(A, Len(recs), kind, recs, ms, begin)
                /\ Series(kind, recs, ms, begin) = Append(A[Len(recs)].rows, A[Len(recs)].open)
<1> DEFINE n == Len(recs)
           none == [rows |-> <<>>, open |-> Zero]
           Step(v, i) == Stepped(kind, recs, ms, begin, v, i)
           def == CHOOSE F : F = [i \in 0 .. n |-> IF i = 0 THEN none ELSE Step(F[i - 1], i)]
           step == [i \in 1 .. n |-> [v \in SeriesStates |-> Step(v, i)]]
<1>1. n \in Nat /\ DOMAIN recs = 1 .. n
  BY LenProperties
<1>2. Series(kind, recs, ms, begin) = Append(def[n].rows, def[n].open)
  BY DEF Series, Stepped, WithRecord
<1>3. ASSUME NEW i \in 1 .. n, NEW v \in SeriesStates PROVE Step(v, i) \in SeriesStates
  BY <1>1, SteppedTypes
<1>4. none \in SeriesStates
  BY DEF SeriesStates, Cells, Zero
<1> HIDE DEF n, Step, none
<1>5. step \in [1 .. n -> [SeriesStates -> SeriesStates]]
  BY <1>3
<1>6. PICK F : Recursive(F, n, SeriesStates, none, step)
  <2> HIDE DEF step
  <2> QED
    BY <1>1, <1>4, <1>5, ByRecursion
<1>7. F \in [0 .. n -> SeriesStates] /\ F[0] = none /\ \A i \in 1 .. n : F[i] = Step(F[i - 1], i)
  <2>1. \A i \in 1 .. n : F[i - 1] \in SeriesStates
    <3>1. \A i \in 1 .. n : i - 1 \in 0 .. n
      BY <1>1
    <3> QED
      BY <1>6, <3>1 DEF Recursive
  <2> QED
    BY <1>6, <2>1 DEF Recursive
<1>8. F = [i \in 0 .. n |-> IF i = 0 THEN none ELSE Step(F[i - 1], i)]
  <2>1. \A i \in 0 .. n : i = 0 \/ i \in 1 .. n
    BY <1>1
  <2> QED
    BY <1>7, <2>1
<1>9. def = [i \in 0 .. n |-> IF i = 0 THEN none ELSE Step(def[i - 1], i)]
  BY <1>8
<1> HIDE DEF def
<1>10. def[n] = F[n]
  <2>1. def[0] = none /\ \A i \in 1 .. n : def[i] = Step(def[i - 1], i)
    <3>1. \A i \in 1 .. n : i \in 0 .. n /\ i # 0
      BY <1>1
    <3>2. 0 \in 0 .. n
      BY <1>1
    <3> QED
      BY <1>9, <3>1, <3>2
  <2>2. SameSteps(def, F, n)
    BY <1>7, <2>1 DEF SameSteps
  <2> QED
    BY <1>1, <2>2, SameAtLast
<1>11. SeriesUpTo(F, n, kind, recs, ms, begin)
  BY <1>7 DEF SeriesUpTo, Step, none
<1> QED
  BY <1>2, <1>10, <1>11 DEF n

\* A record closes the rows before its interval, and is counted in the one that is open then.
StepsTo(s, u, t, c, k, d, ms, add) ==
  Closes(s, t, c, k) /\ Fits(c, k, d, ms) /\ u.rows = t.rows /\ u.open.sum = t.open.sum + add
LEMMA SteppedRows ==
  ASSUME NEW recs \in Seq(MarkedRecords), NEW i \in DOMAIN recs, NEW kind \in Kinds,
         NEW ms \in Nat \ {0}, NEW begin \in Nat, \A j \in DOMAIN recs : begin <= recs[j].rx,
         NEW s \in SeriesStates, NEW u, u = Stepped(kind, recs, ms, begin, s, i)
  PROVE  /\ Len(s.rows) \in Nat /\ recs[i].rx - begin \in Nat
         /\ \E k \in Nat, t \in SeriesStates :
               /\ StepsTo(s, u, t, Len(s.rows), k, recs[i].rx - begin, ms, Adds(kind, recs, i))
               /\ ClosesFirst(s, t, Len(s.rows), k, recs[1].rx - begin, ms)
<1>1. PICK n \in Nat : n = Len(recs) /\ DOMAIN recs = 1 .. n
  BY LenProperties
<1>2. \A r \in MarkedRecords : r.rx \in Nat
  BY DEF MarkedRecords
<1>3. recs[i].rx \in Nat /\ recs[1].rx \in Nat /\ begin <= recs[i].rx
  <2>1. 1 \in 1 .. n
    BY <1>1
  <2> QED
    BY <1>1, <1>2, <2>1
<1>4. PICK c \in Nat, d \in Nat : c = Len(s.rows) /\ d = recs[i].rx - begin
  <2>1. s.rows \in Seq(Cells)
    BY DEF SeriesStates
  <2>2. Len(s.rows) \in Nat
    BY <2>1, LenProperties
  <2>3. recs[i].rx - begin \in Nat
    BY <1>3
  <2> QED
    BY <2>2, <2>3
<1> DEFINE rx == recs[i].rx
           loc == recs[1].rx
<1>5. PICK t : t = CloseRows(s, rx, ms, begin, loc)
  OBVIOUS
<1>6. rx \in Nat /\ loc \in Nat /\ begin <= rx /\ d = rx - begin
  BY <1>3, <1>4
<1>7. u = WithRecord(kind, recs, t, i)
  BY <1>5 DEF Stepped
<1> HIDE DEF rx, loc
<1>8. \E k \in Nat : Closes(s, t, c, k) /\ Fits(c, k, d, ms) /\ ClosesFirst(s, t, c, k, loc - begin, ms)
  BY <1>4, <1>5, <1>6, RowsClose
<1>9. PICK k \in Nat : Closes(s, t, c, k) /\ Fits(c, k, d, ms) /\ ClosesFirst(s, t, c, k, loc - begin, ms)
  BY <1>8
<1>10. t \in SeriesStates
  BY <1>9 DEF Closes
<1>11. u.rows = t.rows /\ u.open.sum = t.open.sum + Adds(kind, recs, i)
  <2>1. "open" \in DOMAIN t
    BY <1>10 DEF SeriesStates
  <2> QED
    BY <1>7, <1>10, <2>1 DEF WithRecord, SeriesStates
<1>12. StepsTo(s, u, t, c, k, d, ms, Adds(kind, recs, i))
  BY <1>9, <1>11 DEF StepsTo
<1> QED
  BY <1>4, <1>9, <1>10, <1>12 DEF loc

\* Rows are closed, and none of what they hold is lost.
RowSum(rows) == SumFunction([z \in 1 .. Len(rows) |-> rows[z].sum])
LEMMA RowSumTypes ==
  ASSUME NEW rows \in Seq(Cells)
  PROVE  RowSum(rows) \in Int /\ [z \in 1 .. Len(rows) |-> rows[z].sum] \in [1 .. Len(rows) -> Int]
<1>1. PICK n \in Nat : n = Len(rows) /\ DOMAIN rows = 1 .. n
  BY LenProperties
<1>2. \A z \in 1 .. n : rows[z].sum \in Int
  <2>1. \A r \in Cells : r.sum \in Int
    BY DEF Cells
  <2> QED
    BY <1>1, <2>1
<1> DEFINE F == [z \in 1 .. n |-> rows[z].sum]
<1>3. F \in [1 .. n -> Int]
  BY <1>2
<1> HIDE DEF F
<1>4. SumFunction(F) \in Int
  BY <1>3, SumTypes
<1> QED
  BY <1>1, <1>3, <1>4 DEF F, RowSum

\* Rows that are closed sum up to what was open.
LEMMA ClosesTotal ==
  ASSUME NEW s \in SeriesStates, NEW t, NEW c, NEW k \in Nat, Closes(s, t, c, k)
  PROVE  RowSum(t.rows) + t.open.sum = RowSum(s.rows) + s.open.sum
<1>1. /\ s.rows \in Seq(Cells) /\ t.rows \in Seq(Cells) /\ s.open \in Cells /\ t.open \in Cells
      /\ c = Len(s.rows) /\ Len(t.rows) = c + k
      /\ \A z \in 1 .. c : t.rows[z] = s.rows[z]
  BY DEF Closes, SeriesStates
<1>2. c \in Nat
  BY <1>1, LenProperties
<1> DEFINE F == [z \in 1 .. c |-> s.rows[z].sum]
           G == [z \in 1 .. c + k |-> t.rows[z].sum]
<1>3. RowSum(s.rows) = SumFunction(F) /\ RowSum(t.rows) = SumFunction(G)
  BY <1>1 DEF RowSum
<1>4. /\ F \in [1 .. c -> Int] /\ G \in [1 .. c + k -> Int]
      /\ SumFunction(F) \in Int /\ SumFunction(G) \in Int
  BY <1>1, RowSumTypes, <1>3
<1>5. \A z \in 1 .. c : G[z] = F[z]
  <2>1. \A z \in 1 .. c : z \in 1 .. c + k
    BY <1>2
  <2> QED
    BY <1>1, <2>1
<1>6. s.open.sum \in Int /\ t.open.sum \in Int /\ Zero.sum = 0
  BY <1>1 DEF Cells, Zero
<1>7. \A z \in c + 1 .. c + k : G[z] = t.rows[z].sum
  BY <1>2
<1> HIDE DEF F, G
<1>8. CASE t.open = s.open /\ \A z \in c + 1 .. c + k : t.rows[z] = Zero
  <2>1. Padded(F, G, c, k)
    BY <1>4, <1>5, <1>6, <1>7, <1>8 DEF Padded
  <2>2. SumFunction(G) = SumFunction(F)
    BY <1>2, <2>1, SumZeros
  <2> QED
    BY <1>3, <1>8, <2>2
<1>9. CASE \E p \in c + 1 .. c + k :
             t.rows[p] = s.open /\ t.open = Zero /\ \A z \in c + 1 .. c + k : z # p => t.rows[z] = Zero
  <2>1. PICK p \in c + 1 .. c + k :
               t.rows[p] = s.open /\ t.open = Zero /\ \A z \in c + 1 .. c + k : z # p => t.rows[z] = Zero
    BY <1>9
  <2>2. G[p] = s.open.sum /\ \A z \in c + 1 .. c + k : z # p => G[z] = 0
    BY <1>6, <1>7, <2>1
  <2>3. SumFunction(G) = SumFunction(F) + G[p]
    BY <1>2, <1>4, <1>5, <2>2, SumSpike
  <2> QED
    BY <1>3, <1>4, <1>6, <2>1, <2>2, <2>3
<1> QED
  BY <1>8, <1>9 DEF Closes
-----------------------------------------------------------------------------
(* How long a series is, and what its rows hold. *)

\* As many rows as it takes to get to d.
LengthFits(n, d, ms) == d <= n * ms /\ (n > 1 => (n - 1) * ms < d)
LEMMA SameLength ==
  ASSUME NEW m \in Nat, NEW n \in Nat, NEW d \in Nat, NEW ms \in Nat \ {0},
         LengthFits(m, d, ms), LengthFits(n, d, ms), m > 0, n > 0
  PROVE  m = n
<1>1. ASSUME NEW a \in Nat, NEW b \in Nat, a > 0, LengthFits(a, d, ms), LengthFits(b, d, ms) PROVE ~(a < b)
  <2> SUFFICES ASSUME a < b PROVE FALSE
    OBVIOUS
  <2>1. PICK x \in Int, y \in Int : x = a * ms /\ y = (b - 1) * ms
    <3>1. b - 1 \in Int
      OBVIOUS
    <3> QED
      BY <3>1, TimesMore
  <2>2. x <= y
    <3>1. a <= b - 1 /\ b - 1 \in Int
      OBVIOUS
    <3> QED
      BY <2>1, <3>1, TimesMore
  <2>3. d <= x /\ y < d
    BY <1>1, <2>1 DEF LengthFits
  <2> QED
    BY <2>1, <2>2, <2>3
<1>2. ~(m < n) /\ ~(n < m)
  BY <1>1
<1> QED
  BY <1>2

\* Where the open interval of a series is after a record at e, and before the first one.
At(s, e, ms) == e <= (Len(s.rows) + 1) * ms /\ (Len(s.rows) > 0 => Len(s.rows) * ms < e)
NoRows == [rows |-> <<>>, open |-> Zero]
StartsBefore(s, e, d, first, ms) == s = NoRows \/ (At(s, e, ms) /\ first <= e /\ e <= d)

\* A record closes as many rows as it takes to get to its interval.
LEMMA AtNext ==
  ASSUME NEW s \in SeriesStates, NEW u \in SeriesStates, NEW t, NEW c \in Nat, NEW k \in Nat, NEW d \in Nat,
         NEW ms \in Nat \ {0}, NEW add, StepsTo(s, u, t, c, k, d, ms, add),
         NEW e \in Nat, NEW first \in Int, StartsBefore(s, e, d, first, ms)
  PROVE  At(u, d, ms) /\ Len(s.rows) = c /\ Len(u.rows) = c + k /\ (c > 0 => c * ms < d)
<1>1. c = Len(s.rows) /\ Len(u.rows) = c + k /\ Fits(c, k, d, ms)
  BY DEF StepsTo, Closes
<1>2. PICK x \in Int, y \in Int, v \in Int, w \in Int :
        x = c * ms /\ y = (c + 1) * ms /\ v = (c + k) * ms /\ w = (c + k + 1) * ms
  <2>1. c + 1 \in Int /\ c + k \in Int /\ c + k + 1 \in Int /\ c \in Int
    OBVIOUS
  <2> QED
    BY <2>1, TimesMore
<1>3. c > 0 => x < d
  <2>1. CASE s = NoRows
    BY <1>1, <2>1 DEF NoRows
  <2>2. CASE s # NoRows
    BY <1>1, <1>2, <2>2 DEF StartsBefore, At
  <2> QED
    BY <2>1, <2>2
<1>4. (d <= y => k = 0) /\ (d > y => v < d /\ d <= w /\ k > 0)
  BY <1>1, <1>2 DEF Fits
<1>5. d <= w /\ (c + k > 0 => v < d)
  <2>1. CASE k = 0
    <3>1. c + k = c /\ c + k + 1 = c + 1
      BY <2>1
    <3>2. v = x /\ w = y
      BY <1>2, <3>1
    <3> QED
      BY <1>3, <1>4, <2>1, <3>1, <3>2
  <2>2. CASE k > 0
    BY <1>4, <2>2
  <2> QED
    BY <2>1, <2>2
<1>6. At(u, d, ms)
  BY <1>1, <1>2, <1>5 DEF At
<1> QED
  BY <1>1, <1>2, <1>3, <1>6

\* The sum of a row, closed or open; rows that are not there are empty.
Value(s, z) ==
  IF z <= Len(s.rows) THEN s.rows[z].sum ELSE IF z = Len(s.rows) + 1 THEN s.open.sum ELSE 0
Inside(z, ms, d) == d <= z * ms /\ (z > 1 => d > (z - 1) * ms)

\* What was open is closed in the next row, as the flow has begun.
LEMMA ClosesInOrder ==
  ASSUME NEW s \in SeriesStates, NEW t, NEW c \in Nat, NEW k \in Nat, Closes(s, t, c, k),
         NEW e \in Nat, NEW d \in Nat, NEW first \in Int, NEW ms \in Nat \ {0},
         StartsBefore(s, e, d, first, ms), ClosesFirst(s, t, c, k, first, ms), NEW z \in Nat \ {0}
  PROVE  Value(t, z) = Value(s, z)
<1>1. /\ t \in SeriesStates /\ c = Len(s.rows) /\ Len(t.rows) = c + k
      /\ \A y \in 1 .. c : t.rows[y] = s.rows[y]
  BY DEF Closes
<1>2. CASE k = 0
  <2>1. t.open = s.open
    BY <1>2 DEF Closes
  <2> QED
    BY <1>1, <1>2, <2>1 DEF Value
<1>3. CASE k > 0 /\ s = NoRows
  <2>1. s.open = Zero /\ c = 0
    BY <1>1, <1>3 DEF NoRows
  <2>2. t.open = Zero /\ \A y \in c + 1 .. c + k : t.rows[y] = Zero
    BY <2>1 DEF Closes
  <2>3. Value(s, z) = 0
    BY <1>1, <2>1 DEF Value, Zero
  <2>4. Value(t, z) = 0
    <3>1. CASE z <= k
      <4>1. z \in c + 1 .. c + k
        BY <2>1, <3>1
      <4> QED
        BY <1>1, <2>1, <2>2, <3>1, <4>1 DEF Value, Zero
    <3>2. CASE z > k
      BY <1>1, <2>1, <2>2, <3>2 DEF Value, Zero
    <3> QED
      BY <3>1, <3>2
  <2> QED
    BY <2>3, <2>4
<1>4. CASE k > 0 /\ s # NoRows
  <2>1. first <= (c + 1) * ms
    <3>1. PICK y \in Int : y = (c + 1) * ms
      <4>1. c + 1 \in Int
        OBVIOUS
      <4> QED
        BY <4>1, TimesMore
    <3>2. first <= e /\ e <= y
      BY <1>1, <1>4, <3>1 DEF StartsBefore, At
    <3> QED
      BY <3>1, <3>2
  <2>2. t.rows[c + 1] = s.open /\ t.open = Zero
    BY <1>4, <2>1 DEF ClosesFirst
  <2>3. \A y \in c + 2 .. c + k : t.rows[y] = Zero
    <3>1. \A y \in c + 2 .. c + k : y \in c + 1 .. c + k /\ y # c + 1
      OBVIOUS
    <3>2. c + 1 \in c + 1 .. c + k
      BY <1>4
    <3>3. CASE \A y \in c + 1 .. c + k : t.rows[y] = Zero
      BY <3>1, <3>3
    <3>4. CASE \E p \in c + 1 .. c + k :
                 t.rows[p] = s.open /\ t.open = Zero /\ \A y \in c + 1 .. c + k : y # p => t.rows[y] = Zero
      <4>1. PICK p \in c + 1 .. c + k :
              t.rows[p] = s.open /\ \A y \in c + 1 .. c + k : y # p => t.rows[y] = Zero
        BY <3>4
      <4>2. CASE p = c + 1
        BY <3>1, <4>1, <4>2
      <4>3. CASE p # c + 1
        <5>1. s.open = Zero
          BY <2>2, <3>2, <4>1, <4>3
        <5> QED
          BY <3>1, <4>1, <5>1
      <4> QED
        BY <4>2, <4>3
    <3> QED
      BY <3>3, <3>4 DEF Closes
  <2>4. CASE z <= c
    <3>1. z \in 1 .. c
      BY <2>4
    <3> QED
      BY <1>1, <2>4, <3>1 DEF Value
  <2>5. CASE z = c + 1
    BY SMTT(30), <1>1, <1>4, <2>2, <2>5 DEF Value
  <2>6. CASE z > c + 1
    <3>1. Value(s, z) = 0
      BY <1>1, <2>6 DEF Value
    <3>2. CASE z <= c + k
      <4>1. z \in c + 2 .. c + k
        BY <2>6, <3>2
      <4> QED
        BY <1>1, <2>3, <3>1, <3>2, <4>1 DEF Value, Zero
    <3>3. CASE z > c + k
      BY <1>1, <2>2, <3>1, <3>3 DEF Value, Zero
    <3> QED
      BY <3>2, <3>3
  <2> QED
    BY <2>4, <2>5, <2>6
<1> QED
  BY <1>2, <1>3, <1>4

\* A record is added to the row of its interval, and to no other.
LEMMA ValueSteps ==
  ASSUME NEW s \in SeriesStates, NEW u \in SeriesStates, NEW t, NEW c \in Nat, NEW k \in Nat, NEW d \in Nat,
         NEW ms \in Nat \ {0}, NEW add \in Int, StepsTo(s, u, t, c, k, d, ms, add),
         NEW e \in Nat, NEW first \in Int, StartsBefore(s, e, d, first, ms),
         ClosesFirst(s, t, c, k, first, ms), NEW z \in Nat \ {0}
  PROVE  Value(u, z) = Value(s, z) + (IF Inside(z, ms, d) THEN add ELSE 0)
<1>1. Closes(s, t, c, k) /\ u.rows = t.rows /\ u.open.sum = t.open.sum + add
  BY DEF StepsTo
<1>2. Value(t, z) = Value(s, z)
  BY <1>1, ClosesInOrder
<1>3. PICK n \in Nat : n = Len(u.rows)
  <2>1. u.rows \in Seq(Cells)
    BY DEF SeriesStates
  <2> QED
    BY <2>1, LenProperties
<1>4. At(u, d, ms)
  BY AtNext
<1>5. t.open.sum \in Int
  <2>1. t \in SeriesStates
    BY <1>1 DEF Closes
  <2> QED
    BY <2>1 DEF SeriesStates, Cells
<1>6. PICK x \in Int, y \in Int, v \in Int, w \in Int :
        x = n * ms /\ y = (n + 1) * ms /\ v = z * ms /\ w = (z - 1) * ms
  <2>1. n \in Int /\ n + 1 \in Int /\ z \in Int /\ z - 1 \in Int
    OBVIOUS
  <2> QED
    BY <2>1, TimesMore
<1>7. d <= y /\ (n > 0 => x < d)
  BY <1>3, <1>4, <1>6 DEF At
<1>8. Inside(z, ms, d) <=> d <= v /\ (z > 1 => d > w)
  BY <1>6 DEF Inside
<1>9. CASE z <= n
  <2>1. v <= x
    BY <1>6, <1>9, TimesMore
  <2>2. ~Inside(z, ms, d)
    BY <1>7, <1>8, <1>9, <2>1
  <2>3. Value(u, z) = Value(t, z) /\ Value(u, z) = u.rows[z].sum
    BY <1>1, <1>3, <1>9 DEF Value
  <2>4. Value(t, z) \in Int
    <3>1. u.rows \in Seq(Cells) /\ \A cell \in Cells : cell.sum \in Int
      BY DEF SeriesStates, Cells
    <3>2. z \in DOMAIN u.rows
      BY <1>3, <1>9, <3>1, LenProperties
    <3>3. u.rows[z] \in Cells
      BY <3>1, <3>2
    <3> QED
      BY <2>3, <3>1, <3>3
  <2> QED
    BY <1>2, <2>2, <2>3, <2>4
<1>10. CASE z = n + 1
  <2>1. Inside(z, ms, d)
    <3>1. z - 1 = n /\ v = y /\ w = x
      BY <1>6, <1>10
    <3> QED
      BY <1>7, <1>8, <1>10, <3>1
  <2>2. Value(u, z) = u.open.sum /\ Value(t, z) = t.open.sum
    BY <1>1, <1>3, <1>10 DEF Value
  <2> QED
    BY <1>1, <1>2, <1>5, <2>1, <2>2
<1>11. CASE z > n + 1
  <2>1. y <= w
    <3>1. n + 1 <= z - 1 /\ n + 1 \in Int /\ z - 1 \in Int
      BY <1>11
    <3> QED
      BY <1>6, <3>1, TimesMore
  <2>2. ~Inside(z, ms, d)
    BY <1>7, <1>8, <1>11, <2>1
  <2>3. Value(u, z) = 0 /\ Value(t, z) = 0
    BY <1>1, <1>3, <1>11 DEF Value
  <2> QED
    BY <1>2, <2>2, <2>3
<1> QED
  BY <1>9, <1>10, <1>11
-----------------------------------------------------------------------------
(* The series of a file. *)

\* The records of a file, in the order of reception.
Rising(recs, begin) ==
  /\ \A i, j \in DOMAIN recs : i <= j => recs[i].rx <= recs[j].rx
  /\ \A i \in DOMAIN recs : begin <= recs[i].rx
Total(s) == RowSum(s.rows) + s.open.sum
\* What one record does to a series.
OneRecord(A, i, kind, recs, ms, begin) ==
  /\ At(A[i], recs[i].rx - begin, ms)
  /\ Total(A[i]) = Total(A[i - 1]) + Adds(kind, recs, i)
  /\ \A z \in Nat \ {0} :
       Value(A[i], z) = Value(A[i - 1], z)
                          + (IF Inside(z, ms, recs[i].rx - begin) THEN Adds(kind, recs, i) ELSE 0)

\* One more record: only the value of its interval changes.
LEMMA RecordsInTurn ==
  ASSUME NEW recs \in Seq(MarkedRecords), NEW kind \in Kinds, NEW ms \in Nat \ {0}, NEW begin \in Nat,
         Rising(recs, begin), NEW A, SeriesUpTo(A, Len(recs), kind, recs, ms, begin),
         NEW i \in 1 .. Len(recs), i = 1 \/ At(A[i - 1], recs[i - 1].rx - begin, ms)
  PROVE  OneRecord(A, i, kind, recs, ms, begin)
<1>1. PICK n \in Nat : n = Len(recs) /\ DOMAIN recs = 1 .. n
  BY LenProperties
<1>2. i \in DOMAIN recs /\ 1 \in DOMAIN recs /\ i \in 0 .. n /\ i - 1 \in 0 .. n /\ (i = 1 \/ i - 1 \in DOMAIN recs)
  BY <1>1
<1>3. \A j \in DOMAIN recs : recs[j].rx \in Nat /\ begin <= recs[j].rx
  <2>1. \A r \in MarkedRecords : r.rx \in Nat
    BY DEF MarkedRecords
  <2> QED
    BY <1>1, <2>1 DEF Rising
<1>4. PICK s \in SeriesStates, u \in SeriesStates : s = A[i - 1] /\ u = A[i]
  BY <1>1, <1>2 DEF SeriesUpTo
<1>5. u = Stepped(kind, recs, ms, begin, s, i)
  BY <1>4 DEF SeriesUpTo
<1>6. PICK d \in Nat, first \in Nat, add \in Int :
        d = recs[i].rx - begin /\ first = recs[1].rx - begin /\ add = Adds(kind, recs, i)
  <2>1. recs[i].rx - begin \in Nat /\ recs[1].rx - begin \in Nat
    BY SMTT(30), <1>2, <1>3
  <2>2. Adds(kind, recs, i) \in Int
    BY <1>2, AddsTypes
  <2> QED
    BY <2>1, <2>2
<1>7. PICK c \in Nat, k \in Nat, t \in SeriesStates :
        StepsTo(s, u, t, c, k, d, ms, add) /\ ClosesFirst(s, t, c, k, first, ms)
  <2>1. \A j \in DOMAIN recs : begin <= recs[j].rx
    BY <1>3
  <2>2. /\ Len(s.rows) \in Nat
        /\ \E k \in Nat, t \in SeriesStates :
             /\ StepsTo(s, u, t, Len(s.rows), k, recs[i].rx - begin, ms, Adds(kind, recs, i))
             /\ ClosesFirst(s, t, Len(s.rows), k, recs[1].rx - begin, ms)
    BY <1>2, <1>5, <2>1, SteppedRows
  <2> QED
    BY <1>6, <2>2
<1>8. PICK e \in Nat : StartsBefore(s, e, d, first, ms)
  <2>1. CASE i = 1
    <3>1. s = NoRows
      BY <1>4, <2>1 DEF SeriesUpTo, NoRows
    <3> QED
      BY <3>1 DEF StartsBefore
  <2>2. CASE i # 1
    <3>1. recs[1].rx <= recs[i - 1].rx /\ recs[i - 1].rx <= recs[i].rx
      BY <1>1, <1>2, <2>2 DEF Rising
    <3>2. PICK e \in Nat : e = recs[i - 1].rx - begin
      <4>1. recs[i - 1].rx - begin \in Nat
        BY <1>2, <1>3, <2>2
      <4> QED
        BY <4>1
    <3>3. first <= e /\ e <= d
      <4>1. PICK x \in Nat, y \in Nat, v \in Nat : x = recs[1].rx /\ y = recs[i - 1].rx /\ v = recs[i].rx
        BY <1>2, <1>3, <2>2
      <4>2. x <= y /\ y <= v /\ first = x - begin /\ e = y - begin /\ d = v - begin
        BY <1>6, <3>1, <3>2, <4>1
      <4> QED
        BY <4>2
    <3>4. At(s, e, ms)
      BY <1>4, <2>2, <3>2
    <3> QED
      BY <3>3, <3>4 DEF StartsBefore
  <2> QED
    BY <2>1, <2>2
<1>9. At(u, d, ms)
  BY <1>7, <1>8, AtNext
<1>10. Total(u) = Total(s) + add
  <2>1. Closes(s, t, c, k) /\ u.rows = t.rows /\ u.open.sum = t.open.sum + add
    BY <1>7 DEF StepsTo
  <2>2. t \in SeriesStates
    BY <2>1 DEF Closes
  <2>3. t.rows \in Seq(Cells) /\ s.rows \in Seq(Cells) /\ t.open.sum \in Int /\ s.open.sum \in Int
    BY <2>2 DEF SeriesStates, Cells
  <2>4. RowSum(t.rows) \in Int /\ RowSum(s.rows) \in Int
    BY <2>3, RowSumTypes
  <2>5. RowSum(t.rows) + t.open.sum = RowSum(s.rows) + s.open.sum
    BY <2>1, ClosesTotal
  <2> QED
    BY <2>1, <2>3, <2>4, <2>5 DEF Total
<1>11. ASSUME NEW z \in Nat \ {0} PROVE Value(u, z) = Value(s, z) + (IF Inside(z, ms, d) THEN add ELSE 0)
  BY <1>7, <1>8, ValueSteps
<1> QED
  BY <1>4, <1>6, <1>9, <1>10, <1>11 DEF OneRecord

\* The same for every record of a file, one after the other.
LEMMA RecordsInOrder ==
  ASSUME NEW recs \in Seq(MarkedRecords), NEW kind \in Kinds, NEW ms \in Nat \ {0}, NEW begin \in Nat,
         Rising(recs, begin), NEW A, SeriesUpTo(A, Len(recs), kind, recs, ms, begin)
  PROVE  \A i \in 1 .. Len(recs) : OneRecord(A, i, kind, recs, ms, begin)
<1>1. PICK n \in Nat : n = Len(recs)
  BY LenProperties
<1> DEFINE S == {i \in Nat : i \in 1 .. n => OneRecord(A, i, kind, recs, ms, begin)}
<1>2. 0 \in S
  OBVIOUS
<1>3. ASSUME NEW i \in Nat, i \in S PROVE i + 1 \in S
  <2> SUFFICES ASSUME i + 1 \in 1 .. n PROVE OneRecord(A, i + 1, kind, recs, ms, begin)
    OBVIOUS
  <2>1. PICK j \in 1 .. n : j = i + 1 /\ j - 1 = i
    OBVIOUS
  <2>2. j = 1 \/ At(A[j - 1], recs[j - 1].rx - begin, ms)
    <3>1. i = 0 \/ i \in 1 .. n
      BY <2>1
    <3>2. CASE i \in 1 .. n
      BY <1>3, <2>1, <3>2 DEF OneRecord
    <3> QED
      BY <2>1, <3>1, <3>2
  <2> QED
    BY <1>1, <2>1, <2>2, RecordsInTurn
<1> HIDE DEF S
<1>4. \A i \in Nat : i \in S
  BY <1>2, <1>3, Induction
<1>5. \A i \in 1 .. n : i \in Nat
  OBVIOUS
<1> QED
  BY <1>1, <1>4, <1>5 DEF S

\* A row that is there or not.
RowValue(rows, z) == IF z <= Len(rows) THEN rows[z].sum ELSE 0
AddsIn(kind, recs, ms, begin, z) ==
  SumFunction([i \in DOMAIN recs |-> IF Inside(z, ms, recs[i].rx - begin) THEN Adds(kind, recs, i) ELSE 0])
SeriesIs(series, kind, recs, ms, begin) ==
  /\ series \in Seq(Cells) /\ Len(series) \in Nat \ {0}
  /\ LengthFits(Len(series), recs[Len(recs)].rx - begin, ms)
  /\ RowSum(series) = SumFunction([i \in DOMAIN recs |-> Adds(kind, recs, i)])
  /\ \A z \in Nat \ {0} : RowValue(series, z) = AddsIn(kind, recs, ms, begin, z)

\* elabsplit: the rows of a file hold what its records add to the interval of each.
LEMMA SeriesFound ==
  ASSUME NEW recs \in Seq(MarkedRecords), recs # <<>>, NEW kind \in Kinds, NEW ms \in Nat \ {0},
         NEW begin \in Nat, Rising(recs, begin)
  PROVE  SeriesIs(Series(kind, recs, ms, begin), kind, recs, ms, begin)
<1>1. PICK n \in Nat \ {0} : n = Len(recs) /\ DOMAIN recs = 1 .. n
  BY LenProperties
<1>2. \A j \in DOMAIN recs : begin <= recs[j].rx
  BY DEF Rising
<1>3. PICK A : /\ SeriesUpTo(A, Len(recs), kind, recs, ms, begin)
               /\ Series(kind, recs, ms, begin) = Append(A[Len(recs)].rows, A[Len(recs)].open)
  BY <1>2, SeriesRecursion
<1>4. \A i \in 1 .. n : OneRecord(A, i, kind, recs, ms, begin)
  BY <1>1, <1>3, RecordsInOrder
<1>5. \A i \in 0 .. n : A[i] \in SeriesStates
  BY <1>1, <1>3 DEF SeriesUpTo
<1>6. A[0] = NoRows
  BY <1>3 DEF SeriesUpTo, NoRows
<1>7. PICK s \in SeriesStates : s = A[n]
  BY <1>5
<1>8. PICK series : series = Series(kind, recs, ms, begin) /\ series = Append(s.rows, s.open)
  BY <1>1, <1>3, <1>7
<1>9. s.rows \in Seq(Cells) /\ s.open \in Cells
  BY DEF SeriesStates
<1>10. PICK m \in Nat : m = Len(s.rows) /\ DOMAIN s.rows = 1 .. m
  BY <1>9, LenProperties
<1>11. /\ series \in Seq(Cells) /\ Len(series) = m + 1 /\ series[m + 1] = s.open
       /\ \A z \in 1 .. m : series[z] = s.rows[z]
  BY <1>8, <1>9, <1>10
<1>12. LengthFits(Len(series), recs[Len(recs)].rx - begin, ms)
  <2>1. At(s, recs[n].rx - begin, ms)
    BY <1>4, <1>7 DEF OneRecord
  <2>2. m + 1 - 1 = m /\ (m + 1 > 1 => m > 0)
    OBVIOUS
  <2> QED
    BY <1>1, <1>10, <1>11, <2>1, <2>2 DEF At, LengthFits
<1>13. \A i \in 1 .. n : Adds(kind, recs, i) \in Int
  BY <1>1, AddsTypes
<1>14. RowSum(series) = SumFunction([i \in DOMAIN recs |-> Adds(kind, recs, i)])
  <2> DEFINE F == [i \in 1 .. n |-> Adds(kind, recs, i)]
             T == [i \in 0 .. n |-> Total(A[i])]
  <2>1. F \in [1 .. n -> Int]
    BY <1>13
  <2>2. PICK C : AddedUp(C, n, F) /\ SumFunction(F) = C[n]
    <3> HIDE DEF F
    <3> QED
      BY <2>1, SumSteps
  <2>3. Total(NoRows) = 0
    <3> DEFINE none == [z \in 1 .. Len(<<>>) |-> <<>>[z].sum]
    <3>1. none \in [{} -> Int]
      OBVIOUS
    <3>2. SumFunction(none) = 0
      <4> HIDE DEF none
      <4> QED
        BY <3>1, SumNone
    <3> QED
      BY <3>2 DEF Total, RowSum, NoRows, Zero
  <2>4. SameSteps(T, C, n)
    <3>1. T[0] = 0 /\ C[0] = 0
      BY <1>6, <2>2, <2>3 DEF AddedUp
    <3>2. ASSUME NEW i \in 1 .. n, T[i - 1] = C[i - 1] PROVE T[i] = C[i]
      <4>1. i \in 0 .. n /\ i - 1 \in 0 .. n
        OBVIOUS
      <4>2. T[i] = T[i - 1] + F[i]
        BY <1>4, <4>1 DEF OneRecord
      <4> HIDE DEF T, F
      <4> QED
        BY <2>2, <3>2, <4>2 DEF AddedUp
    <3> HIDE DEF T
    <3> QED
      BY <3>1, <3>2 DEF SameSteps
  <2>5. T[n] = C[n]
    <3> HIDE DEF T
    <3> QED
      BY <2>4, SameAtLast
  <2>6. T[n] = Total(s)
    BY <1>7
  <2>7. RowSum(series) = Total(s)
    <3> DEFINE G == [z \in 1 .. m |-> s.rows[z].sum]
               H == [z \in 1 .. m + 1 |-> series[z].sum]
    <3>1. RowSum(series) = SumFunction(H) /\ RowSum(s.rows) = SumFunction(G)
      BY <1>10, <1>11 DEF RowSum
    <3>2. G \in [1 .. m -> Int] /\ H \in [1 .. m + 1 -> Int]
      BY <1>9, <1>10, <1>11, RowSumTypes
    <3>3. (\A z \in 1 .. m : H[z] = G[z]) /\ H[m + 1] = s.open.sum
      BY <1>11
    <3>4. SumFunction(H) = SumFunction(G) + H[m + 1]
      <4> HIDE DEF G, H
      <4> QED
        BY <3>2, <3>3, SumAppend
    <3> QED
      BY <3>1, <3>3, <3>4 DEF Total
  <2> QED
    BY <1>1, <2>2, <2>5, <2>6, <2>7
<1>15. ASSUME NEW z \in Nat \ {0} PROVE RowValue(series, z) = AddsIn(kind, recs, ms, begin, z)
  <2> DEFINE F == [i \in 1 .. n |-> IF Inside(z, ms, recs[i].rx - begin) THEN Adds(kind, recs, i) ELSE 0]
             V == [i \in 0 .. n |-> Value(A[i], z)]
  <2>1. F \in [1 .. n -> Int]
    BY <1>13
  <2>2. PICK C : AddedUp(C, n, F) /\ SumFunction(F) = C[n]
    <3> HIDE DEF F
    <3> QED
      BY <2>1, SumSteps
  <2>3. Value(NoRows, z) = 0
    BY DEF Value, NoRows, Zero
  <2>4. SameSteps(V, C, n)
    <3>1. V[0] = 0 /\ C[0] = 0
      BY <1>6, <2>2, <2>3 DEF AddedUp
    <3>2. ASSUME NEW i \in 1 .. n, V[i - 1] = C[i - 1] PROVE V[i] = C[i]
      <4>1. i \in 0 .. n /\ i - 1 \in 0 .. n
        OBVIOUS
      <4>2. V[i] = V[i - 1] + F[i]
        BY <1>4, <4>1 DEF OneRecord
      <4> HIDE DEF V, F
      <4> QED
        BY <2>2, <3>2, <4>2 DEF AddedUp
    <3> HIDE DEF V
    <3> QED
      BY <3>1, <3>2 DEF SameSteps
  <2>5. V[n] = C[n]
    <3> HIDE DEF V
    <3> QED
      BY <2>4, SameAtLast
  <2>6. V[n] = Value(s, z)
    BY <1>7
  <2>7. RowValue(series, z) = Value(s, z)
    <3>1. z <= m => z \in 1 .. m
      OBVIOUS
    <3> QED
      BY <1>10, <1>11, <3>1 DEF RowValue, Value
  <2> QED
    BY <1>1, <2>2, <2>5, <2>6, <2>7 DEF AddsIn
<1> QED
  BY <1>8, <1>11, <1>12, <1>14, <1>15 DEF SeriesIs
-----------------------------------------------------------------------------
(* Losses. *)

\* If nothing was overtaken, what is lost up to a record is its number without those received.
LEMMA LostInOrder ==
  ASSUME NEW recs \in Seq(MarkedRecords), InOrder(recs), 0 \notin Seen(recs), NEW i \in 1 .. Len(recs)
  PROVE  LostUpTo(recs)[i] = recs[i].seq - i /\ i <= recs[i].seq
<1>1. PICK n \in Nat : n = Len(recs) /\ DOMAIN recs = 1 .. n
  BY LenProperties
<1> DEFINE L == LostUpTo(recs)
<1>2. LossesUpTo(L, n, recs)
  BY <1>1, LostRecursion
<1> HIDE DEF L
<1>3. \A j \in 1 .. n : recs[j].seq \in Nat \ {0}
  <2>1. \A r \in MarkedRecords : r.seq \in Nat
    BY DEF MarkedRecords
  <2> QED
    BY <1>1, <2>1 DEF Seen
<1> DEFINE S == {j \in Nat : j \in 1 .. n => L[j] = recs[j].seq - j /\ j <= recs[j].seq}
<1>4. 0 \in S
  OBVIOUS
<1>5. ASSUME NEW j \in Nat, j \in S PROVE j + 1 \in S
  <2> SUFFICES ASSUME j + 1 \in 1 .. n PROVE L[j + 1] = recs[j + 1].seq - (j + 1) /\ j + 1 <= recs[j + 1].seq
    OBVIOUS
  <2>1. PICK y \in Nat \ {0}, v \in Int : y = recs[j + 1].seq /\ v = L[j]
    <3>1. j \in 0 .. n
      OBVIOUS
    <3>2. recs[j + 1].seq \in Nat \ {0}
      BY <1>3
    <3>3. L[j] \in Int
      BY <1>2, <3>1 DEF LossesUpTo
    <3> QED
      BY <3>2, <3>3
  <2>2. L[j + 1] = IF y > j + 1 + v THEN y - (j + 1) ELSE v
    <3>1. PICK q \in 1 .. n : q = j + 1 /\ q - 1 = j
      OBVIOUS
    <3>2. L[q] = IF recs[q].seq > q + L[q - 1] THEN recs[q].seq - q ELSE L[q - 1]
      BY <1>2 DEF LossesUpTo
    <3> QED
      BY <2>1, <3>1, <3>2
  <2>3. CASE j = 0
    <3>1. v = 0
      BY <1>2, <2>1, <2>3 DEF LossesUpTo
    <3> QED
      BY <2>1, <2>2, <2>3, <3>1
  <2>4. CASE j > 0
    <3>1. j \in 1 .. n
      BY <2>4
    <3>2. PICK x \in Nat : x = recs[j].seq
      BY <1>3, <3>1
    <3>3. x < y
      BY <1>1, <2>1, <3>1, <3>2 DEF InOrder
    <3>4. v = x - j /\ j <= x
      BY <1>5, <2>1, <3>1, <3>2
    <3> QED
      BY <2>1, <2>2, <3>3, <3>4
  <2> QED
    BY <2>3, <2>4
<1> HIDE DEF S
<1>6. \A j \in Nat : j \in S
  BY <1>4, <1>5, Induction
<1> QED
  BY <1>1, <1>6 DEF S, L

\* elabsplit: the loss series of a file sums up to what is lost at its end.
LEMMA LossesTotal ==
  ASSUME NEW recs \in Seq(MarkedRecords), recs # <<>>
  PROVE  SumFunction([i \in DOMAIN recs |-> Adds("pkt", recs, i)]) = LostUpTo(recs)[Len(recs)]
<1>1. PICK n \in Nat : n = Len(recs) /\ DOMAIN recs = 1 .. n
  BY LenProperties
<1> DEFINE L == LostUpTo(recs)
           F == [i \in 1 .. n |-> L[i] - L[i - 1]]
<1>2. LossesUpTo(L, n, recs)
  BY <1>1, LostRecursion
<1>3. [i \in DOMAIN recs |-> Adds("pkt", recs, i)] = F
  BY <1>1 DEF Adds
<1> HIDE DEF L
<1>4. L \in [0 .. n -> Int] /\ L[0] = 0
  BY <1>2 DEF LossesUpTo
<1>5. F \in [1 .. n -> Int]
  <2>1. \A i \in 1 .. n : i \in 0 .. n /\ i - 1 \in 0 .. n
    OBVIOUS
  <2> QED
    BY <1>4, <2>1
<1>6. \A i \in 1 .. n : F[i] = L[i] - L[i - 1]
  OBVIOUS
<1> HIDE DEF F
<1>7. SumFunction(F) = L[n]
  BY <1>4, <1>5, <1>6, SumTelescopes
<1> QED
  BY <1>1, <1>3, <1>7 DEF L

\* Records in order have different numbers.
LEMMA SeenInOrder ==
  ASSUME NEW recs \in Seq(MarkedRecords), InOrder(recs), recs # <<>>
  PROVE  /\ Cardinality(Seen(recs)) = Len(recs)
         /\ recs[Len(recs)].seq \in Seen(recs) /\ \A q \in Seen(recs) : q <= recs[Len(recs)].seq
<1>1. PICK n \in Nat \ {0} : n = Len(recs) /\ DOMAIN recs = 1 .. n
  BY LenProperties
<1>2. \A j \in 1 .. n : recs[j].seq \in Nat
  <2>1. \A r \in MarkedRecords : r.seq \in Nat
    BY DEF MarkedRecords
  <2> QED
    BY <1>1, <2>1
<1> DEFINE f == [j \in 1 .. n |-> recs[j].seq]
<1>3. f \in [1 .. n -> Seen(recs)]
  BY <1>1 DEF Seen
<1>4. f \in Surjection(1 .. n, Seen(recs))
  BY <1>1, <1>3 DEF Surjection, Seen
<1>5. f \in Injection(1 .. n, Seen(recs))
  <2>1. ASSUME NEW i \in 1 .. n, NEW j \in 1 .. n, f[i] = f[j] PROVE i = j
    <3>1. ~(i < j) /\ ~(j < i)
      BY <1>1, <1>2, <2>1 DEF InOrder
    <3> QED
      BY <3>1
  <2> QED
    BY <1>3, <2>1 DEF Injection, IsInjective
<1>6. IsFiniteSet(1 .. n) /\ Cardinality(1 .. n) = n
  BY FS_Interval
<1>7. Cardinality(Seen(recs)) = n
  <2> HIDE DEF f
  <2> QED
    BY <1>4, <1>5, <1>6, FS_Surjection
<1>8. \A q \in Seen(recs) : q <= recs[n].seq
  <2>1. ASSUME NEW j \in 1 .. n PROVE recs[j].seq <= recs[n].seq
    <3>1. n \in 1 .. n /\ (j = n \/ j < n)
      OBVIOUS
    <3>2. CASE j < n
      <4>1. recs[j].seq < recs[n].seq
        BY <1>1, <3>1, <3>2 DEF InOrder
      <4> QED
        BY <1>2, <3>1, <4>1
    <3>3. CASE j = n
      BY <1>2, <3>1, <3>3
    <3> QED
      BY <3>1, <3>2, <3>3
  <2> QED
    BY <1>1, <2>1 DEF Seen
<1>9. recs[n].seq \in Seen(recs)
  <2>1. n \in 1 .. n
    OBVIOUS
  <2> QED
    BY <1>1, <2>1 DEF Seen
<1> QED
  BY <1>1, <1>7, <1>8, <1>9

\* setline and elabsplit find the same loss, each in its own way.
LEMMA SameLosses ==
  ASSUME NEW recs \in Seq(MarkedRecords), recs # <<>>, InOrder(recs), 0 \notin Seen(recs), Len(recs) # 1,
         NEW info \in InfoTypes, Tallies(info, recs)
  PROVE  SumFunction([i \in DOMAIN recs |-> Adds("pkt", recs, i)]) = info.pktloss
<1>1. PICK n \in Nat \ {0} : n = Len(recs) /\ DOMAIN recs = 1 .. n
  BY LenProperties
<1>2. PICK q \in Nat : q = recs[n].seq
  <2>1. \A r \in MarkedRecords : r.seq \in Nat
    BY DEF MarkedRecords
  <2>2. n \in DOMAIN recs
    BY <1>1
  <2> QED
    BY <2>1, <2>2
<1>3. SumFunction([i \in DOMAIN recs |-> Adds("pkt", recs, i)]) = q - n
  <2>1. n \in 1 .. Len(recs)
    BY <1>1
  <2>2. LostUpTo(recs)[n] = recs[n].seq - n
    BY <2>1, LostInOrder
  <2> QED
    BY <1>1, <1>2, <2>2, LossesTotal
<1>4. Cardinality(Seen(recs)) = n /\ q \in Seen(recs) /\ \A p \in Seen(recs) : p <= q
  BY <1>1, <1>2, SeenInOrder
<1>5. /\ info.pktrecv = n /\ info.pktdup \in 0 .. n - n
      /\ info.pktloss = info.maxSeq - info.pktrecv + info.pktdup
      /\ info.maxSeq \in Seen(recs) /\ \A p \in Seen(recs) : p <= info.maxSeq
  <2>1. /\ info.pktrecv = n /\ info.pktdup \in 0 .. n - n
        /\ info.pktrecv > 1 => info.pktloss = info.maxSeq - info.pktrecv + info.pktdup
        /\ info.maxSeq \in Seen(recs) /\ \A p \in Seen(recs) : p <= info.maxSeq
    BY <1>1, <1>4 DEF Tallies
  <2> QED
    BY <1>1, <2>1
<1>6. info.maxSeq \in Nat
  BY DEF InfoTypes
<1>7. info.maxSeq = q
  BY <1>4, <1>5, <1>6
<1> QED
  BY <1>3, <1>5, <1>7
-----------------------------------------------------------------------------
(* The files of the flows, and all records that are considered. *)

\* What records weigh, if the weight of each depends on its time and its size.
Weights == [Nat \X Nat -> Int]
Weight(w, recs) == SumFunction([i \in DOMAIN recs |-> w[<<recs[i].rx, recs[i].size>>]])

\* One more record adds its weight.
LEMMA WeightAppend ==
  ASSUME NEW w \in Weights, NEW recs \in Seq(MarkedRecords), NEW r \in MarkedRecords
  PROVE  /\ Weight(w, recs) \in Int /\ w[<<r.rx, r.size>>] \in Int
         /\ Weight(w, Append(recs, r)) = Weight(w, recs) + w[<<r.rx, r.size>>]
<1>1. PICK n \in Nat : n = Len(recs) /\ DOMAIN recs = 1 .. n
  BY LenProperties
<1> DEFINE long == Append(recs, r)
           F == [i \in 1 .. n |-> w[<<recs[i].rx, recs[i].size>>]]
           G == [i \in 1 .. n + 1 |-> w[<<long[i].rx, long[i].size>>]]
<1>2. \A s \in MarkedRecords : w[<<s.rx, s.size>>] \in Int
  BY DEF MarkedRecords, Weights
<1>3. /\ long \in Seq(MarkedRecords) /\ DOMAIN long = 1 .. n + 1 /\ long[n + 1] = r
      /\ \A i \in 1 .. n : long[i] = recs[i]
  BY <1>1
<1>4. \A i \in 1 .. n + 1 : long[i] \in MarkedRecords
  BY <1>3
<1> HIDE DEF long
<1>5. F \in [1 .. n -> Int] /\ G \in [1 .. n + 1 -> Int]
  BY <1>1, <1>2, <1>4
<1>6. (\A i \in 1 .. n : G[i] = F[i]) /\ G[n + 1] = w[<<r.rx, r.size>>]
  <2>1. n + 1 \in 1 .. n + 1 /\ \A i \in 1 .. n : i \in 1 .. n + 1
    OBVIOUS
  <2>2. \A i \in 1 .. n : G[i] = F[i]
    BY <1>3, <2>1
  <2>3. G[n + 1] = w[<<long[n + 1].rx, long[n + 1].size>>]
    BY <2>1
  <2> QED
    BY <1>3, <2>2, <2>3
<1>7. SumFunction(F) \in Int /\ SumFunction(G) = SumFunction(F) + G[n + 1]
  <2> HIDE DEF F, G
  <2> QED
    BY <1>5, <1>6, SumAppend
<1>8. Weight(w, recs) = SumFunction(F) /\ Weight(w, long) = SumFunction(G)
  BY <1>1, <1>3 DEF Weight
<1> QED
  BY <1>2, <1>6, <1>7, <1>8 DEF long

\* No records weigh nothing.
LEMMA WeightNone ==
  ASSUME NEW w PROVE Weight(w, <<>>) = 0
<1> DEFINE F == [i \in DOMAIN <<>> |-> w[<<(<<>>)[i].rx, (<<>>)[i].size>>]]
<1>1. F \in [{} -> Int]
  OBVIOUS
<1>2. SumFunction(F) = 0
  <2> HIDE DEF F
  <2> QED
    BY <1>1, SumNone
<1> QED
  BY <1>2 DEF Weight

\* A file for every entry of flowinfo[], with all records there are, in their order.
MarkedFiles == [flow : Flows \cup {OneFlow}, recs : Seq(MarkedRecords)]
FilesMatch(files, infos) ==
  /\ files \in Seq(MarkedFiles) /\ Len(files) = Len(infos)
  /\ \A i \in DOMAIN files : files[i].flow = infos[i].flow /\ files[i].recs # <<>>
FilesHold(files, recs, begin) ==
  /\ \A i \in DOMAIN files :
       /\ Rising(files[i].recs, begin)
       /\ \A j \in DOMAIN files[i].recs : files[i].recs[j].rx <= recs[Len(recs)].rx
  /\ \A w \in Weights : SumFunction([i \in DOMAIN files |-> Weight(w, files[i].recs)]) = Weight(w, recs)
FilesMade ==
  dec.pc # "done" /\ Splits(asked.dec) =>
    FilesMatch(dec.files, dec.infos) /\ FilesHold(dec.files, Kept, dec.begin)

\* The record goes to a file, which may be a new one.
GoesTo(files, new, k, r) ==
  /\ k \in DOMAIN new /\ new[k].flow = r.flow
  /\ \/ k \in DOMAIN files /\ Len(new) = Len(files) /\ new[k].recs = Append(files[k].recs, r)
     \/ k = Len(files) + 1 /\ Len(new) = k /\ new[k].recs = <<r>>
  /\ \A i \in DOMAIN new : i # k => i \in DOMAIN files /\ new[i] = files[i]
LEMMA SplitAlong ==
  ASSUME NEW infos \in Seq(InfoTypes), NEW files, FilesMatch(files, infos), NEW r \in MarkedRecords
  PROVE  /\ FilesMatch(Split(files, r), SetLine(infos, r))
         /\ \E k : GoesTo(files, Split(files, r), k, r)
<1>1. PICK n \in Nat : n = Len(infos) /\ n = Len(files) /\ DOMAIN infos = 1 .. n /\ DOMAIN files = 1 .. n
  BY LenProperties DEF FilesMatch
<1>2. /\ files \in Seq(MarkedFiles)
      /\ \A i \in 1 .. n : files[i].flow = infos[i].flow /\ files[i].recs # <<>>
  BY <1>1 DEF FilesMatch
<1> DEFINE known == {z \in 1 .. n : infos[z].flow = r.flow}
           z == CHOOSE z \in known : TRUE
<1>3. known = {i \in 1 .. n : files[i].flow = r.flow}
  BY <1>2
<1>4. /\ known = {i \in DOMAIN infos : infos[i].flow = r.flow}
      /\ known = {i \in DOMAIN files : files[i].flow = r.flow}
  BY <1>1, <1>3
<1>5. \A i \in 1 .. n : files[i] \in MarkedFiles /\ infos[i] \in InfoTypes
  BY <1>1, <1>2
<1>6. r.flow \in Flows \cup {OneFlow}
  BY DEF MarkedRecords
<1>7. CASE known = {}
  <2> DEFINE file == [flow |-> r.flow, recs |-> <<r>>]
             new  == Append(files, file)
             info == Append(infos, NewFlow(r))
  <2>1. Split(files, r) = new /\ SetLine(infos, r) = info
    BY <1>4, <1>7 DEF Split, SetLine
  <2>2. file \in MarkedFiles
    <3>1. <<r>> \in Seq(MarkedRecords)
      OBVIOUS
    <3> QED
      BY <1>6, <3>1 DEF MarkedFiles
  <2>3. file.flow = r.flow /\ file.recs = <<r>> /\ <<r>> # <<>> /\ NewFlow(r).flow = r.flow
    BY DEF NewFlow
  <2> HIDE DEF file
  <2>4. /\ new \in Seq(MarkedFiles) /\ Len(new) = n + 1 /\ DOMAIN new = 1 .. n + 1 /\ new[n + 1] = file
        /\ \A i \in 1 .. n : new[i] = files[i]
    BY <1>1, <1>2, <2>2
  <2>5. Len(info) = n + 1 /\ info[n + 1] = NewFlow(r) /\ \A i \in 1 .. n : info[i] = infos[i]
    BY <1>1, AppendsTo
  <2> HIDE DEF new, info
  <2>6. \A i \in 1 .. n + 1 : i = n + 1 \/ i \in 1 .. n
    OBVIOUS
  <2>7. FilesMatch(new, info)
    BY <1>2, <2>3, <2>4, <2>5, <2>6 DEF FilesMatch
  <2>8. GoesTo(files, new, n + 1, r)
    BY <1>1, <2>3, <2>4, <2>6 DEF GoesTo
  <2> QED
    BY <2>1, <2>7, <2>8
<1>8. CASE known # {}
  <2>1. z \in known
    BY <1>8
  <2> HIDE DEF z
  <2>2. z \in 1 .. n /\ files[z].flow = r.flow /\ infos[z].flow = r.flow
    BY <1>3, <2>1
  <2> HIDE DEF known
  <2> DEFINE new  == [files EXCEPT ![z].recs = Append(@, r)]
             info == [infos EXCEPT ![z] = Update(@, r)]
  <2>3. Split(files, r) = new /\ SetLine(infos, r) = info
    BY <1>4, <1>8 DEF Split, SetLine, z
  <2>4. Update(infos[z], r).flow = r.flow
    BY <1>5, <2>2, UpdateTypes
  <2>5. /\ files[z].recs \in Seq(MarkedRecords) /\ Append(files[z].recs, r) \in Seq(MarkedRecords)
        /\ Append(files[z].recs, r) # <<>>
    <3>1. files[z].recs \in Seq(MarkedRecords)
      BY <1>5, <2>2 DEF MarkedFiles
    <3> QED
      BY <3>1
  <2>6. /\ Len(new) = n /\ DOMAIN new = 1 .. n /\ new[z].recs = Append(files[z].recs, r)
        /\ new[z].flow = r.flow /\ new[z] \in MarkedFiles
        /\ \A i \in 1 .. n : i # z => new[i] = files[i]
    <3>1. new[z] = [files[z] EXCEPT !.recs = Append(@, r)]
      BY <1>1, <2>2
    <3>2. new[z] \in MarkedFiles /\ new[z].flow = r.flow /\ new[z].recs = Append(files[z].recs, r)
      BY <1>5, <2>2, <2>5, <3>1 DEF MarkedFiles
    <3>3. Len(new) = n /\ DOMAIN new = 1 .. n
      BY <1>1, <1>2
    <3> QED
      BY <1>1, <3>2, <3>3
  <2>7. Len(info) = n /\ info[z] = Update(infos[z], r) /\ \A i \in 1 .. n : i # z => info[i] = infos[i]
    BY <1>1, <2>2
  <2>8. new \in Seq(MarkedFiles)
    <3>1. new = [i \in 1 .. n |-> new[i]]
      BY <1>1
    <3>2. \A i \in 1 .. n : new[i] \in MarkedFiles
      BY <1>5, <2>6
    <3> HIDE DEF new
    <3> QED
      BY <3>1, <3>2
  <2> HIDE DEF new, info
  <2>9. FilesMatch(new, info)
    BY <1>2, <2>2, <2>4, <2>5, <2>6, <2>7, <2>8 DEF FilesMatch
  <2>10. GoesTo(files, new, z, r)
    BY <1>1, <2>2, <2>6 DEF GoesTo
  <2> QED
    BY <2>3, <2>9, <2>10
<1> QED
  BY <1>7, <1>8

\* A record is added to one file and to all records, and is the last of both.
LEMMA HoldsMore ==
  ASSUME NEW files \in Seq(MarkedFiles), NEW new \in Seq(MarkedFiles), NEW s \in MarkedRecords, NEW k,
         GoesTo(files, new, k, s), NEW recs \in Seq(MarkedRecords), NEW r \in MarkedRecords,
         s.rx = r.rx, s.size = r.size, NEW begin, NEW start \in Nat, FilesHold(files, recs, begin),
         \A i \in DOMAIN recs : recs[i].rx <= r.rx,
         recs = <<>> => files = <<>> /\ start = r.rx, recs # <<>> => start = begin /\ start <= r.rx
  PROVE  FilesHold(new, Append(recs, r), start)
<1>1. PICK m \in Nat, n \in Nat, l \in Nat :
        /\ m = Len(files) /\ n = Len(new) /\ DOMAIN files = 1 .. m /\ DOMAIN new = 1 .. n
        /\ l = Len(recs) /\ DOMAIN recs = 1 .. l
  BY LenProperties
<1>2. (\A q \in MarkedRecords : q.rx \in Nat) /\ s.rx \in Nat /\ r.rx \in Nat
  BY DEF MarkedRecords
<1> DEFINE long == Append(recs, r)
<1>3. long[Len(long)] = r
  BY <1>1
<1>4. /\ \A i \in 1 .. m : files[i].recs \in Seq(MarkedRecords)
      /\ \A i \in 1 .. n : new[i].recs \in Seq(MarkedRecords)
  <2>1. \A q \in MarkedFiles : q.recs \in Seq(MarkedRecords)
    BY DEF MarkedFiles
  <2>2. (\A i \in 1 .. m : files[i] \in MarkedFiles) /\ (\A i \in 1 .. n : new[i] \in MarkedFiles)
    BY <1>1
  <2> QED
    BY <2>1, <2>2
<1>5. k \in 1 .. n /\ \A i \in 1 .. n : i # k => i \in 1 .. m /\ new[i] = files[i]
  BY <1>1 DEF GoesTo
<1>6. \/ k \in 1 .. m /\ n = m /\ new[k].recs = Append(files[k].recs, s)
      \/ k = m + 1 /\ n = m + 1 /\ new[k].recs = <<s>>
  BY <1>1 DEF GoesTo
<1>7. ASSUME NEW i \in 1 .. m
      PROVE  /\ recs # <<>> /\ start = begin /\ Rising(files[i].recs, start) /\ start <= r.rx
             /\ \A j \in DOMAIN files[i].recs : files[i].recs[j].rx <= r.rx
  <2>1. recs # <<>>
    <3>1. i \in DOMAIN files /\ DOMAIN <<>> = {}
      BY <1>1
    <3> QED
      BY <3>1
  <2>2. Rising(files[i].recs, start)
    BY <1>1, <2>1 DEF FilesHold
  <2>3. l \in 1 .. l
    BY <1>1, <2>1
  <2>4. recs[l].rx <= r.rx /\ recs[l].rx \in Nat
    BY <1>1, <1>2, <2>3
  <2>5. ASSUME NEW j \in DOMAIN files[i].recs PROVE files[i].recs[j].rx <= r.rx
    <3>1. files[i].recs[j].rx <= recs[l].rx
      BY <1>1 DEF FilesHold
    <3>2. files[i].recs[j].rx \in Nat
      <4>1. files[i].recs[j] \in MarkedRecords
        BY <1>4
      <4> QED
        BY <1>2, <4>1
    <3> QED
      BY <1>2, <2>4, <3>1, <3>2
  <2> QED
    BY <2>1, <2>2, <2>5
<1>8. Rising(new[k].recs, start) /\ \A j \in DOMAIN new[k].recs : new[k].recs[j].rx <= r.rx
  <2>1. CASE k \in 1 .. m /\ n = m /\ new[k].recs = Append(files[k].recs, s)
    <3> DEFINE old == files[k].recs
               all == Append(old, s)
    <3>1. PICK p \in Nat : p = Len(old) /\ DOMAIN old = 1 .. p
      BY <1>4, <2>1, LenProperties
    <3>2. DOMAIN all = 1 .. p + 1 /\ all[p + 1] = s /\ \A j \in 1 .. p : all[j] = old[j]
      BY <1>4, <2>1, <3>1
    <3>3. /\ \A i, j \in 1 .. p : i <= j => old[i].rx <= old[j].rx
          /\ \A i \in 1 .. p : start <= old[i].rx /\ old[i].rx <= r.rx
          /\ start <= r.rx
      BY <1>7, <2>1, <3>1 DEF Rising
    <3> HIDE DEF all, old
    <3>4. \A j \in 1 .. p + 1 : j \in 1 .. p \/ j = p + 1
      OBVIOUS
    <3>5. ASSUME NEW j \in 1 .. p + 1 PROVE start <= all[j].rx /\ all[j].rx <= r.rx
      <4>1. CASE j = p + 1
        <5>1. r.rx <= r.rx
          BY <1>2
        <5> QED
          BY <1>2, <3>2, <3>3, <4>1, <5>1
      <4>2. CASE j # p + 1
        <5>1. j \in 1 .. p
          BY <4>2
        <5> QED
          BY <3>2, <3>3, <5>1
      <4> QED
        BY <4>1, <4>2
    <3>6. ASSUME NEW i \in 1 .. p + 1, NEW j \in 1 .. p + 1, i <= j PROVE all[i].rx <= all[j].rx
      <4>1. CASE j = p + 1
        BY <3>2, <3>5, <4>1
      <4>2. CASE j # p + 1
        <5>1. i \in 1 .. p /\ j \in 1 .. p
          BY <3>6, <4>2
        <5> QED
          BY <3>2, <3>3, <3>6, <5>1
      <4> QED
        BY <4>1, <4>2
    <3> QED
      BY <2>1, <3>2, <3>5, <3>6 DEF Rising, all, old
  <2>2. CASE k = m + 1 /\ n = m + 1 /\ new[k].recs = <<s>>
    <3>1. start <= r.rx
      BY <1>2
    <3>2. DOMAIN <<s>> = {1} /\ <<s>>[1] = s
      OBVIOUS
    <3> QED
      BY <1>2, <2>2, <3>1, <3>2 DEF Rising
  <2> QED
    BY <1>6, <2>1, <2>2
<1>9. ASSUME NEW i \in 1 .. n
      PROVE  Rising(new[i].recs, start) /\ \A j \in DOMAIN new[i].recs : new[i].recs[j].rx <= r.rx
  BY <1>5, <1>7, <1>8
<1>10. ASSUME NEW w \in Weights
       PROVE  SumFunction([i \in DOMAIN new |-> Weight(w, new[i].recs)]) = Weight(w, long)
  <2> DEFINE F == [i \in 1 .. m |-> Weight(w, files[i].recs)]
             G == [i \in 1 .. n |-> Weight(w, new[i].recs)]
  <2>1. PICK add \in Int : add = w[<<r.rx, r.size>>] /\ add = w[<<s.rx, s.size>>]
    BY WeightAppend
  <2>2. SumFunction(F) = Weight(w, recs) /\ Weight(w, recs) \in Int /\ Weight(w, long) = Weight(w, recs) + add
    <3>1. SumFunction(F) = Weight(w, recs)
      BY <1>1 DEF FilesHold
    <3> QED
      BY <2>1, <3>1, WeightAppend
  <2>3. \A i \in 1 .. n : new[i].recs \in Seq(MarkedRecords)
    BY <1>4
  <2>4. F \in [1 .. m -> Int] /\ G \in [1 .. n -> Int]
    BY <1>4, <2>3, WeightAppend
  <2>5. k \in 1 .. m => G[k] = F[k] + add
    <3> SUFFICES ASSUME k \in 1 .. m PROVE G[k] = F[k] + add
      OBVIOUS
    <3>1. new[k].recs = Append(files[k].recs, s) /\ files[k].recs \in Seq(MarkedRecords)
      BY <1>4, <1>6
    <3>2. Weight(w, new[k].recs) = Weight(w, files[k].recs) + add
      BY <2>1, <3>1, WeightAppend
    <3> QED
      BY <1>5, <3>2
  <2>6. k \notin 1 .. m => G[k] = add
    <3> SUFFICES ASSUME k \notin 1 .. m PROVE G[k] = add
      OBVIOUS
    <3>1. new[k].recs = <<s>> /\ <<s>> = Append(<<>>, s) /\ <<>> \in Seq(MarkedRecords)
      BY <1>6
    <3>2. Weight(w, Append(<<>>, s)) = Weight(w, <<>>) + add
      BY <2>1, <3>1, WeightAppend
    <3>3. Weight(w, new[k].recs) = add
      BY <3>1, <3>2, WeightNone
    <3> QED
      BY <1>5, <3>3
  <2>7. \A z \in 1 .. n : z # k => z \in 1 .. m /\ G[z] = F[z]
    BY <1>5
  <2>8. 1 .. m \subseteq 1 .. n
    BY <1>6
  <2>9. AddsOne(F, G, m, n, k, add)
    <3> HIDE DEF F, G
    <3> QED
      BY <1>5, <2>1, <2>4, <2>5, <2>6, <2>7, <2>8 DEF AddsOne
  <2>10. SumFunction(G) = SumFunction(F) + add
    <3> HIDE DEF F, G
    <3> QED
      BY <2>9, SetLineSum
  <2> QED
    BY <1>1, <2>2, <2>10
<1> QED
  BY <1>1, <1>3, <1>9, <1>10 DEF FilesHold

\* There are no files at first, and no records.
LEMMA FilesMadeInitially == Init => FilesMade
<1> SUFFICES ASSUME Init PROVE FilesMade
  OBVIOUS
<1>1. dec.out = <<>> /\ dec.infos = <<>> /\ dec.files = <<>>
  BY DEF Init, DecoderInit
<1>2. Kept = <<>>
  BY <1>1, OfFlowsNone DEF Kept, Valid
<1>3. DOMAIN <<>> = {} /\ Len(<<>>) = 0 /\ <<>> \in Seq(MarkedFiles)
  OBVIOUS
<1>4. FilesMatch(<<>>, <<>>)
  BY <1>3 DEF FilesMatch
<1>5. ASSUME NEW w \in Weights
      PROVE  SumFunction([i \in DOMAIN <<>> |-> Weight(w, (<<>>)[i].recs)]) = Weight(w, <<>>)
  <2> DEFINE F == [i \in DOMAIN <<>> |-> Weight(w, (<<>>)[i].recs)]
  <2>1. F \in [{} -> Int]
    OBVIOUS
  <2>2. SumFunction(F) = 0
    <3> HIDE DEF F
    <3> QED
      BY <2>1, SumNone
  <2> QED
    BY <2>2, WeightNone
<1>6. FilesHold(<<>>, <<>>, dec.begin)
  BY <1>3, <1>5 DEF FilesHold
<1> QED
  BY <1>1, <1>2, <1>4, <1>6 DEF FilesMade

\* A step of the measurement leaves the files with all records.
LEMMA FilesMadeStep ==
  ASSUME MeasureInv, InfosKept, LogsKept, ReadKept, TotalsKept, FilesMade, [Next]_vars
  PROVE  FilesMade'
<1>1. /\ asked' = asked /\ Kept \in Seq(Records) /\ Input \in Seq(Records)
      /\ KeepsRecords \/ \E r \in Records : ReadsRecord(r)
  BY DecoderMoves, KeptTypes
<1>2. ASSUME dec.pc # "done", Splits(asked.dec),
             dec'.files = dec.files, dec'.infos = dec.infos, dec'.begin = dec.begin, Kept' = Kept
      PROVE  FilesMade'
  <2>1. FilesMatch(dec.files, dec.infos) /\ FilesHold(dec.files, Kept, dec.begin)
    BY <1>2 DEF FilesMade
  <2>2. FilesMatch(dec'.files, dec'.infos) /\ FilesHold(dec'.files, Kept', dec'.begin)
    BY <1>2, <2>1
  <2> QED
    BY <2>2 DEF FilesMade, FilesMatch, FilesHold, Rising, Weight
<1>3. CASE KeepsRecords
  <2> SUFFICES ASSUME dec'.pc # "done", Splits(asked.dec)' PROVE FilesMade'
    BY DEF FilesMade
  <2>1. Kept' = Kept /\ dec'.infos = dec.infos /\ dec'.begin = dec.begin /\ dec'.files = dec.files
    BY <1>1, <1>3 DEF KeepsRecords, Kept, Valid
  <2>2. dec.pc # "done" /\ Splits(asked.dec)
    BY <1>1, <1>3 DEF KeepsRecords, Splits
  <2> QED
    BY <1>2, <2>1, <2>2
<1>4. ASSUME NEW r \in Records, ReadsRecord(r) PROVE FilesMade'
  <2> SUFFICES ASSUME Splits(asked.dec)' PROVE FilesMade'
    BY DEF FilesMade
  <2>1. /\ dec'.out = Append(dec.out, r) /\ dec'.pc = "reading" /\ dec.pc = "reading"
        /\ dec.read \in Nat /\ dec.read < Len(Input) /\ r.rx = Input[dec.read + 1].rx
    BY <1>4 DEF ReadsRecord, MeasureInv, MeasureTypes
  <2>2. Kept' = IF r.flow \in asked.dec.keep THEN Append(Kept, r) ELSE Kept
    BY <1>1, <2>1, KeptMoves
  <2>3. Splits(asked.dec)
    BY <1>1 DEF Splits
  <2>4. CASE r.flow \notin asked.dec.keep
    <3>1. dec'.infos = dec.infos /\ dec'.begin = dec.begin /\ dec'.files = dec.files /\ Kept' = Kept
      BY <1>4, <2>2, <2>4 DEF ReadsRecord
    <3> QED
      BY <1>2, <2>1, <2>3, <3>1
  <2>5. CASE r.flow \in asked.dec.keep
    <3> DEFINE infos == dec.infos
               files == dec.files
               begin == dec.begin
               recs  == Kept
               s     == Marked(r)
               new   == Split(files, s)
               start == IF infos = <<>> \/ r.rx < begin THEN r.rx ELSE begin
    <3>1. /\ dec'.infos = SetLine(infos, s) /\ Kept' = Append(recs, r)
          /\ dec'.files = new /\ dec'.begin = start
      BY <1>4, <2>2, <2>3, <2>5 DEF ReadsRecord
    <3>2. infos \in Seq(InfoTypes)
      BY DEF InfosKept
    <3>3. s \in MarkedRecords /\ r \in MarkedRecords /\ s.rx = r.rx /\ s.size = r.size
      BY DEF Marked, MarkedRecords, Records
    <3>4. \A i \in DOMAIN recs : recs[i].rx <= r.rx
      <4>1. PICK a \in Nat, n \in Nat : a = dec.read /\ n = Len(Input) /\ DOMAIN Input = 1 .. n
        BY <1>1, <2>1, LenProperties
      <4>2. a + 1 \in DOMAIN Input /\ a + 1 > a
        BY <2>1, <4>1
      <4> QED
        BY <2>1, <4>1, <4>2 DEF ReadKept
    <3>5. recs \in Seq(MarkedRecords)
      <4>1. Records \subseteq MarkedRecords
        BY DEF Records, MarkedRecords
      <4> QED
        BY <1>1, <4>1
    <3>6. FilesMatch(files, infos) /\ FilesHold(files, recs, begin)
      BY <2>1, <2>3 DEF FilesMade
    <3>7. SummedUp(infos, recs, begin)
      BY DEF TotalsKept
    <3>8. \A q \in MarkedRecords : q.rx \in Nat
      BY DEF MarkedRecords
    <3>9. recs = <<>> => files = <<>> /\ start = r.rx
      <4> SUFFICES ASSUME recs = <<>> PROVE files = <<>> /\ start = r.rx
        OBVIOUS
      <4>1. infos = <<>>
        BY <3>7 DEF SummedUp
      <4>2. files \in Seq(MarkedFiles) /\ Len(files) = 0
        BY <3>6, <4>1 DEF FilesMatch
      <4>3. files = <<>>
        BY <4>2
      <4> QED
        BY <4>1, <4>3
    <3>10. recs # <<>> => start = begin /\ start <= r.rx
      <4> SUFFICES ASSUME recs # <<>> PROVE start = begin /\ start <= r.rx
        OBVIOUS
      <4>1. infos # <<>> /\ begin = recs[1].rx
        BY <3>7 DEF SummedUp
      <4>2. 1 \in DOMAIN recs
        <5>1. PICK l \in Nat : l = Len(recs) /\ DOMAIN recs = 1 .. l
          BY <3>5, LenProperties
        <5>2. l > 0
          BY <3>5, <5>1
        <5> QED
          BY <5>1, <5>2
      <4>3. begin <= r.rx /\ begin \in Nat /\ r.rx \in Nat
        <5>1. recs[1] \in MarkedRecords
          BY <3>5, <4>2
        <5> QED
          BY <3>3, <3>4, <3>8, <4>1, <4>2, <5>1
      <4> QED
        BY <4>1, <4>3
    <3>11. start \in Nat
      <4>1. CASE recs = <<>>
        BY <3>3, <3>8, <3>9, <4>1
      <4>2. CASE recs # <<>>
        <5>1. begin = recs[1].rx
          BY <3>7, <4>2 DEF SummedUp
        <5>2. 1 \in DOMAIN recs
          <6>1. PICK l \in Nat : l = Len(recs) /\ DOMAIN recs = 1 .. l
            BY <3>5, LenProperties
          <6>2. l > 0
            BY <3>5, <4>2, <6>1
          <6> QED
            BY <6>1, <6>2
        <5>3. recs[1] \in MarkedRecords
          BY <3>5, <5>2
        <5> QED
          BY <3>8, <3>10, <4>2, <5>1, <5>3
      <4> QED
        BY <4>1, <4>2
    <3> HIDE DEF start, new, s, recs, files, infos, begin
    <3>12. FilesMatch(new, SetLine(infos, s)) /\ \E k : GoesTo(files, new, k, s)
      BY <3>2, <3>3, <3>6, SplitAlong DEF new
    <3>13. PICK k : GoesTo(files, new, k, s)
      BY <3>12
    <3>14. files \in Seq(MarkedFiles) /\ new \in Seq(MarkedFiles)
      BY <3>6, <3>12 DEF FilesMatch
    <3>15. FilesHold(new, Append(recs, r), start)
      BY <3>3, <3>4, <3>5, <3>6, <3>9, <3>10, <3>11, <3>13, <3>14, HoldsMore
    <3>16. FilesMatch(dec'.files, dec'.infos) /\ FilesHold(dec'.files, Kept', dec'.begin)
      BY <3>1, <3>12, <3>15
    <3> QED
      BY <3>16 DEF FilesMade, FilesMatch, FilesHold, Rising, Weight
  <2> QED
    BY <2>4, <2>5
<1> QED
  BY <1>1, <1>3, <1>4
-----------------------------------------------------------------------------
(* Series row by row. *)

\* Some series has most rows.
LEMMA MostRows ==
  ASSUME NEW m \in Nat \ {0}, NEW f \in [1 .. m -> Nat]
  PROVE  \E j \in 1 .. m : \A i \in 1 .. m : f[i] <= f[j]
<1> DEFINE Good(k) == \E j \in 1 .. k : \A i \in 1 .. k : f[i] <= f[j]
           S == {k \in Nat : k \in 1 .. m => Good(k)}
<1>1. 0 \in S
  OBVIOUS
<1>2. ASSUME NEW k \in Nat, k \in S PROVE k + 1 \in S
  <2> SUFFICES ASSUME k + 1 \in 1 .. m PROVE Good(k + 1)
    OBVIOUS
  <2>1. PICK q \in 1 .. m : q = k + 1 /\ q \in 1 .. k + 1
    OBVIOUS
  <2>2. \A i \in 1 .. k + 1 : i \in 1 .. m /\ (i = q \/ i \in 1 .. k)
    BY <2>1
  <2>3. CASE k = 0
    <3>1. \A i \in 1 .. k + 1 : i = q
      BY <2>1, <2>3
    <3>2. f[q] <= f[q]
      OBVIOUS
    <3> QED
      BY <2>1, <3>1, <3>2
  <2>4. CASE k # 0
    <3>1. k \in 1 .. m
      BY <2>4
    <3>2. PICK j \in 1 .. k : \A i \in 1 .. k : f[i] <= f[j]
      BY <1>2, <3>1
    <3>3. j \in 1 .. k + 1 /\ j \in 1 .. m
      OBVIOUS
    <3>4. f[j] \in Nat /\ f[q] \in Nat
      BY <3>3
    <3>5. CASE f[q] <= f[j]
      BY <2>2, <3>2, <3>3, <3>5
    <3>6. CASE f[j] < f[q]
      <4>1. ASSUME NEW i \in 1 .. k + 1 PROVE f[i] <= f[q]
        <5>1. CASE i = q
          BY <3>4, <5>1
        <5>2. CASE i \in 1 .. k
          <6>1. f[i] <= f[j] /\ f[i] \in Nat
            BY <2>2, <3>2, <5>2
          <6> QED
            BY <3>4, <3>6, <6>1
        <5> QED
          BY <2>2, <5>1, <5>2
      <4> QED
        BY <2>1, <4>1
    <3> QED
      BY <3>4, <3>5, <3>6
  <2> QED
    BY <2>3, <2>4
<1> HIDE DEF S
<1>3. \A k \in Nat : k \in S
  BY <1>1, <1>2, Induction
<1>4. m \in S /\ m \in 1 .. m
  BY <1>3
<1> QED
  BY <1>4 DEF S

\* Row by row, the sums over some series.
TableSums(series) ==
  [z \in 1 .. Max(Rows(series)) |-> SumFunction([i \in DOMAIN series |-> RowValue(series[i], z)])]
LEMMA TableTotal ==
  ASSUME NEW m \in Nat \ {0}, NEW series \in [1 .. m -> Seq(Cells)]
  PROVE  /\ Max(Rows(series)) \in Nat /\ \A i \in 1 .. m : Len(series[i]) <= Max(Rows(series))
         /\ SumFunction(TableSums(series)) = SumFunction([i \in 1 .. m |-> RowSum(series[i])])
<1>1. \A i \in 1 .. m : series[i] \in Seq(Cells) /\ Len(series[i]) \in Nat
  <2>1. \A rows \in Seq(Cells) : Len(rows) \in Nat
    BY LenProperties
  <2> QED
    BY <2>1
<1> DEFINE f == [i \in 1 .. m |-> Len(series[i])]
<1>2. f \in [1 .. m -> Nat]
  BY <1>1
<1>3. PICK j \in 1 .. m : \A i \in 1 .. m : f[i] <= f[j]
  <2> HIDE DEF f
  <2> QED
    BY <1>2, MostRows
<1>4. PICK N \in Nat : N = Len(series[j])
  BY <1>1
<1>5. N \in Rows(series) /\ Rows(series) \subseteq Int /\ \A x \in Rows(series) : x <= N
  <2>1. Rows(series) = {Len(series[i]) : i \in 1 .. m}
    BY DEF Rows
  <2>2. \A i \in 1 .. m : Len(series[i]) \in Nat /\ Len(series[i]) <= N
    BY <1>1, <1>3, <1>4
  <2> QED
    BY <1>4, <2>1, <2>2
<1>6. Max(Rows(series)) = N
  BY <1>5, Greatest
<1>7. \A i \in 1 .. m : Len(series[i]) <= N
  BY <1>3, <1>4
<1> DEFINE A == [i \in 1 .. m |-> [z \in 1 .. N |-> RowValue(series[i], z)]]
<1>8. ASSUME NEW i \in 1 .. m
      PROVE  A[i] \in [1 .. N -> Int] /\ SumFunction(A[i]) = RowSum(series[i])
  <2>1. PICK l \in Nat : l = Len(series[i]) /\ l <= N
    BY <1>1, <1>7
  <2>2. PICK k \in Nat : N = l + k
    <3>1. N - l \in Nat /\ N = l + (N - l)
      BY <2>1
    <3> QED
      BY <3>1
  <2> DEFINE F == [z \in 1 .. l |-> series[i][z].sum]
  <2>3. F \in [1 .. l -> Int] /\ RowSum(series[i]) = SumFunction(F)
    BY <1>1, <2>1, RowSumTypes DEF RowSum
  <2>4. \A z \in 1 .. l : z \in 1 .. N /\ A[i][z] = F[z]
    BY <2>1 DEF RowValue
  <2>5. \A z \in l + 1 .. l + k : z \in 1 .. N /\ A[i][z] = 0
    BY <2>1, <2>2 DEF RowValue
  <2>6. A[i] = [z \in 1 .. N |-> A[i][z]]
    OBVIOUS
  <2> HIDE DEF F, A
  <2>7. A[i] \in [1 .. l + k -> Int]
    <3>1. ASSUME NEW z \in 1 .. N PROVE A[i][z] \in Int
      <4>1. z \in 1 .. l \/ z \in l + 1 .. l + k
        BY <2>2
      <4>2. CASE z \in 1 .. l
        <5>1. F[z] \in Int
          BY <2>3, <4>2
        <5> QED
          BY <2>4, <4>2, <5>1
      <4>3. CASE z \in l + 1 .. l + k
        <5>1. A[i][z] = 0
          BY <2>5, <4>3
        <5> QED
          BY <5>1
      <4> QED
        BY <4>1, <4>2, <4>3
    <3> QED
      BY <2>2, <2>6, <3>1
  <2>8. Padded(F, A[i], l, k)
    BY <2>3, <2>4, <2>5, <2>7 DEF Padded
  <2>9. SumFunction(A[i]) = SumFunction(F)
    BY <2>8, SumZeros
  <2> QED
    BY <2>2, <2>3, <2>7, <2>9
<1>9. A \in [1 .. m -> [1 .. N -> Int]]
  <2> HIDE DEF A
  <2>1. A = [i \in 1 .. m |-> A[i]]
    BY DEF A
  <2> QED
    BY <1>8, <2>1
<1>10. SumFunction([i \in 1 .. m |-> SumFunction(A[i])])
         = SumFunction([z \in 1 .. N |-> SumFunction([i \in 1 .. m |-> A[i][z]])])
  <2> HIDE DEF A
  <2> QED
    BY <1>9, SumSwap
<1>11. [i \in 1 .. m |-> SumFunction(A[i])] = [i \in 1 .. m |-> RowSum(series[i])]
  <2> HIDE DEF A
  <2> QED
    BY <1>8
<1>12. [z \in 1 .. N |-> SumFunction([i \in 1 .. m |-> A[i][z]])] = TableSums(series)
  <2>1. ASSUME NEW z \in 1 .. N
        PROVE  [i \in 1 .. m |-> A[i][z]] = [i \in DOMAIN series |-> RowValue(series[i], z)]
    OBVIOUS
  <2> HIDE DEF A
  <2> QED
    BY <1>6, <2>1 DEF TableSums
<1> QED
  BY <1>6, <1>7, <1>10, <1>11, <1>12
-----------------------------------------------------------------------------
(* The series of the files, and all records. *)

FileSeries(files, kind, ms, begin) == [i \in DOMAIN files |-> Series(kind, files[i].recs, ms, begin)]
\* Files as ITGDec has them when it has read the log.
Complete(files, recs, begin) ==
  /\ files \in Seq(MarkedFiles) /\ recs \in Seq(MarkedRecords) /\ begin \in Nat
  /\ FilesHold(files, recs, begin) /\ files # <<>> /\ \A i \in DOMAIN files : files[i].recs # <<>>

\* The series of every file is the one of its records.
LEMMA SeriesOfFiles ==
  ASSUME NEW files, NEW recs, NEW begin, Complete(files, recs, begin), NEW kind \in Kinds, NEW ms \in Nat \ {0},
         NEW series, series = FileSeries(files, kind, ms, begin)
  PROVE  \E m \in Nat \ {0} :
           /\ m = Len(files) /\ DOMAIN files = 1 .. m /\ series \in [1 .. m -> Seq(Cells)]
           /\ \A i \in 1 .. m : SeriesIs(series[i], kind, files[i].recs, ms, begin)
<1>1. files \in Seq(MarkedFiles) /\ begin \in Nat /\ files # <<>>
  BY DEF Complete
<1>2. PICK m \in Nat \ {0} : m = Len(files) /\ DOMAIN files = 1 .. m
  BY <1>1, LenProperties
<1>3. ASSUME NEW i \in 1 .. m PROVE SeriesIs(series[i], kind, files[i].recs, ms, begin)
  <2>1. files[i].recs \in Seq(MarkedRecords) /\ files[i].recs # <<>> /\ Rising(files[i].recs, begin)
    <3>1. files[i] \in MarkedFiles
      BY <1>1, <1>2
    <3> QED
      BY <1>2, <3>1 DEF Complete, FilesHold, MarkedFiles
  <2>2. SeriesIs(Series(kind, files[i].recs, ms, begin), kind, files[i].recs, ms, begin)
    BY <1>1, <2>1, SeriesFound
  <2> QED
    BY <1>2, <2>2 DEF FileSeries
<1>4. series = [i \in 1 .. m |-> series[i]]
  BY <1>2 DEF FileSeries
<1>5. \A i \in 1 .. m : series[i] \in Seq(Cells)
  BY <1>3 DEF SeriesIs
<1>6. series \in [1 .. m -> Seq(Cells)]
  BY <1>4, <1>5
<1> QED
  BY <1>2, <1>3, <1>6

\* The series of a file have as many rows whatever they tell of.
LEMMA SameRows ==
  ASSUME NEW files, NEW recs, NEW begin, Complete(files, recs, begin), NEW ms \in Nat \ {0},
         NEW kind \in Kinds, NEW other \in Kinds, NEW i \in DOMAIN files
  PROVE  Len(FileSeries(files, kind, ms, begin)[i]) = Len(FileSeries(files, other, ms, begin)[i])
<1>1. PICK a, b : a = FileSeries(files, kind, ms, begin) /\ b = FileSeries(files, other, ms, begin)
  OBVIOUS
<1>5. SeriesIs(a[i], kind, files[i].recs, ms, begin)
  <2>1. \E m \in Nat \ {0} : DOMAIN files = 1 .. m /\ \A j \in 1 .. m : SeriesIs(a[j], kind, files[j].recs, ms, begin)
    BY <1>1, SeriesOfFiles
  <2> QED
    BY <2>1
<1>6. SeriesIs(b[i], other, files[i].recs, ms, begin)
  <2>1. \E m \in Nat \ {0} :
          DOMAIN files = 1 .. m /\ \A j \in 1 .. m : SeriesIs(b[j], other, files[j].recs, ms, begin)
    BY <1>1, SeriesOfFiles
  <2> QED
    BY <2>1
<1>2. /\ Len(a[i]) \in Nat \ {0} /\ LengthFits(Len(a[i]), files[i].recs[Len(files[i].recs)].rx - begin, ms)
      /\ Len(b[i]) \in Nat \ {0} /\ LengthFits(Len(b[i]), files[i].recs[Len(files[i].recs)].rx - begin, ms)
  BY <1>5, <1>6 DEF SeriesIs
<1>3. files[i].recs[Len(files[i].recs)].rx - begin \in Nat
  <2>1. files[i] \in MarkedFiles /\ files[i].recs # <<>> /\ Rising(files[i].recs, begin) /\ begin \in Nat
    BY DEF Complete, FilesHold
  <2>2. files[i].recs \in Seq(MarkedRecords)
    BY <2>1 DEF MarkedFiles
  <2>3. PICK n \in Nat \ {0} : n = Len(files[i].recs) /\ DOMAIN files[i].recs = 1 .. n
    BY <2>1, <2>2, LenProperties
  <2>4. n \in DOMAIN files[i].recs
    BY <2>3
  <2>5. begin <= files[i].recs[n].rx /\ files[i].recs[n] \in MarkedRecords
    BY <2>1, <2>2, <2>4 DEF Rising
  <2>6. files[i].recs[n].rx \in Nat
    BY <2>5 DEF MarkedRecords
  <2> QED
    BY <2>1, <2>3, <2>5, <2>6
<1>4. Len(a[i]) = Len(b[i])
  BY <1>2, <1>3, SameLength
<1> QED
  BY <1>1, <1>4

\* elabsplit, merge: the rows of the bitrate series hold the bytes of their intervals, and all.
BytesInside(recs, z, ms, begin) ==
  SumFunction([i \in DOMAIN recs |-> IF Inside(z, ms, recs[i].rx - begin) THEN recs[i].size ELSE 0])
LEMMA BitRows ==
  ASSUME NEW files, NEW recs, NEW begin, Complete(files, recs, begin), NEW ms \in Nat \ {0},
         NEW series, series = FileSeries(files, "bit", ms, begin)
  PROVE  /\ \A z \in DOMAIN TableSums(series) : TableSums(series)[z] = BytesInside(recs, z, ms, begin)
         /\ SumFunction(TableSums(series)) = Size(recs)
<1>1. "bit" \in Kinds
  BY DEF Kinds
<1>2. PICK m \in Nat \ {0} :
        /\ m = Len(files) /\ DOMAIN files = 1 .. m /\ series \in [1 .. m -> Seq(Cells)]
        /\ \A i \in 1 .. m : SeriesIs(series[i], "bit", files[i].recs, ms, begin)
  BY <1>1, SeriesOfFiles
<1>3. /\ begin \in Nat /\ recs \in Seq(MarkedRecords)
      /\ \A w \in Weights : SumFunction([i \in 1 .. m |-> Weight(w, files[i].recs)]) = Weight(w, recs)
  BY <1>2 DEF Complete, FilesHold
<1>4. \A i \in 1 .. m : files[i].recs \in Seq(MarkedRecords)
  <2>1. \A q \in MarkedFiles : q.recs \in Seq(MarkedRecords)
    BY DEF MarkedFiles
  <2>2. files \in Seq(MarkedFiles)
    BY DEF Complete
  <2>3. \A i \in 1 .. m : files[i] \in MarkedFiles
    BY <1>2, <2>2
  <2> QED
    BY <2>1, <2>3
<1>5. \A r \in MarkedRecords : r.rx \in Nat /\ r.size \in Nat
  BY DEF MarkedRecords
<1>6. ASSUME NEW z \in DOMAIN TableSums(series) PROVE TableSums(series)[z] = BytesInside(recs, z, ms, begin)
  <2> DEFINE w == [p \in Nat \X Nat |-> IF Inside(z, ms, p[1] - begin) THEN p[2] ELSE 0]
  <2>1. w \in Weights
    BY DEF Weights
  <2>2. ASSUME NEW r \in MarkedRecords
        PROVE  w[<<r.rx, r.size>>] = IF Inside(z, ms, r.rx - begin) THEN r.size ELSE 0
    BY <1>5
  <2>3. z \in Nat \ {0}
    <3>1. Max(Rows(series)) \in Nat
      BY <1>2, TableTotal
    <3> QED
      BY <3>1 DEF TableSums
  <2> HIDE DEF w
  <2>4. ASSUME NEW q \in Seq(MarkedRecords)
        PROVE  Weight(w, q) = BytesInside(q, z, ms, begin)
    <3>1. \A i \in DOMAIN q : q[i] \in MarkedRecords
      OBVIOUS
    <3>2. \A i \in DOMAIN q :
            w[<<q[i].rx, q[i].size>>] = IF Inside(z, ms, q[i].rx - begin) THEN q[i].size ELSE 0
      BY <2>2, <3>1
    <3> QED
      BY <3>2 DEF Weight, BytesInside
  <2>5. ASSUME NEW i \in 1 .. m PROVE RowValue(series[i], z) = Weight(w, files[i].recs)
    <3>1. RowValue(series[i], z) = AddsIn("bit", files[i].recs, ms, begin, z)
      BY <1>2, <2>3 DEF SeriesIs
    <3>2. AddsIn("bit", files[i].recs, ms, begin, z) = BytesInside(files[i].recs, z, ms, begin)
      BY DEF AddsIn, BytesInside, Adds
    <3> QED
      BY <1>4, <2>4, <3>1, <3>2
  <2>6. [i \in DOMAIN series |-> RowValue(series[i], z)] = [i \in 1 .. m |-> Weight(w, files[i].recs)]
    BY <1>2, <2>5
  <2>7. TableSums(series)[z] = SumFunction([i \in DOMAIN series |-> RowValue(series[i], z)])
    BY DEF TableSums
  <2> QED
    BY <1>3, <2>1, <2>4, <2>6, <2>7
<1>7. SumFunction(TableSums(series)) = Size(recs)
  <2> DEFINE w == [p \in Nat \X Nat |-> p[2]]
  <2>1. w \in Weights
    BY DEF Weights
  <2>2. \A r \in MarkedRecords : w[<<r.rx, r.size>>] = r.size
    BY <1>5
  <2> HIDE DEF w
  <2>3. ASSUME NEW q \in Seq(MarkedRecords)
        PROVE  Weight(w, q) = SumFunction([i \in DOMAIN q |-> q[i].size])
    <3>1. \A i \in DOMAIN q : w[<<q[i].rx, q[i].size>>] = q[i].size
      BY <2>2
    <3> QED
      BY <3>1 DEF Weight
  <2>4. ASSUME NEW i \in 1 .. m PROVE RowSum(series[i]) = Weight(w, files[i].recs)
    <3>1. RowSum(series[i]) = SumFunction([j \in DOMAIN files[i].recs |-> Adds("bit", files[i].recs, j)])
      BY <1>2 DEF SeriesIs
    <3>2. [j \in DOMAIN files[i].recs |-> Adds("bit", files[i].recs, j)]
            = [j \in DOMAIN files[i].recs |-> files[i].recs[j].size]
      BY DEF Adds
    <3> QED
      BY <1>4, <2>3, <3>1, <3>2
  <2>5. [i \in 1 .. m |-> RowSum(series[i])] = [i \in 1 .. m |-> Weight(w, files[i].recs)]
    BY <2>4
  <2>6. SumFunction(TableSums(series)) = Weight(w, recs)
    BY ZenonT(40), <1>2, <1>3, <2>1, <2>5, TableTotal
  <2>7. SumFunction([i \in DOMAIN recs |-> recs[i].size]) = Size(recs)
    BY <1>3, <1>5, SizeIsSum
  <2> QED
    BY <1>3, <2>3, <2>6, <2>7
<1> QED
  BY <1>6, <1>7

\* elabsplit, merge, setline: the loss series sum up to the losses of the flows.
LEMMA LossRows ==
  ASSUME NEW files, NEW recs, NEW begin, Complete(files, recs, begin), NEW ms \in Nat \ {0},
         NEW series, series = FileSeries(files, "pkt", ms, begin),
         NEW infos \in Seq(InfoTypes), Len(infos) = Len(files),
         \A i \in DOMAIN files : /\ Tallies(infos[i], files[i].recs) /\ InOrder(files[i].recs)
                                 /\ 0 \notin Seen(files[i].recs) /\ Len(files[i].recs) # 1
  PROVE  SumFunction(TableSums(series)) = SumFunction([z \in DOMAIN infos |-> infos[z].pktloss])
<1>1. "pkt" \in Kinds
  BY DEF Kinds
<1>2. PICK m \in Nat \ {0} :
        /\ m = Len(files) /\ DOMAIN files = 1 .. m /\ series \in [1 .. m -> Seq(Cells)]
        /\ \A i \in 1 .. m : SeriesIs(series[i], "pkt", files[i].recs, ms, begin)
  BY <1>1, SeriesOfFiles
<1>3. DOMAIN infos = 1 .. m /\ \A i \in 1 .. m : infos[i] \in InfoTypes
  <2>1. DOMAIN infos = 1 .. m
    BY <1>2, LenProperties
  <2> QED
    BY <2>1
<1>4. ASSUME NEW i \in 1 .. m PROVE RowSum(series[i]) = infos[i].pktloss
  <2>1. files[i].recs \in Seq(MarkedRecords) /\ files[i].recs # <<>>
    <3>1. files \in Seq(MarkedFiles) /\ files[i].recs # <<>>
      BY <1>2 DEF Complete
    <3>2. files[i] \in MarkedFiles
      BY <1>2, <3>1
    <3> QED
      BY <3>1, <3>2 DEF MarkedFiles
  <2>2. /\ Tallies(infos[i], files[i].recs) /\ InOrder(files[i].recs)
        /\ 0 \notin Seen(files[i].recs) /\ Len(files[i].recs) # 1
    BY <1>2
  <2>3. SumFunction([j \in DOMAIN files[i].recs |-> Adds("pkt", files[i].recs, j)]) = infos[i].pktloss
    BY <1>3, <2>1, <2>2, SameLosses
  <2> QED
    BY <1>2, <2>3 DEF SeriesIs
<1>5. [i \in 1 .. m |-> RowSum(series[i])] = [z \in DOMAIN infos |-> infos[z].pktloss]
  BY <1>3, <1>4
<1> QED
  BY ZenonT(40), <1>2, <1>5, TableTotal
-----------------------------------------------------------------------------
(* The series that ITGDec makes. *)

\* The intervals of the series: option -c gives the same to all of them, and -b, -d, -j and -p
\* are not used with it.
IntervalsGiven ==
  \A c \in Cases :
    /\ c.dec.interval \in [Kinds -> Nat]
    /\ c.dec.combined => \A k \in Kinds : c.dec.interval[k] = c.dec.interval["bit"]

\* Only the end of the log ends ITGDec.
LEMMA DecoderEnds ==
  ASSUME MeasureInv, [Next]_vars, dec'.pc = "done"
  PROVE  dec' = dec \/ Elaborate(asked.dec, Input)
<1>1. DOMAIN dec = DecoderFields
  BY DEF MeasureInv, MeasureTypes
<1>2. ASSUME StartDecoder PROVE FALSE
  BY <1>1, <1>2 DEF StartDecoder, DecoderFields
<1>3. ASSUME ReadLine(asked.dec, Input, sendLog) PROVE FALSE
  <2>1. dec.pc = "reading"
    BY <1>3 DEF ReadLine
  <2>2. dec'.pc = "failed" \/ dec'.pc = dec.pc
    BY <1>1, <1>3 DEF ReadLine, DecoderFields
  <2> QED
    BY <2>1, <2>2
<1>4. dec' = dec \/ StartDecoder \/ ReadLine(asked.dec, Input, sendLog) \/ Elaborate(asked.dec, Input)
  BY DEF Next, Decodes, vars
<1> QED
  BY <1>2, <1>3, <1>4

\* merge and mergeCombined make the sums row by row.
LEMMA MergedRows ==
  ASSUME NEW m \in Nat \ {0}, NEW series \in [1 .. m -> Seq(Cells)]
  PROVE  Merge(series) = TableSums(series)
<1>1. series # <<>>
  <2>1. 1 \in DOMAIN series /\ DOMAIN <<>> = {}
    OBVIOUS
  <2> QED
    BY <2>1
<1> QED
  BY <1>1 DEF Merge, TableSums, RowValue

\* Series of all kinds with as many rows.
Aligned(all, m) ==
  \A k \in Kinds : /\ all[k] \in [1 .. m -> Seq(Cells)]
                   /\ \A i \in 1 .. m : Len(all[k][i]) = Len(all["bit"][i])
LEMMA CombinedRows ==
  ASSUME NEW m \in Nat \ {0}, NEW all, Aligned(all, m), NEW kind \in Kinds
  PROVE  [z \in DOMAIN Combined(all) |-> Combined(all)[z][kind]] = TableSums(all[kind])
<1>1. /\ DOMAIN all["bit"] = 1 .. m /\ DOMAIN all[kind] = 1 .. m
      /\ \A i \in 1 .. m : Len(all[kind][i]) = Len(all["bit"][i])
  BY DEF Aligned, Kinds
<1>2. Rows(all["bit"]) = Rows(all[kind])
  BY <1>1 DEF Rows
<1>3. all["bit"] # <<>>
  <2>1. 1 \in DOMAIN all["bit"] /\ DOMAIN <<>> = {}
    BY <1>1
  <2> QED
    BY <2>1
<1> DEFINE Cell(k, i, z) ==
             IF z > Len(all["bit"][i]) THEN 0
             ELSE IF z <= Len(all[k][i]) THEN all[k][i][z].sum ELSE -1
           N == Max(Rows(all["bit"]))
<1>4. Combined(all)
        = [z \in 1 .. N |-> [k \in Kinds |-> SumFunction([i \in DOMAIN all["bit"] |-> Cell(k, i, z)])]]
  BY <1>3 DEF Combined
<1>5. ASSUME NEW z \in 1 .. N, NEW i \in 1 .. m PROVE Cell(kind, i, z) = RowValue(all[kind][i], z)
  <2>1. z \in Int
    OBVIOUS
  <2>2. Len(all[kind][i]) \in Nat
    <3>1. all[kind][i] \in Seq(Cells)
      BY DEF Aligned
    <3> QED
      BY <3>1, LenProperties
  <2>3. PICK l \in Nat : l = Len(all[kind][i]) /\ l = Len(all["bit"][i])
    BY <1>1, <2>2
  <2> QED
    BY <2>1, <2>3 DEF RowValue
<1> HIDE DEF Cell
<1>6. DOMAIN Combined(all) = 1 .. N
  BY <1>4
<1>7. ASSUME NEW z \in 1 .. N
      PROVE  Combined(all)[z][kind] = SumFunction([i \in DOMAIN all[kind] |-> RowValue(all[kind][i], z)])
  <2>1. Combined(all)[z][kind] = SumFunction([i \in DOMAIN all["bit"] |-> Cell(kind, i, z)])
    BY <1>4
  <2>2. [i \in DOMAIN all["bit"] |-> Cell(kind, i, z)] = [i \in DOMAIN all[kind] |-> RowValue(all[kind][i], z)]
    BY <1>1, <1>5
  <2> QED
    BY <2>1, <2>2
<1>8. N = Max(Rows(all[kind]))
  BY <1>2
<1> HIDE DEF N
<1> QED
  BY <1>6, <1>7, <1>8 DEF TableSums

\* The log has been read: every file has its records.
LEMMA FilesComplete ==
  ASSUME MeasureInv, InfosKept, TotalsKept, FilesMade, dec.pc = "reading", Splits(asked.dec), Kept # <<>>
  PROVE  Complete(dec.files, Kept, dec.begin) /\ FilesMatch(dec.files, dec.infos)
<1>1. FilesMatch(dec.files, dec.infos) /\ FilesHold(dec.files, Kept, dec.begin)
  BY DEF FilesMade
<1>2. Kept \in Seq(Records)
  BY KeptTypes
<1>3. Kept \in Seq(MarkedRecords)
  <2>1. Records \subseteq MarkedRecords
    BY DEF Records, MarkedRecords
  <2> QED
    BY <1>2, <2>1
<1>4. dec.begin = Kept[1].rx /\ dec.infos # <<>>
  BY DEF TotalsKept, SummedUp
<1>5. dec.begin \in Nat
  <2>1. PICK n \in Nat : n = Len(Kept) /\ DOMAIN Kept = 1 .. n
    BY <1>2, LenProperties
  <2>2. n # 0
    BY <1>2, <2>1
  <2>3. 1 \in DOMAIN Kept
    BY <2>1, <2>2
  <2> QED
    BY <1>2, <1>4, <2>3, RxTypes
<1>6. dec.files # <<>>
  <2>1. dec.infos \in Seq(InfoTypes) /\ Len(dec.files) = Len(dec.infos)
    BY <1>1 DEF InfosKept, FilesMatch
  <2>2. Len(dec.infos) # 0
    BY <1>4, <2>1
  <2> QED
    BY <2>1, <2>2
<1> QED
  BY <1>1, <1>3, <1>5, <1>6 DEF Complete, FilesMatch

\* What is told when the log has been read.
LEMMA RowsElaborated ==
  ASSUME IntervalsGiven, MeasureInv, Elaborate(asked.dec, Input), asked' = asked,
         Complete(dec.files, Kept, dec.begin), NEW kind \in Kinds, asked.dec.interval[kind] > 0
  PROVE  RowsOf(kind)' = TableSums(FileSeries(dec.files, kind, asked.dec.interval[kind], dec.begin))
<1> DEFINE ms    == asked.dec.interval
           files == dec.files
           begin == dec.begin
           SeriesOf(k) == IF ms[k] = 0 THEN <<>> ELSE [i \in DOMAIN files |-> Series(k, files[i].recs, ms[k], begin)]
           all   == [k \in Kinds |-> SeriesOf(k)]
           this  == FileSeries(files, kind, ms[kind], begin)
<1>1. /\ DOMAIN dec = DecoderFields /\ asked.dec.interval \in [Kinds -> Nat]
      /\ asked.dec.combined => \A k \in Kinds : asked.dec.interval[k] = asked.dec.interval["bit"]
  BY DEF IntervalsGiven, MeasureInv, MeasureTypes
<1>2. dec' = [dec EXCEPT !.pc = "done", !.files = IF asked.dec.split THEN @ ELSE <<>>,
                         !.series = all,
                         !.merged = IF asked.dec.combined THEN @ ELSE [k \in Kinds |-> Merge(all[k])],
                         !.combined = IF asked.dec.combined THEN Combined(all) ELSE @,
                         !.total = Totals(dec.infos, Valid(asked.dec), dec.begin)]
  BY DEF Elaborate
<1>3. all[kind] = this /\ ms[kind] \in Nat \ {0}
  BY <1>1 DEF FileSeries
<1>4. \E m \in Nat \ {0} : DOMAIN files = 1 .. m /\ this \in [1 .. m -> Seq(Cells)]
  <2> HIDE DEF this
  <2> SUFFICES \E m \in Nat \ {0} : DOMAIN dec.files = 1 .. m /\ this \in [1 .. m -> Seq(Cells)]
    OBVIOUS
  <2>1. ms[kind] \in Nat \ {0} /\ this = FileSeries(dec.files, kind, ms[kind], dec.begin)
    BY <1>3 DEF this
  <2> HIDE DEF ms
  <2> QED
    BY <2>1, SeriesOfFiles
<1>5. PICK m \in Nat \ {0} : DOMAIN files = 1 .. m /\ this \in [1 .. m -> Seq(Cells)]
  BY <1>4
<1>6. CASE ~asked.dec.combined
  <2>1. dec'.merged = [k \in Kinds |-> Merge(all[k])]
    BY <1>1, <1>2, <1>6 DEF DecoderFields
  <2>2. RowsOf(kind)' = dec'.merged[kind]
    BY <1>6 DEF RowsOf
  <2>3. dec'.merged[kind] = Merge(all[kind])
    BY <2>1
  <2> HIDE DEF all, this
  <2>4. Merge(all[kind]) = TableSums(this)
    BY <1>3, <1>5, MergedRows
  <2> QED
    BY <2>2, <2>3, <2>4 DEF this
<1>7. CASE asked.dec.combined
  <2>1. dec'.combined = Combined(all)
    BY <1>1, <1>2, <1>7 DEF DecoderFields
  <2>2. RowsOf(kind)' = [z \in DOMAIN dec'.combined |-> dec'.combined[z][kind]]
    BY <1>7 DEF RowsOf
  <2>3. ASSUME NEW k \in Kinds
        PROVE  all[k] = FileSeries(files, k, ms[kind], begin) /\ all[k] \in [1 .. m -> Seq(Cells)]
    <3>1. ms[k] = ms[kind]
      BY <1>1, <1>7
    <3>2. all[k] = FileSeries(files, k, ms[kind], begin)
      BY <1>3, <3>1 DEF FileSeries
    <3> HIDE DEF all
    <3>3. \E q \in Nat \ {0} : DOMAIN dec.files = 1 .. q /\ all[k] \in [1 .. q -> Seq(Cells)]
      <4>1. PICK d \in Nat \ {0} : d = ms[kind]
        BY <1>3
      <4>2. PICK x : x = all[k]
        OBVIOUS
      <4>3. x = FileSeries(dec.files, k, d, dec.begin)
        BY <3>2, <4>1, <4>2
      <4>4. \E q \in Nat \ {0} : DOMAIN dec.files = 1 .. q /\ x \in [1 .. q -> Seq(Cells)]
        BY <4>3, SeriesOfFiles
      <4> QED
        BY <4>2, <4>4
    <3>4. all[k] \in [1 .. m -> Seq(Cells)]
      BY <1>5, <3>3
    <3> QED
      BY <3>2, <3>4
  <2>4. ASSUME NEW k \in Kinds, NEW i \in 1 .. m PROVE Len(all[k][i]) = Len(all["bit"][i])
    <3>1. "bit" \in Kinds /\ i \in DOMAIN files
      BY <1>5 DEF Kinds
    <3>2. all[k] = FileSeries(files, k, ms[kind], begin) /\ all["bit"] = FileSeries(files, "bit", ms[kind], begin)
      BY <2>3, <3>1
    <3> HIDE DEF all
    <3>3. Len(FileSeries(dec.files, k, ms[kind], dec.begin)[i])
            = Len(FileSeries(dec.files, "bit", ms[kind], dec.begin)[i])
      BY <1>3, <3>1, SameRows
    <3> QED
      BY <3>2, <3>3
  <2> HIDE DEF all, this
  <2>5. Aligned(all, m)
    BY <2>3, <2>4 DEF Aligned
  <2>6. [z \in DOMAIN Combined(all) |-> Combined(all)[z][kind]] = TableSums(all[kind])
    BY <2>5, CombinedRows
  <2> QED
    BY <1>3, <2>1, <2>2, <2>6 DEF this
<1> QED
  BY <1>6, <1>7

\* What the series of the bitrate and of the losses hold.
BytesRight ==
  asked.dec.interval["bit"] > 0 =>
    /\ \A z \in DOMAIN RowsOf("bit") : RowsOf("bit")[z] = BytesIn(z, asked.dec.interval["bit"])
    /\ SumFunction(RowsOf("bit")) = dec.total.byterecv
Orderly == \A f \in asked.dec.keep : InOrder(RecordsOf(f)) /\ Len(RecordsOf(f)) # 1 /\ 0 \notin Seen(RecordsOf(f))
LossRight ==
  asked.dec.interval["pkt"] > 0 /\ ~asked.dec.join /\ Orderly => SumFunction(RowsOf("pkt")) = dec.total.pktloss

\* The results, when the log has been read.
LEMMA ElaborateMoves ==
  ASSUME MeasureInv, InfosKept, TotalsKept, [Next]_vars, Elaborate(asked.dec, Input)
  PROVE  /\ asked' = asked /\ Kept' = Kept /\ dec.pc = "reading" /\ dec'.out = dec.out /\ dec'.begin = dec.begin
         /\ Kept # <<>> =>
              /\ dec'.total.byterecv = Size(Kept)
              /\ dec'.total.pktloss = SumFunction([z \in DOMAIN dec.infos |-> dec.infos[z].pktloss])
<1>1. DOMAIN dec = DecoderFields /\ dec.pc = "reading"
  BY DEF MeasureInv, MeasureTypes, Elaborate
<1>2. /\ dec'.total = Totals(dec.infos, Kept, dec.begin) /\ dec'.out = dec.out /\ dec'.begin = dec.begin
  BY <1>1 DEF Elaborate, DecoderFields, Kept
<1>3. asked' = asked
  BY DecoderMoves
<1>4. Kept' = Kept
  BY <1>2, <1>3 DEF Kept, Valid
<1>5. ASSUME Kept # <<>>
      PROVE  /\ dec'.total.byterecv = Size(Kept)
             /\ dec'.total.pktloss = SumFunction([z \in DOMAIN dec.infos |-> dec.infos[z].pktloss])
  <2>1. dec.infos # <<>> /\ SumFunction([z \in DOMAIN dec.infos |-> dec.infos[z].byterecv]) = Size(Kept)
    BY <1>5 DEF TotalsKept, SummedUp
  <2>2. /\ Totals(dec.infos, Kept, dec.begin).byterecv
             = SumFunction([z \in DOMAIN dec.infos |-> dec.infos[z].byterecv])
        /\ Totals(dec.infos, Kept, dec.begin).pktloss
             = SumFunction([z \in DOMAIN dec.infos |-> dec.infos[z].pktloss])
    BY <2>1 DEF Totals
  <2> QED
    BY <1>2, <2>1, <2>2
<1> QED
  BY <1>1, <1>2, <1>3, <1>4, <1>5

\* The end of the log makes the series right.
LEMMA BytesElaborated ==
  ASSUME IntervalsGiven, MeasureInv, InfosKept, TotalsKept, FilesMade, [Next]_vars, Kept # <<>>,
         Elaborate(asked.dec, Input)
  PROVE  BytesRight'
<1>1. /\ asked' = asked /\ Kept' = Kept /\ dec.pc = "reading" /\ dec'.begin = dec.begin
      /\ dec'.total.byterecv = Size(Kept)
  BY ElaborateMoves
<1> SUFFICES ASSUME asked.dec.interval["bit"] > 0 PROVE BytesRight'
  BY <1>1 DEF BytesRight
<1>2. "bit" \in Kinds /\ asked.dec.interval \in [Kinds -> Nat]
  BY DEF Kinds, IntervalsGiven, MeasureInv, MeasureTypes
<1>3. PICK ms, series :
        ms \in Nat \ {0} /\ ms = asked.dec.interval["bit"] /\ series = FileSeries(dec.files, "bit", ms, dec.begin)
  BY <1>2
<1>4. Complete(dec.files, Kept, dec.begin)
  <2>1. Splits(asked.dec)
    BY <1>2 DEF Splits
  <2> QED
    BY <1>1, <2>1, FilesComplete
<1>5. RowsOf("bit")' = TableSums(series)
  BY <1>1, <1>2, <1>3, <1>4, RowsElaborated
<1>6. /\ \A z \in DOMAIN TableSums(series) : TableSums(series)[z] = BytesInside(Kept, z, ms, dec.begin)
      /\ SumFunction(TableSums(series)) = Size(Kept)
  BY <1>3, <1>4, BitRows
<1>7. ASSUME NEW z PROVE BytesIn(z, asked.dec.interval["bit"])' = BytesInside(Kept, z, ms, dec.begin)
  BY <1>1, <1>3 DEF BytesIn, BytesInside, InInterval, Inside
<1>8. \A z \in DOMAIN RowsOf("bit")' : RowsOf("bit")'[z] = BytesIn(z, asked.dec.interval["bit"])'
  BY <1>5, <1>6, <1>7
<1>9. SumFunction(RowsOf("bit")') = dec'.total.byterecv
  BY <1>1, <1>5, <1>6
<1> QED
  BY <1>8, <1>9 DEF BytesRight

\* The records of a file are those that the statistics of its flow tell of.
FileTallied(info, file) ==
  /\ Tallies(info, file.recs) /\ InOrder(file.recs) /\ 0 \notin Seen(file.recs) /\ Len(file.recs) # 1
LEMMA LossElaborated ==
  ASSUME IntervalsGiven, MeasureInv, InfosKept, TotalsKept, FilesKept, FilesMade, [Next]_vars, Kept # <<>>,
         Elaborate(asked.dec, Input)
  PROVE  LossRight'
<1>1. /\ asked' = asked /\ dec.pc = "reading" /\ dec'.out = dec.out
      /\ dec'.total.pktloss = SumFunction([z \in DOMAIN dec.infos |-> dec.infos[z].pktloss])
  BY ElaborateMoves
<1> SUFFICES ASSUME asked.dec.interval["pkt"] > 0, ~asked.dec.join, Orderly' PROVE LossRight'
  BY <1>1 DEF LossRight
<1>2. "pkt" \in Kinds /\ asked.dec.interval \in [Kinds -> Nat]
  BY DEF Kinds, IntervalsGiven, MeasureInv, MeasureTypes
<1>3. PICK ms, series :
        ms \in Nat \ {0} /\ ms = asked.dec.interval["pkt"] /\ series = FileSeries(dec.files, "pkt", ms, dec.begin)
  BY <1>2
<1>4. Complete(dec.files, Kept, dec.begin) /\ FilesMatch(dec.files, dec.infos)
  <2>1. Splits(asked.dec)
    BY <1>2 DEF Splits
  <2> QED
    BY <1>1, <2>1, FilesComplete
<1>5. RowsOf("pkt")' = TableSums(series)
  BY <1>1, <1>2, <1>3, <1>4, RowsElaborated
<1>6. \A f \in asked.dec.keep :
        InOrder(OfFlows(dec.out, {f})) /\ Len(OfFlows(dec.out, {f})) # 1 /\ 0 \notin Seen(OfFlows(dec.out, {f}))
  BY <1>1 DEF Orderly, RecordsOf, InOrder, Seen
<1>7. dec.infos \in Seq(InfoTypes) /\ Len(dec.infos) = Len(dec.files) /\ DOMAIN dec.infos = DOMAIN dec.files
  <2>1. dec.infos \in Seq(InfoTypes) /\ Len(dec.infos) = Len(dec.files) /\ dec.files \in Seq(MarkedFiles)
    BY <1>4 DEF InfosKept, FilesMatch
  <2> QED
    BY <2>1
<1>8. ASSUME NEW i \in DOMAIN dec.files PROVE FileTallied(dec.infos[i], dec.files[i])
  <2>1. dec.files[i].flow = dec.infos[i].flow
    BY <1>4 DEF FilesMatch
  <2>2. dec.files[i].flow \in asked.dec.keep /\ dec.files[i].recs = OfFlows(dec.out, {dec.files[i].flow})
    BY DEF FilesKept
  <2>3. Tallies(dec.infos[i], OfFlows(dec.out, {dec.infos[i].flow}))
    BY <1>7 DEF InfosKept
  <2> QED
    BY <1>6, <2>1, <2>2, <2>3 DEF FileTallied
<1>9. SumFunction(TableSums(series)) = SumFunction([z \in DOMAIN dec.infos |-> dec.infos[z].pktloss])
  <2>1. PICK infos \in Seq(InfoTypes) : infos = dec.infos
    BY <1>7
  <2>2. \A i \in DOMAIN dec.files :
          /\ Tallies(infos[i], dec.files[i].recs) /\ InOrder(dec.files[i].recs)
          /\ 0 \notin Seen(dec.files[i].recs) /\ Len(dec.files[i].recs) # 1
    BY <1>8, <2>1 DEF FileTallied
  <2>3. Len(infos) = Len(dec.files)
    BY <1>7, <2>1
  <2> QED
    BY SMTT(30), <1>3, <1>4, <2>1, <2>2, <2>3, LossRows
<1> QED
  BY <1>1, <1>5, <1>9 DEF LossRight

\* A step of the measurement leaves the series right.
LEMMA SeriesStep ==
  ASSUME IntervalsGiven, MeasureInv, InfosKept, TotalsKept, FilesKept, FilesMade, SeriesAddUp, [Next]_vars
  PROVE  SeriesAddUp'
<1> SUFFICES ASSUME dec'.pc = "done", Kept' # <<>> PROVE SeriesAddUp'
  BY DEF SeriesAddUp
<1>1. asked' = asked
  BY DecoderMoves
<1>2. CASE dec' = dec
  <2>1. Kept' = Kept /\ \A k : RowsOf(k)' = RowsOf(k)
    BY <1>1, <1>2 DEF Kept, Valid, RowsOf
  <2>2. BytesRight /\ LossRight
    BY <1>2, <2>1 DEF SeriesAddUp, BytesRight, LossRight, Orderly
  <2>3. ASSUME NEW z PROVE BytesIn(z, asked.dec.interval["bit"])' = BytesIn(z, asked.dec.interval["bit"])
    BY <1>1, <1>2, <2>1 DEF BytesIn, InInterval
  <2>4. BytesRight'
    BY <1>1, <1>2, <2>1, <2>2, <2>3 DEF BytesRight
  <2>5. Orderly' <=> Orderly
    BY <1>1, <1>2 DEF Orderly, RecordsOf, InOrder, Seen
  <2>6. LossRight'
    BY <1>1, <1>2, <2>1, <2>2, <2>5 DEF LossRight
  <2> QED
    BY <2>4, <2>6 DEF SeriesAddUp, BytesRight, LossRight, Orderly
<1>3. CASE Elaborate(asked.dec, Input)
  <2>1. Kept' = Kept
    BY <1>3, ElaborateMoves
  <2>2. BytesRight' /\ LossRight'
    BY <1>3, <2>1, BytesElaborated, LossElaborated
  <2> QED
    BY <2>2 DEF SeriesAddUp, BytesRight, LossRight, Orderly
<1> QED
  BY <1>2, <1>3, DecoderEnds

(***************************************************************************)
(* Every row of the bitrate series holds the bytes of its interval, and    *)
(* the series sum up to the total bytes, and to the losses of orderly      *)
(* flows, in every run for every number of files and records (elabsplit,   *)
(* merge and mergeCombined of ITGDec).                                     *)
(***************************************************************************)
THEOREM SeriesRight == ASSUME InReception, IntervalsGiven PROVE Spec => []SeriesAddUp
<1> DEFINE Inv == /\ MeasureInv /\ InfosKept /\ LogsKept /\ ReadKept /\ TotalsKept /\ FilesKept
                  /\ FilesMade /\ SeriesAddUp
<1>1. Init => Inv
  <2>1. Init => SeriesAddUp
    BY DEF Init, DecoderInit, SeriesAddUp
  <2> QED
    BY <2>1, MeasureInitially, InfosInitially, TotalsInitially, FilesInitially, FilesMadeInitially
<1>2. Inv /\ [Next]_vars => Inv'
  BY MeasureStep, InfosStep, LogsStep, ReadStep, TotalsStep, FilesStep, FilesMadeStep, SeriesStep
<1> QED
  BY <1>1, <1>2, PTL DEF Spec
=============================================================================
