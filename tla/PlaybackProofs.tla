---------------------------- MODULE PlaybackProofs ----------------------------
(***************************************************************************)
(* Theorems of Playback: what the reader makes of any file, the decoder,    *)
(* the sound and the hardware.                                              *)
(***************************************************************************)
EXTENDS Playback, FiniteSetTheorems, SequenceTheorems, WellFoundedInduction, TLAPS

-----------------------------------------------------------------------------
(* Recursion along a sequence.  The least element stands in for induction.   *)
LEMMA Least ==
  ASSUME NEW S, S \subseteq Nat, S # {}
  PROVE  \E n \in S : \A m \in S : n <= m
<1>1. PICK n \in S : \A m \in S : <<m, n>> \notin OpToRel(<, Nat)
  BY NatLessThanWellFounded, WFMin
<1>2. \A m \in S : ~(m < n)
  BY <1>1 DEF OpToRel
<1> QED BY <1>2

LEMMA UpTo ==
  ASSUME NEW N \in Nat, NEW S, 0 \in S, \A n \in 1..N : n - 1 \in S => n \in S
  PROVE  \A n \in 0..N : n \in S
<1> DEFINE Bad == {n \in 0..N : n \notin S}
<1>1. ASSUME Bad # {} PROVE FALSE
  <2>1. Bad \subseteq Nat OBVIOUS
  <2>2. \E n \in Bad : \A m \in Bad : n <= m
    <3> HIDE DEF Bad
    <3> QED BY <1>1, <2>1, Least
  <2>3. PICK n \in Bad : \A m \in Bad : n <= m BY <2>2
  <2>4. n \in 0..N /\ n \notin S OBVIOUS
  <2>5. n \in 1..N BY <2>4
  <2>6. n - 1 \in 0..N /\ ~(n <= n - 1) BY <2>5
  <2>7. n - 1 \in S BY <2>3, <2>6
  <2> QED BY <2>4, <2>5, <2>7
<1> QED BY <1>1

Folds(f, N, base, step) == f = [n \in 0..N |-> IF n = 0 THEN base ELSE step[n][f[n - 1]]]

LEMMA FoldExists ==
  ASSUME NEW X, NEW base \in X, NEW N \in Nat, NEW step \in [1..N -> [X -> X]]
  PROVE  \E f \in [0..N -> X] : Folds(f, N, base, step)
<1> DEFINE G(k, f) == f[0] = base /\ \A n \in 1..k : f[n] = step[n][f[n - 1]]
           S == {k \in 0..N : \E f \in [0..k -> X] : G(k, f)}
<1>1. 0 \in S
  <2> DEFINE f == [n \in 0..0 |-> base]
  <2>1. f \in [0..0 -> X] /\ G(0, f) OBVIOUS
  <2>2. 0 \in 0..N OBVIOUS
  <2> HIDE DEF f, G
  <2> QED BY <2>1, <2>2
<1>2. ASSUME NEW k \in 1..N, k - 1 \in S PROVE k \in S
  <2>1. PICK f \in [0..(k - 1) -> X] : G(k - 1, f) BY <1>2
  <2> DEFINE g == [n \in 0..k |-> IF n = k THEN step[k][f[k - 1]] ELSE f[n]]
  <2>2. g \in [0..k -> X] BY <2>1
  <2>3. G(k, g) BY <2>1
  <2>4. k \in 0..N OBVIOUS
  <2> HIDE DEF g, G
  <2> QED BY <2>2, <2>3, <2>4
<1>3. N \in S
  <2>1. \A k \in 1..N : k - 1 \in S => k \in S BY <1>2
  <2> HIDE DEF S
  <2>2. \A k \in 0..N : k \in S BY <1>1, <2>1, UpTo
  <2> QED BY <2>2
<1>4. PICK f \in [0..N -> X] : G(N, f) BY <1>3
<1>5. Folds(f, N, base, step) BY <1>4 DEF Folds
<1> QED BY <1>5

-----------------------------------------------------------------------------
(* The tables.                                                              *)
LEMMA SumsTyped ==
  ASSUME NEW s \in Seq(Nat)
  PROVE  /\ Sums(s) \in [1..(Len(s) + 1) -> Nat]
         /\ \A i, j \in 1..(Len(s) + 1) : i <= j => Sums(s)[i] <= Sums(s)[j]
<1> DEFINE N == Len(s)
           step == [n \in 1..N |-> [x \in Nat |-> x + s[n]]]
           P(f) == f = [n \in 0..N |-> IF n = 0 THEN 0 ELSE f[n - 1] + s[n]]
           F == CHOOSE f : P(f)
<1>1. N \in Nat /\ 0 \in Nat /\ step \in [1..N -> [Nat -> Nat]] OBVIOUS
<1>2. PICK f \in [0..N -> Nat] : Folds(f, N, 0, step)
  <2> HIDE DEF step, N
  <2> QED BY <1>1, FoldExists
<1>3. f = [n \in 0..N |-> IF n = 0 THEN 0 ELSE step[n][f[n - 1]]] BY <1>2 DEF Folds
<1>4. P(f)
  <2>1. \A n \in 1..N : f[n - 1] \in Nat
    <3> HIDE DEF step, N
    <3>1. \A n \in 1..N : n - 1 \in 0..N BY <1>1
    <3> QED BY <1>2, <3>1
  <2>2. \A n \in 1..N : step[n][f[n - 1]] = f[n - 1] + s[n] BY <2>1
  <2>3. \A n \in 0..N : n # 0 => n \in 1..N BY <1>1
  <2> HIDE DEF step, N
  <2> DEFINE g == [n \in 0..N |-> IF n = 0 THEN 0 ELSE f[n - 1] + s[n]]
  <2>4. \A n \in 0..N : f[n] = g[n] BY <1>3, <2>2, <2>3
  <2>5. f = g BY <2>4
  <2> QED BY <2>5
<1>5. P(F)
  <2> HIDE DEF P
  <2> QED BY <1>4
<1> HIDE DEF F
<1>6. \A n \in 0..N : F[n] = IF n = 0 THEN 0 ELSE F[n - 1] + s[n] BY <1>5
<1>7. \A n \in 0..N : \A m \in 0..n : F[m] \in Nat /\ F[m] <= F[n]
  <2> DEFINE S == {n \in 0..N : \A m \in 0..n : F[m] \in Nat /\ F[m] <= F[n]}
  <2>1. 0 \in S BY <1>6
  <2>2. ASSUME NEW n \in 1..N, n - 1 \in S PROVE n \in S
    <3>1. F[n] = F[n - 1] + s[n] BY <1>1, <1>6
    <3>2. s[n] \in Nat /\ n - 1 \in 0..(n - 1) BY <1>1
    <3>3. \A m \in 0..(n - 1) : F[m] \in Nat /\ F[m] <= F[n - 1] BY <2>2
    <3>4. F[n - 1] \in Nat /\ F[n] \in Nat /\ F[n - 1] <= F[n] BY <3>1, <3>2, <3>3
    <3>5. \A m \in 0..n : m = n \/ m \in 0..(n - 1) BY <1>1
    <3> QED BY <3>3, <3>4, <3>5
  <2>3. \A n \in 1..N : n - 1 \in S => n \in S BY <2>2
  <2> HIDE DEF S, N
  <2>4. \A n \in 0..N : n \in S BY <1>1, <2>1, <2>3, UpTo
  <2> QED BY <2>4 DEF S
<1>8. Sums(s) = [i \in 1..(N + 1) |-> F[i - 1]] BY DEF Sums, F, N
<1> HIDE DEF N
<1>9. \A i \in 1..(N + 1) : i - 1 \in 0..N BY <1>1
<1>10. Sums(s) \in [1..(N + 1) -> Nat] BY <1>1, <1>7, <1>8, <1>9
<1>11. \A i, j \in 1..(N + 1) : i <= j => i - 1 \in 0..(j - 1) BY <1>1
<1>12. \A i, j \in 1..(N + 1) : i <= j => Sums(s)[i] <= Sums(s)[j]
  BY <1>1, <1>7, <1>8, <1>9, <1>11
<1> QED BY <1>10, <1>12 DEF N

LEMMA RepeatedTyped ==
  ASSUME NEW run \in [count : Nat, delta : Int], run.delta > 0
  PROVE  Repeated(run) \in Seq(Nat)
BY DEF Repeated

\* Where every delta is positive, the times it stands for are.
LEMMA DeltasTyped ==
  ASSUME NEW stts \in Seq([count : Nat, delta : Int]),
         \A r \in DOMAIN stts : stts[r].delta > 0
  PROVE  Deltas(stts) \in Seq(Nat)
<1> DEFINE N == Len(stts)
           X == Seq(Nat)
           step == [n \in 1..N |-> [x \in X |-> x \o Repeated(stts[n])]]
           P(f) == f = [n \in 0..N |-> IF n = 0 THEN <<>> ELSE f[n - 1] \o Repeated(stts[n])]
           F == CHOOSE f : P(f)
<1>1. N \in Nat /\ <<>> \in X OBVIOUS
<1>2. \A n \in 1..N : Repeated(stts[n]) \in X
  <2>1. SUFFICES ASSUME NEW n \in 1..N PROVE Repeated(stts[n]) \in X OBVIOUS
  <2>2. n \in DOMAIN stts OBVIOUS
  <2>3. stts[n].delta > 0 BY <2>2
  <2>4. stts[n] \in [count : Nat, delta : Int] BY <2>2, ElementOfSeq
  <2> QED BY <2>3, <2>4, RepeatedTyped
<1>3. step \in [1..N -> [X -> X]] BY <1>2
<1>4. PICK f \in [0..N -> X] : Folds(f, N, <<>>, step)
  <2> HIDE DEF step, N, X
  <2> QED BY <1>1, <1>3, FoldExists
<1>5. f = [n \in 0..N |-> IF n = 0 THEN <<>> ELSE step[n][f[n - 1]]] BY <1>4 DEF Folds
<1>6. P(f)
  <2>1. \A n \in 1..N : f[n - 1] \in X
    <3> HIDE DEF step, N, X
    <3>1. \A n \in 1..N : n - 1 \in 0..N BY <1>1
    <3> QED BY <1>4, <3>1
  <2>2. \A n \in 1..N : step[n][f[n - 1]] = f[n - 1] \o Repeated(stts[n]) BY <2>1
  <2>3. \A n \in 0..N : n # 0 => n \in 1..N BY <1>1
  <2> HIDE DEF step, N
  <2> DEFINE g == [n \in 0..N |-> IF n = 0 THEN <<>> ELSE f[n - 1] \o Repeated(stts[n])]
  <2>4. \A n \in 0..N : f[n] = g[n] BY <1>5, <2>2, <2>3
  <2>5. f = g BY <1>5, <2>4
  <2> QED BY <2>5
<1>7. P(F)
  <2> HIDE DEF P
  <2> QED BY <1>6
<1> HIDE DEF F
<1>8. \A n \in 0..N : F[n] = IF n = 0 THEN <<>> ELSE F[n - 1] \o Repeated(stts[n]) BY <1>7
<1>9. \A n \in 0..N : F[n] \in X
  <2> DEFINE S == {n \in 0..N : F[n] \in X}
  <2> HIDE DEF N, X
  <2>1. 0 \in S BY <1>1, <1>8
  <2>2. ASSUME NEW n \in 1..N, n - 1 \in S PROVE n \in S
    <3>1. n \in 0..N /\ n # 0 BY <1>1
    <3>2. F[n] = F[n - 1] \o Repeated(stts[n]) BY <1>8, <3>1
    <3>3. F[n - 1] \in X /\ Repeated(stts[n]) \in X BY <1>2, <2>2
    <3>4. F[n] \in X BY <3>2, <3>3 DEF X
    <3> QED BY <3>1, <3>4
  <2>3. \A n \in 1..N : n - 1 \in S => n \in S BY <2>2
  <2> HIDE DEF S
  <2>4. \A n \in 0..N : n \in S BY <1>1, <2>1, <2>3, UpTo
  <2> QED BY <2>4 DEF S
<1>10. Deltas(stts) = F[N] BY DEF Deltas, F, N
<1> QED BY <1>1, <1>9, <1>10

\* A run of equal durations grows, or a new one begins.
Run == [count : Nat, delta : Int]
LEMMA LongerTyped ==
  ASSUME NEW runs \in Seq(Run), NEW d \in Int
  PROVE  Longer(runs, d) \in Seq(Run)
<1>1. CASE runs # <<>> /\ Last(runs).delta = d
  <2>1. Len(runs) \in DOMAIN runs /\ runs[Len(runs)] \in Run BY <1>1, ElementOfSeq
  <2>2. [runs[Len(runs)] EXCEPT !.count = @ + 1] \in Run
    <3> DEFINE r == runs[Len(runs)]
    <3>1. r \in Run BY <2>1
    <3> HIDE DEF r
    <3>2. [r EXCEPT !.count = @ + 1] \in Run BY <3>1 DEF Run
    <3> QED BY <3>2 DEF r
  <2>3. [runs EXCEPT ![Len(runs)].count = @ + 1] \in Seq(Run)
    <3> DEFINE r == [runs[Len(runs)] EXCEPT !.count = @ + 1]
    <3>1. [runs EXCEPT ![Len(runs)].count = @ + 1] = [runs EXCEPT ![Len(runs)] = r] OBVIOUS
    <3> HIDE DEF r
    <3>2. r \in Run BY <2>2 DEF r
    <3>3. [runs EXCEPT ![Len(runs)] = r] \in Seq(Run) BY <2>1, <3>2, ExceptSeq
    <3> QED BY <3>1, <3>3
  <2> QED BY <1>1, <2>3 DEF Longer
<1>2. CASE ~(runs # <<>> /\ Last(runs).delta = d)
  <2>1. [count |-> 1, delta |-> d] \in Run BY DEF Run
  <2>2. Append(runs, [count |-> 1, delta |-> d]) \in Seq(Run) BY <2>1
  <2> QED BY <1>2, <2>2 DEF Longer
<1> QED BY <1>1, <1>2

LEMMA RunsTyped ==
  ASSUME NEW deltas \in Seq(Int)
  PROVE  Runs(deltas) \in Seq(Run)
<1> DEFINE N == Len(deltas)
           X == Seq(Run)
           step == [n \in 1..N |-> [x \in X |-> Longer(x, deltas[n])]]
           P(f) == f = [n \in 0..N |-> IF n = 0 THEN <<>> ELSE Longer(f[n - 1], deltas[n])]
           F == CHOOSE f : P(f)
<1>1. N \in Nat /\ <<>> \in X OBVIOUS
<1>2. \A n \in 1..N, x \in X : Longer(x, deltas[n]) \in X
  <2>1. \A n \in 1..N : deltas[n] \in Int OBVIOUS
  <2> QED BY <2>1, LongerTyped
<1>3. step \in [1..N -> [X -> X]] BY <1>2
<1>4. PICK f \in [0..N -> X] : Folds(f, N, <<>>, step)
  <2> HIDE DEF step, N, X
  <2> QED BY <1>1, <1>3, FoldExists
<1>5. f = [n \in 0..N |-> IF n = 0 THEN <<>> ELSE step[n][f[n - 1]]] BY <1>4 DEF Folds
<1>6. P(f)
  <2>1. \A n \in 1..N : f[n - 1] \in X
    <3> HIDE DEF step, N, X
    <3>1. \A n \in 1..N : n - 1 \in 0..N BY <1>1
    <3> QED BY <1>4, <3>1
  <2>2. \A n \in 1..N : step[n][f[n - 1]] = Longer(f[n - 1], deltas[n]) BY <2>1
  <2>3. \A n \in 0..N : n # 0 => n \in 1..N BY <1>1
  <2> HIDE DEF step, N
  <2> DEFINE g == [n \in 0..N |-> IF n = 0 THEN <<>> ELSE Longer(f[n - 1], deltas[n])]
  <2>4. \A n \in 0..N : f[n] = g[n] BY <1>5, <2>2, <2>3
  <2>5. f = g BY <1>5, <2>4
  <2> QED BY <2>5
<1>7. P(F)
  <2> HIDE DEF P
  <2> QED BY <1>6
<1> HIDE DEF F
<1>8. \A n \in 0..N : F[n] = IF n = 0 THEN <<>> ELSE Longer(F[n - 1], deltas[n]) BY <1>7
<1>9. \A n \in 0..N : F[n] \in X
  <2> DEFINE S == {n \in 0..N : F[n] \in X}
  <2> HIDE DEF N, X
  <2>1. 0 \in S BY <1>1, <1>8
  <2>2. ASSUME NEW n \in 1..N, n - 1 \in S PROVE n \in S
    <3>1. n \in 0..N /\ n # 0 BY <1>1
    <3>2. F[n] = Longer(F[n - 1], deltas[n]) BY <1>8, <3>1
    <3>3. F[n] \in X BY <1>2, <2>2, <3>2
    <3> QED BY <3>1, <3>3
  <2>3. \A n \in 1..N : n - 1 \in S => n \in S BY <2>2
  <2> HIDE DEF S
  <2>4. \A n \in 0..N : n \in S BY <1>1, <2>1, <2>3, UpTo
  <2> QED BY <2>4 DEF S
<1>10. Runs(deltas) = F[N] BY DEF Runs, F, N
<1> QED BY <1>1, <1>9, <1>10

LEMMA OnlyTyped ==
  ASSUME NEW E, NEW s \in Seq(E), NEW indices
  PROVE  Only(s, indices) \in Seq(E)
<1> DEFINE N == Len(s)
           X == Seq(E)
           longer(x, n) == IF n \in indices THEN Append(x, s[n]) ELSE x
           step == [n \in 1..N |-> [x \in X |-> longer(x, n)]]
           P(f) == f = [n \in 0..N |-> IF n = 0 THEN <<>> ELSE longer(f[n - 1], n)]
           F == CHOOSE f : P(f)
<1>1. N \in Nat /\ <<>> \in X OBVIOUS
<1>2. \A n \in 1..N, x \in X : longer(x, n) \in X
  <2>1. \A n \in 1..N : s[n] \in E OBVIOUS
  <2> QED BY <2>1
<1>3. step \in [1..N -> [X -> X]] BY <1>2
<1>4. PICK f \in [0..N -> X] : Folds(f, N, <<>>, step)
  <2> HIDE DEF step, N, X
  <2> QED BY <1>1, <1>3, FoldExists
<1>5. f = [n \in 0..N |-> IF n = 0 THEN <<>> ELSE step[n][f[n - 1]]] BY <1>4 DEF Folds
<1>6. P(f)
  <2>1. \A n \in 1..N : f[n - 1] \in X
    <3> HIDE DEF step, N, X
    <3>1. \A n \in 1..N : n - 1 \in 0..N BY <1>1
    <3> QED BY <1>4, <3>1
  <2>2. \A n \in 1..N : step[n][f[n - 1]] = longer(f[n - 1], n) BY <2>1
  <2>3. \A n \in 0..N : n # 0 => n \in 1..N BY <1>1
  <2> HIDE DEF step, N
  <2> DEFINE g == [n \in 0..N |-> IF n = 0 THEN <<>> ELSE longer(f[n - 1], n)]
  <2>4. \A n \in 0..N : f[n] = g[n] BY <1>5, <2>2, <2>3
  <2>5. f = g BY <1>5, <2>4
  <2> QED BY <2>5
<1>7. P(F)
  <2> HIDE DEF P
  <2> QED BY <1>6
<1> HIDE DEF F
<1>8. \A n \in 0..N : F[n] = IF n = 0 THEN <<>> ELSE longer(F[n - 1], n) BY <1>7
<1>9. \A n \in 0..N : F[n] \in X
  <2> DEFINE S == {n \in 0..N : F[n] \in X}
  <2> HIDE DEF N, X
  <2>1. 0 \in S BY <1>1, <1>8
  <2>2. ASSUME NEW n \in 1..N, n - 1 \in S PROVE n \in S
    <3>1. n \in 0..N /\ n # 0 BY <1>1
    <3>2. F[n] = longer(F[n - 1], n) BY <1>8, <3>1
    <3>3. F[n] \in X BY <1>2, <2>2, <3>2
    <3> QED BY <3>1, <3>3
  <2>3. \A n \in 1..N : n - 1 \in S => n \in S BY <2>2
  <2> HIDE DEF S
  <2>4. \A n \in 0..N : n \in S BY <1>1, <2>1, <2>3, UpTo
  <2> QED BY <2>4 DEF S
<1>10. Only(s, indices) = F[N] BY DEF Only, F, N
<1> QED BY <1>1, <1>9, <1>10

-----------------------------------------------------------------------------
(* What the reader makes of the tables of one track: samples in the order   *)
(* of their times, one of them a beginning, or nothing.                     *)
Clip(c) ==
  /\ Len(c) \in Nat /\ DOMAIN c = 1..Len(c) /\ (c = <<>> <=> Len(c) = 0)
  /\ \A i \in DOMAIN c : c[i].pts \in Nat
  /\ \A i, j \in DOMAIN c : i <= j => c[i].pts <= c[j].pts
  /\ c # <<>> => \E i \in DOMAIN c : c[i].key

LEMMA TimingTyped ==
  ASSUME NEW stts \in Seq(Run), \A r \in DOMAIN stts : stts[r].delta > 0,
         NEW scale \in {VideoScale, AudioScale}
  PROVE  /\ Timing(stts, scale) \in [1..(Len(Deltas(stts)) + 1) -> Nat]
         /\ \A i, j \in 1..(Len(Deltas(stts)) + 1) :
              i <= j => Timing(stts, scale)[i] <= Timing(stts, scale)[j]
<1> DEFINE deltas == Deltas(stts)
           n == Len(deltas) + 1
           sums == Sums(deltas)
<1>1. deltas \in Seq(Nat) BY DeltasTyped DEF Run
<1>2. n \in Nat BY <1>1
<1>3. sums \in [1..n -> Nat] /\ \A i, j \in 1..n : i <= j => sums[i] <= sums[j]
  <2> HIDE DEF deltas
  <2> QED BY <1>1, SumsTyped
<1>4. Timing(stts, scale) = [i \in DOMAIN sums |-> (sums[i] * scale[1]) \div scale[2]]
  BY DEF Timing
<1> HIDE DEF deltas, n, sums
<1>5. /\ \A a \in Nat : (a * scale[1]) \div scale[2] \in Nat
      /\ \A a, b \in Nat : a <= b => (a * scale[1]) \div scale[2] <= (b * scale[1]) \div scale[2]
  <2>1. CASE scale = VideoScale
    <3>1. scale[1] = 100 /\ scale[2] = 9 BY <2>1 DEF VideoScale
    <3>2. \A a \in Nat : (a * 100) \div 9 \in Nat OBVIOUS
    <3>3. \A a, b \in Nat : a <= b => (a * 100) \div 9 <= (b * 100) \div 9 OBVIOUS
    <3> QED BY <3>1, <3>2, <3>3
  <2>2. CASE scale = AudioScale
    <3>1. scale[1] = 125 /\ scale[2] = 6 BY <2>2 DEF AudioScale
    <3>2. \A a \in Nat : (a * 125) \div 6 \in Nat OBVIOUS
    <3>3. \A a, b \in Nat : a <= b => (a * 125) \div 6 <= (b * 125) \div 6 OBVIOUS
    <3> QED BY <3>1, <3>2, <3>3
  <2> QED BY <2>1, <2>2
<1> DEFINE time(a) == (a * scale[1]) \div scale[2]
<1>6. Timing(stts, scale) = [i \in 1..n |-> time(sums[i])] BY <1>3, <1>4
<1>7. /\ \A a \in Nat : time(a) \in Nat
      /\ \A a, b \in Nat : a <= b => time(a) <= time(b) BY <1>5
<1> HIDE DEF time
<1>8. Timing(stts, scale) \in [1..n -> Nat] BY <1>3, <1>6, <1>7
<1>9. ASSUME NEW i \in 1..n, NEW j \in 1..n, i <= j
      PROVE  Timing(stts, scale)[i] <= Timing(stts, scale)[j]
  <2>1. sums[i] \in Nat /\ sums[j] \in Nat /\ sums[i] <= sums[j] BY <1>3, <1>9
  <2>2. time(sums[i]) <= time(sums[j]) BY <1>7, <2>1
  <2> QED BY <1>6, <2>2
<1> QED BY <1>8, <1>9 DEF n, deltas

LEMMA ReadTrackTyped ==
  ASSUME NEW t, t.stts \in Seq(Run), t.stsz \in Seq(Nat), t.stss \subseteq DOMAIN t.stsz,
         NEW scale \in {VideoScale, AudioScale}, NEW end
  PROVE  Clip(ReadTrack(t, scale, end))
<1>1. Clip(<<>>) BY DEF Clip
<1>2. ASSUME t.stsz # <<>>, t.stss # {}, WellTimed(t) PROVE Clip(Samples(t, scale))
  <2> DEFINE timing == Timing(t.stts, scale)
             n == Len(t.stsz)
             c == Samples(t, scale)
             E == {c[i] : i \in 1..n}
  <2>1. Len(Deltas(t.stts)) = n /\ \A r \in DOMAIN t.stts : t.stts[r].delta > 0
    BY <1>2 DEF WellTimed
  <2>2. n \in Nat \ {0} /\ DOMAIN t.stsz = 1..n BY <1>2
  <2>3. /\ timing \in [1..(n + 1) -> Nat]
        /\ \A i, j \in 1..(n + 1) : i <= j => timing[i] <= timing[j]
    BY <2>1, TimingTyped
  <2>4. c = [i \in 1..n |-> [offset |-> Offsets(t)[i], pts |-> timing[i],
                             size |-> t.stsz[i], key |-> i \in t.stss]]
    BY <2>2 DEF Samples
  <2> HIDE DEF timing, n, c
  <2>5. DOMAIN c = 1..n /\ c \in [1..n -> E] BY <2>4
  <2> HIDE DEF E
  <2>6. c \in Seq(E) /\ Len(c) = n /\ c # <<>> BY <2>2, <2>5
  <2>7. \A i \in 1..n : c[i].pts = timing[i] /\ (c[i].key <=> i \in t.stss) BY <2>4
  <2>8. \A i \in 1..n : i \in 1..(n + 1) BY <2>2
  <2>9. \E i \in 1..n : c[i].key BY <1>2, <2>2, <2>7
  <2>10. \A i \in DOMAIN c : c[i].pts \in Nat BY <2>3, <2>5, <2>7, <2>8
  <2>11. \A i, j \in DOMAIN c : i <= j => c[i].pts <= c[j].pts BY <2>3, <2>5, <2>7, <2>8
  <2>12. Clip(c) BY <2>2, <2>5, <2>6, <2>9, <2>10, <2>11 DEF Clip
  <2> QED BY <2>12 DEF c
<1>3. CASE t.stsz = <<>> \/ t.stss = {} \/ ~WellTimed(t) \/ ~WellPlaced(t, end)
  BY <1>1, <1>3 DEF ReadTrack
<1>4. CASE ~(t.stsz = <<>> \/ t.stss = {} \/ ~WellTimed(t) \/ ~WellPlaced(t, end))
  <2>1. ReadTrack(t, scale, end) = Samples(t, scale) BY <1>4 DEF ReadTrack
  <2> QED BY <1>2, <1>4, <2>1
<1> QED BY <1>3, <1>4

LEMMA DurationsTyped ==
  ASSUME NEW video \in Seq(Piece) PROVE Durations(video) \in Seq(Int)
<1>1. ASSUME NEW i \in 1..Len(video) PROVE SampleDuration(video, i) \in Int
  <2> DEFINE gap == video[i + 1].pts - video[i].pts
             ticks == (gap * 9 + 50) \div 100
  <2>1. 90000 \div Fps \in Int BY ClipAssumption
  <2>2. ASSUME i # Len(video) PROVE ticks \in Int
    <3>1. video[i] \in Piece /\ video[i + 1] \in Piece BY <2>2, ElementOfSeq
    <3>2. video[i].pts \in Nat /\ video[i + 1].pts \in Nat BY <3>1 DEF Piece
    <3>3. gap \in Int BY <3>2
    <3> HIDE DEF gap
    <3> QED BY <3>3
  <2>3. SampleDuration(video, i) =
          IF i = Len(video) \/ gap <= 0 \/ ticks \notin 1..TickMax THEN 90000 \div Fps ELSE ticks
    BY DEF SampleDuration
  <2> HIDE DEF gap, ticks
  <2> QED BY <2>1, <2>2, <2>3
<1>2. Durations(video) = [i \in 1..Len(video) |-> SampleDuration(video, i)] BY DEF Durations
<1>3. Durations(video) \in [1..Len(video) -> Int] BY <1>1, <1>2
<1> QED BY <1>3

LEMMA TablesTyped ==
  ASSUME NEW samples \in Seq(Piece), NEW deltas \in Seq(Int)
  PROVE  /\ Tables(samples, deltas).stts \in Seq(Run)
         /\ Tables(samples, deltas).stsz \in Seq(Nat)
         /\ Tables(samples, deltas).stss \subseteq DOMAIN Tables(samples, deltas).stsz
<1> DEFINE t == Tables(samples, deltas)
<1>1. t.stts = Runs(deltas) /\ t.stsz = Sizes(samples) /\ t.stss = Stss(samples)
  BY DEF Tables
<1>2. \A i \in 1..Len(samples) : samples[i].size \in Nat
  <2>1. \A i \in 1..Len(samples) : samples[i] \in Piece BY ElementOfSeq
  <2> QED BY <2>1 DEF Piece
<1>3. Sizes(samples) \in [1..Len(samples) -> Nat] BY <1>2 DEF Sizes
<1>4. Sizes(samples) \in Seq(Nat) /\ DOMAIN Sizes(samples) = DOMAIN samples BY <1>3
<1>5. Stss(samples) \subseteq DOMAIN samples BY DEF Stss
<1> HIDE DEF t
<1>6. t.stts \in Seq(Run) BY <1>1, RunsTyped
<1> QED BY <1>1, <1>4, <1>5, <1>6 DEF t

(* Whatever pieces are in the file, the reader makes a clip of it.          *)
LEMMA ReadClipTyped ==
  ASSUME NEW mdat \in Seq(Piece)
  PROVE  Clip(ReadClip(mdat).video) /\ Clip(ReadClip(mdat).audio)
<1> DEFINE moov == Moov(mdat)
           end == FileEnd(mdat)
           video == ReadTrack(moov.video, VideoScale, end)
           audio == ReadTrack(Sound(moov.audio), AudioScale, end)
           pictures == Track(mdat, "video")
           sounds == Trimmed(pictures, Track(mdat, "audio"))
           lasts == [i \in DOMAIN sounds |-> 1024]
<1>1. pictures \in Seq(Piece) /\ Track(mdat, "audio") \in Seq(Piece) BY OnlyTyped DEF Track
<1>2. sounds \in Seq(Piece)
  <2> HIDE DEF pictures
  <2> QED BY <1>1, OnlyTyped DEF Trimmed
<1>3. moov.video = Tables(pictures, Durations(pictures)) /\ moov.audio = Tables(sounds, lasts)
  BY DEF Moov
<1>4. lasts \in Seq(Int)
  <2> HIDE DEF sounds
  <2>1. lasts \in [1..Len(sounds) -> Int] BY <1>2
  <2> QED BY <1>2, <2>1
<1> HIDE DEF moov, pictures, sounds, lasts
<1>5. /\ moov.video.stts \in Seq(Run) /\ moov.video.stsz \in Seq(Nat)
      /\ moov.video.stss \subseteq DOMAIN moov.video.stsz
  BY <1>1, <1>3, DurationsTyped, TablesTyped
<1>6. moov.audio.stts \in Seq(Run) /\ moov.audio.stsz \in Seq(Nat)
  BY <1>2, <1>3, <1>4, TablesTyped
<1>7. /\ Sound(moov.audio).stts = moov.audio.stts /\ Sound(moov.audio).stsz = moov.audio.stsz
      /\ Sound(moov.audio).stss = DOMAIN moov.audio.stsz
  BY <1>3 DEF Sound, Tables
<1> HIDE DEF end
<1>8. Clip(video) BY <1>5, ReadTrackTyped
<1>9. Clip(audio) BY <1>6, <1>7, ReadTrackTyped
<1>10. Clip(<<>>) BY DEF Clip
<1>11. /\ ReadClip(mdat).video = IF moov.audio.stsz = <<>> \/ audio # <<>> THEN video ELSE <<>>
       /\ ReadClip(mdat).audio = audio
  BY DEF ReadClip, moov, end
<1> HIDE DEF video, audio
<1> QED BY <1>8, <1>9, <1>10, <1>11

-----------------------------------------------------------------------------
(* Key frames, and where the sound begins.                                  *)
LEMMA Greatest ==
  ASSUME NEW k \in Nat, NEW S, S \subseteq 0..k, S # {}
  PROVE  \E n \in S : \A m \in S : m <= n
<1> DEFINE T == {k - n : n \in S}
<1>1. T \subseteq Nat /\ T # {}
  <2>1. \A n \in S : k - n \in Nat OBVIOUS
  <2> QED BY <2>1
<1>2. \E t \in T : \A u \in T : t <= u
  <2> HIDE DEF T
  <2> QED BY <1>1, Least
<1>3. PICK t \in T : \A u \in T : t <= u BY <1>2
<1>4. PICK n \in S : t = k - n OBVIOUS
<1>5. \A m \in S : k - n <= k - m BY <1>3, <1>4
<1>6. n \in 0..k /\ \A m \in S : m \in 0..k OBVIOUS
<1>7. \A m \in S : m <= n BY <1>5, <1>6
<1> QED BY <1>7

LEMMA FirstKeyIsKey ==
  ASSUME NEW c, Clip(c)
  PROVE  /\ FirstKey(c) \in Nat
         /\ c # <<>> => FirstKey(c) \in 0..(Len(c) - 1) /\ c[FirstKey(c) + 1].key
<1> DEFINE S == {i \in DOMAIN c : c[i].key}
           First(i) == c[i].key /\ \A j \in 1..(i - 1) : ~c[j].key
<1>1. Len(c) \in Nat /\ DOMAIN c = 1..Len(c) BY DEF Clip
<1>2. ASSUME S # {} PROVE \E i \in DOMAIN c : First(i)
  <2>1. S \subseteq Nat BY <1>1
  <2>2. \E i \in S : \A j \in S : i <= j
    <3> HIDE DEF S
    <3> QED BY <1>2, <2>1, Least
  <2>3. PICK i \in S : \A j \in S : i <= j BY <2>2
  <2>4. i \in DOMAIN c /\ c[i].key OBVIOUS
  <2>5. \A j \in 1..(i - 1) : j \in DOMAIN c /\ ~(i <= j) BY <1>1, <2>4
  <2>6. \A j \in 1..(i - 1) : ~c[j].key BY <2>3, <2>5
  <2> QED BY <2>4, <2>6
<1>3. CASE S # {}
  <2> DEFINE i == CHOOSE n \in DOMAIN c : First(n)
  <2>1. i \in DOMAIN c /\ First(i)
    <3> HIDE DEF First
    <3> QED BY <1>2, <1>3
  <2>2. FirstKey(c) = i - 1 BY <1>3 DEF FirstKey
  <2> HIDE DEF i
  <2> QED BY <1>1, <2>1, <2>2
<1>4. CASE S = {}
  <2>1. FirstKey(c) = 0 BY <1>4 DEF FirstKey
  <2>2. c = <<>> BY <1>4 DEF Clip
  <2> QED BY <2>1, <2>2
<1> QED BY <1>3, <1>4

LEMMA KeyAtOrBeforeIsKey ==
  ASSUME NEW c, Clip(c), NEW index \in 0..(Len(c) - 1)
  PROVE  KeyAtOrBefore(c, index) \in 0..(Len(c) - 1) /\ c[KeyAtOrBefore(c, index) + 1].key
<1> DEFINE keys == {i \in 0..index : c[i + 1].key}
           key == KeyAtOrBefore(c, index)
<1>1. Len(c) \in Nat /\ c # <<>> BY DEF Clip
<1>2. CASE keys = {} BY <1>1, <1>2, FirstKeyIsKey DEF KeyAtOrBefore
<1>3. CASE keys # {}
  <2>1. index \in Nat /\ keys \subseteq 0..index BY <1>1
  <2>2. \E i \in keys : \A j \in keys : j <= i
    <3> HIDE DEF keys
    <3> QED BY <1>3, <2>1, Greatest
  <2>3. key = CHOOSE i \in keys : \A j \in keys : j <= i BY <1>3 DEF KeyAtOrBefore
  <2>4. key \in keys
    <3> HIDE DEF keys, key
    <3> QED BY <2>2, <2>3
  <2> HIDE DEF key
  <2>5. key \in 0..index /\ c[key + 1].key BY <2>4
  <2> QED BY <1>1, <2>5 DEF key
<1> QED BY <1>2, <1>3

LEMMA AudioFromTyped ==
  ASSUME Clip(clip.audio)
  PROVE  /\ \A t : AudioFrom(t) \in Nat
         /\ \A t, u \in Nat : t <= u => AudioFrom(t) <= AudioFrom(u)
<1> DEFINE D == DOMAIN clip.audio
           B(t) == {i \in D : clip.audio[i].pts < t}
<1>1. D = 1..Len(clip.audio) /\ Len(clip.audio) \in Nat /\ \A i \in D : clip.audio[i].pts \in Nat
  BY DEF Clip
<1>2. IsFiniteSet(D) BY <1>1, FS_Interval
<1>3. \A t : IsFiniteSet(B(t)) BY <1>2, FS_Subset
<1>4. \A t : AudioFrom(t) = Cardinality(B(t)) BY DEF AudioFrom
<1>5. \A t, u \in Nat : t <= u => B(t) \subseteq B(u) BY <1>1
<1> HIDE DEF B
<1>6. \A t : AudioFrom(t) \in Nat BY <1>3, <1>4, FS_CardinalityType
<1>7. \A t, u \in Nat : t <= u => AudioFrom(t) <= AudioFrom(u)
  BY <1>3, <1>4, <1>5, FS_Subset
<1> QED BY <1>6, <1>7

-----------------------------------------------------------------------------
(* The invariant.                                                           *)
Players == [open : BOOLEAN, sample : Nat, next : Nat, target : Nat, seeking : BOOLEAN,
            paused : BOOLEAN, naudio : Nat, sound : BOOLEAN, anchor : Nat, since : Nat]
TypeOK ==
  /\ recording \in Recordings \cup {<<>>}
  /\ Clip(clip.video) /\ Clip(clip.audio)
  /\ player \in Players
  /\ hw \subseteq ToSet(Pieces)
  /\ queued \in 0..Room
  /\ fed \in Seq(Nat) /\ heard \in Seq(Nat)
  /\ lost \in BOOLEAN /\ torn \in BOOLEAN /\ hung \in BOOLEAN
  /\ commands \in 0..MaxCommands /\ faults \in 0..MaxFaults

Shown(p) == p.open /\ ~Picture
Playing(p) == Shown(p) /\ ~p.paused

\* The numbers from one on, one after the other.
From(s, first) == \A i \in 1..Len(s) : s[i] = first + i - 1

\* A player of a recording stands at one of its pictures, before the next.
Stands(p) ==
  Shown(p) => /\ clip.video # <<>> /\ p.sample \in 0..(Count - 1)
              /\ p.next = p.sample + 1

\* What the decoder was given: from a key frame up to the picture.
Complete(p, f) ==
  /\ f # <<>> /\ clip.video[f[1] + 1].key /\ From(f, f[1])
  /\ f[1] + Len(f) = p.sample + 1
Followed(p, f, l) == Shown(p) /\ ~l => Complete(p, f)

\* What was heard: from the picture the clock was set to; the next frame is
\* the one behind it, and during a seek not one behind the picture.
InTime(p) == Pts(p.sample) <= p.anchor + p.since
HeardInTime(p, h) ==
  LET first == AudioFrom(p.anchor)
  IN  /\ From(h, first)
      /\ h # <<>> => /\ first + Len(h) <= Len(clip.audio)
                     /\ clip.audio[first + Len(h)].pts <= p.anchor + p.since
      /\ p.sound => p.naudio = first + Len(h)
Sounds(p, h) ==
  Playing(p) => IF p.seeking THEN p.naudio <= AudioFrom(Pts(p.sample))
                ELSE InTime(p) /\ HeardInTime(p, h)

Inv ==
  /\ TypeOK /\ NothingLeft
  /\ Stands(player) /\ Followed(player, fed, lost) /\ Sounds(player, heard)

LEMMA Limits ==
  /\ SendLimit \in Nat \ {0} /\ AudioLimit \in Nat \ {0} /\ Preroll \in Nat \ {0}
  /\ Room \in Nat \ {0} /\ Step \in Nat \ {0} /\ Preroll <= Room
  /\ MaxCommands \in Nat /\ MaxFaults \in Nat
BY PlaybackAssumption

LEMMA NeverTorn == \A up : ~Torn(up)
<1> USE DEF TakeDown, Rests
<1>1. Len(TakeDown) = 10 OBVIOUS
<1>2. DOMAIN TakeDown = 1..10 OBVIOUS
<1> QED BY <1>1, <1>2 DEF Torn

LEMMA AllTakenDown == ToSet(TakeDown) = ToSet(Pieces)
<1>1. ToSet(TakeDown) = {"output", "channel", "shown", "layer", "input", "scaled", "scaler",
                         "group", "receiving", "decoder"}
  BY DEF ToSet, TakeDown
<1>2. ToSet(Pieces) = {"group", "scaler", "scaled", "layer", "shown", "channel", "output",
                       "decoder", "receiving", "input"}
  BY DEF ToSet, Pieces
<1> QED BY <1>1, <1>2

\* Closed, or opened in vain: nothing is shown.
LEMMA CloseKeeps ==
  ASSUME Inv, NEW up, up \subseteq ToSet(Pieces), Close(up),
         UNCHANGED <<recording, clip, hung>>, commands' \in 0..MaxCommands,
         faults' \in 0..MaxFaults
  PROVE  Inv'
<1>1. hw' = {} /\ ~torn'
  BY AllTakenDown, NeverTorn DEF Close, Inv, NothingLeft
<1>2. player' = Shut /\ ~player'.open BY DEF Close, Shut
<1>3. NothingLeft' BY <1>1 DEF NothingLeft
<1>4. player' \in Players BY <1>2 DEF Shut, Players
<1>5. queued' \in 0..Room /\ fed' \in Seq(Nat) /\ heard' \in Seq(Nat) /\ lost' \in BOOLEAN
  <2>1. queued' = 0 /\ fed' = <<>> /\ heard' = <<>> /\ lost' = FALSE BY DEF Close
  <2>2. 0 \in 0..Room /\ <<>> \in Seq(Nat) BY Limits
  <2> QED BY <2>1, <2>2
<1>6. TypeOK'
  <2>1. recording' \in Recordings \cup {<<>>} /\ Clip(clip'.video) /\ Clip(clip'.audio) /\ hung' \in BOOLEAN
    BY DEF Inv, TypeOK
  <2>2. torn' \in BOOLEAN BY DEF Close
  <2>3. hw' \subseteq ToSet(Pieces) BY <1>1
  <2> QED BY <1>4, <1>5, <2>1, <2>2, <2>3 DEF TypeOK
<1>7. Stands(player)' /\ Followed(player, fed, lost)' /\ Sounds(player, heard)'
  BY <1>2 DEF Stands, Followed, Sounds, Playing, Shown
<1> QED BY <1>3, <1>6, <1>7 DEF Inv

\* Nothing of the hardware changes but whether the decoder receives.
LEMMA StillUp ==
  ASSUME Inv, UNCHANGED torn, player.open, player'.open,
         hw' \in {hw, hw \cup {"receiving"}, hw \ {"receiving"}}
  PROVE  hw' \subseteq ToSet(Pieces) /\ NothingLeft' /\ torn' \in BOOLEAN
<1>1. "receiving" \in ToSet(Pieces) BY DEF ToSet, Pieces
<1> QED BY <1>1 DEF Inv, TypeOK, NothingLeft

LEMMA OpenedKeeps ==
  ASSUME Inv, Opened, Readable,
         UNCHANGED <<recording, clip, hung>>, commands' \in 0..MaxCommands,
         faults' \in 0..MaxFaults
  PROVE  Inv'
<1> DEFINE first == FirstKey(clip.video)
           given == IF Picture THEN 1 ELSE IF Count - first < Preroll THEN Count - first ELSE Preroll
<1>1. /\ player' = [Shut EXCEPT !.open = TRUE, !.sample = first + given - 1,
                               !.next = first + given, !.sound = clip.audio # <<>>]
      /\ hw' = ToSet(Pieces) /\ torn' = (torn \/ Torn(hw))
      /\ queued' = given /\ fed' = [i \in 1..given |-> first + i - 1]
      /\ heard' = <<>> /\ lost' = FALSE
  BY DEF Opened
<1>2. Clip(clip.video) /\ Clip(clip.audio) BY DEF Inv, TypeOK
<1>3. Count \in Nat BY <1>2 DEF Clip, Count
<1>4. first \in Nat /\ (clip.video # <<>> => first \in 0..(Count - 1) /\ clip.video[first + 1].key)
  BY <1>2, FirstKeyIsKey DEF Count
<1>5. ~Picture => clip.video # <<>> BY DEF Readable
<1> HIDE DEF first
<1>6. /\ given \in 1..Room
      /\ ~Picture => first + given <= Count
  BY <1>3, <1>4, <1>5, Limits
<1> HIDE DEF given
<1>7. player'.open /\ player'.paused /\ player'.sample = first + given - 1 /\ player'.next = first + given
  BY <1>1 DEF Shut
<1>8. player' \in Players
  <2>1. first + given - 1 \in Nat /\ first + given \in Nat BY <1>4, <1>6
  <2>2. (clip.audio # <<>>) \in BOOLEAN OBVIOUS
  <2> QED BY <1>1, <2>1, <2>2 DEF Shut, Players
<1>9. fed' \in Seq(Nat) /\ Len(fed') = given /\ fed' # <<>>
  <2>1. given \in Nat \ {0} BY <1>6, Limits
  <2>2. \A i \in 1..given : first + i - 1 \in Nat BY <1>4
  <2>3. fed' \in [1..given -> Nat] BY <1>1, <2>2
  <2> QED BY <2>1, <2>3
<1>10. TypeOK'
  <2>1. queued' \in 0..Room BY <1>1, <1>6, Limits
  <2>2. torn' \in BOOLEAN /\ lost' \in BOOLEAN BY <1>1
  <2>3. heard' \in Seq(Nat) BY <1>1
  <2>4. recording' \in Recordings \cup {<<>>} /\ Clip(clip'.video) /\ Clip(clip'.audio) /\ hung' \in BOOLEAN
    BY DEF Inv, TypeOK
  <2> QED BY <1>1, <1>8, <1>9, <2>1, <2>2, <2>3, <2>4 DEF TypeOK
<1>11. NothingLeft' BY <1>1, <1>7, NeverTorn DEF Inv, NothingLeft
<1>12. Stands(player)' BY <1>3, <1>4, <1>5, <1>6, <1>7 DEF Stands, Shown, Count, Picture
<1>13. Followed(player, fed, lost)'
  <2>1. fed'[1] = first /\ \A i \in 1..given : fed'[i] = first + i - 1 BY <1>1, <1>4, <1>6
  <2>2. From(fed', fed'[1]) BY <1>9, <2>1 DEF From
  <2>3. fed'[1] + Len(fed') = player'.sample + 1 BY <1>4, <1>6, <1>7, <1>9, <2>1
  <2> QED BY <1>4, <1>5, <1>9, <2>1, <2>2, <2>3 DEF Followed, Complete, Shown, Picture
<1>14. Sounds(player, heard)' BY <1>7 DEF Sounds, Playing
<1> QED BY <1>10, <1>11, <1>12, <1>13, <1>14 DEF Inv

\* What a step that leaves the file and the hardware alone has to show.
LEMMA StepKeeps ==
  ASSUME Inv, UNCHANGED <<recording, clip, torn>>, player.open, player'.open,
         hw' \in {hw, hw \cup {"receiving"}, hw \ {"receiving"}},
         player' \in Players, queued' \in 0..Room, fed' \in Seq(Nat), heard' \in Seq(Nat),
         lost' \in BOOLEAN, hung' \in BOOLEAN,
         commands' \in 0..MaxCommands, faults' \in 0..MaxFaults,
         Stands(player'), Followed(player', fed', lost'), Sounds(player', heard')
  PROVE  Inv'
<1>1. hw' \subseteq ToSet(Pieces) /\ NothingLeft' /\ torn' \in BOOLEAN BY StillUp
<1>2. recording' \in Recordings \cup {<<>>} /\ Clip(clip'.video) /\ Clip(clip'.audio)
  BY DEF Inv, TypeOK
<1>3. TypeOK' BY <1>1, <1>2 DEF TypeOK
<1>4. Stands(player)' BY DEF Stands, Shown, Picture, Count
<1>5. Followed(player, fed, lost)' BY DEF Followed, Complete, From, Shown, Picture
<1>6. Sounds(player, heard)'
  BY DEF Sounds, Playing, Shown, Picture, InTime, HeardInTime, From, Pts, AudioFrom
<1> QED BY <1>1, <1>3, <1>4, <1>5, <1>6 DEF Inv

LEMMA PtsTyped ==
  ASSUME Clip(clip.video)
  PROVE  /\ Count \in Nat
         /\ \A i \in 0..(Count - 1) : Pts(i) \in Nat
         /\ \A i, j \in 0..(Count - 1) : i <= j => Pts(i) <= Pts(j)
<1>1. Count \in Nat /\ DOMAIN clip.video = 1..Count BY DEF Clip, Count
<1>2. \A i \in 0..(Count - 1) : i + 1 \in DOMAIN clip.video BY <1>1
<1>3. \A i \in DOMAIN clip.video : clip.video[i].pts \in Nat BY DEF Clip
<1>4. \A i, j \in DOMAIN clip.video : i <= j => clip.video[i].pts <= clip.video[j].pts
  BY DEF Clip
<1>5. ASSUME NEW i \in 0..(Count - 1), NEW j \in 0..(Count - 1), i <= j
      PROVE  Pts(i) <= Pts(j)
  <2>1. i + 1 <= j + 1 BY <1>1, <1>5
  <2> QED BY <1>2, <1>4, <2>1 DEF Pts
<1>6. \A i \in 0..(Count - 1) : Pts(i) \in Nat BY <1>2, <1>3 DEF Pts
<1> QED BY <1>1, <1>5, <1>6

-----------------------------------------------------------------------------
(* Pauses and seeks.                                                        *)
LEMMA ResumedSounds ==
  ASSUME Clip(clip.video), Clip(clip.audio), NEW p \in Players, Shown(p), Stands(p)
  PROVE  /\ Resumed(p) \in Players /\ Resumed(p).open /\ Stands(Resumed(p))
         /\ Resumed(p).sample = p.sample
         /\ Sounds(Resumed(p), <<>>)
<1> DEFINE q == Resumed(p)
           at == Pts(p.sample)
           from == AudioFrom(at)
<1>1. at \in Nat BY PtsTyped DEF Stands
<1>2. from \in Nat BY AudioFromTyped
<1>3. q = [p EXCEPT !.anchor = at, !.since = 0, !.naudio = from, !.paused = FALSE] BY DEF Resumed
<1> HIDE DEF at, from, q
<1>4. /\ q \in Players /\ q.open = p.open /\ q.sample = p.sample /\ q.next = p.next
      /\ q.anchor = at /\ q.since = 0 /\ q.naudio = from
  BY <1>1, <1>2, <1>3 DEF Players
<1>5. Stands(q) /\ q.open BY <1>4 DEF Stands, Shown
<1>6. InTime(q) BY <1>1, <1>4 DEF InTime, at
<1>7. HeardInTime(q, <<>>) BY <1>2, <1>4 DEF HeardInTime, From, from
<1>8. q.naudio <= AudioFrom(Pts(q.sample)) BY <1>2, <1>4 DEF at, from
<1> QED BY <1>4, <1>5, <1>6, <1>7, <1>8 DEF Sounds, q

LEMMA SoughtStands ==
  ASSUME Inv, Shown(player), NEW index \in 0..(Count - 1)
  PROVE  /\ Sought(index) \in Players /\ Sought(index).open /\ Sought(index).paused
         /\ Stands(Sought(index)) /\ Complete(Sought(index), <<Sought(index).sample>>)
<1> DEFINE key == KeyAtOrBefore(clip.video, index)
           at == Pts(key)
           from == AudioFrom(at)
           q == Sought(index)
<1>1. Clip(clip.video) /\ Clip(clip.audio) /\ player \in Players BY DEF Inv, TypeOK
<1>2. key \in 0..(Count - 1) /\ clip.video[key + 1].key BY <1>1, KeyAtOrBeforeIsKey DEF Count
<1>3. Count \in Nat /\ at \in Nat BY <1>1, <1>2, PtsTyped
<1>4. from \in Nat BY <1>1, AudioFromTyped
<1>5. q = [player EXCEPT !.sample = key, !.next = key + 1, !.target = index,
                         !.seeking = key < index, !.paused = TRUE, !.anchor = at,
                         !.since = 0, !.naudio = from]
  BY DEF Sought
<1> HIDE DEF key, at, from, q
<1>6. key \in Nat /\ key + 1 \in Nat /\ index \in Nat /\ (key < index) \in BOOLEAN BY <1>2, <1>3
<1>7. /\ q \in Players /\ q.open = player.open /\ q.paused /\ q.sample = key /\ q.next = key + 1
  BY <1>1, <1>3, <1>4, <1>5, <1>6 DEF Players
<1>8. Stands(q) BY <1>2, <1>7 DEF Stands, Inv, Shown
<1>9. Complete(q, <<key>>) BY <1>2, <1>6, <1>7 DEF Complete, From
<1> QED BY <1>7, <1>8, <1>9 DEF q, Shown

\* A seek is done, or it changed at most what the decoder has.
LEMMA SeekOutcome ==
  ASSUME NEW index, NEW o \in SeekOutcomes(index)
  PROVE  /\ faults + o.fault <= MaxFaults /\ o.fault \in {0, 1}
         /\ \/ /\ o.player = Sought(index) /\ o.queued = 1 /\ o.fed = <<o.player.sample>>
               /\ o.heard = <<>> /\ o.lost = FALSE
            \/ /\ o.player = player /\ ~o.done /\ o.heard = heard
               /\ \/ o.queued = queued /\ o.fed = fed /\ o.lost = lost
                  \/ o.queued = 0 /\ o.fed = <<>> /\ o.lost = TRUE
<1> DEFINE p    == Sought(index)
           up   == "receiving" \in hw
           done == [player |-> p, receiving |-> TRUE, queued |-> 1, fed |-> <<p.sample>>,
                    heard |-> <<>>, lost |-> FALSE, done |-> TRUE, fault |-> 0]
           stop == [done EXCEPT !.player = player, !.receiving = up, !.queued = queued,
                                !.fed = fed, !.heard = heard, !.lost = lost, !.done = FALSE, !.fault = 1]
           half == [stop EXCEPT !.receiving = FALSE, !.queued = 0, !.fed = <<>>, !.lost = TRUE]
           send == [half EXCEPT !.receiving = TRUE]
           aac  == [done EXCEPT !.done = FALSE, !.fault = 1]
<1>1. o \in {done, stop, half, send, aac} /\ faults + o.fault <= MaxFaults
  BY DEF SeekOutcomes
<1> HIDE DEF p, up
<1>2. CASE o \in {done, aac}
  <2>1. o.player = p /\ o.queued = 1 /\ o.fed = <<p.sample>> /\ o.heard = <<>> /\ o.lost = FALSE
    <3>1. CASE o = done BY <3>1
    <3>2. CASE o = aac BY <3>2
    <3> QED BY <1>2, <3>1, <3>2
  <2>2. o.fault \in {0, 1}
    <3>1. CASE o = done BY <3>1
    <3>2. CASE o = aac BY <3>2
    <3> QED BY <1>2, <3>1, <3>2
  <2> QED BY <1>1, <2>1, <2>2 DEF p
<1>3. CASE o = stop BY <1>1, <1>3
<1>4. CASE o = half BY <1>1, <1>4
<1>5. CASE o = send BY <1>1, <1>5
<1> QED BY <1>1, <1>2, <1>3, <1>4, <1>5

LEMMA SettlesKeeps ==
  ASSUME Inv, Shown(player), NEW index \in 0..(Count - 1), NEW o \in SeekOutcomes(index),
         NEW p, Settles(o, p), p = o.player \/ (o.done /\ p = Resumed(o.player)),
         UNCHANGED <<recording, clip, torn>>, hung' \in BOOLEAN, commands' \in 0..MaxCommands
  PROVE  Inv'
<1> DEFINE q == Sought(index)
<1>1. /\ player' = p /\ queued' = o.queued /\ fed' = o.fed /\ heard' = o.heard
      /\ hw' \in {hw \cup {"receiving"}, hw \ {"receiving"}}
      /\ lost' = o.lost /\ faults' = faults + o.fault
  BY DEF Settles
<1>2. faults' \in 0..MaxFaults
  <2>1. faults + o.fault <= MaxFaults /\ o.fault \in {0, 1} BY SeekOutcome
  <2>2. faults \in 0..MaxFaults BY DEF Inv, TypeOK
  <2> QED BY <1>1, <2>1, <2>2, Limits
<1>3. Clip(clip.video) /\ Clip(clip.audio) /\ player \in Players BY DEF Inv, TypeOK
<1>4. q \in Players /\ q.open /\ q.paused /\ Stands(q) /\ Complete(q, <<q.sample>>)
  BY SoughtStands
<1>5. CASE o.player = q /\ o.queued = 1 /\ o.fed = <<q.sample>> /\ o.heard = <<>> /\ o.lost = FALSE
  <2> HIDE DEF q
  <2>1. p = q \/ p = Resumed(q) BY <1>5
  <2>2. Shown(q) BY <1>4 DEF Shown
  <2>3. /\ Resumed(q) \in Players /\ Resumed(q).open /\ Stands(Resumed(q))
        /\ Resumed(q).sample = q.sample /\ Sounds(Resumed(q), <<>>)
    BY <1>3, <1>4, <2>2, ResumedSounds
  <2>4. p \in Players /\ p.open /\ Stands(p) /\ p.sample = q.sample BY <1>4, <2>1, <2>3
  <2>5. Sounds(p, <<>>) BY <1>4, <2>1, <2>3 DEF Sounds, Playing
  <2>6. Followed(p, <<q.sample>>, FALSE) BY <1>4, <2>4 DEF Followed, Complete
  <2>7. queued' \in 0..Room /\ fed' \in Seq(Nat) /\ heard' \in Seq(Nat) /\ lost' \in BOOLEAN
    <3>1. q.sample \in Nat BY <1>4 DEF Players
    <3>2. queued' = 1 /\ fed' = <<q.sample>> /\ heard' = <<>> /\ lost' = FALSE BY <1>1, <1>5
    <3>3. 1 \in 0..Room BY Limits
    <3>4. <<q.sample>> \in Seq(Nat) /\ <<>> \in Seq(Nat) BY <3>1
    <3>5. lost' \in BOOLEAN BY <3>2
    <3> QED BY <3>2, <3>3, <3>4, <3>5
  <2> QED BY <1>1, <1>2, <1>5, <2>4, <2>5, <2>6, <2>7, StepKeeps DEF Shown
<1>6. CASE /\ o.player = player /\ ~o.done /\ o.heard = heard
           /\ \/ o.queued = queued /\ o.fed = fed /\ o.lost = lost
              \/ o.queued = 0 /\ o.fed = <<>> /\ o.lost = TRUE
  <2>1. player' = player /\ heard' = heard BY <1>1, <1>6
  <2>2. queued' \in 0..Room /\ fed' \in Seq(Nat) /\ heard' \in Seq(Nat) /\ lost' \in BOOLEAN
    <3>1. queued \in 0..Room /\ fed \in Seq(Nat) /\ heard \in Seq(Nat) /\ lost \in BOOLEAN
      BY DEF Inv, TypeOK
    <3>2. 0 \in 0..Room BY Limits
    <3>3. <<>> \in Seq(Nat) OBVIOUS
    <3>4. fed' \in Seq(Nat) /\ heard' \in Seq(Nat) BY <1>1, <1>6, <2>1, <3>1, <3>3
    <3>5. queued' \in 0..Room BY <1>1, <1>6, <3>1, <3>2
    <3>6. lost' = lost \/ lost' = TRUE BY <1>1, <1>6
    <3>7. lost' \in BOOLEAN BY <3>1, <3>6
    <3> QED BY <3>4, <3>5, <3>7
  <2>3. Followed(player', fed', lost') BY <1>1, <1>6, <2>1 DEF Inv, Followed
  <2>4. Stands(player') /\ Sounds(player', heard') BY <2>1 DEF Inv
  <2> QED BY <1>1, <1>2, <1>3, <2>1, <2>2, <2>3, <2>4, StepKeeps DEF Shown
<1> QED BY <1>5, <1>6, SeekOutcome

LEMMA PauseKeeps ==
  ASSUME Inv, Shown(player), Pause, commands' \in 0..MaxCommands PROVE Inv'
<1>1. player' = [player EXCEPT !.paused = TRUE] /\ UNCHANGED <<recording, clip, hw, queued, fed, heard, lost, torn, hung, faults>>
  BY DEF Pause
<1>2. player \in Players BY DEF Inv, TypeOK
<1>3. /\ player' \in Players /\ player'.paused /\ player'.open = player.open
      /\ player'.sample = player.sample /\ player'.next = player.next
  BY <1>1, <1>2 DEF Players
<1>4. Stands(player') BY <1>3 DEF Inv, Stands, Shown
<1>5. Followed(player', fed', lost') BY <1>1, <1>3 DEF Inv, Followed, Complete, Shown
<1>6. Sounds(player', heard') BY <1>3 DEF Sounds, Playing
<1>7. /\ queued' \in 0..Room /\ fed' \in Seq(Nat) /\ heard' \in Seq(Nat) /\ lost' \in BOOLEAN
      /\ hung' \in BOOLEAN /\ faults' \in 0..MaxFaults
  BY <1>1 DEF Inv, TypeOK
<1> QED BY <1>1, <1>3, <1>4, <1>5, <1>6, <1>7, StepKeeps DEF Shown

LEMMA ResumeKeeps ==
  ASSUME Inv, Shown(player), Resume, commands' \in 0..MaxCommands PROVE Inv'
<1>1. Clip(clip.video) /\ Clip(clip.audio) /\ player \in Players /\ Stands(player)
  BY DEF Inv, TypeOK
<1>2. CASE /\ player.next < Count
           /\ player' = Resumed(player) /\ heard' = <<>>
           /\ UNCHANGED <<recording, clip, hw, queued, fed, lost, torn, hung, faults>>
  <2>1. /\ player' \in Players /\ player'.open /\ Stands(player')
        /\ player'.sample = player.sample /\ Sounds(player', heard')
    BY <1>1, <1>2, ResumedSounds
  <2>2. Followed(player', fed', lost') BY <1>2, <2>1 DEF Inv, Followed, Complete, Shown
  <2>3. /\ queued' \in 0..Room /\ fed' \in Seq(Nat) /\ lost' \in BOOLEAN
        /\ hung' \in BOOLEAN /\ faults' \in 0..MaxFaults
    BY <1>2 DEF Inv, TypeOK
  <2>4. heard' \in Seq(Nat) BY <1>2
  <2> QED BY <1>2, <2>1, <2>2, <2>3, <2>4, StepKeeps DEF Shown
<1>3. CASE /\ \E o \in SeekOutcomes(0) :
                /\ Settles(o, IF o.done /\ o.player.next < Count THEN Resumed(o.player) ELSE o.player)
                /\ hung' = (o.done /\ o.player.next >= Count)
           /\ UNCHANGED <<recording, clip, torn>>
  <2>1. PICK o \in SeekOutcomes(0) :
          /\ Settles(o, IF o.done /\ o.player.next < Count THEN Resumed(o.player) ELSE o.player)
          /\ hung' = (o.done /\ o.player.next >= Count)
    BY <1>3
  <2> DEFINE p == IF o.done /\ o.player.next < Count THEN Resumed(o.player) ELSE o.player
  <2>2. p = o.player \/ (o.done /\ p = Resumed(o.player)) OBVIOUS
  <2>3. Settles(o, p) BY <2>1
  <2>4. 0 \in 0..(Count - 1) BY <1>1, PtsTyped DEF Stands
  <2>5. hung' \in BOOLEAN BY <2>1
  <2> HIDE DEF p
  <2> QED BY <1>3, <2>2, <2>3, <2>4, <2>5, SettlesKeeps
<1> QED BY <1>2, <1>3 DEF Resume

LEMMA CommandKeeps ==
  ASSUME Inv, Command PROVE Inv'
<1>1. commands' \in 0..MaxCommands
  <2>1. commands < MaxCommands /\ commands' = commands + 1 BY DEF Command
  <2>2. commands \in 0..MaxCommands BY DEF Inv, TypeOK
  <2> QED BY <2>1, <2>2, Limits
<1>2. faults \in 0..MaxFaults /\ hw \subseteq ToSet(Pieces) /\ hung \in BOOLEAN BY DEF Inv, TypeOK
<1>3. CASE Open
  <2>1. UNCHANGED <<recording, clip, hung>> BY <1>3 DEF Open
  <2>2. CASE Readable /\ Opened /\ UNCHANGED faults BY <1>1, <1>2, <2>1, <2>2, OpenedKeeps
  <2>3. CASE Close({}) /\ UNCHANGED faults BY <1>1, <1>2, <2>1, <2>3, CloseKeeps
  <2>4. CASE /\ faults < MaxFaults /\ faults' = faults + 1
             /\ \E made \in 0..Len(Pieces) : Close(ToSet(SubSeq(Pieces, 1, made)))
    <3>1. PICK made \in 0..Len(Pieces) : Close(ToSet(SubSeq(Pieces, 1, made))) BY <2>4
    <3>2. faults' \in 0..MaxFaults BY <1>2, <2>4, Limits
    <3>3. ToSet(SubSeq(Pieces, 1, made)) \subseteq ToSet(Pieces)
      <4> DEFINE E == {Pieces[i] : i \in 1..10}
      <4>1. Pieces \in Seq(E)
        <5>1. DOMAIN Pieces = 1..10 /\ Pieces = [i \in 1..10 |-> Pieces[i]] BY DEF Pieces
        <5> HIDE DEF Pieces
        <5>2. Pieces \in [1..10 -> E] BY <5>1
        <5> HIDE DEF E
        <5>3. \A n \in Nat : [1..n -> E] \subseteq Seq(E) OBVIOUS
        <5>4. [1..10 -> E] \subseteq Seq(E) BY <5>3
        <5> QED BY <5>2, <5>4
      <4> HIDE DEF Pieces, E
      <4>2. made \in Nat /\ made <= Len(Pieces) BY <4>1
      <4>3. SubSeq(Pieces, 1, made) = [i \in 1..made |-> Pieces[i]] BY <4>1, <4>2
      <4>4. \A i \in 1..made : i \in DOMAIN Pieces BY <4>1, <4>2
      <4> QED BY <4>3, <4>4 DEF ToSet
    <3> QED BY <1>1, <2>1, <3>1, <3>2, <3>3, CloseKeeps
  <2> QED BY <1>3, <2>2, <2>3, <2>4 DEF Open
<1>4. CASE CloseMedia BY <1>1, <1>2, <1>4, CloseKeeps DEF CloseMedia
<1>5. ASSUME player.open /\ ~Picture /\ (Pause \/ Resume \/ Toggle \/ Seek) PROVE Inv'
  <2>1. Shown(player) BY <1>5 DEF Shown
  <2>2. CASE Pause BY <1>1, <2>1, <2>2, PauseKeeps
  <2>3. CASE Resume BY <1>1, <2>1, <2>3, ResumeKeeps
  <2>4. CASE Seek
    <3>1. PICK index \in 0..(Count - 1) : \E o \in SeekOutcomes(index) : Settles(o, o.player)
      BY <2>4 DEF Seek
    <3>2. PICK o \in SeekOutcomes(index) : Settles(o, o.player) BY <3>1
    <3>3. UNCHANGED <<recording, clip, torn>> /\ hung' \in BOOLEAN BY <1>2, <2>4 DEF Seek
    <3> QED BY <1>1, <2>1, <3>2, <3>3, SettlesKeeps
  <2> QED BY <1>5, <2>2, <2>3, <2>4 DEF Toggle
<1> QED BY <1>3, <1>4, <1>5 DEF Command

-----------------------------------------------------------------------------
(* The tick: pictures for the decoder.                                      *)
LEMMA GivenFields ==
  ASSUME Inv, Shown(player), NEW n \in Nat, Ready(n)
  PROVE  LET g == Given(n) IN
         /\ g \in Players /\ g.open /\ Stands(g)
         /\ g.sample = player.sample + n /\ g.next = player.next + n
         /\ g.seeking = player.seeking /\ g.paused = player.paused /\ g.target = player.target
         /\ g.naudio = player.naudio /\ g.sound = player.sound
         /\ g.anchor = player.anchor /\ g.since = player.since
<1> DEFINE at == IF n = 0 THEN player.sample ELSE player.next + n - 1
           then == player.next + n
           g == Given(n)
<1>1. player \in Players /\ Stands(player) /\ Count \in Nat BY PtsTyped DEF Inv, TypeOK
<1>2. player.sample \in Nat /\ player.next = player.sample + 1 /\ player.next + n <= Count
  BY <1>1 DEF Stands, Players, Ready
<1>3. at = player.sample + n /\ at \in Nat /\ then \in Nat BY <1>2
<1>4. g = [player EXCEPT !.sample = at, !.next = then] BY DEF Given
<1> HIDE DEF at, then, g
<1>5. /\ g \in Players /\ g.open = player.open /\ g.sample = at /\ g.next = then
      /\ g.seeking = player.seeking /\ g.paused = player.paused /\ g.target = player.target
      /\ g.naudio = player.naudio /\ g.sound = player.sound
      /\ g.anchor = player.anchor /\ g.since = player.since
  BY <1>1, <1>3, <1>4 DEF Players
<1>6. Stands(g) BY <1>1, <1>2, <1>3, <1>5 DEF Stands, Shown, then
<1> QED BY <1>3, <1>5, <1>6 DEF g, then, Shown

LEMMA DeliverFollows ==
  ASSUME Inv, Shown(player), NEW n \in Nat, Ready(n), Deliver(n)
  PROVE  /\ queued' \in 0..Room /\ fed' \in Seq(Nat)
         /\ Followed(Given(n), fed', lost)
<1>1. player \in Players /\ Stands(player) /\ fed \in Seq(Nat) /\ queued \in 0..Room
      /\ Followed(player, fed, lost)
  BY DEF Inv, TypeOK
<1>2. player.sample \in Nat /\ player.next = player.sample + 1 BY <1>1 DEF Stands, Players
<1> DEFINE more == [i \in 1..n |-> player.next + i - 1]
<1>3. more \in Seq(Nat) /\ Len(more) = n /\ \A i \in 1..n : more[i] = player.next + i - 1
  <2>1. \A i \in 1..n : player.next + i - 1 \in Nat BY <1>2
  <2>2. more \in [1..n -> Nat] BY <2>1
  <2> QED BY <2>2
<1>4. fed' = fed \o more /\ queued' = queued + n BY DEF Deliver
<1> HIDE DEF more
<1>5. queued' \in 0..Room BY <1>1, <1>4, Limits DEF Ready
<1>6. fed' \in Seq(Nat) BY <1>1, <1>3, <1>4
<1>7. ASSUME ~lost PROVE Complete(Given(n), fed')
  <2>1. Complete(player, fed) BY <1>1, <1>7 DEF Followed
  <2>2. Len(fed) \in Nat \ {0} /\ fed[1] \in Nat BY <1>1, <2>1 DEF Complete
  <2>3. Len(fed') = Len(fed) + n /\ fed' # <<>>
    <3>1. Len(fed') = Len(fed) + n
      <4>1. Len(fed \o more) = Len(fed) + Len(more) BY <1>1, <1>3, ConcatProperties
      <4> QED BY <1>3, <1>4, <4>1
    <3>2. Len(fed') # 0 BY <2>2, <3>1
    <3> QED BY <1>6, <3>1, <3>2
  <2>4. \A i \in 1..Len(fed') : fed'[i] = IF i <= Len(fed) THEN fed[i] ELSE more[i - Len(fed)]
    BY <1>1, <1>3, <1>4, <2>3
  <2>5. fed'[1] = fed[1] BY <2>2, <2>3, <2>4
  <2>6. fed[1] + Len(fed) = player.next BY <1>2, <2>1 DEF Complete
  <2>7. From(fed', fed'[1])
    <3>1. SUFFICES ASSUME NEW i \in 1..Len(fed') PROVE fed'[i] = fed[1] + i - 1
      BY <2>5 DEF From
    <3>2. CASE i <= Len(fed)
      <4>1. i \in 1..Len(fed) BY <2>2, <2>3, <3>2
      <4> QED BY <2>1, <2>4, <3>2, <4>1 DEF Complete, From
    <3>3. CASE ~(i <= Len(fed))
      <4>1. i - Len(fed) \in 1..n BY <2>2, <2>3, <3>3
      <4>2. fed'[i] = player.next + (i - Len(fed)) - 1 BY <1>3, <2>4, <3>3, <4>1
      <4> QED BY <1>2, <2>2, <2>3, <2>6, <4>2
    <3> QED BY <3>2, <3>3
  <2>8. fed'[1] + Len(fed') = Given(n).sample + 1 BY <1>2, <2>2, <2>3, <2>5, <2>6, GivenFields
  <2> QED BY <2>1, <2>3, <2>5, <2>7, <2>8 DEF Complete
<1> QED BY <1>5, <1>6, <1>7 DEF Followed

LEMMA PictureInTime ==
  ASSUME Inv, Playing(player), ~player.seeking, NEW n \in Nat, Ready(n)
  PROVE  InTime(Given(n))
<1>1. Shown(player) /\ InTime(player) BY DEF Inv, Sounds, Playing
<1>2. /\ player \in Players /\ Stands(player) /\ Clip(clip.video) BY DEF Inv, TypeOK
<1>3. /\ player.sample \in Nat /\ player.next = player.sample + 1 /\ player.anchor \in Nat
      /\ player.since \in Nat /\ player.sample + n \in 0..(Count - 1) /\ Count \in Nat
  BY <1>1, <1>2, PtsTyped DEF Stands, Players, Ready
<1>4. /\ Given(n).sample = player.sample + n /\ Given(n).anchor = player.anchor
      /\ Given(n).since = player.since
  BY <1>1, GivenFields
<1>5. CASE n = 0 BY <1>1, <1>3, <1>4, <1>5 DEF InTime
<1>6. CASE n # 0
  <2>1. player.sample + n \in player.next..(player.next + n - 1) BY <1>3, <1>6
  <2>2. Pts(player.sample + n) - player.anchor <= player.since BY <2>1 DEF Ready
  <2>3. Pts(player.sample + n) \in Nat BY <1>2, <1>3, PtsTyped
  <2> QED BY <1>3, <1>4, <2>2, <2>3 DEF InTime
<1> QED BY <1>5, <1>6

-----------------------------------------------------------------------------
(* The tick: the end of a seek, the sound, and the end of the clip.         *)
LEMMA PacedFields ==
  ASSUME Clip(clip.video), NEW g \in Players, Shown(g), Stands(g), NEW n \in Nat
  PROVE  LET p == Paced(g, n) IN
         /\ p \in Players /\ p.open /\ Stands(p) /\ p.sample = g.sample /\ p.next = g.next
         /\ p.paused = g.paused /\ p.naudio = g.naudio /\ p.sound = g.sound
         /\ \/ p = g
            \/ g.seeking /\ ~p.seeking /\ p.anchor = Pts(p.sample) /\ p.since = 0
<1> DEFINE at == Pts(g.sample)
           p == Paced(g, n)
           q == [g EXCEPT !.seeking = FALSE, !.anchor = at, !.since = 0]
<1>1. at \in Nat BY PtsTyped DEF Stands
<1>2. p = IF g.seeking /\ n < SendLimit /\ g.next < Count /\ g.next > g.target THEN q ELSE g
  BY DEF Paced
<1> HIDE DEF at
<1>3. /\ q \in Players /\ q.open = g.open /\ q.sample = g.sample /\ q.next = g.next
      /\ q.paused = g.paused /\ q.naudio = g.naudio /\ q.sound = g.sound
      /\ ~q.seeking /\ q.anchor = at /\ q.since = 0
  BY <1>1 DEF Players
<1> HIDE DEF p, q
<1>4. Stands(q) BY <1>3 DEF Stands, Shown
<1>5. CASE p = g BY <1>5 DEF p, Shown
<1>6. CASE p = q /\ g.seeking BY <1>3, <1>4, <1>6 DEF p, at, Shown
<1> QED BY <1>2, <1>5, <1>6

LEMMA FirstAudioTyped ==
  ASSUME Clip(clip.audio), NEW p \in Players
  PROVE  /\ FirstAudio(p) \in Nat
         /\ p.naudio <= AudioFrom(p.anchor) => FirstAudio(p) = AudioFrom(p.anchor)
         /\ p.naudio >= AudioFrom(p.anchor) => FirstAudio(p) = p.naudio
<1>1. AudioFrom(p.anchor) \in Nat /\ p.naudio \in Nat BY AudioFromTyped DEF Players
<1> QED BY <1>1 DEF FirstAudio

\* Frames of sound behind those heard, none of them ahead of the clock.
LEMMA MoreHeard ==
  ASSUME Clip(clip.audio), NEW p \in Players, NEW h \in Seq(Nat), HeardInTime(p, h),
         NEW m \in Nat, NEW done \in 0..m,
         p.sound => FirstAudio(p) = p.naudio /\ AudioReady(p, m),
         ~p.sound => m = 0,
         NEW q, q.anchor = p.anchor, q.since = p.since,
         q.sound => p.sound, p.sound => q.naudio = p.naudio + done
  PROVE  LET more == [i \in 1..done |-> FirstAudio(p) + i - 1] IN
         h \o more \in Seq(Nat) /\ HeardInTime(q, h \o more)
<1> DEFINE more == [i \in 1..done |-> FirstAudio(p) + i - 1]
           new == h \o more
           first == AudioFrom(p.anchor)
<1>1. FirstAudio(p) \in Nat /\ first \in Nat /\ p.naudio \in Nat /\ p.anchor \in Nat /\ p.since \in Nat
  BY FirstAudioTyped, AudioFromTyped DEF Players
<1>2. more \in Seq(Nat) /\ Len(more) = done /\ \A i \in 1..done : more[i] = FirstAudio(p) + i - 1
  <2>1. \A i \in 1..done : FirstAudio(p) + i - 1 \in Nat BY <1>1
  <2>2. more \in [1..done -> Nat] BY <2>1
  <2> QED BY <2>2
<1> HIDE DEF more
<1>3. /\ new \in Seq(Nat) /\ Len(new) = Len(h) + done
      /\ \A i \in 1..Len(new) : new[i] = IF i <= Len(h) THEN h[i] ELSE more[i - Len(h)]
  <2>1. /\ h \o more \in Seq(Nat) /\ Len(h \o more) = Len(h) + Len(more)
        /\ \A i \in 1..(Len(h) + Len(more)) : (h \o more)[i] = IF i <= Len(h) THEN h[i] ELSE more[i - Len(h)]
    BY <1>2, ConcatProperties
  <2> QED BY <1>2, <2>1
<1>4. Len(h) \in Nat OBVIOUS
<1>5. From(h, first) /\ (p.sound => p.naudio = first + Len(h)) BY DEF HeardInTime
<1> HIDE DEF new, first
<1>6. CASE done = 0
  <2>1. new = h
    <3>1. \A i \in 1..Len(h) : new[i] = h[i] BY <1>3, <1>4, <1>6
    <3> QED BY <1>3, <1>4, <1>6, <3>1
  <2>2. HeardInTime(q, h) BY <1>1, <1>5, <1>6 DEF HeardInTime, first
  <2> QED BY <1>3, <2>1, <2>2 DEF new, more
<1>7. CASE done # 0
  <2>1. p.sound /\ FirstAudio(p) = first + Len(h) /\ AudioReady(p, m) /\ done >= 1
    BY <1>5, <1>7
  <2>2. From(new, first)
    <3>1. SUFFICES ASSUME NEW i \in 1..Len(new) PROVE new[i] = first + i - 1 BY DEF From
    <3>2. CASE i <= Len(h)
      <4>1. i \in 1..Len(h) BY <1>3, <1>4, <3>2
      <4> QED BY <1>3, <1>5, <3>2, <4>1 DEF From
    <3>3. CASE ~(i <= Len(h))
      <4>1. i - Len(h) \in 1..done BY <1>3, <1>4, <3>3
      <4>2. new[i] = FirstAudio(p) + (i - Len(h)) - 1 BY <1>2, <1>3, <3>3, <4>1
      <4> QED BY <1>1, <1>3, <1>4, <2>1, <4>2
    <3> QED BY <3>2, <3>3
  <2>3. first + Len(new) <= Len(clip.audio) /\ Len(clip.audio) \in Nat
    <3>1. FirstAudio(p) + m <= Len(clip.audio) BY <2>1 DEF AudioReady
    <3>2. Len(clip.audio) \in Nat BY DEF Clip
    <3>3. Len(new) = Len(h) + done /\ done <= m BY <1>3
    <3> QED BY <1>1, <1>4, <2>1, <3>1, <3>2, <3>3
  <2>4. clip.audio[first + Len(new)].pts <= p.anchor + p.since
    <3> DEFINE i == FirstAudio(p) + done - 1
    <3>1. i \in FirstAudio(p)..(FirstAudio(p) + m - 1) /\ i + 1 = first + Len(new)
      <4>1. \A a \in Nat, l \in Nat, d \in 0..m : d >= 1 => a + d - 1 \in a..(a + m - 1) OBVIOUS
      <4>2. i \in FirstAudio(p)..(FirstAudio(p) + m - 1) BY <1>1, <2>1, <4>1
      <4>3. Len(new) = Len(h) + done BY <1>3
      <4>4. FirstAudio(p) + done - 1 + 1 = first + Len(new) BY <1>1, <1>4, <2>1, <4>3
      <4> QED BY <4>2, <4>4
    <3>2. AudioPtsAt(i) - p.anchor <= p.since BY <2>1, <3>1 DEF AudioReady
    <3>3. first + Len(new) \in DOMAIN clip.audio 
      <4>1. Len(new) = Len(h) + done BY <1>3
      <4>2. first + Len(new) \in 1..Len(clip.audio) BY <1>1, <1>4, <2>1, <2>3, <4>1
      <4> QED BY <4>2 DEF Clip
    <3>4. clip.audio[first + Len(new)].pts \in Nat BY <3>3 DEF Clip
    <3> HIDE DEF i
    <3>5. AudioPtsAt(i) = clip.audio[first + Len(new)].pts BY <3>1 DEF AudioPtsAt
    <3> QED BY <1>1, <3>2, <3>4, <3>5
  <2>5. q.sound => q.naudio = first + Len(new) BY <1>1, <1>3, <1>4, <1>5, <2>1
  <2>6. HeardInTime(q, new) BY <2>2, <2>3, <2>4, <2>5 DEF HeardInTime, first
  <2> QED BY <1>3, <2>6 DEF new, more
<1> QED BY <1>6, <1>7

LEMMA PlayFields ==
  ASSUME Clip(clip.audio), NEW p \in Players, Shown(p), Stands(p), NEW n \in Nat,
         NEW works \in BOOLEAN, Play(p, n, works)
  PROVE  /\ player' \in Players /\ player'.open /\ Stands(player') /\ player'.sample = p.sample
         /\ player'.anchor = p.anchor /\ player'.since = p.since
         /\ player'.sound => p.sound
         /\ player'.naudio = IF p.seeking \/ ~p.sound THEN p.naudio ELSE FirstAudio(p) + n
         /\ ~player'.paused => ~p.paused /\ player'.seeking = p.seeking
<1> DEFINE from == IF p.seeking \/ ~p.sound THEN p.naudio ELSE FirstAudio(p) + n
           on == p.sound /\ works
           b == [p EXCEPT !.naudio = from, !.sound = on]
           e == [b EXCEPT !.paused = TRUE, !.seeking = FALSE]
<1>1. from \in Nat /\ on \in BOOLEAN /\ (on => p.sound) BY FirstAudioTyped DEF Players
<1>2. player' = IF b.next >= Count THEN e ELSE b BY DEF Play, AtEnd
<1> HIDE DEF from, on
<1>3. /\ b \in Players /\ b.open = p.open /\ b.sample = p.sample /\ b.next = p.next
      /\ b.anchor = p.anchor /\ b.since = p.since /\ b.sound = on /\ b.naudio = from
      /\ b.paused = p.paused /\ b.seeking = p.seeking
  BY <1>1 DEF Players
<1> HIDE DEF b
<1>4. /\ e \in Players /\ e.open = b.open /\ e.sample = b.sample /\ e.next = b.next
      /\ e.anchor = b.anchor /\ e.since = b.since /\ e.sound = b.sound /\ e.naudio = b.naudio
      /\ e.paused
  BY <1>3 DEF Players
<1> HIDE DEF e
<1>5. Stands(b) /\ Stands(e) BY <1>3, <1>4 DEF Stands, Shown
<1>6. CASE player' = e BY <1>1, <1>3, <1>4, <1>5, <1>6 DEF Shown, from
<1>7. CASE player' = b BY <1>1, <1>3, <1>5, <1>7 DEF Shown, from
<1> QED BY <1>2, <1>6, <1>7

LEMMA PlayKeeps ==
  ASSUME Inv, Shown(player), NEW n \in Nat, Ready(n), NEW p, p = Paced(Given(n), n),
         NEW m \in Nat, AudioSent(p, m), NEW done \in 0..m, NEW works \in BOOLEAN,
         Play(p, done, works)
  PROVE  /\ player' \in Players /\ player'.open /\ Stands(player')
         /\ player'.sample = Given(n).sample
         /\ heard' \in Seq(Nat) /\ Sounds(player', heard')
<1> DEFINE g == Given(n)
           old == IF player.seeking THEN <<>> ELSE heard
           q == [p EXCEPT !.naudio = FirstAudio(p)]
<1>1. /\ Clip(clip.video) /\ Clip(clip.audio) /\ player \in Players /\ Stands(player)
      /\ heard \in Seq(Nat) /\ Sounds(player, heard)
  BY DEF Inv, TypeOK
<1>2. /\ g \in Players /\ g.open /\ Stands(g)
      /\ g.sample = player.sample + n /\ g.next = player.next + n
      /\ g.seeking = player.seeking /\ g.paused = player.paused
      /\ g.naudio = player.naudio /\ g.sound = player.sound
      /\ g.anchor = player.anchor /\ g.since = player.since
  BY GivenFields
<1> HIDE DEF g
<1>3. /\ p \in Players /\ p.open /\ Stands(p) /\ p.sample = g.sample
      /\ p.paused = g.paused /\ p.naudio = g.naudio /\ p.sound = g.sound
      /\ \/ p = g
         \/ g.seeking /\ ~p.seeking /\ p.anchor = Pts(p.sample) /\ p.since = 0
  BY <1>1, <1>2, PacedFields DEF Shown, g
<1>4. /\ player' \in Players /\ player'.open /\ Stands(player') /\ player'.sample = p.sample
      /\ player'.anchor = p.anchor /\ player'.since = p.since
      /\ player'.sound => p.sound
      /\ player'.naudio = IF p.seeking \/ ~p.sound THEN p.naudio ELSE FirstAudio(p) + done
      /\ ~player'.paused => ~p.paused /\ player'.seeking = p.seeking
  BY <1>1, <1>3, PlayFields DEF Shown
<1>5. heard' = old \o [i \in 1..done |-> FirstAudio(p) + i - 1] BY DEF Play
<1>6. old \in Seq(Nat) BY <1>1
<1>7. FirstAudio(p) \in Nat BY <1>1, <1>3, FirstAudioTyped
<1>8. heard' \in Seq(Nat)
  <2> DEFINE more == [i \in 1..done |-> FirstAudio(p) + i - 1]
  <2>1. \A i \in 1..done : FirstAudio(p) + i - 1 \in Nat BY <1>7
  <2>2. more \in [1..done -> Nat] BY <2>1
  <2>3. more \in Seq(Nat) BY <2>2
  <2> HIDE DEF more, old
  <2>4. old \o more \in Seq(Nat) BY <1>6, <2>3
  <2> QED BY <1>5, <2>4 DEF more
<1>9. /\ player.sample \in 0..(Count - 1) /\ p.sample \in 0..(Count - 1) /\ Count \in Nat
      /\ player.sample <= p.sample
  <2>1. p.sample \in 0..(Count - 1) /\ player.sample \in 0..(Count - 1)
    BY <1>1, <1>3 DEF Stands, Shown
  <2>2. player.sample \in Nat /\ p.sample = player.sample + n BY <1>1, <1>2, <1>3 DEF Players
  <2> QED BY <1>1, <2>1, <2>2, PtsTyped
<1>10. /\ Pts(player.sample) \in Nat /\ Pts(p.sample) \in Nat
       /\ AudioFrom(Pts(player.sample)) <= AudioFrom(Pts(p.sample))
       /\ AudioFrom(Pts(player.sample)) \in Nat /\ AudioFrom(Pts(p.sample)) \in Nat
  <2>1. /\ Pts(player.sample) \in Nat /\ Pts(p.sample) \in Nat
        /\ Pts(player.sample) <= Pts(p.sample)
    BY <1>1, <1>9, PtsTyped
  <2> QED BY <1>1, <2>1, AudioFromTyped
<1>11. Sounds(player', heard')
  <2>1. SUFFICES ASSUME Playing(player')
                 PROVE  IF player'.seeking THEN player'.naudio <= AudioFrom(Pts(player'.sample))
                        ELSE InTime(player') /\ HeardInTime(player', heard')
    BY DEF Sounds
  <2>2. Playing(player) /\ player'.seeking = p.seeking
    BY <1>2, <1>3, <1>4, <2>1 DEF Playing
  <2>3. player.seeking => player.naudio <= AudioFrom(Pts(player.sample)) BY <1>1, <2>2 DEF Sounds
  <2>4. CASE p.seeking
    <3>1. player.seeking /\ player'.naudio = player.naudio BY <1>2, <1>3, <1>4, <2>4
    <3>2. player.naudio \in Nat BY <1>1 DEF Players
    <3>3. player'.naudio <= AudioFrom(Pts(p.sample)) BY <1>10, <2>3, <3>1, <3>2
    <3> QED BY <1>4, <2>2, <2>4, <3>3
  <2>5. CASE ~p.seeking
    <3>1. /\ p.sound => AudioReady(p, m)
          /\ ~p.sound => m = 0
      BY <2>5 DEF AudioSent
    <3>2. /\ q \in Players /\ q.anchor = p.anchor /\ q.since = p.since /\ q.sound = p.sound
          /\ q.naudio = FirstAudio(p)
      BY <1>3, <1>7 DEF Players
    <3> HIDE DEF q
    <3>3. AudioFrom(p.anchor) \in Nat /\ p.naudio \in Nat BY <1>1, <1>3, AudioFromTyped DEF Players
    <3>4. FirstAudio(q) = FirstAudio(p)
      <4>1. FirstAudio(p) >= AudioFrom(p.anchor) BY <3>3 DEF FirstAudio
      <4> QED BY <1>1, <1>7, <3>2, <3>3, <4>1, FirstAudioTyped
    <3>5. InTime(p) /\ HeardInTime(q, old)
      <4>1. CASE player.seeking
        <5>1. p.anchor = Pts(p.sample) /\ p.since = 0 BY <1>2, <1>3, <2>5, <4>1
        <5>2. InTime(p) BY <1>10, <5>1 DEF InTime
        <5>3. p.naudio <= AudioFrom(p.anchor)
          BY <1>2, <1>3, <1>10, <2>3, <3>3, <4>1, <5>1
        <5>4. FirstAudio(p) = AudioFrom(p.anchor) BY <1>1, <1>3, <5>3, FirstAudioTyped
        <5>5. HeardInTime(q, <<>>) BY <3>2, <3>3, <5>4 DEF HeardInTime, From
        <5> QED BY <4>1, <5>2, <5>5
      <4>2. CASE ~player.seeking
        <5>1. p = g /\ HeardInTime(player, heard) BY <1>1, <1>2, <1>3, <2>2, <4>2 DEF Sounds
        <5>2. InTime(p) BY <2>2, <4>2, <5>1, PictureInTime DEF g
        <5>3. p.sound => FirstAudio(p) = p.naudio
          <6>1. p.sound => p.naudio = AudioFrom(p.anchor) + Len(heard) BY <1>2, <5>1 DEF HeardInTime
          <6>2. Len(heard) \in Nat BY <1>1
          <6> QED BY <1>1, <1>3, <3>3, <6>1, <6>2, FirstAudioTyped
        <5>4. HeardInTime(q, heard) BY <1>2, <3>2, <5>1, <5>3 DEF HeardInTime
        <5> QED BY <4>2, <5>2, <5>4
      <4> QED BY <4>1, <4>2
    <3>6. InTime(player') BY <1>4, <3>5 DEF InTime
    <3>7. HeardInTime(player', heard')
      <4>1. q.sound => FirstAudio(q) = q.naudio /\ AudioReady(q, m)
        BY <3>1, <3>2, <3>4 DEF AudioReady
      <4>2. /\ ~q.sound => m = 0
            /\ player'.anchor = q.anchor /\ player'.since = q.since
            /\ player'.sound => q.sound
            /\ q.sound => player'.naudio = q.naudio + done
        BY <1>4, <2>5, <3>1, <3>2
      <4> HIDE DEF old
      <4>3. HeardInTime(player', old \o [i \in 1..done |-> FirstAudio(q) + i - 1])
        BY <1>1, <1>6, <3>2, <3>5, <4>1, <4>2, MoreHeard
      <4> QED BY <1>5, <3>4, <4>3
    <3> QED BY <2>2, <2>5, <3>6, <3>7
  <2> QED BY <2>4, <2>5
<1> QED BY <1>3, <1>4, <1>8, <1>11 DEF g

LEMMA TickKeeps ==
  ASSUME Inv, Tick PROVE Inv'
<1>1. /\ Shown(player) /\ UNCHANGED <<recording, clip, hw, lost, torn, hung, commands>>
  BY DEF Tick, Shown
<1>2. /\ Clip(clip.video) /\ Clip(clip.audio) /\ player \in Players /\ Stands(player)
      /\ heard \in Seq(Nat) /\ Sounds(player, heard)
      /\ lost \in BOOLEAN /\ hung \in BOOLEAN /\ commands \in 0..MaxCommands /\ faults \in 0..MaxFaults
  BY DEF Inv, TypeOK
<1>3. faults < MaxFaults => faults + 1 \in 0..MaxFaults BY <1>2, Limits
<1>4. ASSUME NEW n \in 0..SendLimit, NEW p \in {Paced(Given(n), n)}, Sent(n), Deliver(n),
             NEW m \in 0..AudioLimit, AudioSent(p, m),
             \/ Play(p, m, TRUE) /\ UNCHANGED faults
             \/ /\ faults < MaxFaults /\ faults' = faults + 1
                /\ \E done \in 0..(m - 1) : Play(p, done, FALSE)
      PROVE  Inv'
  <2>1. n \in Nat /\ m \in Nat /\ Ready(n) /\ p = Paced(Given(n), n) BY <1>4, Limits DEF Sent
  <2>2. PICK done \in 0..m, works \in BOOLEAN : Play(p, done, works)
    <3>1. CASE Play(p, m, TRUE)
      <4>1. m \in 0..m /\ TRUE \in BOOLEAN BY <2>1
      <4> QED BY <3>1, <4>1
    <3>2. CASE \E done \in 0..(m - 1) : Play(p, done, FALSE)
      <4>1. PICK done \in 0..(m - 1) : Play(p, done, FALSE) BY <3>2
      <4>2. done \in 0..m BY <2>1
      <4> QED BY <4>1, <4>2
    <3> QED BY <1>4, <3>1, <3>2
  <2>3. faults' \in 0..MaxFaults BY <1>2, <1>3, <1>4
  <2>4. /\ player' \in Players /\ player'.open /\ Stands(player')
        /\ player'.sample = Given(n).sample
        /\ heard' \in Seq(Nat) /\ Sounds(player', heard')
    BY <1>1, <1>4, <2>1, <2>2, PlayKeeps
  <2>5. queued' \in 0..Room /\ fed' \in Seq(Nat) /\ Followed(Given(n), fed', lost)
    BY <1>1, <1>4, <2>1, DeliverFollows
  <2>6. Given(n).open BY <1>1, <2>1, GivenFields
  <2>7. Followed(player', fed', lost') BY <1>1, <2>4, <2>5, <2>6 DEF Followed, Complete, Shown
  <2>8. lost' \in BOOLEAN /\ hung' \in BOOLEAN /\ commands' \in 0..MaxCommands BY <1>1, <1>2
  <2> QED BY <1>1, <2>3, <2>4, <2>5, <2>7, <2>8, StepKeeps DEF Shown
<1>5. ASSUME NEW n \in 1..SendLimit, Ready(n), Deliver(n - 1), player' = Given(n - 1),
             faults < MaxFaults, faults' = faults + 1, UNCHANGED heard
      PROVE  Inv'
  <2> DEFINE k == n - 1
             g == Given(k)
  <2>1. k \in Nat BY Limits
  <2>2. Ready(k)
    <3>1. /\ player.next + n <= Count /\ queued + n <= Room /\ n \in Nat /\ n >= 1
          /\ \A i \in player.next..(player.next + n - 1) :
               IF player.seeking THEN i <= player.target ELSE Pts(i) - player.anchor <= player.since
      BY <1>5, Limits DEF Ready
    <3>2. player.next \in Nat /\ Count \in Nat /\ queued \in Nat /\ Room \in Nat
      BY <1>2, PtsTyped, Limits DEF Players, Inv, TypeOK
    <3>3. player.next + k <= Count /\ queued + k <= Room BY <3>1, <3>2
    <3>4. \A i \in player.next..(player.next + k - 1) : i \in player.next..(player.next + n - 1)
      BY <3>1, <3>2
    <3> HIDE DEF k
    <3> QED BY <3>1, <3>3, <3>4 DEF Ready
  <2>3. Deliver(k) /\ player' = g BY <1>5
  <2> HIDE DEF k
  <2>4. /\ g \in Players /\ g.open /\ Stands(g)
        /\ g.sample = player.sample + k /\ g.next = player.next + k
        /\ g.seeking = player.seeking /\ g.paused = player.paused
        /\ g.naudio = player.naudio /\ g.sound = player.sound
        /\ g.anchor = player.anchor /\ g.since = player.since
    BY <1>1, <2>1, <2>2, GivenFields
  <2>5. queued' \in 0..Room /\ fed' \in Seq(Nat) /\ Followed(g, fed', lost)
    BY <1>1, <2>1, <2>2, <2>3, DeliverFollows
  <2>6. Sounds(g, heard)
    <3>1. SUFFICES ASSUME Playing(g)
                   PROVE  IF g.seeking THEN g.naudio <= AudioFrom(Pts(g.sample))
                          ELSE InTime(g) /\ HeardInTime(g, heard)
      BY DEF Sounds
    <3>2. Playing(player) BY <1>1, <2>4, <3>1 DEF Playing
    <3>3. CASE g.seeking
      <4>1. player.naudio <= AudioFrom(Pts(player.sample)) BY <1>2, <2>4, <3>2, <3>3 DEF Sounds
      <4>2. /\ player.sample \in 0..(Count - 1) /\ g.sample \in 0..(Count - 1)
            /\ player.sample <= g.sample
        <5>1. player.sample \in 0..(Count - 1) /\ g.sample \in 0..(Count - 1)
          BY <1>1, <1>2, <2>4 DEF Stands, Shown
        <5> QED BY <1>2, <2>1, <2>4, <5>1, PtsTyped
      <4>3. /\ Pts(player.sample) \in Nat /\ Pts(g.sample) \in Nat
            /\ Pts(player.sample) <= Pts(g.sample)
        BY <1>2, <4>2, PtsTyped
      <4>4. /\ AudioFrom(Pts(player.sample)) <= AudioFrom(Pts(g.sample))
            /\ AudioFrom(Pts(player.sample)) \in Nat /\ AudioFrom(Pts(g.sample)) \in Nat
        BY <1>2, <4>3, AudioFromTyped
      <4>5. player.naudio \in Nat BY <1>2 DEF Players
      <4>6. g.naudio <= AudioFrom(Pts(g.sample)) BY <2>4, <4>1, <4>4, <4>5
      <4> QED BY <3>3, <4>6
    <3>4. CASE ~g.seeking
      <4>1. HeardInTime(player, heard) BY <1>2, <2>4, <3>2, <3>4 DEF Sounds
      <4>2. HeardInTime(g, heard) BY <2>4, <4>1 DEF HeardInTime
      <4>3. InTime(g) BY <2>1, <2>2, <2>4, <3>2, <3>4, PictureInTime
      <4> QED BY <3>4, <4>2, <4>3
    <3> QED BY <3>3, <3>4
  <2> HIDE DEF g
  <2>7. faults' \in 0..MaxFaults BY <1>3, <1>5
  <2>8. /\ lost' \in BOOLEAN /\ hung' \in BOOLEAN /\ commands' \in 0..MaxCommands
        /\ heard' \in Seq(Nat)
    BY <1>1, <1>2, <1>5
  <2>9. Followed(player', fed', lost') /\ Sounds(player', heard')
    BY <1>1, <1>5, <2>3, <2>5, <2>6
  <2> QED BY <1>1, <2>3, <2>4, <2>5, <2>7, <2>8, <2>9, StepKeeps DEF Shown
<1> QED BY <1>4, <1>5 DEF Tick

-----------------------------------------------------------------------------
(* The decoder and the clock.                                               *)
LEMMA IdleKeeps ==
  ASSUME Inv, UNCHANGED <<recording, clip, player, hw, fed, heard, lost, torn, hung, commands, faults>>,
         queued' \in 0..Room
  PROVE  Inv'
<1>1. TypeOK' BY DEF Inv, TypeOK
<1>2. NothingLeft' BY DEF Inv, NothingLeft
<1>3. Stands(player)' BY DEF Inv, Stands, Shown, Picture, Count
<1>4. Followed(player, fed, lost)' BY DEF Inv, Followed, Complete, From, Shown, Picture
<1>5. Sounds(player, heard)'
  BY DEF Inv, Sounds, Playing, Shown, Picture, InTime, HeardInTime, From, Pts, AudioFrom
<1> QED BY <1>1, <1>2, <1>3, <1>4, <1>5 DEF Inv

LEMMA DecodeKeeps ==
  ASSUME Inv, Decode PROVE Inv'
<1>1. queued \in 0..Room /\ queued > 0 /\ queued' = queued - 1 BY DEF Inv, TypeOK, Decode
<1>2. queued' \in 0..Room BY <1>1, Limits
<1> QED BY <1>2, IdleKeeps DEF Decode

LEMMA TimeKeeps ==
  ASSUME Inv, Time PROVE Inv'
<1> DEFINE then == player.since + Step
<1>1. /\ player.open /\ ~player.paused /\ ~player.seeking
      /\ player' = [player EXCEPT !.since = then]
      /\ UNCHANGED <<recording, clip, hw, queued, fed, heard, lost, torn, hung, commands, faults>>
  BY DEF Time
<1>2. /\ Clip(clip.video) /\ Clip(clip.audio) /\ player \in Players /\ Stands(player)
      /\ heard \in Seq(Nat) /\ Sounds(player, heard) /\ Followed(player, fed, lost)
  BY DEF Inv, TypeOK
<1>3. then \in Nat /\ player.since \in Nat /\ player.since <= then /\ player.anchor \in Nat
  BY <1>2, Limits DEF Players
<1> HIDE DEF then
<1>4. /\ player' \in Players /\ player'.open /\ player'.sample = player.sample
      /\ player'.next = player.next /\ ~player'.seeking /\ player'.sound = player.sound
      /\ player'.naudio = player.naudio /\ player'.anchor = player.anchor /\ player'.since = then
  BY <1>1, <1>2, <1>3 DEF Players
<1>5. Stands(player') BY <1>1, <1>2, <1>4 DEF Stands, Shown
<1>6. Followed(player', fed', lost') BY <1>1, <1>2, <1>4 DEF Followed, Complete, Shown
<1>7. Sounds(player', heard')
  <2>1. SUFFICES ASSUME ~Picture PROVE InTime(player') /\ HeardInTime(player', heard)
    BY <1>1, <1>4 DEF Sounds, Playing, Shown
  <2>2. InTime(player) /\ HeardInTime(player, heard)
    BY <1>1, <1>2, <2>1 DEF Sounds, Playing, Shown
  <2>3. Pts(player.sample) \in Nat BY <1>1, <1>2, <2>1, PtsTyped DEF Stands, Shown
  <2>4. InTime(player') BY <1>3, <1>4, <2>2, <2>3 DEF InTime
  <2>5. HeardInTime(player', heard)
    <3> DEFINE last == AudioFrom(player.anchor) + Len(heard)
    <3>1. AudioFrom(player.anchor) \in Nat BY <1>2, AudioFromTyped
    <3>2. ASSUME heard # <<>>
          PROVE  last <= Len(clip.audio) /\ clip.audio[last].pts <= player.anchor + then
      <4>1. last <= Len(clip.audio) /\ clip.audio[last].pts <= player.anchor + player.since
        BY <2>2, <3>2 DEF HeardInTime
      <4>2. Len(heard) \in Nat \ {0} BY <1>2, <3>2
      <4>3. last \in DOMAIN clip.audio BY <1>2, <3>1, <4>1, <4>2 DEF Clip
      <4> HIDE DEF last
      <4>4. clip.audio[last].pts \in Nat BY <1>2, <4>3 DEF Clip
      <4> QED BY <1>3, <4>1, <4>4
    <3> QED BY <1>4, <2>2, <3>2 DEF HeardInTime
  <2> QED BY <2>4, <2>5
<1>8. /\ queued' \in 0..Room /\ fed' \in Seq(Nat) /\ heard' \in Seq(Nat) /\ lost' \in BOOLEAN
      /\ hung' \in BOOLEAN /\ commands' \in 0..MaxCommands /\ faults' \in 0..MaxFaults
  BY <1>1 DEF Inv, TypeOK
<1> QED BY <1>1, <1>4, <1>5, <1>6, <1>7, <1>8, StepKeeps

-----------------------------------------------------------------------------
LEMMA InvInit == Init => Inv
<1> SUFFICES ASSUME Init PROVE Inv OBVIOUS
<1>1. recording \in Recordings \cup {<<>>} /\ clip = ReadClip(recording) BY DEF Init
<1>2. recording \in Seq(Piece)
  <2>1. <<>> \in Seq(Piece) OBVIOUS
  <2> QED BY <1>1, <2>1, PlaybackAssumption
<1>3. Clip(clip.video) /\ Clip(clip.audio) BY <1>1, <1>2, ReadClipTyped
<1>4. /\ player = Shut /\ hw = {} /\ queued = 0 /\ fed = <<>> /\ heard = <<>>
      /\ lost = FALSE /\ torn = FALSE /\ hung = FALSE /\ commands = 0 /\ faults = 0
  BY DEF Init
<1>5. Shut \in Players /\ ~Shut.open BY DEF Shut, Players
<1>6. <<>> \in Seq(Nat) OBVIOUS
<1>7. 0 \in 0..Room /\ 0 \in 0..MaxCommands /\ 0 \in 0..MaxFaults BY Limits
<1>8. fed \in Seq(Nat) /\ heard \in Seq(Nat) BY <1>4, <1>6
<1>9. lost \in BOOLEAN /\ torn \in BOOLEAN /\ hung \in BOOLEAN BY <1>4
<1>10. TypeOK BY <1>1, <1>3, <1>4, <1>5, <1>7, <1>8, <1>9 DEF TypeOK
<1>11. NothingLeft BY <1>4, <1>5 DEF NothingLeft
<1>12. Stands(player) /\ Followed(player, fed, lost) /\ Sounds(player, heard)
  BY <1>4, <1>5 DEF Stands, Followed, Sounds, Playing, Shown
<1> QED BY <1>10, <1>11, <1>12 DEF Inv

LEMMA InvNext == Inv /\ [Next]_vars => Inv'
<1> SUFFICES ASSUME Inv, [Next]_vars PROVE Inv' OBVIOUS
<1>1. CASE Command BY <1>1, CommandKeeps
<1>2. CASE Tick BY <1>2, TickKeeps
<1>3. CASE Decode BY <1>3, DecodeKeeps
<1>4. CASE Time BY <1>4, TimeKeeps
<1>5. CASE UNCHANGED vars
  <2>1. queued' \in 0..Room BY <1>5 DEF vars, Inv, TypeOK
  <2> QED BY <1>5, <2>1, IdleKeeps DEF vars
<1> QED BY <1>1, <1>2, <1>3, <1>4, <1>5 DEF Next, Done

(* Every value keeps its type: whatever the file holds, what is played is in *)
(* the order of its times, and the decoder never has more than it takes.     *)
THEOREM TypeOKHolds == Spec => []TypeOK
<1>1. Inv => TypeOK BY DEF Inv
<1> QED BY InvInit, InvNext, <1>1, PTL DEF Spec

(* A player that shows a recording stands at one of its pictures, before the *)
(* next; so no tick and no pause reads behind the tables of the clip         *)
(* (ngcd_rk_playback_tick, ngcd_rk_playback_pause).                          *)
StandsInClip == Stands(player)

THEOREM StandsInClipHolds == Spec => []StandsInClip
<1>1. Inv => StandsInClip BY DEF Inv, StandsInClip
<1> QED BY InvInit, InvNext, <1>1, PTL DEF Spec

(* Nothing of the hardware stays up behind a clip, and no piece goes before  *)
(* one that rests on it (ngcd_rk_playback_open, ngcd_rk_playback_close).     *)
THEOREM NothingLeftHolds == Spec => []NothingLeft
<1>1. Inv => NothingLeft BY DEF Inv
<1> QED BY InvInit, InvNext, <1>1, PTL DEF Spec

(* For every recording: the decoder was given every picture from a key frame *)
(* up to the one the player stands at (ngcd_rk_playback_tick,                *)
(* ngcd_rk_playback_seek).                                                   *)
THEOREM DecoderFollowsHolds == Spec => []DecoderFollows
<1>1. ASSUME Inv PROVE DecoderFollows
  <2>1. SUFFICES ASSUME player.open, ~Picture, ~lost
                 PROVE  /\ fed # <<>> /\ clip.video[Head(fed) + 1].key
                        /\ \A i \in 1..(Len(fed) - 1) : fed[i + 1] = fed[i] + 1
                        /\ Last(fed) = player.sample
    BY DEF DecoderFollows
  <2>2. Complete(player, fed) BY <1>1, <2>1 DEF Inv, Followed, Shown
  <2>3. fed \in Seq(Nat) /\ fed # <<>> BY <1>1, <2>2 DEF Inv, TypeOK, Complete
  <2>4. Len(fed) \in Nat \ {0} /\ fed[1] \in Nat /\ Head(fed) = fed[1] BY <2>3
  <2>5. player.sample \in Nat BY <1>1 DEF Inv, TypeOK, Players
  <2>6. \A i \in 1..Len(fed) : fed[i] = fed[1] + i - 1 BY <2>2 DEF Complete, From
  <2>7. \A i \in 1..(Len(fed) - 1) : fed[i + 1] = fed[i] + 1
    <3>1. \A i \in 1..(Len(fed) - 1) : i \in 1..Len(fed) /\ i + 1 \in 1..Len(fed) BY <2>4
    <3>2. \A i \in 1..(Len(fed) - 1) : fed[i] = fed[1] + i - 1 /\ fed[i + 1] = fed[1] + (i + 1) - 1
      BY <2>6, <3>1
    <3> QED BY <2>4, <3>2
  <2>8. Last(fed) = player.sample
    <3>1. Last(fed) = fed[Len(fed)] BY DEF Last
    <3>2. fed[Len(fed)] = fed[1] + Len(fed) - 1 BY <2>4, <2>6
    <3>3. fed[1] + Len(fed) = player.sample + 1 BY <2>2 DEF Complete
    <3> QED BY <2>4, <2>5, <3>1, <3>2, <3>3
  <2> QED BY <2>2, <2>3, <2>4, <2>7, <2>8 DEF Complete
<1> QED BY InvInit, InvNext, <1>1, PTL DEF Spec

(* For every recording: while it plays, the sound is that from the picture   *)
(* the clock was set to, without a gap, and nothing is ahead of the clock    *)
(* (ngcd_rk_playback_pause, ngcd_rk_playback_tick).                          *)
THEOREM SoundFollowsPictureHolds == Spec => []SoundFollowsPicture
<1>1. ASSUME Inv PROVE SoundFollowsPicture
  <2>1. SUFFICES ASSUME player.open, ~Picture, ~player.paused, ~player.seeking
                 PROVE  /\ heard = [i \in 1..Len(heard) |-> AudioFrom(player.anchor) + i - 1]
                        /\ heard # <<>> => AudioPtsAt(Last(heard)) <= player.anchor + player.since
                        /\ Pts(player.sample) <= player.anchor + player.since
    BY DEF SoundFollowsPicture
  <2> DEFINE first == AudioFrom(player.anchor)
  <2>2. InTime(player) /\ HeardInTime(player, heard)
    BY <1>1, <2>1 DEF Inv, Sounds, Playing, Shown
  <2>3. heard \in Seq(Nat) BY <1>1 DEF Inv, TypeOK
  <2>4. first \in Nat BY <1>1, AudioFromTyped DEF Inv, TypeOK
  <2>5. \A i \in 1..Len(heard) : heard[i] = first + i - 1 BY <2>2 DEF HeardInTime, From
  <2>6. heard = [i \in 1..Len(heard) |-> first + i - 1] BY <2>3, <2>5
  <2>7. ASSUME heard # <<>> PROVE AudioPtsAt(Last(heard)) <= player.anchor + player.since
    <3>1. Len(heard) \in Nat \ {0} BY <2>3, <2>7
    <3>2. Last(heard) = heard[Len(heard)] BY DEF Last
    <3>3. Last(heard) = first + Len(heard) - 1 BY <2>5, <3>1, <3>2
    <3>4. Last(heard) + 1 = first + Len(heard) BY <2>4, <3>1, <3>3
    <3>5. AudioPtsAt(Last(heard)) = clip.audio[first + Len(heard)].pts BY <3>4 DEF AudioPtsAt
    <3> QED BY <2>2, <2>7, <3>5 DEF HeardInTime
  <2> QED BY <2>2, <2>6, <2>7 DEF InTime
<1> QED BY InvInit, InvNext, <1>1, PTL DEF Spec
====
