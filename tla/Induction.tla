----------------------------- MODULE Induction ------------------------------
(***************************************************************************)
(* Induction over the natural numbers, as a fact about sets (Counting),    *)
(* and what it gives: a recursive function has the values its equation     *)
(* says (Recursion), and what Pick keeps of a sequence; and facts about    *)
(* sequences, sets of numbers and shares that several proofs need.         *)
(***************************************************************************)
EXTENDS Positions, WellFoundedInduction, FiniteSetTheorems, SequenceTheorems, TLAPS

Below == {ss \in Nat \X Nat : ss[1] < ss[2]}

LEMMA NatOrder == IsWellFoundedOn(Below, Nat)
BY NatLessThanWellFounded DEF OpToRel, Below

LEMMA Least ==
  ASSUME NEW T, T \subseteq Nat, T # {}
  PROVE \E m \in T : \A n \in T : m <= n
<1>1. PICK m \in T : \A n \in T : <<n, m>> \notin Below
  BY NatOrder, WFMin
<1>2. ASSUME NEW n \in T PROVE m <= n
  <2>1. ~(n < m)
    <3>1. <<n, m>> \in Nat \X Nat /\ <<n, m>>[1] = n /\ <<n, m>>[2] = m
      OBVIOUS
    <3> QED BY <1>1, <3>1 DEF Below
  <2> QED BY <2>1
<1> QED BY <1>2

(* What holds of 0, and of n + 1 when it holds of n, holds of all.         *)
LEMMA Counting ==
  ASSUME NEW S, 0 \in S, \A n \in Nat : n \in S => n + 1 \in S
  PROVE \A n \in Nat : n \in S
<1> DEFINE T == Nat \ S
<1>1. SUFFICES ASSUME T # {} PROVE FALSE
  OBVIOUS
<1>2. PICK m \in T : \A n \in T : m <= n
  BY <1>1, Least
<1>3. m # 0 /\ m - 1 \in Nat /\ m - 1 \notin T
  BY <1>2
<1> QED BY <1>2, <1>3

(* A step from one value of T to the next, taken N times.                  *)
Repeats(g, T, f0, step, N) ==
  /\ g \in [0..N -> T] /\ g[0] = f0
  /\ \A i \in 1..N : g[i] = step[i][g[i - 1]]

LEMMA Recursion ==
  ASSUME NEW T, NEW f0 \in T, NEW step \in [Nat -> [T -> T]], NEW N \in Nat
  PROVE \E g : Repeats(g, T, f0, step, N)
<1> DEFINE S == {n \in Nat : \E g \in [0..n -> T] :
                   g[0] = f0 /\ \A i \in 1..n : g[i] = step[i][g[i - 1]]}
<1>1. 0 \in S
  <2> DEFINE g == [i \in 0..0 |-> f0]
  <2>1. g \in [0..0 -> T] /\ g[0] = f0 /\ \A i \in 1..0 : g[i] = step[i][g[i - 1]]
    OBVIOUS
  <2> QED BY <2>1
<1>2. ASSUME NEW n \in Nat, n \in S PROVE n + 1 \in S
  <2>1. PICK g \in [0..n -> T] : g[0] = f0 /\ \A i \in 1..n : g[i] = step[i][g[i - 1]]
    BY <1>2
  <2> DEFINE h == [i \in 0..(n + 1) |-> IF i = n + 1 THEN step[n + 1][g[n]] ELSE g[i]]
  <2>2. h \in [0..(n + 1) -> T] /\ h[0] = f0
    <3>1. g[n] \in T /\ step[n + 1][g[n]] \in T
      BY <2>1
    <3> QED BY <2>1, <3>1
  <2>3. ASSUME NEW i \in 1..(n + 1) PROVE h[i] = step[i][h[i - 1]]
    <3>1. CASE i = n + 1
      BY <3>1
    <3>2. CASE i # n + 1
      <4>1. i \in 1..n /\ i - 1 \in 0..n /\ h[i] = g[i] /\ h[i - 1] = g[i - 1]
        BY <3>2
      <4> QED BY <2>1, <4>1
    <3> QED BY <3>1, <3>2
  <2> QED
    <3> HIDE DEF h
    <3> QED BY <2>2, <2>3
<1>3. N \in S
  <2> HIDE DEF S
  <2> QED BY <1>1, <1>2, Counting
<1> QED BY <1>3 DEF Repeats

-----------------------------------------------------------------------------
(* What Pick keeps.                                                        *)

(* Its recursive function, named.                                          *)
PickUpto(s, P) == CHOOSE g : g = [n \in 0..Len(s) |->
  IF n = 0 THEN <<>> ELSE IF n \in P THEN Append(g[n - 1], s[n]) ELSE g[n - 1]]

LEMMA PickIsUpto == ASSUME NEW s, NEW P PROVE Pick(s, P) = PickUpto(s, P)[Len(s)]
BY DEF Pick, PickUpto

LEMMA PickSteps ==
  ASSUME NEW A, NEW s \in Seq(A), NEW P
  PROVE /\ PickUpto(s, P) \in [0..Len(s) -> Seq(A)]
        /\ PickUpto(s, P)[0] = <<>>
        /\ \A n \in 1..Len(s) : PickUpto(s, P)[n] =
             IF n \in P THEN Append(PickUpto(s, P)[n - 1], s[n]) ELSE PickUpto(s, P)[n - 1]
<1> DEFINE more == [i \in Nat |-> [a \in Seq(A) |->
             IF i \in P /\ i \in 1..Len(s) THEN Append(a, s[i]) ELSE a]]
           Good(g) == g = [n \in 0..Len(s) |->
             IF n = 0 THEN <<>> ELSE IF n \in P THEN Append(g[n - 1], s[n]) ELSE g[n - 1]]
<1>1. more \in [Nat -> [Seq(A) -> Seq(A)]]
  OBVIOUS
<1>2. <<>> \in Seq(A) /\ Len(s) \in Nat
  OBVIOUS
<1>3. PICK g \in [0..Len(s) -> Seq(A)] : g[0] = <<>> /\ \A i \in 1..Len(s) : g[i] = more[i][g[i - 1]]
  <2> DEFINE T == Seq(A)
             f0 == <<>>
             N == Len(s)
  <2>1. f0 \in T /\ more \in [Nat -> [T -> T]] /\ N \in Nat
    BY <1>1, <1>2
  <2>2. \E g : Repeats(g, T, f0, more, N)
    <3> HIDE DEF more, T, f0, N
    <3> QED BY <2>1, Recursion
  <2> QED BY <2>2 DEF Repeats
<1>4. ASSUME NEW i \in 1..Len(s)
      PROVE g[i] = IF i \in P THEN Append(g[i - 1], s[i]) ELSE g[i - 1]
  <2>1. i - 1 \in 0..Len(s) /\ i \in Nat /\ g[i - 1] \in Seq(A)
    <3>1. \A m \in Nat : i \in 1..m => i - 1 \in 0..m /\ i \in Nat
      OBVIOUS
    <3>2. i - 1 \in 0..Len(s) /\ i \in Nat
      BY <1>2, <3>1
    <3> QED BY <1>3, <3>2
  <2>3. more[i][g[i - 1]] = IF i \in P THEN Append(g[i - 1], s[i]) ELSE g[i - 1]
    BY <2>1
  <2> QED BY <1>3, <2>3
<1>5. Good(g)
  <2>1. g = [n \in 0..Len(s) |-> g[n]]
    BY <1>3
  <2>2. ASSUME NEW n \in 0..Len(s)
        PROVE g[n] = IF n = 0 THEN <<>> ELSE IF n \in P THEN Append(g[n - 1], s[n]) ELSE g[n - 1]
    <3>1. CASE n = 0
      BY <1>3, <3>1
    <3>2. CASE n # 0
      <4>1. n \in 1..Len(s)
        BY <1>2, <3>2
      <4> QED BY <1>4, <3>2, <4>1
    <3> QED BY <3>1, <3>2
  <2> QED BY <2>1, <2>2
<1>6. Good(PickUpto(s, P))
  <2> HIDE DEF Good
  <2>1. PickUpto(s, P) = CHOOSE h : Good(h)
    BY DEF PickUpto, Good
  <2> QED BY <1>5, <2>1
<1> DEFINE f == PickUpto(s, P)
<1>7. DOMAIN f = 0..Len(s) /\ f[0] = <<>>
      /\ \A n \in 1..Len(s) : f[n] = IF n \in P THEN Append(f[n - 1], s[n]) ELSE f[n - 1]
  <2> HIDE DEF f
  <2>1. Good(f)
    BY <1>6 DEF f
  <2>2. DOMAIN f = 0..Len(s) /\ \A n \in 0..Len(s) : f[n] =
          IF n = 0 THEN <<>> ELSE IF n \in P THEN Append(f[n - 1], s[n]) ELSE f[n - 1]
    <3> DEFINE e == [n \in 0..Len(s) |->
             IF n = 0 THEN <<>> ELSE IF n \in P THEN Append(f[n - 1], s[n]) ELSE f[n - 1]]
    <3>1. DOMAIN e = 0..Len(s) /\ \A n \in 0..Len(s) : e[n] =
             IF n = 0 THEN <<>> ELSE IF n \in P THEN Append(f[n - 1], s[n]) ELSE f[n - 1]
      OBVIOUS
    <3>2. f = e
      BY <2>1
    <3> QED
      <4> HIDE DEF e
      <4> QED BY <3>1, <3>2
  <2>3. 0 \in 0..Len(s) /\ \A n \in 1..Len(s) : n # 0 /\ n \in 0..Len(s)
    BY <1>2
  <2> QED BY <2>2, <2>3
<1>8. \A n \in Nat : n \in 0..Len(s) => f[n] \in Seq(A)
  <2> HIDE DEF f
  <2> DEFINE S == {n \in Nat : n \in 0..Len(s) => f[n] \in Seq(A)}
  <2>1. 0 \in S
    BY <1>2, <1>7
  <2>2. ASSUME NEW n \in Nat, n \in S PROVE n + 1 \in S
    <3>1. SUFFICES ASSUME n + 1 \in 0..Len(s) PROVE f[n + 1] \in Seq(A)
      OBVIOUS
    <3>2. n + 1 \in 1..Len(s) /\ (n + 1) - 1 = n /\ f[n] \in Seq(A) /\ s[n + 1] \in A
      BY <1>2, <2>2, <3>1
    <3>3. f[n + 1] = Append(f[n], s[n + 1]) \/ f[n + 1] = f[n]
      BY <1>7, <3>2
    <3>4. Append(f[n], s[n + 1]) \in Seq(A)
      BY <3>2
    <3> QED BY <3>2, <3>3, <3>4
  <2>3. \A n \in Nat : n \in S
    <3> HIDE DEF S
    <3> QED BY <2>1, <2>2, Counting
  <2> QED BY <2>3
<1>9. f = [n \in 0..Len(s) |-> f[n]]
  <2>1. f = [n \in 0..Len(s) |->
             IF n = 0 THEN <<>> ELSE IF n \in P THEN Append(f[n - 1], s[n]) ELSE f[n - 1]]
    BY <1>6
  <2> HIDE DEF f
  <2> QED BY <2>1
<1> QED
  <2>1. f \in [0..Len(s) -> Seq(A)]
    <3> HIDE DEF f
    <3> QED BY <1>2, <1>8, <1>9
  <2> QED BY <2>1, <1>7

LEMMA PickTypes ==
  ASSUME NEW A, NEW s \in Seq(A), NEW P
  PROVE Pick(s, P) \in Seq(A)
<1>1. Len(s) \in Nat
  OBVIOUS
<1>2. Len(s) \in 0..Len(s)
  BY <1>1
<1> QED BY <1>2, PickIsUpto, PickSteps

(* What is kept of two sequences that agree so far is the same so far.     *)
Agree(s, P, t, Q, k) ==
  /\ k \in 0..Len(s) /\ k <= Len(t)
  /\ \A i \in 1..k : s[i] = t[i] /\ (i \in P <=> i \in Q)

LEMMA PickAgrees ==
  ASSUME NEW A, NEW s \in Seq(A), NEW t \in Seq(A), NEW P, NEW Q, NEW k, Agree(s, P, t, Q, k)
  PROVE PickUpto(s, P)[k] = PickUpto(t, Q)[k]
<1> USE DEF Agree
<1> DEFINE f == PickUpto(s, P)
           g == PickUpto(t, Q)
           S == {n \in Nat : n <= k => f[n] = g[n]}
<1>1. Len(s) \in Nat /\ Len(t) \in Nat /\ k \in Nat /\ k <= Len(s)
  OBVIOUS
<1>2. 0 \in S
  BY PickSteps
<1>3. ASSUME NEW n \in Nat, n \in S PROVE n + 1 \in S
  <2>1. SUFFICES ASSUME n + 1 <= k PROVE f[n + 1] = g[n + 1]
    OBVIOUS
  <2>2. n + 1 \in 1..Len(s) /\ n + 1 \in 1..Len(t) /\ n + 1 \in 1..k /\ (n + 1) - 1 = n /\ n <= k
    BY <1>1, <2>1
  <2>3. f[n] = g[n] /\ s[n + 1] = t[n + 1] /\ (n + 1 \in P <=> n + 1 \in Q)
    BY <1>3, <2>2
  <2>4. f[n + 1] = IF n + 1 \in P THEN Append(f[n], s[n + 1]) ELSE f[n]
    BY <2>2, PickSteps
  <2>5. g[n + 1] = IF n + 1 \in Q THEN Append(g[n], t[n + 1]) ELSE g[n]
    BY <2>2, PickSteps
  <2> HIDE DEF f, g
  <2> QED BY <2>3, <2>4, <2>5
<1>4. k \in S
  <2> HIDE DEF S
  <2> QED BY <1>1, <1>2, <1>3, Counting
<1> QED BY <1>1, <1>4

(* One more element is kept, or it is not.                                 *)
LEMMA PickAppend ==
  ASSUME NEW A, NEW s \in Seq(A), NEW x \in A, NEW P, NEW Q,
         \A i \in 1..Len(s) : i \in P <=> i \in Q
  PROVE Pick(Append(s, x), Q) =
          IF Len(s) + 1 \in Q THEN Append(Pick(s, P), x) ELSE Pick(s, P)
<1> DEFINE t == Append(s, x)
<1>1. /\ Len(s) \in Nat /\ t \in Seq(A) /\ Len(t) = Len(s) + 1 /\ t[Len(s) + 1] = x
      /\ \A i \in 1..Len(s) : s[i] = t[i]
  OBVIOUS
<1> HIDE DEF t
<1>2. PickUpto(s, P)[Len(s)] = PickUpto(t, Q)[Len(s)]
  <2>1. Agree(s, P, t, Q, Len(s))
    BY <1>1 DEF Agree
  <2>2. t \in Seq(A)
    BY <1>1
  <2> QED BY <2>1, <2>2, PickAgrees
<1>3. Len(t) \in 1..Len(t) /\ Len(t) - 1 = Len(s)
  BY <1>1
<1>4. PickUpto(t, Q)[Len(t)] =
        IF Len(t) \in Q THEN Append(PickUpto(t, Q)[Len(t) - 1], t[Len(t)])
        ELSE PickUpto(t, Q)[Len(t) - 1]
  BY <1>1, <1>3, PickSteps
<1>5. Pick(t, Q) = PickUpto(t, Q)[Len(t)] /\ Pick(s, P) = PickUpto(s, P)[Len(s)]
  BY PickIsUpto
<1>6. Pick(t, Q) = IF Len(s) + 1 \in Q THEN Append(Pick(s, P), x) ELSE Pick(s, P)
  BY <1>1, <1>2, <1>3, <1>4, <1>5
<1> QED BY <1>6 DEF t

(* It is kept in order, and nothing of it is missing.                      *)
Embeds(e, p, s, P) ==
  /\ e \in [1..Len(p) -> 1..Len(s)]
  /\ \A j \in 1..Len(p) : e[j] \in P /\ p[j] = s[e[j]]
  /\ \A i, j \in 1..Len(p) : i < j => e[i] < e[j]
  /\ \A i \in 1..Len(s) : i \in P => \E j \in 1..Len(p) : e[j] = i

LEMMA PickEmbeds ==
  ASSUME NEW A, NEW s \in Seq(A), NEW P
  PROVE \E e : Embeds(e, Pick(s, P), s, P)
<1> DEFINE f == PickUpto(s, P)
           Kept(e, n) ==
             /\ e \in [1..Len(f[n]) -> 1..n]
             /\ \A j \in 1..Len(f[n]) : e[j] \in P /\ f[n][j] = s[e[j]]
             /\ \A i, j \in 1..Len(f[n]) : i < j => e[i] < e[j]
             /\ \A i \in 1..n : i \in P => \E j \in 1..Len(f[n]) : e[j] = i
           S == {n \in Nat : n <= Len(s) => \E e : Kept(e, n)}
<1>1. Len(s) \in Nat
  OBVIOUS
<1>2. f \in [0..Len(s) -> Seq(A)] /\ f[0] = <<>>
      /\ \A n \in 1..Len(s) : f[n] = IF n \in P THEN Append(f[n - 1], s[n]) ELSE f[n - 1]
  BY PickSteps
<1> HIDE DEF f
<1>3. 0 \in S
  <2>1. Kept([j \in 1..0 |-> 0], 0)
    BY <1>2
  <2> QED BY <2>1
<1>4. ASSUME NEW n \in Nat, n \in S PROVE n + 1 \in S
  <2>1. SUFFICES ASSUME n + 1 <= Len(s) PROVE \E e : Kept(e, n + 1)
    OBVIOUS
  <2>2. n \in 0..Len(s) /\ n <= Len(s) /\ n + 1 \in 1..Len(s) /\ (n + 1) - 1 = n
    BY <1>1, <2>1
  <2>3. PICK e : Kept(e, n)
    BY <1>4, <2>2
  <2>4. f[n] \in Seq(A) /\ Len(f[n]) \in Nat /\ s[n + 1] \in A
    BY <1>2, <2>2
  <2>5. CASE n + 1 \notin P
    <3>1. f[n + 1] = f[n]
      BY <1>2, <2>2, <2>5
    <3>2. \A i \in 1..(n + 1) : i \in P => i \in 1..n
      BY <2>5
    <3>3. e \in [1..Len(f[n]) -> 1..(n + 1)]
      BY <2>3
    <3>4. Kept(e, n + 1)
      BY <2>3, <3>1, <3>2, <3>3
    <3> QED BY <3>4
  <2>6. CASE n + 1 \in P
    <3> DEFINE m == Len(f[n]) + 1
               h == [j \in 1..m |-> IF j = m THEN n + 1 ELSE e[j]]
    <3>1. f[n + 1] = Append(f[n], s[n + 1])
      BY <1>2, <2>2, <2>6
    <3>2. Len(f[n + 1]) = m /\ f[n + 1][m] = s[n + 1] /\ m \in Nat /\ m - 1 = Len(f[n])
          /\ \A j \in 1..Len(f[n]) : f[n + 1][j] = f[n][j]
      BY <2>4, <3>1
    <3>3. \A j \in 1..m : j # m => j \in 1..Len(f[n])
      BY <2>4
    <3>4. h \in [1..m -> 1..(n + 1)]
      BY <2>3, <3>3
    <3>5. \A j \in 1..m : h[j] = IF j = m THEN n + 1 ELSE e[j]
      OBVIOUS
    <3>6. m \in 1..m /\ \A j \in 1..Len(f[n]) : j \in 1..m /\ j # m
      BY <2>4
    <3> HIDE DEF h, m
    <3>7. \A j \in 1..m : h[j] \in P /\ f[n + 1][j] = s[h[j]]
      BY <2>3, <2>6, <3>2, <3>3, <3>5
    <3>8. \A i, j \in 1..m : i < j => h[i] < h[j]
      <4>1. SUFFICES ASSUME NEW i \in 1..m, NEW j \in 1..m, i < j PROVE h[i] < h[j]
        OBVIOUS
      <4>2. i # m /\ i \in 1..Len(f[n])
        BY <3>2, <3>3, <4>1
      <4>3. h[i] = e[i] /\ e[i] \in 1..n
        BY <2>3, <3>5, <4>2
      <4>4. CASE j = m
        BY <3>5, <4>3, <4>4
      <4>5. CASE j # m
        BY <2>3, <3>3, <3>5, <4>1, <4>2, <4>3, <4>5
      <4> QED BY <4>4, <4>5
    <3>9. \A i \in 1..(n + 1) : i \in P => \E j \in 1..m : h[j] = i
      <4>1. SUFFICES ASSUME NEW i \in 1..(n + 1), i \in P PROVE \E j \in 1..m : h[j] = i
        OBVIOUS
      <4>2. CASE i = n + 1
        BY <3>5, <3>6, <4>2
      <4>3. CASE i # n + 1
        <5>1. PICK j \in 1..Len(f[n]) : e[j] = i
          BY <2>3, <4>1, <4>3
        <5> QED BY <3>5, <3>6, <5>1
      <4> QED BY <4>2, <4>3
    <3>10. Kept(h, n + 1)
      BY <3>2, <3>4, <3>7, <3>8, <3>9
    <3> QED BY <3>10
  <2> QED BY <2>5, <2>6
<1>5. Len(s) \in S
  <2> HIDE DEF S
  <2> QED BY <1>1, <1>3, <1>4, Counting
<1>6. PICK e : Kept(e, Len(s))
  BY <1>1, <1>5
<1>7. f[Len(s)] = Pick(s, P)
  BY PickIsUpto DEF f
<1>8. Embeds(e, Pick(s, P), s, P)
  BY <1>6, <1>7 DEF Embeds
<1> QED BY <1>8

-----------------------------------------------------------------------------
(* Sequences that lose some of their elements (Pick).                      *)

(* What is kept is in B when every element that is kept is.                *)
LEMMA PickIn ==
  ASSUME NEW A, NEW s \in Seq(A), NEW P, NEW B, \A i \in 1..Len(s) : i \in P => s[i] \in B
  PROVE Pick(s, P) \in Seq(B)
<1>1. PICK e : Embeds(e, Pick(s, P), s, P)
  BY PickEmbeds
<1>2. Pick(s, P) \in Seq(A)
  BY PickTypes
<1>3. \A j \in 1..Len(Pick(s, P)) : Pick(s, P)[j] \in B
  BY <1>1 DEF Embeds
<1> QED BY <1>2, <1>3

(* Nothing is kept where no position is.                                   *)
LEMMA PickNone ==
  ASSUME NEW A, NEW s \in Seq(A), NEW P
  PROVE Pick(s, P) = <<>> <=> \A i \in 1..Len(s) : i \notin P
<1>1. PICK e : Embeds(e, Pick(s, P), s, P)
  BY PickEmbeds
<1>2. Pick(s, P) \in Seq(A)
  BY PickTypes
<1>3. Pick(s, P) = <<>> <=> 1..Len(Pick(s, P)) = {}
  <2>1. ASSUME NEW p \in Seq(A) PROVE p = <<>> <=> 1..Len(p) = {}
    <3>1. p # <<>> => 1 \in 1..Len(p)
      OBVIOUS
    <3> QED BY <3>1
  <2> QED BY <1>2, <2>1
<1> QED BY <1>1, <1>3 DEF Embeds

(* The last element stays the last when it is kept.                        *)
LEMMA PickLast ==
  ASSUME NEW A, NEW s \in Seq(A), NEW P, s # <<>>, Len(s) \in P
  PROVE Pick(s, P) # <<>> /\ Pick(s, P)[Len(Pick(s, P))] = s[Len(s)]
<1> DEFINE f == PickUpto(s, P)
<1>1. Len(s) \in Nat /\ Len(s) \in 1..Len(s) /\ Len(s) - 1 \in 0..Len(s) /\ s[Len(s)] \in A
  OBVIOUS
<1>2. f[Len(s)] = Append(f[Len(s) - 1], s[Len(s)]) /\ f[Len(s) - 1] \in Seq(A)
  <2>1. f \in [0..Len(s) -> Seq(A)] /\ \A n \in 1..Len(s) : f[n] =
          IF n \in P THEN Append(f[n - 1], s[n]) ELSE f[n - 1]
    BY PickSteps
  <2> HIDE DEF f
  <2> QED BY <1>1, <2>1
<1>3. f[Len(s)] # <<>> /\ f[Len(s)][Len(f[Len(s)])] = s[Len(s)]
  <2> HIDE DEF f
  <2> QED BY <1>1, <1>2
<1> QED BY <1>3, PickIsUpto

(* Of two sequences one after the other, the second is kept as a whole and *)
(* nothing of the first.                                                   *)
LEMMA PickSecond ==
  ASSUME NEW A, NEW a \in Seq(A), NEW b \in Seq(A), NEW P,
         \A i \in 1..Len(a) : i \notin P, \A j \in 1..Len(b) : Len(a) + j \in P
  PROVE Pick(a \o b, P) = b
<1> DEFINE s == a \o b
           f == PickUpto(s, P)
           S == {n \in Nat : n <= Len(a) + Len(b) =>
                   f[n] = IF n <= Len(a) THEN <<>> ELSE SubSeq(b, 1, n - Len(a))}
<1>1. /\ Len(a) \in Nat /\ Len(b) \in Nat /\ s \in Seq(A) /\ Len(s) = Len(a) + Len(b)
      /\ \A i \in 1..Len(s) : s[i] = IF i <= Len(a) THEN a[i] ELSE b[i - Len(a)]
  BY ConcatProperties
<1> HIDE DEF s
<1>2. f \in [0..Len(s) -> Seq(A)] /\ f[0] = <<>>
      /\ \A n \in 1..Len(s) : f[n] = IF n \in P THEN Append(f[n - 1], s[n]) ELSE f[n - 1]
  BY <1>1, PickSteps
<1> HIDE DEF f
<1>3. 0 \in S
  BY <1>1, <1>2
<1>4. ASSUME NEW n \in Nat, n \in S PROVE n + 1 \in S
  <2>1. SUFFICES ASSUME n + 1 <= Len(a) + Len(b)
        PROVE f[n + 1] = IF n + 1 <= Len(a) THEN <<>> ELSE SubSeq(b, 1, (n + 1) - Len(a))
    OBVIOUS
  <2>2. n + 1 \in 1..Len(s) /\ (n + 1) - 1 = n /\ n <= Len(a) + Len(b)
    BY <1>1, <2>1
  <2>3. f[n] = IF n <= Len(a) THEN <<>> ELSE SubSeq(b, 1, n - Len(a))
    BY <1>4, <2>2
  <2>4. f[n + 1] = IF n + 1 \in P THEN Append(f[n], s[n + 1]) ELSE f[n]
    BY <1>2, <2>2
  <2>5. CASE n + 1 <= Len(a)
    <3>1. n + 1 \notin P /\ n <= Len(a)
      BY <1>1, <2>2, <2>5
    <3> QED BY <2>3, <2>4, <2>5, <3>1
  <2>6. CASE ~(n + 1 <= Len(a))
    <3> DEFINE k == (n + 1) - Len(a)
    <3>1. k \in 1..Len(b) /\ n + 1 = Len(a) + k /\ k - 1 = n - Len(a) /\ k - 1 \in Nat /\ k \in Nat
      BY <1>1, <2>1, <2>6
    <3>2. n + 1 \in P /\ s[n + 1] = b[k] /\ b[k] \in A
      BY <1>1, <2>2, <2>6, <3>1
    <3>3. f[n] = SubSeq(b, 1, k - 1)
      BY <1>1, <2>3, <2>6, <3>1
    <3>4. SubSeq(b, 1, k) = Append(SubSeq(b, 1, k - 1), b[k])
      <4> HIDE DEF k
      <4> QED BY <1>1, <3>1
    <3>5. f[n + 1] = SubSeq(b, 1, k)
      BY <2>4, <3>2, <3>3, <3>4
    <3> QED BY <2>6, <3>5
  <2> QED BY <2>5, <2>6
<1>5. Len(s) \in S
  <2> HIDE DEF S
  <2> QED BY <1>1, <1>3, <1>4, Counting
<1>6. f[Len(s)] = IF Len(b) = 0 THEN <<>> ELSE SubSeq(b, 1, Len(b))
  BY <1>1, <1>5
<1>7. f[Len(s)] = b
  BY <1>1, <1>6
<1> QED BY <1>7, PickIsUpto DEF f, s

(* All is kept where every position is.                                    *)
LEMMA PickWhole ==
  ASSUME NEW A, NEW s \in Seq(A), NEW P, \A i \in 1..Len(s) : i \in P
  PROVE Pick(s, P) = s
<1>1. <<>> \in Seq(A) /\ Len(<<>>) = 0 /\ <<>> \o s = s
  OBVIOUS
<1>2. \A j \in 1..Len(s) : Len(<<>>) + j \in P
  BY <1>1
<1>3. \A i \in 1..Len(<<>>) : i \notin P
  BY <1>1
<1>4. Pick(<<>> \o s, P) = s
  BY <1>1, <1>2, <1>3, PickSecond
<1> QED BY <1>1, <1>4

(* No more is kept than there are positions to keep.                       *)
LEMMA PickCount ==
  ASSUME NEW A, NEW s \in Seq(A), NEW P, NEW T, IsFiniteSet(T),
         \A i \in 1..Len(s) : i \in P => i \in T
  PROVE Len(Pick(s, P)) <= Cardinality(T)
<1>1. PICK e : Embeds(e, Pick(s, P), s, P)
  BY PickEmbeds
<1>2. Pick(s, P) \in Seq(A) /\ Len(Pick(s, P)) \in Nat
  BY PickTypes
<1> DEFINE n == Len(Pick(s, P))
<1>3. e \in [1..n -> T] /\ \A i, j \in 1..n : i < j => e[i] < e[j]
  BY <1>1, <1>2 DEF Embeds
<1>4. \A i \in 1..n : e[i] \in Int
  BY <1>1 DEF Embeds
<1> HIDE DEF n
<1>5. n \in Nat
  BY <1>2 DEF n
<1>6. \A i, j \in 1..n : e[i] = e[j] => i = j
  BY <1>3, <1>4, <1>5
<1>7. e \in Injection(1..n, T)
  BY <1>3, <1>6 DEF Injection, IsInjective
<1>8. Cardinality(1..n) <= Cardinality(T)
  BY <1>7, FS_Injection
<1>9. Cardinality(1..n) = n
  BY <1>5, FS_Interval
<1> QED BY <1>8, <1>9 DEF n

(* A set of numbers with a bound has a greatest.                           *)
LEMMA Greatest ==
  ASSUME NEW T, T # {}, T \subseteq Nat, NEW b \in Nat, \A t \in T : t <= b
  PROVE \E t \in T : \A u \in T : u <= t
<1> DEFINE D == {d \in Nat : \E t \in T : d = b - t}
<1>1. D # {} /\ D \subseteq Nat
  <2>1. PICK t \in T : TRUE
    OBVIOUS
  <2>2. b - t \in D
    BY <2>1
  <2> QED BY <2>2
<1>2. PICK d \in D : \A c \in D : d <= c
  <2> HIDE DEF D
  <2> QED BY <1>1, Least
<1>3. PICK t \in T : d = b - t
  BY <1>2
<1>4. ASSUME NEW u \in T PROVE u <= t
  <2>1. b - u \in D
    OBVIOUS
  <2>2. d <= b - u
    BY <1>2, <2>1
  <2> QED BY <1>3, <2>2
<1> QED BY <1>4

(* A sequence without its first element.                                   *)
LEMMA FirstRemoved ==
  ASSUME NEW T, NEW s \in Seq(T), s # <<>>
  PROVE LET rest == SubSeq(s, 1, 1 - 1) \o SubSeq(s, 1 + 1, Len(s))
        IN /\ Len(rest) = Len(s) - 1 /\ Len(s) \in Nat \ {0}
           /\ \A i \in 1..(Len(s) - 1) : rest[i] = s[i + 1]
<1>1. Len(s) \in Nat \ {0} /\ \A j \in 2..Len(s) : s[j] \in T
  OBVIOUS
<1> DEFINE a == SubSeq(s, 1, 1 - 1)
           b == SubSeq(s, 1 + 1, Len(s))
<1>2. a = <<>>
  BY SubSeqEmpty
<1>3. b \in Seq(T) /\ Len(b) = Len(s) - 1 /\ \A i \in 1..(Len(s) - 1) : b[i] = s[i + 1]
  <2>1. b \in Seq(T) /\ Len(b) = (IF 2 <= Len(s) THEN Len(s) - 2 + 1 ELSE 0)
        /\ \A i \in 1..(Len(s) - 2 + 1) : b[i] = s[2 + i - 1]
    <3>1. /\ SubSeq(s, 2, Len(s)) \in Seq(T)
          /\ Len(SubSeq(s, 2, Len(s))) = IF 2 <= Len(s) THEN Len(s) - 2 + 1 ELSE 0
          /\ \A i \in 1..(Len(s) - 2 + 1) : SubSeq(s, 2, Len(s))[i] = s[2 + i - 1]
      BY <1>1, SubSeqProperties
    <3> QED BY <3>1
  <2>2. Len(s) - 2 + 1 = Len(s) - 1 /\ \A i \in 1..(Len(s) - 1) : 2 + i - 1 = i + 1
    BY <1>1
  <2> HIDE DEF b
  <2>3. ASSUME NEW i \in 1..(Len(s) - 1) PROVE b[i] = s[i + 1]
    <3>1. i \in 1..(Len(s) - 2 + 1) /\ 2 + i - 1 = i + 1
      BY <1>1, <2>2
    <3>2. b[i] = s[2 + i - 1]
      BY <2>1, <3>1
    <3> QED BY <3>1, <3>2
  <2>4. Len(b) = Len(s) - 1
    <3>1. \A n \in Nat \ {0} : (IF 2 <= n THEN n - 2 + 1 ELSE 0) = n - 1
      OBVIOUS
    <3>2. Len(b) = (IF 2 <= Len(s) THEN Len(s) - 2 + 1 ELSE 0) /\ Len(s) \in Nat \ {0}
      BY <1>1, <2>1
    <3> QED BY <3>1, <3>2
  <2> QED BY <2>1, <2>3, <2>4
<1> HIDE DEF a, b
<1>4. a \o b = b
  BY <1>2, <1>3, ConcatEmptySeq
<1>5. Len(a \o b) = Len(s) - 1 /\ \A i \in 1..(Len(s) - 1) : (a \o b)[i] = s[i + 1]
  BY <1>3, <1>4
<1> QED BY <1>1, <1>5 DEF a, b

(* What is found among fewer than w turns is fewer than w.                 *)
LEMMA FewerFit ==
  ASSUME NEW A, NEW w \in Nat, NEW s \in Seq(A), Len(s) < w, NEW F,
         \A n \in F : \E i \in 1..Len(s) : s[i].turn = n
  PROVE Cardinality(F) < w
<1> DEFINE f == [n \in F |-> CHOOSE i \in 1..Len(s) : s[i].turn = n]
<1>1. \A n \in F : f[n] \in 1..Len(s) /\ s[f[n]].turn = n
  OBVIOUS
<1>2. f \in Injection(F, 1..Len(s))
  <2>1. f \in [F -> 1..Len(s)]
    BY <1>1
  <2>2. \A a, b \in F : f[a] = f[b] => a = b
    BY <1>1
  <2> HIDE DEF f
  <2> QED BY <2>1, <2>2 DEF Injection, IsInjective
<1>3. IsFiniteSet(1..Len(s)) /\ Cardinality(1..Len(s)) = Len(s) /\ Len(s) \in Nat
  <2> DEFINE n == Len(s)
  <2>1. n \in Nat
    OBVIOUS
  <2> HIDE DEF n
  <2>2. IsFiniteSet(1..n) /\ Cardinality(1..n) = IF 1 > n THEN 0 ELSE n - 1 + 1
    <3>1. 1 \in Int /\ n \in Int
      BY <2>1
    <3> QED BY <3>1, FS_Interval
  <2>3. (IF 1 > n THEN 0 ELSE n - 1 + 1) = n
    BY <2>1
  <2> QED BY <2>1, <2>2, <2>3 DEF n
<1>4. IsFiniteSet(F) /\ Cardinality(F) <= Len(s)
  <2> HIDE DEF f
  <2> QED BY <1>2, <1>3, FS_Injection
<1>5. Cardinality(F) \in Nat
  BY <1>4, FS_CardinalityType
<1> QED BY <1>3, <1>4, <1>5

(* Arithmetic of parts and shares.                                         *)
LEMMA DivFacts ==
  ASSUME NEW a \in Nat, NEW d \in Nat \ {0}
  PROVE  /\ a \div d \in Nat
         /\ (a \div d) * d <= a
         /\ a < ((a \div d) * d) + d
         /\ a % d = 0 => (a \div d) * d = a
<1>1. a \div d \in Nat
  OBVIOUS
<1>2. (a \div d) * d <= a
  OBVIOUS
<1>3. a < ((a \div d) * d) + d
  OBVIOUS
<1>4. a % d = 0 => (a \div d) * d = a
  OBVIOUS
<1> QED BY <1>1, <1>2, <1>3, <1>4
LEMMA DivMono ==
  ASSUME NEW a \in Nat, NEW b \in Nat, NEW d \in Nat \ {0}, a <= b
  PROVE  a \div d <= b \div d
OBVIOUS
LEMMA MulMono ==
  ASSUME NEW a \in Nat, NEW b \in Nat, NEW d \in Nat, a <= b
  PROVE  a * d <= b * d
OBVIOUS
LEMMA MulNat ==
  ASSUME NEW a \in Nat, NEW b \in Nat
  PROVE  a * b \in Nat
OBVIOUS
(* A share r of c, when S of Y samples were sent, Q of them c's own. *)
LEMMA ShareIsSent ==
  ASSUME NEW c \in Nat, NEW Q \in Nat, NEW S \in Nat, NEW Y \in Nat \ {0}, NEW r \in Nat,
         Q <= Y, r <= (c * S) \div Y
  PROVE  r * Q <= c * S
<1>1. c * S \in Nat /\ (c * S) \div Y \in Nat
  BY MulNat, DivFacts
<1>2. r * Y <= ((c * S) \div Y) * Y
  BY <1>1, MulMono
<1>3. ((c * S) \div Y) * Y <= c * S
  BY <1>1, DivFacts
<1>4. r * Q <= r * Y
  BY MulMono
<1>5. r * Y \in Nat /\ r * Q \in Nat /\ ((c * S) \div Y) * Y \in Nat
  BY <1>1, MulNat
<1> QED BY <1>1, <1>2, <1>3, <1>4, <1>5
=============================================================================
