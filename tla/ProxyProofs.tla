---------------------------- MODULE ProxyProofs ----------------------------
(* Theorems about Proxy and what it is built from, for every number of     *)
(* threads and every sequence of packets: the checksum, the queue (from    *)
(* QueueAssumption alone: for any threads, items and max_len), and the     *)
(* proxy.                                                                  *)
EXTENDS Proxy, FiniteSetTheorems, SequenceTheorems, WellFoundedInduction, TLAPS

-----------------------------------------------------------------------------
(* The checksum: first, what cksum adds up.                                *)

(* A set of numbers that holds 0 and with each number the next one holds   *)
(* them all.                                                               *)
LEMMA NatSetInduction ==
  ASSUME NEW T \in SUBSET Nat, 0 \in T, \A n \in T : n + 1 \in T
  PROVE  \A n \in Nat : n \in T
<1> DEFINE Less == OpToRel(<, Nat)
           Missing == Nat \ T
<1>1. SUFFICES ASSUME Missing # {} PROVE FALSE
  OBVIOUS
<1>2. IsWellFoundedOn(Less, Nat)  BY NatLessThanWellFounded
<1>3. PICK x \in Missing : \A y \in Missing : <<y, x>> \notin Less
  <2>1. Missing \subseteq Nat  OBVIOUS
  <2> HIDE DEF Missing, Less
  <2> QED BY <1>1, <1>2, <2>1, WFMin
<1>4. \A y \in Missing : ~(y < x)  BY <1>3 DEF OpToRel
<1> QED BY <1>4

(* f adds up the words w, one by one.                                      *)
Adds(f, w) ==
  /\ f \in [0 .. Len(w) -> Int] /\ f[0] = 0
  /\ \A k \in 1 .. Len(w) : f[k] = f[k - 1] + w[k]

LEMMA AddsExist ==
  ASSUME NEW w \in Seq(Int)
  PROVE  \E f : Adds(f, w)
<1>1. PICK len \in Nat : len = Len(w)  OBVIOUS
<1>2. \A k \in 1 .. len : w[k] \in Int  BY <1>1
<1> HIDE <1>1
<1> DEFINE Upto(n, f) == f[0] = 0 /\ \A k \in 1 .. n : f[k] = f[k - 1] + w[k]
           T == {n \in Nat : n <= len => \E f \in [0 .. n -> Int] : Upto(n, f)}
<1>3. 0 \in T
  <2>1. [k \in 0 .. 0 |-> 0] \in [0 .. 0 -> Int]  OBVIOUS
  <2>2. Upto(0, [k \in 0 .. 0 |-> 0])  OBVIOUS
  <2> QED BY <2>1, <2>2
<1>4. ASSUME NEW n \in T PROVE n + 1 \in T
  <2>1. SUFFICES ASSUME n + 1 <= len
                 PROVE  \E g \in [0 .. n + 1 -> Int] : Upto(n + 1, g)
    <3> HIDE DEF Upto
    <3> QED OBVIOUS
  <2>2. n \in Nat /\ n <= len /\ w[n + 1] \in Int  BY <1>2, <2>1
  <2>3. PICK f \in [0 .. n -> Int] : Upto(n, f)  BY <2>2
  <2> DEFINE g == [k \in 0 .. n + 1 |-> IF k = n + 1 THEN f[n] + w[n + 1] ELSE f[k]]
  <2>4. g \in [0 .. n + 1 -> Int]  BY <2>2
  <2>5. g[0] = 0  BY <2>2, <2>3
  <2>6. ASSUME NEW k \in 1 .. n + 1 PROVE g[k] = g[k - 1] + w[k]
    BY <2>2, <2>3, SMTT(60)
  <2> QED BY <2>4, <2>5, <2>6
<1>5. len \in T
  <2> HIDE DEF T
  <2>1. T \in SUBSET Nat  BY DEF T
  <2> QED BY <1>3, <1>4, <2>1, NatSetInduction
<1>6. PICK f \in [0 .. len -> Int] : Upto(len, f)
  <2> HIDE DEF Upto
  <2>1. len <= len  OBVIOUS
  <2> QED BY <1>5, <2>1
<1> QED BY <1>1, <1>6 DEF Adds

(* So Total, whose recursive function is one of those, is what its         *)
(* definition says.                                                        *)
LEMMA TotalDef ==
  ASSUME NEW w \in Seq(Int)
  PROVE  \E f : Adds(f, w) /\ Total(w) = f[Len(w)]
<1>1. PICK len \in Nat : len = Len(w)  OBVIOUS
<1>2. \A k \in 1 .. len : w[k] \in Int  BY <1>1
<1> DEFINE Rule(g) == g = [i \in 0 .. Len(w) |-> IF i = 0 THEN 0 ELSE g[i - 1] + w[i]]
<1>3. PICK S : S = CHOOSE g : Rule(g)  OBVIOUS
<1>4. Total(w) = S[Len(w)]  BY <1>3 DEF Total
<1>5. PICK f : Adds(f, w)  BY AddsExist
<1>6. Rule(f)
  <2>1. f \in [0 .. len -> Int] /\ f[0] = 0 /\ \A k \in 1 .. len : f[k] = f[k - 1] + w[k]
    BY <1>1, <1>5 DEF Adds
  <2>2. f = [i \in 0 .. len |-> IF i = 0 THEN 0 ELSE f[i - 1] + w[i]]  BY <2>1
  <2> QED BY <1>1, <2>2
<1>7. Rule(S)
  <2> HIDE DEF Rule
  <2> QED BY <1>3, <1>6
<1>8. S = [i \in 0 .. len |-> IF i = 0 THEN 0 ELSE S[i - 1] + w[i]]  BY <1>1, <1>7
<1> HIDE <1>3
<1>9. /\ DOMAIN S = 0 .. len
      /\ \A i \in 0 .. len : S[i] = IF i = 0 THEN 0 ELSE S[i - 1] + w[i]
  <2>1. DOMAIN S = 0 .. len  BY ONLY <1>8
  <2>2. \A i \in 0 .. len : S[i] = IF i = 0 THEN 0 ELSE S[i - 1] + w[i]  BY ONLY <1>8, Zenon
  <2> QED BY <2>1, <2>2
<1>10. S = [k \in 0 .. len |-> S[k]]  BY ONLY <1>8
<1>11. S[0] = 0
  <2>1. 0 \in 0 .. len  OBVIOUS
  <2> QED BY ONLY <1>9, <2>1
<1>12. \A k \in 1 .. len : S[k] = S[k - 1] + w[k]
  <2> SUFFICES ASSUME NEW k \in 1 .. len PROVE S[k] = S[k - 1] + w[k]
    OBVIOUS
  <2>1. k \in 0 .. len /\ k # 0  OBVIOUS
  <2> QED BY ONLY <1>9, <2>1
<1> DEFINE T == {n \in Nat : n <= len => S[n] \in Int}
<1>13. \A n \in Nat : n \in T
  <2>1. 0 \in T  BY <1>11
  <2>2. ASSUME NEW n \in T PROVE n + 1 \in T
    <3>1. SUFFICES ASSUME n + 1 <= len PROVE S[n + 1] \in Int
      OBVIOUS
    <3>2. n \in Nat /\ n + 1 \in 1 .. len /\ n + 1 - 1 = n /\ S[n] \in Int  BY <3>1
    <3>3. S[n + 1] = S[n] + w[n + 1]  BY <1>12, <3>2
    <3> QED BY <1>2, <3>2, <3>3
  <2> HIDE DEF T
  <2>3. T \in SUBSET Nat  BY DEF T
  <2> QED BY <2>1, <2>2, <2>3, NatSetInduction
<1>14. S \in [0 .. len -> Int]  BY <1>10, <1>13
<1>15. Adds(S, w)  BY <1>1, <1>11, <1>12, <1>14 DEF Adds
<1> QED BY <1>4, <1>15

LEMMA AddsStep ==
  ASSUME NEW w \in Seq(Int), NEW f, Adds(f, w), NEW n \in Nat, n + 1 <= Len(w)
  PROVE  f[n] \in Int /\ w[n + 1] \in Int /\ f[n + 1] = f[n] + w[n + 1]
<1>1. PICK len \in Nat : len = Len(w)  OBVIOUS
<1>2. f \in [0 .. len -> Int] /\ \A k \in 1 .. len : f[k] = f[k - 1] + w[k]
  BY <1>1 DEF Adds
<1>3. n + 1 \in 1 .. len /\ n \in 0 .. len /\ n + 1 - 1 = n  BY <1>1
<1>4. w[n + 1] \in Int  BY <1>1, <1>3
<1>5. f[n + 1] = f[n] + w[n + 1]  BY ONLY <1>2, <1>3
<1>6. f[n] \in Int  BY ONLY <1>2, <1>3
<1> QED BY <1>4, <1>5, <1>6

(* What holds of 0 and goes from each n to n + 1, as far as len, holds of  *)
(* len.                                                                    *)
LEMMA Upwards ==
  ASSUME NEW S, NEW len \in Nat, 0 \in S, \A n \in Nat : n + 1 <= len /\ n \in S => n + 1 \in S
  PROVE  len \in S
<1> DEFINE T == {n \in Nat : n <= len => n \in S}
<1>1. 0 \in T  OBVIOUS
<1>2. ASSUME NEW n \in T PROVE n + 1 \in T
  <2>1. n \in Nat /\ (n <= len => n \in S)  OBVIOUS
  <2>2. n + 1 <= len => n <= len  BY <2>1
  <2>3. n + 1 <= len => n + 1 \in S  BY <2>1, <2>2
  <2> QED BY <2>1, <2>3
<1>3. len \in T
  <2> HIDE DEF T
  <2>1. T \in SUBSET Nat  BY DEF T
  <2> QED BY <1>1, <1>2, <2>1, NatSetInduction
<1> QED BY <1>3

(* Words that are not negative make a sum no smaller than any of them.     *)
LEMMA TotalBound ==
  ASSUME NEW w \in Seq(Nat)
  PROVE  Total(w) \in Nat /\ \A j \in 1 .. Len(w) : Total(w) >= w[j]
<1>1. PICK len \in Nat : len = Len(w)  OBVIOUS
<1>2. w \in Seq(Int) /\ \A k \in 1 .. len : w[k] \in Nat  BY <1>1
<1>3. PICK f : Adds(f, w) /\ Total(w) = f[Len(w)]  BY <1>2, TotalDef
<1>4. f[0] = 0  BY <1>3 DEF Adds
<1> DEFINE P(n) == f[n] \in Nat /\ \A j \in 1 .. n : f[n] >= w[j]
           T == {n \in 0 .. len : P(n)}
<1>5. P(0)  BY <1>4
<1>6. ASSUME NEW n \in Nat, n + 1 <= len, P(n) PROVE P(n + 1)
  <2>1. f[n + 1] = f[n] + w[n + 1]  BY <1>1, <1>2, <1>3, <1>6, AddsStep
  <2>2. w[n + 1] \in Nat  BY <1>2, <1>6
  <2>3. ASSUME NEW j \in 1 .. n + 1 PROVE f[n + 1] >= w[j]
    <3>1. w[j] \in Nat  BY <1>2, <1>6
    <3>2. CASE j = n + 1  BY <1>6, <2>1, <2>2, <3>2
    <3>3. CASE j # n + 1
      <4>1. j \in 1 .. n  BY <3>3
      <4>2. f[n] >= w[j]  BY <1>6, <4>1
      <4> QED BY <1>6, <2>1, <2>2, <3>1, <4>2
    <3> QED BY <3>2, <3>3
  <2>4. f[n + 1] \in Nat  BY <1>6, <2>1, <2>2
  <2> QED BY <2>3, <2>4
<1> HIDE DEF P
<1>7. 0 \in T  BY <1>5
<1>8. ASSUME NEW n \in Nat, n + 1 <= len, n \in T PROVE n + 1 \in T
  <2>1. P(n + 1)  BY <1>6, <1>8
  <2> QED BY <1>8, <2>1
<1> HIDE DEF T
<1>9. len \in T  BY <1>7, <1>8, Upwards
<1>10. P(len)  BY <1>9 DEF T
<1> QED BY <1>1, <1>3, <1>10 DEF P

(* Changing one word by d changes the sum by d.                            *)
Differs(w, v, j, d) ==
  /\ Len(v) = Len(w) /\ j \in 1 .. Len(w) /\ v[j] = w[j] + d
  /\ \A k \in 1 .. Len(w) : k # j => v[k] = w[k]

LEMMA TotalChange ==
  ASSUME NEW w \in Seq(Int), NEW v \in Seq(Int), NEW j, NEW d \in Int, Differs(w, v, j, d)
  PROVE  Total(v) = Total(w) + d /\ Total(w) \in Int
<1>1. PICK len \in Nat : len = Len(w)  OBVIOUS
<1>2. /\ Len(v) = len /\ j \in 1 .. len /\ v[j] = w[j] + d
      /\ \A k \in 1 .. len : k # j => v[k] = w[k]
  BY <1>1 DEF Differs
<1>3. PICK f : Adds(f, w) /\ Total(w) = f[Len(w)]  BY TotalDef
<1>4. PICK g : Adds(g, v) /\ Total(v) = g[Len(v)]  BY TotalDef
<1>5. f[0] = 0 /\ g[0] = 0 /\ j \in Nat /\ j >= 1 /\ j <= len /\ d \in Int
  BY <1>2, <1>3, <1>4 DEF Adds
<1> DEFINE P(n) == /\ f[n] \in Int /\ g[n] \in Int
                   /\ j <= n => g[n] = f[n] + d
                   /\ ~(j <= n) => g[n] = f[n]
           T == {n \in 0 .. len : P(n)}
<1>6. P(0)  BY <1>5
<1>7. ASSUME NEW n \in Nat, n + 1 <= len, P(n) PROVE P(n + 1)
  <2>1. f[n] \in Int /\ w[n + 1] \in Int /\ f[n + 1] = f[n] + w[n + 1]
    BY <1>1, <1>3, <1>7, AddsStep
  <2>2. g[n] \in Int /\ v[n + 1] \in Int /\ g[n + 1] = g[n] + v[n + 1]
    BY <1>2, <1>4, <1>7, AddsStep
  <2>5. f[n + 1] \in Int /\ g[n + 1] \in Int  BY ONLY <2>1, <2>2, SMTT(60)
  <2>3. CASE j = n + 1
    <3>1. v[n + 1] = w[n + 1] + d  BY <1>2, <2>3
    <3>2. ~(j <= n) /\ j <= n + 1  BY ONLY <1>7, <2>3
    <3>3. g[n] = f[n]  BY ONLY <1>7, <3>2
    <3>4. g[n + 1] = f[n + 1] + d  BY ONLY <1>5, <2>1, <2>2, <3>1, <3>3
    <3> QED BY ONLY <2>5, <3>2, <3>4
  <2>4. CASE j # n + 1
    <3>1. v[n + 1] = w[n + 1]  BY <1>2, <1>7, <2>4
    <3>2. j <= n + 1 <=> j <= n  BY ONLY <1>5, <1>7, <2>4
    <3>3. j <= n => g[n + 1] = f[n + 1] + d
      <4> SUFFICES ASSUME j <= n PROVE g[n + 1] = f[n + 1] + d
        OBVIOUS
      <4>1. g[n] = f[n] + d  BY <1>7
      <4> QED BY ONLY <1>5, <2>1, <2>2, <3>1, <4>1
    <3>4. ~(j <= n) => g[n + 1] = f[n + 1]
      <4> SUFFICES ASSUME ~(j <= n) PROVE g[n + 1] = f[n + 1]
        OBVIOUS
      <4>1. g[n] = f[n]  BY <1>7
      <4> QED BY ONLY <2>1, <2>2, <3>1, <4>1
    <3> QED BY ONLY <2>5, <3>2, <3>3, <3>4
  <2> QED BY <2>3, <2>4
<1> HIDE DEF P
<1>8. 0 \in T  BY <1>6
<1>9. ASSUME NEW n \in Nat, n + 1 <= len, n \in T PROVE n + 1 \in T
  <2>1. P(n + 1)  BY <1>7, <1>9
  <2> QED BY <1>9, <2>1
<1> HIDE DEF T
<1>10. len \in T  BY <1>8, <1>9, Upwards
<1>11. P(len)  BY <1>10 DEF T
<1>12. g[len] = f[len] + d /\ f[len] \in Int  BY <1>5, <1>11 DEF P
<1> QED BY <1>1, <1>2, <1>3, <1>4, <1>12

(* The byte orders agree: 256 times a word of one order is the word of the *)
(* other and a multiple of 65535, and so are the sums.                     *)
Orders(w, v, u) ==
  /\ Len(v) = Len(w) /\ Len(u) = Len(w)
  /\ \A k \in 1 .. Len(w) : 256 * w[k] = v[k] + 65535 * u[k]

LEMMA TotalOrder ==
  ASSUME NEW w \in Seq(Int), NEW v \in Seq(Int), NEW u \in Seq(Int), Orders(w, v, u)
  PROVE  /\ Total(w) \in Int /\ Total(v) \in Int /\ Total(u) \in Int
         /\ 256 * Total(w) = Total(v) + 65535 * Total(u)
<1>1. PICK len \in Nat : len = Len(w)  OBVIOUS
<1>2. /\ Len(v) = len /\ Len(u) = len
      /\ \A k \in 1 .. len : 256 * w[k] = v[k] + 65535 * u[k]
  BY <1>1 DEF Orders
<1>3. PICK f : Adds(f, w) /\ Total(w) = f[Len(w)]  BY TotalDef
<1>4. PICK g : Adds(g, v) /\ Total(v) = g[Len(v)]  BY TotalDef
<1>5. PICK h : Adds(h, u) /\ Total(u) = h[Len(u)]  BY TotalDef
<1>6. f[0] = 0 /\ g[0] = 0 /\ h[0] = 0  BY <1>3, <1>4, <1>5 DEF Adds
<1> DEFINE P(n) == /\ f[n] \in Int /\ g[n] \in Int /\ h[n] \in Int
                   /\ 256 * f[n] = g[n] + 65535 * h[n]
           T == {n \in 0 .. len : P(n)}
<1>7. P(0)  BY <1>6
<1>8. ASSUME NEW n \in Nat, n + 1 <= len, P(n) PROVE P(n + 1)
  <2>0. n + 1 <= Len(w) /\ n + 1 <= Len(v) /\ n + 1 <= Len(u)
    BY ONLY <1>1, <1>2, <1>8
  <2>1. f[n] \in Int /\ w[n + 1] \in Int /\ f[n + 1] = f[n] + w[n + 1]
    BY <1>3, <2>0, AddsStep
  <2>2. g[n] \in Int /\ v[n + 1] \in Int /\ g[n + 1] = g[n] + v[n + 1]
    BY <1>4, <2>0, AddsStep
  <2>3. h[n] \in Int /\ u[n + 1] \in Int /\ h[n + 1] = h[n] + u[n + 1]
    BY <1>5, <2>0, AddsStep
  <2>4. 256 * w[n + 1] = v[n + 1] + 65535 * u[n + 1]
    <3>1. n + 1 \in 1 .. len  BY <1>8
    <3> QED BY ONLY <1>2, <3>1
  <2>5. PICK a \in Int : a = f[n]  BY <2>1
  <2>6. PICK b \in Int : b = g[n]  BY <2>2
  <2>7. PICK c \in Int : c = h[n]  BY <2>3
  <2>8. PICK x \in Int : x = w[n + 1]  BY <2>1
  <2>9. PICK y \in Int : y = v[n + 1]  BY <2>2
  <2>10. PICK z \in Int : z = u[n + 1]  BY <2>3
  <2>11. 256 * a = b + 65535 * c  BY <1>8, <2>5, <2>6, <2>7
  <2>12. 256 * x = y + 65535 * z  BY <2>4, <2>8, <2>9, <2>10
  <2>13. f[n + 1] = a + x /\ g[n + 1] = b + y /\ h[n + 1] = c + z
    BY <2>1, <2>2, <2>3, <2>5, <2>6, <2>7, <2>8, <2>9, <2>10
  <2> HIDE <2>5, <2>6, <2>7, <2>8, <2>9, <2>10
  <2>14. 256 * (a + x) = (b + y) + 65535 * (c + z)  BY ONLY <2>11, <2>12
  <2>15. a + x \in Int /\ b + y \in Int /\ c + z \in Int  OBVIOUS
  <2> QED BY ONLY <2>13, <2>14, <2>15
<1> HIDE DEF P
<1>9. 0 \in T  BY <1>7
<1>10. ASSUME NEW n \in Nat, n + 1 <= len, n \in T PROVE n + 1 \in T
  <2>1. P(n + 1)  BY <1>8, <1>10
  <2> QED BY <1>10, <2>1
<1> HIDE DEF T
<1>11. len \in T  BY <1>9, <1>10, Upwards
<1>12. P(len)  BY <1>11 DEF T
<1> QED BY <1>1, <1>2, <1>3, <1>4, <1>5, <1>12 DEF P

LEMMA Limits == BYTE = 256 /\ WORD = 65536 /\ WORD - 1 = 65535
BY DEF BYTE, WORD

LEMMA DivMod ==
  ASSUME NEW x \in Int, NEW d \in Nat \ {0}
  PROVE  x \div d \in Int /\ x % d \in 0 .. d - 1 /\ x = (x \div d) * d + (x % d)
<1>1. x \div d \in Int  OBVIOUS
<1>2. x = (x \div d) * d + (x % d)  OBVIOUS
<1>3. x % d \in 0 .. d - 1  OBVIOUS
<1> QED BY <1>1, <1>2, <1>3

LEMMA ModShift ==
  ASSUME NEW x \in Nat, NEW y \in Nat, NEW k \in Int, x = y + 65535 * k
  PROVE  x % 65535 = y % 65535
OBVIOUS

(* One turn of the loop of cksum loses a multiple of 65535.                *)
LEMMA FoldTurn ==
  ASSUME NEW s \in Nat, s >= 65536
  PROVE  LET t == (s % 65536) + (s \div 65536)
         IN t \in Nat /\ t >= 1 /\ t < s /\ s = t + 65535 * (s \div 65536) /\ s \div 65536 \in Nat
<1>1. PICK hi : hi = s \div 65536  OBVIOUS
<1>2. PICK lo : lo = s % 65536  OBVIOUS
<1>3. hi \in Int /\ lo \in Int /\ 0 <= lo /\ lo < 65536 /\ s = 65536 * hi + lo
  BY ONLY <1>1, <1>2, s \in Nat, SMTT(60)
<1> HIDE <1>1, <1>2
<1>4. hi >= 1  BY <1>3
<1>5. lo + hi \in Nat /\ lo + hi >= 1 /\ lo + hi < s /\ s = lo + hi + 65535 * hi /\ hi \in Nat  BY <1>3, <1>4
<1> QED BY <1>1, <1>2, <1>5

(* The loop of cksum, as a function: it ends, with a number of 16 bits     *)
(* that differs from the sum by a multiple of 65535.                       *)
FoldRule(g) ==
  g = [s \in Nat |-> IF s < WORD THEN s ELSE g[(s % WORD) + (s \div WORD)]]

LEMMA FoldExists == \E g : FoldRule(g)
<1> DEFINE g == [s \in Nat |-> IF s = 0 THEN 0 ELSE 1 + ((s - 1) % 65535)]
           h == [s \in Nat |-> IF s < 65536 THEN s ELSE g[(s % 65536) + (s \div 65536)]]
<1>1. ASSUME NEW s \in Nat PROVE g[s] = h[s]
  <2>1. CASE s < 65536
    <3>1. h[s] = s  BY <2>1
    <3>2. CASE s = 0  BY <3>1, <3>2
    <3>3. CASE s # 0
      <4>1. (s - 1) % 65535 = s - 1  BY <2>1, <3>3
      <4> QED BY <3>1, <3>3, <4>1
    <3> QED BY <3>2, <3>3
  <2>2. CASE s >= 65536
    <3>1. PICK t : t = (s % 65536) + (s \div 65536)  OBVIOUS
    <3>2. PICK k : k = s \div 65536  OBVIOUS
    <3>3. t \in Nat /\ t >= 1 /\ k \in Nat /\ s = t + 65535 * k
      BY <2>2, <3>1, <3>2, FoldTurn
    <3>4. h[s] = g[t]
      <4> HIDE DEF g
      <4>1. ~(s < 65536)  BY <2>2
      <4> QED BY <3>1, <4>1
    <3> HIDE <3>1, <3>2
    <3>5. s - 1 \in Nat /\ t - 1 \in Nat /\ s - 1 = (t - 1) + 65535 * k  BY <2>2, <3>3
    <3>6. (s - 1) % 65535 = (t - 1) % 65535  BY <3>3, <3>5, ModShift
    <3>7. g[s] = 1 + ((s - 1) % 65535)  BY <2>2
    <3>8. g[t] = 1 + ((t - 1) % 65535)  BY <3>3
    <3> QED BY <3>4, <3>6, <3>7, <3>8
  <2> QED BY <2>1, <2>2
<1>2. g = h
  <2>1. DOMAIN g = Nat /\ DOMAIN h = Nat  OBVIOUS
  <2>2. g = [s \in Nat |-> g[s]] /\ h = [s \in Nat |-> h[s]]  OBVIOUS
  <2> HIDE DEF g, h
  <2> QED BY <1>1, <2>2
<1>3. FoldRule(g)
  <2> HIDE DEF g
  <2>1. g = [s \in Nat |-> IF s < 65536 THEN s ELSE g[(s % 65536) + (s \div 65536)]]  BY <1>2
  <2> QED BY <2>1, Limits DEF FoldRule
<1> HIDE DEF g
<1> QED BY <1>3

LEMMA FoldDef ==
  ASSUME NEW s \in Nat
  PROVE  Fold(s) \in Nat /\ Fold(s) < 65536 /\ \E k \in Nat : s = Fold(s) + 65535 * k
<1> DEFINE F == CHOOSE g : FoldRule(g)
<1>1. FoldRule(F)  BY FoldExists
<1>2. \A n \in Nat : Fold(n) = F[n]  BY DEF Fold, FoldRule
<1> HIDE DEF F
<1>3. F = [n \in Nat |-> IF n < 65536 THEN n ELSE F[(n % 65536) + (n \div 65536)]]
  BY <1>1, Limits DEF FoldRule
<1>4. \A n \in Nat : F[n] = IF n < 65536 THEN n ELSE F[(n % 65536) + (n \div 65536)]
  BY ONLY <1>3
<1> DEFINE P(n) == F[n] \in Nat /\ F[n] < 65536 /\ \E k \in Nat : n = F[n] + 65535 * k
           T == {n \in Nat : \A x \in 0 .. n : P(x)}
<1>5. ASSUME NEW n \in Nat, \A x \in Nat : x < n => P(x) PROVE P(n)
  <2>1. CASE n < 65536
    <3>1. F[n] = n  BY <1>4, <2>1
    <3>2. n = n + 65535 * 0  OBVIOUS
    <3> QED BY <2>1, <3>1, <3>2
  <2>2. CASE n >= 65536
    <3>1. PICK t : t = (n % 65536) + (n \div 65536)  OBVIOUS
    <3>2. PICK k : k = n \div 65536  OBVIOUS
    <3>3. t \in Nat /\ t < n /\ k \in Nat /\ n = t + 65535 * k
      BY <2>2, <3>1, <3>2, FoldTurn
    <3>4. F[n] = F[t]
      <4>1. ~(n < 65536)  BY <2>2
      <4> QED BY <1>4, <3>1, <4>1
    <3> HIDE <3>1, <3>2
    <3>5. P(t)  BY <1>5, <3>3
    <3>6. PICK e \in Nat : t = F[t] + 65535 * e  BY <3>5
    <3>7. k + e \in Nat /\ n = F[t] + 65535 * (k + e)  BY <3>3, <3>5, <3>6
    <3> QED BY <3>4, <3>5, <3>7
  <2> QED BY <2>1, <2>2
<1>6. P(s)
  <2> HIDE DEF P
  <2>1. 0 \in T  BY <1>5
  <2>2. ASSUME NEW n \in T PROVE n + 1 \in T
    <3>1. n \in Nat /\ \A x \in 0 .. n : P(x)  OBVIOUS
    <3>2. P(n + 1)  BY <1>5, <3>1
    <3> QED BY <3>1, <3>2
  <2>3. s \in T
    <3> HIDE DEF T
    <3>1. T \in SUBSET Nat  BY DEF T
    <3> QED BY <2>1, <2>2, <3>1, NatSetInduction
  <2> QED BY <2>3
<1> QED BY <1>2, <1>6

LEMMA Octets == \A x : x \in Octet <=> x \in Int /\ 0 <= x /\ x < 256
BY Limits DEF Octet

(* The words of a buffer, and where its bytes are.                         *)
LittleOf(w, b, n) ==
  w \in Seq(Nat) /\ Len(w) = n /\ \A i \in 1 .. n : w[i] = b[2 * i - 1] + 256 * b[2 * i]
BigOf(w, b, n) ==
  w \in Seq(Nat) /\ Len(w) = n /\ \A i \in 1 .. n : w[i] = 256 * b[2 * i - 1] + b[2 * i]
Pairs(b, n) ==
  \A i \in 1 .. n : /\ 2 * i \in 1 .. Len(b) /\ 2 * i - 1 \in 1 .. Len(b)
                    /\ b[2 * i] \in Nat /\ b[2 * i - 1] \in Nat

LEMMA WordsOf ==
  ASSUME NEW b \in Seq(Octet), NEW n \in Nat, n = Len(b) \div 2
  PROVE  LittleOf(Little(b), b, n) /\ BigOf(Big(b), b, n) /\ Pairs(b, n)
<1>1. PICK len \in Nat : len = Len(b)  OBVIOUS
<1>2. \A i \in 1 .. len : b[i] \in Nat  BY <1>1, Octets
<1>3. \A i \in 1 .. n : 2 * i \in 1 .. len /\ 2 * i - 1 \in 1 .. len
  <2>1. 2 * n <= len  BY <1>1
  <2> QED BY ONLY <2>1, n \in Nat, len \in Nat
<1>4. Little(b) = [i \in 1 .. n |-> b[2 * i - 1] + 256 * b[2 * i]]  BY Limits DEF Little
<1>5. Big(b) = [i \in 1 .. n |-> 256 * b[2 * i - 1] + b[2 * i]]  BY Limits DEF Big
<1>6. \A i \in 1 .. n : b[2 * i] \in Nat /\ b[2 * i - 1] \in Nat  BY <1>2, <1>3
<1>7. \A i \in 1 .. n : /\ b[2 * i - 1] + 256 * b[2 * i] \in Nat
                        /\ 256 * b[2 * i - 1] + b[2 * i] \in Nat
  <2> SUFFICES ASSUME NEW i \in 1 .. n
               PROVE  /\ b[2 * i - 1] + 256 * b[2 * i] \in Nat
                      /\ 256 * b[2 * i - 1] + b[2 * i] \in Nat
    OBVIOUS
  <2>1. PICK x \in Nat : x = b[2 * i - 1]  BY <1>6
  <2>2. PICK y \in Nat : y = b[2 * i]  BY <1>6
  <2>3. x + 256 * y \in Nat /\ 256 * x + y \in Nat  OBVIOUS
  <2> QED BY ONLY <2>1, <2>2, <2>3
<1>8. Little(b) \in [1 .. n -> Nat]  BY <1>4, <1>7
<1>9. Big(b) \in [1 .. n -> Nat]  BY <1>5, <1>7
<1>10. Little(b) \in Seq(Nat) /\ Len(Little(b)) = n  BY <1>8, SeqDef, LenProperties
<1>11. Big(b) \in Seq(Nat) /\ Len(Big(b)) = n  BY <1>9, SeqDef, LenProperties
<1>12. \A i \in 1 .. n : Little(b)[i] = b[2 * i - 1] + 256 * b[2 * i]  BY ONLY <1>4
<1>13. \A i \in 1 .. n : Big(b)[i] = 256 * b[2 * i - 1] + b[2 * i]  BY ONLY <1>5
<1>14. LittleOf(Little(b), b, n)  BY <1>10, <1>12 DEF LittleOf
<1>15. BigOf(Big(b), b, n)  BY <1>11, <1>13 DEF BigOf
<1>16. Pairs(b, n)  BY <1>1, <1>3, <1>6 DEF Pairs
<1> QED BY <1>14, <1>15, <1>16

(* The checksum of a buffer: the complement of its folded sum.             *)
LEMMA CksumOf ==
  ASSUME NEW b \in Seq(Octet)
  PROVE  /\ Cksum(b)[1] \in Octet /\ Cksum(b)[2] \in Octet
         /\ \E k \in Nat : Total(Little(b)) + Cksum(b)[1] + 256 * Cksum(b)[2] = 65535 * k
<1>1. PICK n \in Nat : n = Len(b) \div 2  OBVIOUS
<1>2. Little(b) \in Seq(Nat)  BY <1>1, WordsOf DEF LittleOf
<1>3. PICK L \in Nat : L = Total(Little(b))  BY <1>2, TotalBound
<1>4. PICK F : F = Fold(L)  OBVIOUS
<1>5. F \in Nat /\ F < 65536 /\ \E k \in Nat : L = F + 65535 * k  BY <1>4, FoldDef
<1>6. PICK k \in Nat : L = F + 65535 * k  BY <1>5
<1>7. PICK c \in Nat : c = 65535 - F  BY <1>5
<1>8. Cksum(b) = <<c % 256, c \div 256>>  BY <1>3, <1>4, <1>7, Limits DEF Cksum
<1>9. c < 65536  BY <1>5, <1>7
<1>10. PICK x : x = c % 256  OBVIOUS
<1>11. PICK y : y = c \div 256  OBVIOUS
<1>12. x \in 0 .. 255 /\ y \in Int /\ c = y * 256 + x
  <2>1. PICK d \in Nat \ {0} : d = 256  OBVIOUS
  <2>2. c \in Int /\ x = c % d /\ y = c \div d  BY <1>10, <1>11, <2>1
  <2> HIDE <2>1
  <2>3. y \in Int /\ x \in 0 .. d - 1 /\ c = y * d + x  BY ONLY <2>2, DivMod, d \in Nat \ {0}
  <2> QED BY <2>1, <2>3
<1> HIDE <1>10, <1>11
<1>13. y >= 0 /\ y < 256  BY <1>9, <1>12
<1>14. x \in Octet /\ y \in Octet  BY <1>12, <1>13, Octets
<1>15. L + x + 256 * y = 65535 * (k + 1)  BY <1>5, <1>6, <1>7, <1>12
<1>16. Cksum(b)[1] = x /\ Cksum(b)[2] = y  BY <1>8, <1>10, <1>11
<1>17. PICK e \in Nat : e = k + 1  OBVIOUS
<1>18. L + x + 256 * y = 65535 * e  BY <1>15, <1>17
<1> QED BY ONLY <1>3, <1>14, <1>16, <1>18, e \in Nat

(* A buffer in which the checksum has been stored, in the place of a word  *)
(* that was zero, adds up to a multiple of 65535 in either byte order.     *)
Stores(b, v, j) ==
  /\ b[2 * j - 1] = 0 /\ b[2 * j] = 0
  /\ v[2 * j - 1] = Cksum(b)[1] /\ v[2 * j] = Cksum(b)[2]
  /\ \A i \in 1 .. Len(b) : i # 2 * j - 1 /\ i # 2 * j => v[i] = b[i]

LEMMA Stored ==
  ASSUME NEW b \in Seq(Octet), NEW v \in Seq(Octet), Len(v) = Len(b),
         NEW j \in 1 .. Len(b) \div 2, Stores(b, v, j)
  PROVE  Total(Big(v)) % 65535 = 0
<1>1. PICK n \in Nat : n = Len(b) \div 2  OBVIOUS
<1>2. n = Len(v) \div 2 /\ j \in 1 .. n  BY <1>1
<1>3. PICK lb : lb = Little(b)  OBVIOUS
<1>4. PICK lv : lv = Little(v)  OBVIOUS
<1>5. PICK bv : bv = Big(v)  OBVIOUS
<1>6. /\ lb \in Seq(Nat) /\ Len(lb) = n /\ \A i \in 1 .. n : lb[i] = b[2 * i - 1] + 256 * b[2 * i]
      /\ \A i \in 1 .. n : 2 * i \in 1 .. Len(b) /\ 2 * i - 1 \in 1 .. Len(b)
  <2>1. LittleOf(lb, b, n) /\ Pairs(b, n)  BY <1>1, <1>3, WordsOf
  <2> QED BY ONLY <2>1 DEF LittleOf, Pairs
<1>7. /\ lv \in Seq(Nat) /\ Len(lv) = n /\ \A i \in 1 .. n : lv[i] = v[2 * i - 1] + 256 * v[2 * i]
      /\ bv \in Seq(Nat) /\ Len(bv) = n /\ \A i \in 1 .. n : bv[i] = 256 * v[2 * i - 1] + v[2 * i]
      /\ \A i \in 1 .. n : v[2 * i] \in Nat /\ v[2 * i - 1] \in Nat
  <2>1. LittleOf(lv, v, n) /\ BigOf(bv, v, n) /\ Pairs(v, n)  BY <1>2, <1>4, <1>5, WordsOf
  <2> QED BY ONLY <2>1 DEF LittleOf, BigOf, Pairs
<1>8. PICK x \in Octet : x = Cksum(b)[1]  BY CksumOf
<1>9. PICK y \in Octet : y = Cksum(b)[2]  BY CksumOf
<1>10. PICK d \in Int : d = x + 256 * y  BY Octets
<1>11. lv[j] = lb[j] + d
  <2>1. lb[j] = 0
    <3>1. lb[j] = b[2 * j - 1] + 256 * b[2 * j]  BY ONLY <1>2, <1>6
    <3>2. b[2 * j - 1] = 0 /\ b[2 * j] = 0  BY DEF Stores
    <3> QED BY ONLY <3>1, <3>2
  <2>2. lv[j] = x + 256 * y
    <3>1. lv[j] = v[2 * j - 1] + 256 * v[2 * j]  BY ONLY <1>2, <1>7
    <3>2. v[2 * j - 1] = x /\ v[2 * j] = y  BY <1>8, <1>9 DEF Stores
    <3> QED BY ONLY <3>1, <3>2
  <2> QED BY ONLY <1>10, <2>1, <2>2
<1>12. ASSUME NEW i \in 1 .. n, i # j PROVE lv[i] = lb[i]
  <2>1. i \in Int /\ j \in Int  BY <1>2
  <2>2. 2 * i # 2 * j /\ 2 * i # 2 * j - 1 /\ 2 * i - 1 # 2 * j /\ 2 * i - 1 # 2 * j - 1
    BY ONLY <1>12, <2>1
  <2>3. 2 * i \in 1 .. Len(b) /\ 2 * i - 1 \in 1 .. Len(b)  BY ONLY <1>6, <1>12
  <2>4. v[2 * i] = b[2 * i] /\ v[2 * i - 1] = b[2 * i - 1]  BY <2>2, <2>3 DEF Stores
  <2>5. lb[i] = b[2 * i - 1] + 256 * b[2 * i]  BY ONLY <1>6, <1>12
  <2>6. lv[i] = v[2 * i - 1] + 256 * v[2 * i]  BY ONLY <1>7, <1>12
  <2> QED BY ONLY <2>4, <2>5, <2>6
<1>13. Total(lv) = Total(lb) + d
  <2>1. lb \in Seq(Int) /\ lv \in Seq(Int)  BY <1>6, <1>7
  <2>2. Len(lv) = Len(lb) /\ j \in 1 .. Len(lb)  BY <1>2, <1>6, <1>7
  <2>3. \A k \in 1 .. Len(lb) : k # j => lv[k] = lb[k]  BY <1>6, <1>12
  <2>4. Differs(lb, lv, j, d)  BY ONLY <1>11, <2>2, <2>3 DEF Differs
  <2> QED BY <2>1, <2>4, TotalChange
<1>14. PICK k \in Nat : Total(lb) + x + 256 * y = 65535 * k  BY <1>3, <1>8, <1>9, CksumOf
<1>15. Total(lb) \in Nat /\ Total(lv) \in Nat /\ Total(bv) \in Nat  BY <1>6, <1>7, TotalBound
<1>16. Total(lv) = 65535 * k
  <2>1. x \in Int /\ y \in Int  BY Octets
  <2> QED BY ONLY <1>10, <1>13, <1>14, <1>15, <2>1
<1> DEFINE hv == [i \in 1 .. n |-> v[2 * i]]
<1>17. hv \in Seq(Int) /\ Len(hv) = n /\ \A i \in 1 .. n : hv[i] = v[2 * i]
  <2>1. \A i \in 1 .. n : v[2 * i] \in Int  BY <1>7
  <2>2. hv \in [1 .. n -> Int]  BY <2>1
  <2>3. \A i \in 1 .. n : hv[i] = v[2 * i]  OBVIOUS
  <2> HIDE DEF hv
  <2> QED BY <2>2, <2>3, SeqDef, LenProperties
<1> HIDE DEF hv
<1>18. ASSUME NEW i \in 1 .. n PROVE 256 * lv[i] = bv[i] + 65535 * hv[i]
  <2>0. v[2 * i] \in Int /\ v[2 * i - 1] \in Int
    <3>1. v[2 * i] \in Nat /\ v[2 * i - 1] \in Nat  BY ONLY <1>7, <1>18
    <3> QED BY ONLY <3>1
  <2>1. PICK lo \in Int : lo = v[2 * i - 1]  BY ONLY <2>0
  <2>2. PICK hi \in Int : hi = v[2 * i]  BY ONLY <2>0
  <2>3. lv[i] = lo + 256 * hi /\ bv[i] = 256 * lo + hi /\ hv[i] = hi  BY <1>7, <1>17, <2>1, <2>2, SMTT(60)
  <2>4. 256 * (lo + 256 * hi) = (256 * lo + hi) + 65535 * hi  OBVIOUS
  <2> QED BY ONLY <2>3, <2>4
<1>19. 256 * Total(lv) = Total(bv) + 65535 * Total(hv) /\ Total(hv) \in Int
  <2>1. lv \in Seq(Int) /\ bv \in Seq(Int) /\ hv \in Seq(Int)  BY <1>7, <1>17
  <2>2. Len(bv) = Len(lv) /\ Len(hv) = Len(lv)  BY <1>7, <1>17
  <2>3. \A i \in 1 .. Len(lv) : 256 * lv[i] = bv[i] + 65535 * hv[i]  BY <1>7, <1>18
  <2>4. Orders(lv, bv, hv)  BY ONLY <2>2, <2>3 DEF Orders
  <2> QED BY <2>1, <2>4, TotalOrder
<1>20. PICK B \in Nat : B = Total(bv)  BY <1>15
<1>21. PICK H \in Int : H = Total(hv)  BY <1>19
<1>22. 256 * (65535 * k) = B + 65535 * H  BY <1>16, <1>19, <1>20, <1>21
<1>23. B = 65535 * (256 * k - H)  BY ONLY <1>22, k \in Nat, B \in Nat, H \in Int
<1>24. B = 0 + 65535 * (256 * k - H) /\ 256 * k - H \in Int  BY <1>23
<1>25. B % 65535 = 0 % 65535  BY <1>24, ModShift
<1>26. 0 % 65535 = 0  OBVIOUS
<1> QED BY <1>5, <1>20, <1>25, <1>26

(* The buffer udp_tcp_cksum makes: the pseudo header, 12 bytes with the    *)
(* protocol among them, the segment, and the padding.                      *)
Joined(b, hdr, x, pad) ==
  /\ b \in Seq(Octet) /\ Len(b) = 12 + Len(x) + Len(pad)
  /\ \A i \in 1 .. 12 : b[i] = hdr[i]
  /\ \A i \in 1 .. Len(x) : b[12 + i] = x[i]
  /\ \A i \in 1 .. Len(pad) : b[12 + Len(x) + i] = pad[i]

LEMMA Joins ==
  ASSUME NEW hdr \in Seq(Octet), Len(hdr) = 12, NEW x \in Seq(Octet), NEW pad \in Seq(Octet)
  PROVE  Joined(hdr \o x \o pad, hdr, x, pad)
<1>1. PICK n \in Nat : n = Len(x)  OBVIOUS
<1>2. PICK e \in Nat : e = Len(pad)  OBVIOUS
<1>3. PICK y : y = hdr \o x  OBVIOUS
<1>4. PICK b : b = y \o pad  OBVIOUS
<1>5. /\ y \in Seq(Octet) /\ Len(y) = Len(hdr) + Len(x)
      /\ \A i \in 1 .. Len(hdr) + Len(x) : y[i] = IF i <= Len(hdr) THEN hdr[i] ELSE x[i - Len(hdr)]
  <2>1. /\ hdr \o x \in Seq(Octet) /\ Len(hdr \o x) = Len(hdr) + Len(x)
        /\ \A i \in 1 .. Len(hdr) + Len(x) :
             (hdr \o x)[i] = IF i <= Len(hdr) THEN hdr[i] ELSE x[i - Len(hdr)]
    BY ConcatProperties
  <2> QED BY <1>3, <2>1
<1> HIDE <1>3
<1>6. /\ b \in Seq(Octet) /\ Len(b) = Len(y) + Len(pad)
      /\ \A i \in 1 .. Len(y) + Len(pad) : b[i] = IF i <= Len(y) THEN y[i] ELSE pad[i - Len(y)]
  <2>1. /\ y \o pad \in Seq(Octet) /\ Len(y \o pad) = Len(y) + Len(pad)
        /\ \A i \in 1 .. Len(y) + Len(pad) :
             (y \o pad)[i] = IF i <= Len(y) THEN y[i] ELSE pad[i - Len(y)]
    <3>1. y \in Seq(Octet) /\ pad \in Seq(Octet)  BY <1>5
    <3> QED BY ONLY <3>1, ConcatProperties
  <2> QED BY <1>4, <2>1
<1> HIDE <1>4
<1>7. /\ Len(y) = 12 + n
      /\ \A i \in 1 .. 12 + n : y[i] = IF i <= 12 THEN hdr[i] ELSE x[i - 12]
  BY <1>1, <1>5
<1>8. /\ Len(b) = 12 + n + e
      /\ \A i \in 1 .. 12 + n + e : b[i] = IF i <= 12 + n THEN y[i] ELSE pad[i - (12 + n)]
  BY <1>2, <1>6, <1>7
<1>9. ASSUME NEW i \in 1 .. 12 PROVE b[i] = hdr[i]
  <2>1. i \in 1 .. 12 + n + e /\ i \in 1 .. 12 + n /\ i <= 12 + n /\ i <= 12  BY <1>9
  <2> QED BY ONLY <1>7, <1>8, <2>1
<1>10. ASSUME NEW i \in 1 .. n PROVE b[12 + i] = x[i]
  <2>1. PICK k : k = 12 + i  OBVIOUS
  <2>2. k \in 1 .. 12 + n + e /\ k \in 1 .. 12 + n /\ k <= 12 + n /\ ~(k <= 12) /\ k - 12 = i  BY <2>1
  <2> HIDE <2>1
  <2>3. b[k] = x[i]  BY ONLY <1>7, <1>8, <2>2
  <2> QED BY <2>1, <2>3
<1>11. ASSUME NEW i \in 1 .. e PROVE b[12 + n + i] = pad[i]
  <2>1. PICK k : k = 12 + n + i  OBVIOUS
  <2>2. k \in 1 .. 12 + n + e /\ ~(k <= 12 + n) /\ k - (12 + n) = i  BY <2>1
  <2> HIDE <2>1
  <2>3. b[k] = pad[i]  BY ONLY <1>8, <2>2
  <2> QED BY <2>1, <2>3
<1>12. Joined(b, hdr, x, pad)  BY <1>1, <1>2, <1>6, <1>8, <1>9, <1>10, <1>11 DEF Joined
<1> QED BY <1>3, <1>4, <1>12

LEMMA PseudoHdrOf ==
  ASSUME NEW src \in Address, NEW dst \in Address, NEW protocol \in Octet, NEW len \in Nat
  PROVE  /\ PseudoHdr(src, dst, protocol, len) \in Seq(Octet)
         /\ Len(PseudoHdr(src, dst, protocol, len)) = 12
         /\ PseudoHdr(src, dst, protocol, len)[10] = protocol
<1>1. src \in Seq(Octet) /\ Len(src) = 4 /\ dst \in Seq(Octet) /\ Len(dst) = 4
  <2>1. ASSUME NEW x \in [1 .. 4 -> Octet] PROVE x \in Seq(Octet) /\ Len(x) = 4
    <3>1. 4 \in Nat  OBVIOUS
    <3>2. x \in Seq(Octet)  BY <3>1, SeqDef
    <3> QED BY <3>2, LenProperties
  <2> QED BY <2>1 DEF Address
<1>2. PICK z : z = <<0, protocol>>  OBVIOUS
<1>3. PICK l : l = <<(len \div BYTE) % BYTE, len % BYTE>>  OBVIOUS
<1>4. z \in Seq(Octet) /\ Len(z) = 2 /\ z[2] = protocol
  <2>1. 0 \in Octet  BY Octets
  <2> QED BY <1>2, <2>1
<1>5. l \in Seq(Octet) /\ Len(l) = 2
  <2>1. PICK d \in Nat \ {0} : d = 256  OBVIOUS
  <2>2. len \div d \in Int /\ len % d \in 0 .. d - 1
    <3>1. len \in Int  OBVIOUS
    <3> QED BY ONLY <3>1, DivMod, d \in Nat \ {0}
  <2>3. PICK hi \in Int : hi = len \div d  BY <2>2
  <2>4. hi % d \in 0 .. d - 1  BY ONLY DivMod, hi \in Int, d \in Nat \ {0}
  <2>5. hi % d \in Octet /\ len % d \in Octet  BY <2>1, <2>2, <2>4, Octets
  <2>6. l = <<hi % d, len % d>>  BY <1>3, <2>1, <2>3, Limits
  <2> QED BY ONLY <2>5, <2>6
<1> HIDE <1>2, <1>3
<1>6. PICK a : a = src \o dst  OBVIOUS
<1>7. PICK b : b = a \o z  OBVIOUS
<1>8. PICK c : c = b \o l  OBVIOUS
<1>9. a \in Seq(Octet) /\ Len(a) = 8
  <2>1. a \in Seq(Octet) /\ Len(a) = Len(src) + Len(dst)  BY <1>1, <1>6, ConcatProperties
  <2> QED BY <1>1, <2>1
<1>10. b \in Seq(Octet) /\ Len(b) = 10 /\ b[10] = protocol
  <2>1. /\ b \in Seq(Octet) /\ Len(b) = Len(a) + Len(z)
        /\ \A i \in 1 .. Len(a) + Len(z) : b[i] = IF i <= Len(a) THEN a[i] ELSE z[i - Len(a)]
    BY <1>4, <1>7, <1>9, ConcatProperties
  <2>2. 10 \in 1 .. Len(a) + Len(z) /\ ~(10 <= Len(a)) /\ 10 - Len(a) = 2  BY <1>4, <1>9
  <2>3. b[10] = z[2]  BY ONLY <2>1, <2>2
  <2> QED BY <1>4, <1>9, <2>1, <2>3
<1>11. c \in Seq(Octet) /\ Len(c) = 12 /\ c[10] = protocol
  <2>1. /\ c \in Seq(Octet) /\ Len(c) = Len(b) + Len(l)
        /\ \A i \in 1 .. Len(b) + Len(l) : c[i] = IF i <= Len(b) THEN b[i] ELSE l[i - Len(b)]
    BY <1>5, <1>8, <1>10, ConcatProperties
  <2>2. 10 \in 1 .. Len(b) + Len(l) /\ 10 <= Len(b)  BY <1>5, <1>10
  <2>3. c[10] = b[10]  BY ONLY <2>1, <2>2
  <2> QED BY <1>5, <1>10, <2>1, <2>3
<1>12. c = PseudoHdr(src, dst, protocol, len)  BY <1>2, <1>3, <1>6, <1>7, <1>8 DEF PseudoHdr
<1> QED BY <1>11, <1>12

(* What is stored, and where.                                              *)
LEMMA SetCheckOf ==
  ASSUME NEW T, NEW body \in Seq(T), NEW protocol, NEW c, c[1] \in T, c[2] \in T
  PROVE  /\ SetCheck(body, protocol, c) \in Seq(T)
         /\ Len(SetCheck(body, protocol, c)) = Len(body)
         /\ \A i \in 1 .. Len(body) :
              SetCheck(body, protocol, c)[i] =
                IF i = CheckAt(protocol) + 1 THEN c[2]
                ELSE IF i = CheckAt(protocol) THEN c[1] ELSE body[i]
<1>0. PICK r : r = SetCheck(body, protocol, c)  OBVIOUS
<1>1. PICK a \in {7, 17} : a = CheckAt(protocol)  BY DEF CheckAt
<1>2. PICK n \in Nat : n = Len(body)  OBVIOUS
<1>3. DOMAIN body = 1 .. n /\ \A i \in 1 .. n : body[i] \in T  BY <1>2
<1>4. r = [body EXCEPT ![a] = c[1], ![a + 1] = c[2]]  BY <1>0, <1>1 DEF SetCheck
<1>5. DOMAIN r = 1 .. n /\ r = [i \in 1 .. n |-> r[i]]  BY <1>3, <1>4
<1>6. \A i \in 1 .. n : r[i] = IF i = a + 1 THEN c[2] ELSE IF i = a THEN c[1] ELSE body[i]
  BY <1>3, <1>4
<1>7. \A i \in 1 .. n : r[i] \in T  BY <1>3, <1>6
<1>8. r \in [1 .. n -> T]  BY <1>5, <1>7
<1>9. r \in Seq(T) /\ Len(r) = n  BY <1>8, SeqDef, LenProperties
<1> QED BY <1>0, <1>1, <1>2, <1>6, <1>9

(* The checksum, stored, is what a receiver wants: the pseudo header has   *)
(* an even length, so the field is one of the words that are added, and    *)
(* the protocol keeps the sum above zero.                                  *)
LEMMA Accepted ==
  ASSUME NEW seg \in Seq(Octet), NEW src \in Address, NEW dst \in Address,
         NEW protocol \in {TCP, UDP}, CheckAt(protocol) + 1 <= Len(seg),
         NEW blank, blank = SetCheck(seg, protocol, <<0, 0>>),
         NEW c, c = UdpTcpCksum(blank, src, dst, protocol),
         NEW new, new = SetCheck(seg, protocol, c)
  PROVE  Verifies(new, src, dst, protocol)
<1>1. PICK n \in Nat : n = Len(seg)  OBVIOUS
<1>2. PICK a \in {7, 17} : a = CheckAt(protocol)  BY DEF CheckAt
<1>3. protocol \in Octet /\ protocol > 0 /\ 0 \in Octet  BY Octets, SMTT(60) DEF TCP, UDP
<1>4. a + 1 <= n  BY <1>1, <1>2
<1>5. /\ blank \in Seq(Octet) /\ Len(blank) = n
      /\ \A i \in 1 .. n : blank[i] = IF i = a + 1 THEN 0 ELSE IF i = a THEN 0 ELSE seg[i]
  <2>1. PICK z : z = <<0, 0>>  OBVIOUS
  <2>2. z[1] = 0 /\ z[2] = 0  BY <2>1
  <2>3. blank = SetCheck(seg, protocol, z)  BY <2>1
  <2> HIDE <2>1
  <2>4. /\ SetCheck(seg, protocol, z) \in Seq(Octet) /\ Len(SetCheck(seg, protocol, z)) = Len(seg)
        /\ \A i \in 1 .. Len(seg) :
             SetCheck(seg, protocol, z)[i] =
                IF i = CheckAt(protocol) + 1 THEN z[2]
                ELSE IF i = CheckAt(protocol) THEN z[1] ELSE seg[i]
    BY <1>3, <2>2, SetCheckOf
  <2> QED BY ONLY <1>1, <1>2, <2>2, <2>3, <2>4
<1>6. PICK hdr : hdr = PseudoHdr(src, dst, protocol, n)  OBVIOUS
<1>7. hdr \in Seq(Octet) /\ Len(hdr) = 12 /\ hdr[10] = protocol  BY <1>3, <1>6, PseudoHdrOf
<1>8. PICK pad : pad = IF n % 2 # 0 THEN <<0>> ELSE <<>>  OBVIOUS
<1>9. pad \in Seq(Octet)  BY <1>3, <1>8
<1>10. PICK b : b = hdr \o blank \o pad  OBVIOUS
<1>11. c = Cksum(b)  BY <1>5, <1>6, <1>8, <1>10 DEF UdpTcpCksum, Padding
<1>12. Joined(b, hdr, blank, pad)  BY <1>5, <1>7, <1>9, <1>10, Joins
<1> HIDE <1>10
<1>13. b \in Seq(Octet)  BY <1>12 DEF Joined
<1>14. c[1] \in Octet /\ c[2] \in Octet  BY <1>11, <1>13, CksumOf
<1>15. /\ new \in Seq(Octet) /\ Len(new) = n
       /\ \A i \in 1 .. n : new[i] = IF i = a + 1 THEN c[2] ELSE IF i = a THEN c[1] ELSE seg[i]
  <2>1. /\ SetCheck(seg, protocol, c) \in Seq(Octet) /\ Len(SetCheck(seg, protocol, c)) = Len(seg)
        /\ \A i \in 1 .. Len(seg) :
             SetCheck(seg, protocol, c)[i] =
                IF i = CheckAt(protocol) + 1 THEN c[2]
                ELSE IF i = CheckAt(protocol) THEN c[1] ELSE seg[i]
    BY <1>14, SetCheckOf
  <2>2. new = SetCheck(seg, protocol, c)  OBVIOUS
  <2> QED BY ONLY <1>1, <1>2, <2>1, <2>2
<1>16. PICK v : v = hdr \o new \o pad  OBVIOUS
<1>17. Joined(v, hdr, new, pad)  BY <1>7, <1>9, <1>15, <1>16, Joins
<1>18. Verifies(new, src, dst, protocol) <=> Total(Big(v)) > 0 /\ Total(Big(v)) % 65535 = 0
  BY <1>6, <1>8, <1>15, <1>16, Limits DEF Verifies, Padding
<1> HIDE <1>6, <1>8, <1>16
<1>19. PICK e \in Nat : e = Len(pad)  BY <1>9
<1>20. /\ b \in Seq(Octet) /\ Len(b) = 12 + n + e
       /\ \A i \in 1 .. 12 : b[i] = hdr[i]
       /\ \A i \in 1 .. n : b[12 + i] = blank[i]
       /\ \A i \in 1 .. e : b[12 + n + i] = pad[i]
  BY ONLY <1>5, <1>12, <1>19 DEF Joined
<1>21. /\ v \in Seq(Octet) /\ Len(v) = 12 + n + e
       /\ \A i \in 1 .. 12 : v[i] = hdr[i]
       /\ \A i \in 1 .. n : v[12 + i] = new[i]
       /\ \A i \in 1 .. e : v[12 + n + i] = pad[i]
  BY ONLY <1>15, <1>17, <1>19 DEF Joined
<1>22. PICK j \in Nat : 2 * j = 12 + a + 1
  <2>1. CASE a = 7
    <3>1. 10 \in Nat /\ 2 * 10 = 12 + a + 1  BY <2>1
    <3> QED BY ONLY <3>1
  <2>2. CASE a = 17
    <3>1. 15 \in Nat /\ 2 * 15 = 12 + a + 1  BY <2>2
    <3> QED BY ONLY <3>1
  <2> QED BY <1>2, <2>1, <2>2
<1>23. /\ j \in 1 .. Len(b) \div 2 /\ 2 * j - 1 = 12 + a
       /\ a \in 1 .. n /\ a + 1 \in 1 .. n /\ 12 + (a + 1) = 2 * j /\ a # a + 1
  <2>1. Len(b) \in Nat /\ 2 * j <= Len(b) /\ j >= 1
    <3>1. Len(b) = 12 + n + e  BY ONLY <1>20
    <3>2. a \in Nat  BY ONLY <1>2
    <3> QED BY ONLY <1>4, <1>22, <3>1, <3>2, n \in Nat, e \in Nat, j \in Nat
  <2>2. PICK l \in Nat : l = Len(b)  BY <2>1
  <2>3. l \div 2 \in Int /\ j <= l \div 2  BY ONLY <2>1, <2>2, j \in Nat
  <2>4. j \in 1 .. Len(b) \div 2  BY ONLY <2>1, <2>2, <2>3, j \in Nat
  <2>5. a \in Nat  BY <1>2
  <2>6. /\ 2 * j - 1 = 12 + a /\ a \in 1 .. n /\ a + 1 \in 1 .. n
        /\ 12 + (a + 1) = 2 * j /\ a # a + 1
    BY ONLY <1>2, <1>4, <1>22, <2>5, n \in Nat, j \in Nat
  <2> QED BY ONLY <2>4, <2>6
<1>24. Stores(b, v, j)
  <2>1. b[2 * j - 1] = 0 /\ v[2 * j - 1] = c[1]
    <3>1. b[12 + a] = blank[a] /\ v[12 + a] = new[a]  BY ONLY <1>20, <1>21, <1>23
    <3>2. blank[a] = 0 /\ new[a] = c[1]  BY ONLY <1>5, <1>15, <1>23
    <3> QED BY ONLY <1>23, <3>1, <3>2
  <2>2. b[2 * j] = 0 /\ v[2 * j] = c[2]
    <3>1. blank[a + 1] = 0 /\ new[a + 1] = c[2]  BY ONLY <1>5, <1>15, <1>23
    <3>2. b[12 + (a + 1)] = blank[a + 1] /\ v[12 + (a + 1)] = new[a + 1]
      BY ONLY <1>20, <1>21, <1>23
    <3> QED BY ONLY <1>23, <3>1, <3>2
  <2>3. ASSUME NEW i \in 1 .. Len(b), i # 2 * j - 1, i # 2 * j PROVE v[i] = b[i]
    <3>1. i \in 1 .. 12 + n + e  BY <1>20, <2>3
    <3>2. CASE i \in 1 .. 12  BY <1>20, <1>21, <3>2
    <3>3. CASE i \in 13 .. 12 + n
      <4>1. PICK k \in 1 .. n : i = 12 + k
        <5>1. i - 12 \in 1 .. n /\ i = 12 + (i - 12)  BY <3>1, <3>3
        <5> QED BY ONLY <5>1
      <4>2. k # a /\ k # a + 1  BY <1>23, <2>3, <4>1
      <4>3. new[k] = blank[k]  BY <1>5, <1>15, <4>2
      <4>4. b[12 + k] = blank[k] /\ v[12 + k] = new[k]  BY <1>20, <1>21
      <4> QED BY ONLY <4>1, <4>3, <4>4
    <3>4. CASE i \in 12 + n + 1 .. 12 + n + e
      <4>1. PICK k \in 1 .. e : i = 12 + n + k
        <5>1. i - (12 + n) \in 1 .. e /\ i = 12 + n + (i - (12 + n))  BY <3>1, <3>4
        <5> QED BY ONLY <5>1
      <4>2. b[12 + n + k] = pad[k] /\ v[12 + n + k] = pad[k]  BY <1>20, <1>21
      <4> QED BY ONLY <4>1, <4>2
    <3>5. i \in 1 .. 12 \/ i \in 13 .. 12 + n \/ i \in 12 + n + 1 .. 12 + n + e
      BY ONLY <3>1, n \in Nat, e \in Nat
    <3> QED BY ONLY <3>2, <3>3, <3>4, <3>5
  <2> QED BY <1>11, <2>1, <2>2, <2>3 DEF Stores
<1>25. Total(Big(v)) % 65535 = 0
  <2>1. Len(v) = Len(b)  BY <1>20, <1>21
  <2>2. b \in Seq(Octet) /\ v \in Seq(Octet) /\ j \in 1 .. Len(b) \div 2  BY ONLY <1>20, <1>21, <1>23
  <2> QED BY ONLY <1>24, <2>1, <2>2, Stored
<1>26. Total(Big(v)) > 0
  <2>1. PICK k \in Nat : k = Len(v) \div 2  BY <1>21
  <2>2. 5 \in 1 .. k
    <3>1. Len(v) \in Nat /\ Len(v) >= 12  BY <1>21
    <3> QED BY ONLY <2>1, <3>1
  <2>3. BigOf(Big(v), v, k) /\ Pairs(v, k)  BY <1>21, <2>1, WordsOf
  <2>4. PICK w : w = Big(v)  OBVIOUS
  <2>5. w \in Seq(Nat) /\ Len(w) = k /\ w[5] = 256 * v[2 * 5 - 1] + v[2 * 5] /\ v[2 * 5 - 1] \in Nat
    BY ONLY <2>2, <2>3, <2>4 DEF BigOf, Pairs
  <2>6. 2 * 5 = 10 /\ 10 \in 1 .. 12  OBVIOUS
  <2>7. v[2 * 5] = protocol  BY ONLY <1>7, <1>21, <2>6
  <2>8. protocol \in Int  BY <1>3, Octets
  <2>9. w[5] > 0  BY ONLY <1>3, <2>5, <2>7, <2>8
  <2>10. Total(w) \in Nat /\ Total(w) >= w[5]  BY <2>2, <2>5, TotalBound
  <2>11. w[5] \in Nat  BY <2>2, <2>5
  <2> QED BY <2>4, <2>9, <2>10, <2>11
<1> QED BY <1>18, <1>25, <1>26

-----------------------------------------------------------------------------
(* The queue.                                                              *)
USE QueueAssumption

(* A pusher carries an item until it has put it into the queue.            *)
Carries == \A t \in Pushers : pc[t] \in {"lock", "held", "waiting"} => arg[t] \in Items
Inv == TypeOK /\ Carries

LEMMA InitInv == Init => Inv
  BY DEF Init, Inv, TypeOK, Carries, Threads

LEMMA NextInv == Inv /\ [Next]_vars => Inv'
<1> SUFFICES ASSUME Inv, [Next]_vars PROVE Inv'
  OBVIOUS
<1> USE DEF Inv, TypeOK, Carries, Threads
<1>1. ASSUME NEW t \in Pushers, NEW x \in Items, Push(t, x) PROVE Inv'
  BY <1>1 DEF Push
<1>2. ASSUME NEW t \in Poppers, Pop(t) PROVE Inv'
  BY <1>2 DEF Pop
<1>3. ASSUME NEW t \in Threads, Lock(t) PROVE Inv'
  BY <1>3 DEF Lock
<1>4. ASSUME NEW t \in Threads, Wait(t) PROVE Inv'
  BY <1>4 DEF Wait
<1>5. ASSUME NEW t \in Threads, Enqueue(t) PROVE Inv'
  <2>1. arg[t] \in Items  BY <1>5 DEF Enqueue
  <2>2. q' \in Seq(Items)  BY <1>5, <2>1 DEF Enqueue
  <2> QED BY <1>5, <2>2 DEF Enqueue
<1>6. ASSUME NEW t \in Threads, Dequeue(t) PROVE Inv'
  <2>1. Head(q) \in Items /\ Tail(q) \in Seq(Items)  BY <1>6 DEF Dequeue, Empty
  <2> QED BY <1>6, <2>1 DEF Dequeue
<1>7. ASSUME NEW t \in Threads, Notify(t) PROVE Inv'
  <2>1. /\ q' = q /\ mtx' = mtx /\ arg' = arg
        /\ \/ pc' = [pc EXCEPT ![t] = "return"]
           \/ \E u \in waiting : pc' = [pc EXCEPT ![t] = "return", ![u] = "lock"]
    BY <1>7 DEF Notify
  <2>2. CASE pc' = [pc EXCEPT ![t] = "return"]  BY <2>1, <2>2
  <2>3. ASSUME NEW u \in waiting, pc' = [pc EXCEPT ![t] = "return", ![u] = "lock"]
        PROVE Inv'
    BY <2>1, <2>3 DEF waiting
  <2> QED BY <2>1, <2>2, <2>3
<1>8. ASSUME NEW t \in Threads, SpuriousWake(t) PROVE Inv'
  BY <1>8 DEF SpuriousWake, waiting
<1>9. ASSUME NEW t \in Threads, Return(t) PROVE Inv'
  BY <1>9 DEF Return
<1>10. CASE UNCHANGED vars
  BY <1>10 DEF vars
<1> QED BY <1>1, <1>2, <1>3, <1>4, <1>5, <1>6, <1>7, <1>8, <1>9, <1>10 DEF Next, Step

(* The queue's content and the threads' states keep their types.           *)
THEOREM TypeCorrect == Spec => []TypeOK
<1>1. Spec => []Inv  BY InitInv, NextInv, PTL DEF Spec
<1> QED BY <1>1, PTL DEF Inv

-----------------------------------------------------------------------------
(* How a step of one thread's pc shows in opBar.                           *)
LEMMA OpStep ==
  ASSUME Inv, NEW t \in Threads, NEW to, pc' = [pc EXCEPT ![t] = to]
  PROVE  opBar' = [opBar EXCEPT ![t] =
                     CASE to = "idle" -> "idle"
                       [] to \in {"lock", "held", "waiting"} -> "called"
                       [] OTHER -> "done"]
  BY DEF opBar, Inv, TypeOK

LEMMA Simulation == Inv /\ [Next]_vars => [Abstract!QNext]_(Abstract!qvars)
<1> SUFFICES ASSUME Inv, [Next]_vars PROVE [Abstract!QNext]_(Abstract!qvars)
  OBVIOUS
<1> DEFINE Goal == [Abstract!QNext]_(Abstract!qvars)
<1>a. Abstract!Threads = Threads  BY DEF Abstract!Threads, Threads
<1>b. \A t \in Threads : opBar[t] = CASE pc[t] = "idle" -> "idle"
              [] pc[t] \in {"lock", "held", "waiting"} -> "called"
              [] OTHER -> "done"
  BY DEF opBar
<1>1. ASSUME NEW t \in Pushers, NEW x \in Items, Push(t, x) PROVE Goal
  <2>1. t \in Threads /\ opBar[t] = "idle"  BY <1>1, <1>b DEF Push, Threads
  <2>2. opBar' = [opBar EXCEPT ![t] = "called"]
    BY <1>1, <2>1, OpStep DEF Push
  <2>3. Abstract!CallPush(t, x)
    BY <1>1, <2>1, <2>2 DEF Abstract!CallPush, Push
  <2> QED BY <2>3 DEF Abstract!QNext
<1>2. ASSUME NEW t \in Poppers, Pop(t) PROVE Goal
  <2>1. t \in Threads /\ opBar[t] = "idle"  BY <1>2, <1>b DEF Pop, Threads
  <2>2. opBar' = [opBar EXCEPT ![t] = "called"]
    BY <1>2, <2>1, OpStep DEF Pop
  <2>3. Abstract!CallPop(t)
    BY <1>2, <2>1, <2>2 DEF Abstract!CallPop, Pop
  <2> QED BY <2>3 DEF Abstract!QNext
<1>3. ASSUME NEW t \in Threads, Lock(t) \/ Wait(t) \/ SpuriousWake(t) PROVE Goal
  <2>1. opBar' = opBar
    BY <1>3 DEF opBar, Lock, Wait, SpuriousWake, waiting, Inv, TypeOK
  <2> QED BY <1>3, <2>1 DEF Abstract!qvars, Lock, Wait, SpuriousWake
<1>4. ASSUME NEW t \in Threads, Enqueue(t) PROVE Goal
  <2>1. t \in Pushers /\ opBar[t] = "called"  BY <1>4, <1>b DEF Enqueue
  <2>2. opBar' = [opBar EXCEPT ![t] = "done"]
    BY <1>4 DEF Enqueue, opBar, Inv, TypeOK
  <2>3. Len(q) < max_len
    <3>1. Len(q) \in Nat /\ max_len \in Int  BY DEF Inv, TypeOK, max_len
    <3> QED BY <1>4, <3>1 DEF Enqueue, Full
  <2>4. Abstract!PushEffect(t)
    BY <1>4, <2>1, <2>2, <2>3 DEF Abstract!PushEffect, Enqueue
  <2> QED BY <2>1, <2>4 DEF Abstract!QNext
<1>5. ASSUME NEW t \in Threads, Dequeue(t) PROVE Goal
  <2>1. t \in Poppers /\ opBar[t] = "called"  BY <1>5, <1>b DEF Dequeue
  <2>2. opBar' = [opBar EXCEPT ![t] = "done"]
    BY <1>5 DEF Dequeue, opBar, Inv, TypeOK
  <2>3. Abstract!PopEffect(t)
    BY <1>5, <2>1, <2>2 DEF Abstract!PopEffect, Dequeue, Empty
  <2> QED BY <2>1, <2>3 DEF Abstract!QNext
<1>6. ASSUME NEW t \in Threads, Notify(t) PROVE Goal
  <2>1. opBar' = opBar
    <3>1. pc[t] = "notify"  BY <1>6 DEF Notify
    <3>2. CASE pc' = [pc EXCEPT ![t] = "return"]
      BY <3>1, <3>2 DEF opBar, Inv, TypeOK
    <3>3. ASSUME NEW u \in waiting, pc' = [pc EXCEPT ![t] = "return", ![u] = "lock"]
          PROVE opBar' = opBar
      BY <3>1, <3>3 DEF opBar, waiting, Inv, TypeOK
    <3> QED BY <1>6, <3>2, <3>3 DEF Notify
  <2> QED BY <1>6, <2>1 DEF Abstract!qvars, Notify
<1>7. ASSUME NEW t \in Threads, Return(t) PROVE Goal
  <2>1. opBar[t] = "done"  BY <1>7, <1>b DEF Return
  <2>2. opBar' = [opBar EXCEPT ![t] = "idle"]
    BY <1>7, OpStep DEF Return
  <2>3. Abstract!Return(t)
    BY <1>7, <2>1, <2>2 DEF Abstract!Return, Return
  <2> QED BY <1>a, <2>3 DEF Abstract!QNext
<1>8. CASE UNCHANGED vars
  BY <1>8 DEF vars, opBar, Abstract!qvars
<1> QED BY <1>1, <1>2, <1>3, <1>4, <1>5, <1>6, <1>7, <1>8 DEF Next, Step

(* Every behaviour of the safe_queue, seen through opBar, is one of a      *)
(* first in, first out queue with atomic operations.                       *)
THEOREM Refinement == Spec => ImplementsFifo
<1>1. Init => Abstract!QInit
  BY DEF Init, Abstract!QInit, Abstract!Threads, Threads, opBar
<1>2. Spec => []Inv  BY InitInv, NextInv, PTL DEF Spec
<1> QED BY <1>1, <1>2, Simulation, PTL DEF Spec, ImplementsFifo, Abstract!QSpec
-----------------------------------------------------------------------------
(* While a popper sleeps, every item in the queue has a thread that will   *)
(* take it or wake one that does; while a pusher sleeps, every free place  *)
(* has one that will fill it; and poppers and pushers do not sleep at the  *)
(* same time, for want of threads that could have filled or emptied the    *)
(* queue in between.                                                       *)
Feeds == {t \in Poppers : pc[t] \in {"lock", "held", "notify"}} \cup {t \in Pushers : pc[t] = "notify"}
Frees == {t \in Pushers : pc[t] \in {"lock", "held", "notify"}} \cup {t \in Poppers : pc[t] = "notify"}
WakeInv ==
  /\ waiting \cap Poppers # {} => Len(q) <= Cardinality(Feeds)
  /\ waiting \cap Pushers # {} => max_len - Len(q) <= Cardinality(Frees)
  /\ waiting \cap Poppers = {} \/ waiting \cap Pushers = {}

EnoughRoom == IsFiniteSet(Threads) /\ max_len >= Cardinality(Threads) - 1

LEMMA Counts ==
  ASSUME EnoughRoom
  PROVE  /\ IsFiniteSet(Feeds) /\ IsFiniteSet(Frees)
         /\ Cardinality(Feeds) \in Nat /\ Cardinality(Frees) \in Nat
         /\ Cardinality(Threads) \in Nat /\ max_len \in Int
<1>1. Feeds \in SUBSET Threads /\ Frees \in SUBSET Threads  BY DEF Feeds, Frees, Threads
<1>2. IsFiniteSet(Feeds) /\ IsFiniteSet(Frees)  BY <1>1, FS_Subset DEF EnoughRoom
<1>3. max_len \in Int  BY DEF max_len
<1> QED BY <1>2, <1>3, FS_CardinalityType DEF EnoughRoom

(* A set of threads without two of them.                                   *)
LEMMA TwoLess ==
  ASSUME EnoughRoom, NEW S \in SUBSET Threads, NEW t \in Threads, NEW u \in Threads, t # u,
         t \notin S, u \notin S
  PROVE  Cardinality(S) <= Cardinality(Threads) - 2
<1>1. IsFiniteSet(Threads) /\ Cardinality(Threads) \in Nat  BY Counts DEF EnoughRoom
<1>2. IsFiniteSet(S) /\ Cardinality(S) \in Nat  BY <1>1, FS_Subset, FS_CardinalityType
<1>3. IsFiniteSet(S \cup {t}) /\ Cardinality(S \cup {t}) = Cardinality(S) + 1
  BY <1>2, FS_AddElement
<1>4. PICK T : T = (S \cup {t}) \cup {u}  OBVIOUS
<1>5. u \notin S \cup {t}  OBVIOUS
<1>6. Cardinality(T) = Cardinality(S) + 1 + 1  BY <1>3, <1>4, <1>5, FS_AddElement
<1>7. T \in SUBSET Threads  BY <1>4
<1>8. Cardinality(T) <= Cardinality(Threads)  BY <1>1, <1>7, FS_Subset
<1> QED BY <1>1, <1>2, <1>6, <1>8

(* An element more, and one exchanged for another.                         *)
LEMMA OneMore ==
  ASSUME NEW S, NEW t, IsFiniteSet(S)
  PROVE  /\ Cardinality(S \cup {t}) >= Cardinality(S)
         /\ t \notin S => Cardinality(S \cup {t}) = Cardinality(S) + 1
         /\ Cardinality(S \cup {t}) \in Nat
<1>1. IsFiniteSet(S \cup {t}) /\ Cardinality(S) \in Nat  BY FS_AddElement, FS_CardinalityType
<1>2. Cardinality(S \cup {t}) = IF t \in S THEN Cardinality(S) ELSE Cardinality(S) + 1
  BY FS_AddElement
<1> QED BY <1>1, <1>2

LEMMA Exchange ==
  ASSUME NEW S, NEW t \in S, NEW u, u \notin S, IsFiniteSet(S)
  PROVE  Cardinality((S \ {t}) \cup {u}) = Cardinality(S)
<1>1. IsFiniteSet(S \ {t}) /\ Cardinality(S \ {t}) = Cardinality(S) - 1 /\ Cardinality(S) \in Nat
  BY FS_RemoveElement, FS_CardinalityType
<1>2. u \notin S \ {t}  OBVIOUS
<1>3. Cardinality((S \ {t}) \cup {u}) = Cardinality(S \ {t}) + 1  BY <1>1, <1>2, FS_AddElement
<1> QED BY <1>1, <1>3

LEMMA InitWake == Init => WakeInv
  BY DEF Init, WakeInv, waiting

LEMMA NextWake ==
  ASSUME EnoughRoom
  PROVE  Inv /\ WakeInv /\ [Next]_vars => WakeInv'
<1> SUFFICES ASSUME Inv, WakeInv, [Next]_vars PROVE WakeInv'
  OBVIOUS
<1>a. /\ IsFiniteSet(Feeds) /\ IsFiniteSet(Frees)
      /\ Cardinality(Feeds) \in Nat /\ Cardinality(Frees) \in Nat
      /\ Cardinality(Threads) \in Nat /\ max_len \in Int /\ Len(q) \in Nat
      /\ max_len >= Cardinality(Threads) - 1
  BY Counts DEF Inv, TypeOK, EnoughRoom
<1>b. pc \in [Threads -> {"idle", "lock", "held", "waiting", "notify", "return"}]
      /\ Pushers \cap Poppers = {} /\ Threads = Pushers \cup Poppers
  BY DEF Inv, TypeOK, Threads
<1>c. Feeds \in SUBSET Threads /\ Frees \in SUBSET Threads  BY DEF Feeds, Frees, Threads
\* nobody falls asleep
<1>d. ASSUME waiting' \subseteq waiting, Len(q)' = Len(q),
             Cardinality(Feeds') >= Cardinality(Feeds), Cardinality(Feeds') \in Nat,
             Cardinality(Frees') >= Cardinality(Frees), Cardinality(Frees') \in Nat
      PROVE  WakeInv'
  BY <1>a, <1>d DEF WakeInv, max_len
<1>1. ASSUME NEW t \in Pushers, NEW x \in Items, Push(t, x) PROVE WakeInv'
  <2>1. /\ waiting' = waiting /\ Feeds' = Feeds /\ Frees' = Frees \cup {t} /\ q' = q
    BY <1>1, <1>b DEF Push, waiting, Feeds, Frees
  <2> QED BY <1>a, <1>d, <2>1, OneMore, SMTT(60)
<1>2. ASSUME NEW t \in Poppers, Pop(t) PROVE WakeInv'
  <2>1. /\ waiting' = waiting /\ Frees' = Frees /\ Feeds' = Feeds \cup {t} /\ q' = q
    BY <1>2, <1>b DEF Pop, waiting, Feeds, Frees
  <2> QED BY <1>a, <1>d, <2>1, OneMore
<1>3. ASSUME NEW t \in Threads, Lock(t) PROVE WakeInv'
  <2>1. /\ waiting' = waiting /\ Frees' = Frees /\ Feeds' = Feeds /\ q' = q
    BY <1>3, <1>b DEF Lock, waiting, Feeds, Frees
  <2> QED BY <1>a, <1>d, <2>1
<1>4. ASSUME NEW t \in Threads, Wait(t) PROVE WakeInv'
  <2>0. pc[t] = "held" /\ q' = q  BY <1>4 DEF Wait
  <2>1. waiting' = waiting \cup {t}  BY <1>4, <1>b DEF Wait, waiting
  <2>2. CASE t \in Pushers
    <3>1. Len(q) >= max_len /\ t \notin Feeds  BY <1>4, <1>b, <2>0, <2>2 DEF Wait, Full, Feeds
    <3>2. waiting \cap Poppers = {}
      <4> SUFFICES ASSUME NEW u \in waiting \cap Poppers PROVE FALSE
        OBVIOUS
      <4>1. u \in Threads /\ u # t /\ u \notin Feeds  BY <1>b, <2>2 DEF waiting, Feeds
      <4>2. Cardinality(Feeds) <= Cardinality(Threads) - 2  BY <1>c, <3>1, <4>1, TwoLess
      <4>3. Len(q) <= Cardinality(Feeds)  BY DEF WakeInv
      <4> QED BY <1>a, <3>1, <4>2, <4>3
    <3>3. waiting' \cap Poppers = {}  BY <1>b, <2>1, <2>2, <3>2
    <3>4. Cardinality(Frees') \in Nat /\ max_len - Len(q') <= Cardinality(Frees')
      <4>1. IsFiniteSet(Frees')
        <5>1. Frees' \in SUBSET Threads  BY DEF Frees, Threads
        <5> QED BY <5>1, FS_Subset DEF EnoughRoom
      <4>2. Cardinality(Frees') \in Nat  BY <4>1, FS_CardinalityType
      <4> QED BY <1>a, <2>0, <3>1, <4>2
    <3> QED BY <3>3, <3>4 DEF WakeInv, max_len
  <2>3. CASE t \in Poppers
    <3>1. Len(q) = 0 /\ t \notin Frees  BY <1>4, <1>b, <2>0, <2>3 DEF Wait, Empty, Frees
    <3>2. waiting \cap Pushers = {}
      <4> SUFFICES ASSUME NEW u \in waiting \cap Pushers PROVE FALSE
        OBVIOUS
      <4>1. u \in Threads /\ u # t /\ u \notin Frees  BY <1>b, <2>3 DEF waiting, Frees
      <4>2. Cardinality(Frees) <= Cardinality(Threads) - 2  BY <1>c, <3>1, <4>1, TwoLess
      <4>3. max_len - Len(q) <= Cardinality(Frees)  BY DEF WakeInv
      <4> QED BY <1>a, <3>1, <4>2, <4>3
    <3>3. waiting' \cap Pushers = {}  BY <1>b, <2>1, <2>3, <3>2
    <3>4. Len(q') <= Cardinality(Feeds')
      <4>1. IsFiniteSet(Feeds')
        <5>1. Feeds' \in SUBSET Threads  BY DEF Feeds, Threads
        <5> QED BY <5>1, FS_Subset DEF EnoughRoom
      <4>2. Cardinality(Feeds') \in Nat  BY <4>1, FS_CardinalityType
      <4> QED BY <2>0, <3>1, <4>2
    <3> QED BY <3>3, <3>4 DEF WakeInv
  <2> QED BY <1>b, <2>2, <2>3
<1>5. ASSUME NEW t \in Threads, Enqueue(t) PROVE WakeInv'
  <2>1. t \in Pushers /\ pc[t] = "held" /\ q' = Append(q, arg[t])  BY <1>5 DEF Enqueue
  <2>2. t \notin Feeds /\ waiting' = waiting /\ Feeds' = Feeds \cup {t} /\ Frees' = Frees
    BY <1>5, <1>b, <2>1 DEF Enqueue, waiting, Feeds, Frees
  <2>3. Len(q') = Len(q) + 1  BY <2>1 DEF Inv, TypeOK
  <2>4. Cardinality(Feeds') = Cardinality(Feeds) + 1  BY <1>a, <2>2, OneMore
  <2> QED BY <1>a, <2>2, <2>3, <2>4 DEF WakeInv, max_len
<1>6. ASSUME NEW t \in Threads, Dequeue(t) PROVE WakeInv'
  <2>1. t \in Poppers /\ pc[t] = "held" /\ q' = Tail(q) /\ q # <<>>  BY <1>6 DEF Dequeue, Empty
  <2>2. t \notin Frees /\ waiting' = waiting /\ Frees' = Frees \cup {t} /\ Feeds' = Feeds
    BY <1>6, <1>b, <2>1 DEF Dequeue, waiting, Feeds, Frees
  <2>3. Len(q') = Len(q) - 1  BY <2>1 DEF Inv, TypeOK
  <2>4. Cardinality(Frees') = Cardinality(Frees) + 1  BY <1>a, <2>2, OneMore
  <2> QED BY <1>a, <2>2, <2>3, <2>4 DEF WakeInv, max_len
<1>7. ASSUME NEW t \in Threads, Notify(t) PROVE WakeInv'
  <2>1. pc[t] = "notify" /\ q' = q /\ t \in Feeds /\ t \in Frees
    BY <1>7, <1>b DEF Notify, Feeds, Frees
  <2>2. CASE waiting = {} /\ pc' = [pc EXCEPT ![t] = "return"]
    <3>1. waiting' = {}  BY <1>b, <2>2 DEF waiting
    <3> QED BY <3>1 DEF WakeInv
  <2>3. ASSUME NEW u \in waiting, pc' = [pc EXCEPT ![t] = "return", ![u] = "lock"]
        PROVE  WakeInv'
    <3>1. pc[u] = "waiting" /\ u \in Threads /\ u # t /\ u \notin Feeds /\ u \notin Frees
      BY <1>b, <2>1 DEF waiting, Feeds, Frees
    <3>2. waiting' \subseteq waiting  BY <1>b, <2>1, <2>3, <3>1 DEF waiting
    <3>3. CASE u \in Poppers
      <4>1. waiting' \cap Pushers = {}  BY <3>2, <3>3 DEF WakeInv
      <4>2. Feeds' = (Feeds \ {t}) \cup {u}
        BY <1>b, <2>1, <2>3, <3>1, <3>3 DEF Feeds
      <4>3. Cardinality(Feeds') = Cardinality(Feeds)  BY <1>a, <2>1, <3>1, <4>2, Exchange
      <4>4. waiting' \cap Poppers # {} => Len(q') <= Cardinality(Feeds')
        BY <2>1, <3>2, <4>3 DEF WakeInv
      <4> QED BY <4>1, <4>4 DEF WakeInv
    <3>4. CASE u \in Pushers
      <4>1. waiting' \cap Poppers = {}  BY <3>2, <3>4 DEF WakeInv
      <4>2. Frees' = (Frees \ {t}) \cup {u}
        BY <1>b, <2>1, <2>3, <3>1, <3>4 DEF Frees
      <4>3. Cardinality(Frees') = Cardinality(Frees)  BY <1>a, <2>1, <3>1, <4>2, Exchange
      <4>4. waiting' \cap Pushers # {} => max_len - Len(q') <= Cardinality(Frees')
        BY <2>1, <3>2, <4>3 DEF WakeInv
      <4> QED BY <4>1, <4>4 DEF WakeInv, max_len
    <3> QED BY <1>b, <3>1, <3>3, <3>4
  <2> QED BY <1>7, <2>2, <2>3 DEF Notify
<1>8. ASSUME NEW t \in Threads, SpuriousWake(t) PROVE WakeInv'
  <2>1. pc[t] = "waiting" /\ pc' = [pc EXCEPT ![t] = "lock"] /\ q' = q
    BY <1>8 DEF SpuriousWake, waiting
  <2>2. waiting' \subseteq waiting  BY <1>b, <2>1 DEF waiting
  <2>3. (Feeds' = Feeds \cup {t} /\ Frees' = Frees) \/ (Frees' = Frees \cup {t} /\ Feeds' = Feeds)
    <3>1. CASE t \in Poppers  BY <1>b, <2>1, <3>1 DEF Feeds, Frees
    <3>2. CASE t \in Pushers  BY <1>b, <2>1, <3>2 DEF Feeds, Frees
    <3> QED BY <1>b, <3>1, <3>2
  <2>4. CASE Feeds' = Feeds \cup {t} /\ Frees' = Frees
    <3>1. Cardinality(Feeds') >= Cardinality(Feeds) /\ Cardinality(Feeds') \in Nat
      BY <1>a, <2>4, OneMore
    <3>2. Cardinality(Frees') >= Cardinality(Frees) /\ Cardinality(Frees') \in Nat
      BY <1>a, <2>4
    <3> QED BY <1>d, <2>1, <2>2, <3>1, <3>2
  <2>5. CASE Frees' = Frees \cup {t} /\ Feeds' = Feeds  BY <1>a, <1>d, <2>1, <2>2, <2>5, OneMore
  <2> QED BY <2>3, <2>4, <2>5
<1>9. ASSUME NEW t \in Threads, Return(t) PROVE WakeInv'
  <2>1. /\ waiting' = waiting /\ Frees' = Frees /\ Feeds' = Feeds /\ q' = q
    BY <1>9, <1>b DEF Return, waiting, Feeds, Frees
  <2> QED BY <1>a, <1>d, <2>1
<1>10. CASE UNCHANGED vars
  <2>1. /\ waiting' = waiting /\ Frees' = Frees /\ Feeds' = Feeds /\ q' = q
    BY <1>10 DEF vars, waiting, Feeds, Frees
  <2> QED BY <1>a, <1>d, <2>1
<1> QED BY <1>1, <1>2, <1>3, <1>4, <1>5, <1>6, <1>7, <1>8, <1>9, <1>10 DEF Next, Step

(* With a limit of at least the number of threads less one, no wake-up is  *)
(* lost, although notify_one may wake a thread of the wrong kind.          *)
THEOREM WakeupCorrect == ASSUME EnoughRoom PROVE Spec => []NoLostWakeup
<1>1. Inv /\ WakeInv => NoLostWakeup
  <2> SUFFICES ASSUME Inv, WakeInv PROVE NoLostWakeup
    OBVIOUS
  <2>1. Feeds \subseteq Awake /\ Frees \subseteq Awake  BY DEF Feeds, Frees, Awake, Threads
  <2>2. Len(q) \in Nat /\ (q # <<>> => Len(q) > 0)  BY DEF Inv, TypeOK
  <2>3. Cardinality(Feeds) \in Nat /\ Cardinality(Frees) \in Nat /\ max_len \in Int
        /\ (Feeds = {} => Cardinality(Feeds) = 0) /\ (Frees = {} => Cardinality(Frees) = 0)
    BY Counts, FS_EmptySet
  <2>4. q # <<>> /\ waiting \cap Poppers # {} => Awake # {}
    BY <2>1, <2>2, <2>3 DEF WakeInv
  <2>5. ~Full /\ waiting \cap Pushers # {} => Awake # {}
    BY <2>1, <2>2, <2>3 DEF WakeInv, Full
  <2> QED BY <2>4, <2>5 DEF NoLostWakeup
<1>2. Spec => []Inv  BY InitInv, NextInv, PTL DEF Spec
<1>3. Inv /\ WakeInv /\ [Next]_vars => WakeInv'  BY NextWake
<1> QED BY <1>1, <1>2, <1>3, InitWake, PTL DEF Spec

-----------------------------------------------------------------------------
(* The proxy.                                                              *)
USE ProxyAssumption

(* The TUN device yields one of its inputs, in order.                      *)
InputInv ==
  /\ proxy_type \in ProxyTypes /\ Input \in Inputs[proxy_type]
  /\ tun \in 0 .. Len(Input)

LEMMA InputFacts ==
  ASSUME InputInv
  PROVE  /\ Input \in Seq(Packet) /\ Len(Input) \in Nat /\ tun \in Nat
         /\ DOMAIN Input = 1 .. Len(Input) /\ 1 .. Len(Input) \subseteq Items
         /\ 1 .. tun \subseteq Items /\ NoItem \notin 1 .. tun
<1>1. Input \in Seq(Packet) /\ DOMAIN Input \subseteq Items  BY DEF InputInv
<1>2. Len(Input) \in Nat /\ DOMAIN Input = 1 .. Len(Input)  BY <1>1
<1>3. tun \in Nat /\ 1 .. tun \subseteq 1 .. Len(Input)  BY <1>2 DEF InputInv
<1> QED BY <1>1, <1>2, <1>3

(* A step of the proxy is a step of its queue, or leaves the queue alone.  *)
LEMMA QueueSteps == InputInv /\ [ProxyNext]_proxyVars => InputInv' /\ [Next]_vars
<1> SUFFICES ASSUME InputInv, [ProxyNext]_proxyVars PROVE InputInv' /\ [Next]_vars
  OBVIOUS
<1>1. ASSUME UNCHANGED <<proxy_type, Input, tun>> PROVE InputInv'
  BY <1>1 DEF InputInv
<1>2. ASSUME NEW t \in Pushers, ReadPacket(t) PROVE InputInv' /\ [Next]_vars
  <2>1. tun < Len(Input) /\ tun' = tun + 1 /\ UNCHANGED <<proxy_type, Input>> /\ Push(t, tun + 1)
    BY <1>2 DEF ReadPacket
  <2>2. tun + 1 \in 1 .. Len(Input)  BY <2>1, InputFacts
  <2>3. tun + 1 \in Items  BY <2>2, InputFacts
  <2> QED BY <2>1, <2>2, <2>3, InputFacts DEF InputInv, Next
<1>3. ASSUME NEW t \in Pushers, PushReturns(t) PROVE InputInv' /\ [Next]_vars
  BY <1>1, <1>3 DEF PushReturns, Next, Threads
<1>4. ASSUME NEW w \in Poppers, PopPacket(w) PROVE InputInv' /\ [Next]_vars
  BY <1>1, <1>4 DEF PopPacket, Next
<1>5. ASSUME NEW w \in Poppers, PopReturns(w) PROVE InputInv' /\ [Next]_vars
  BY <1>1, <1>5 DEF PopReturns, Next, Threads
<1>6. ASSUME NEW w \in Poppers, ProcessPacket(w) PROVE InputInv' /\ [Next]_vars
  BY <1>1, <1>6 DEF ProcessPacket, queue, vars
<1>7. ASSUME NEW t \in Threads, QueueStep(t) \/ QueueWakes(t) PROVE InputInv' /\ [Next]_vars
  BY <1>1, <1>7 DEF QueueStep, QueueWakes, Next
<1>8. CASE Fails  BY <1>1, <1>8 DEF Fails, queue, vars
<1>9. CASE UNCHANGED proxyVars  BY <1>1, <1>9 DEF proxyVars, queue, vars
<1> QED BY <1>2, <1>3, <1>4, <1>5, <1>6, <1>7, <1>8, <1>9 DEF ProxyNext, ReaderStep, WorkerStep

LEMMA InitInput == ProxyInit => InputInv /\ Init
<1> SUFFICES ASSUME ProxyInit PROVE InputInv /\ Init
  OBVIOUS
<1>1. Input \in Seq(Packet) /\ tun = 0 /\ Init /\ proxy_type \in ProxyTypes
      /\ Input \in Inputs[proxy_type]
  BY DEF ProxyInit
<1>2. Len(Input) \in Nat  BY <1>1
<1> QED BY <1>1, <1>2 DEF InputInv

(* The reader and the workers use the queue as SafeQueue says threads do.  *)
LEMMA UsesQueue == ProxySpec => Spec /\ []InputInv
  BY InitInput, QueueSteps, PTL DEF ProxySpec, Spec

(* So the queue between the reader and the workers is first in, first out. *)
THEOREM ProxyQueueFifo == ProxySpec => ImplementsFifo
  BY UsesQueue, Refinement, PTL

(* max_len is the largest unsigned int.                                    *)
LEMMA Unlimited == Cardinality(Threads) <= UintMod => EnoughRoom
<1> SUFFICES ASSUME Cardinality(Threads) <= UintMod PROVE EnoughRoom
  OBVIOUS
<1>1. Cardinality(Threads) \in Nat  BY FS_CardinalityType
<1>2. max_len = UintMod - 1
  <2>1. -1 = UintMod * (-1) + (UintMod - 1) /\ UintMod - 1 \in 0 .. UintMod - 1  OBVIOUS
  <2>2. (-1) % UintMod = UintMod - 1  BY <2>1
  <2> QED BY <2>2 DEF max_len
<1> QED BY <1>1, <1>2 DEF EnoughRoom

(* No wake-up of the reader or of a worker is lost, for any number of      *)
(* workers that an unsigned int can count.                                 *)
THEOREM ProxyWakeup ==
  ASSUME Cardinality(Threads) <= UintMod PROVE ProxySpec => []NoLostWakeup
<1>1. EnoughRoom  BY Unlimited
<1>2. Spec => []NoLostWakeup  BY <1>1, WakeupCorrect
<1> QED BY <1>2, UsesQueue, PTL
-----------------------------------------------------------------------------
(* The packet a worker has: popped and not yet returned, or returned.      *)
held == [w \in Poppers |-> IF data[w] # NoItem THEN data[w] ELSE arg[w]]

(* Where a thread is while it has a packet.                                *)
CtlInv ==
  /\ \A w \in Poppers : /\ data[w] # NoItem => pc[w] = "idle"
                        /\ arg[w] # NoItem => pc[w] \in {"notify", "return"}
  /\ \A t \in Pushers : arg[t] # NoItem <=> pc[t] \in {"lock", "held", "waiting"}
  /\ data \in [Poppers -> (1 .. tun) \cup {NoItem}]

(* The packets on their way are numbers of packets that were read; the     *)
(* reader has the last one; the queue is sorted, and behind every packet   *)
(* that was popped; no packet is popped or sent twice; none is lost; and   *)
(* when every worker has a packet, one has the last of those popped.       *)
RangeInv ==
  /\ \A t \in Pushers : arg[t] # NoItem => arg[t] = tun /\ tun >= 1
  /\ \A k \in DOMAIN q : q[k] \in 1 .. tun
  /\ \A w \in Poppers : held[w] \in (1 .. tun) \cup {NoItem}
  /\ \A k \in DOMAIN sent : sent[k].item \in 1 .. tun
SortInv ==
  /\ \A j, k \in DOMAIN q : j < k => q[j] < q[k]
  /\ \A k \in DOMAIN q, w \in Poppers : held[w] # NoItem => held[w] < q[k]
  /\ \A k \in DOMAIN q, j \in DOMAIN sent : sent[j].item < q[k]
LastInv ==
  \A t \in Pushers : arg[t] # NoItem =>
    /\ \A k \in DOMAIN q : q[k] < tun
    /\ \A w \in Poppers : held[w] # NoItem => held[w] < tun
    /\ \A k \in DOMAIN sent : sent[k].item < tun
OnceInv ==
  /\ \A v, w \in Poppers : held[v] # NoItem /\ held[v] = held[w] => v = w
  /\ \A w \in Poppers, k \in DOMAIN sent : held[w] # sent[k].item
  /\ \A j, k \in DOMAIN sent : sent[j].item = sent[k].item => j = k
CoverInv ==
  \A i \in 1 .. tun : \/ \E t \in Pushers : arg[t] = i
                      \/ \E k \in DOMAIN q : q[k] = i
                      \/ \E w \in Poppers : held[w] = i
                      \/ \E k \in DOMAIN sent : sent[k].item = i
AheadInv ==
  (\A w \in Poppers : held[w] # NoItem) =>
     \E w \in Poppers : \A k \in DOMAIN sent : sent[k].item < held[w]
SentSeq == \E S : sent \in Seq(S)
PipeInv == RangeInv /\ SortInv /\ LastInv /\ OnceInv /\ CoverInv /\ AheadInv /\ SentSeq

FlowInv == InputInv /\ Inv /\ CtlInv /\ PipeInv

LEMMA InitFlow == ProxyInit => FlowInv
<1> SUFFICES ASSUME ProxyInit PROVE FlowInv
  OBVIOUS
<1>1. InputInv /\ Init /\ Inv  BY InitInput, InitInv
<1>2. /\ tun = 0 /\ q = <<>> /\ sent = <<>> /\ data = [w \in Poppers |-> NoItem]
      /\ arg = [t \in Threads |-> NoItem] /\ pc = [t \in Threads |-> "idle"]
  BY <1>1 DEF ProxyInit, Init
<1>3. \A w \in Poppers : held[w] = NoItem /\ arg[w] = NoItem  BY <1>2 DEF held, Threads
<1>4. CtlInv  BY <1>2, <1>3 DEF CtlInv, Threads
<1>5. RangeInv /\ SortInv /\ LastInv /\ OnceInv /\ CoverInv
  BY <1>2, <1>3 DEF RangeInv, SortInv, LastInv, OnceInv, CoverInv, Threads
<1>6. AheadInv  BY <1>3 DEF AheadInv
<1>7. SentSeq  BY <1>2 DEF SentSeq
<1> QED BY <1>1, <1>4, <1>5, <1>6, <1>7 DEF FlowInv, PipeInv

LEMMA OneReader == \A t, u \in Pushers : t = u /\ t \in Threads
<1>1. IsFiniteSet(Pushers)
  <2>1. Pushers \in SUBSET Threads  BY DEF Threads
  <2> QED BY <2>1, FS_Subset
<1>2. \E x : Pushers = {x}  BY <1>1, FS_Singleton
<1> QED BY <1>2 DEF Threads

(* A step that moves no packet, or only from the hands of pop to those of  *)
(* its caller.                                                             *)
LEMMA PipeSame ==
  ASSUME PipeInv, UNCHANGED <<tun, q, held, sent>>, \A t \in Pushers : arg'[t] = arg[t]
  PROVE  PipeInv'
<1>1. RangeInv' /\ LastInv' /\ CoverInv'  BY DEF PipeInv, RangeInv, LastInv, CoverInv
<1>2. SortInv' /\ OnceInv' /\ AheadInv' /\ SentSeq'
  BY DEF PipeInv, SortInv, OnceInv, AheadInv, SentSeq
<1> QED BY <1>1, <1>2 DEF PipeInv

(* The reader takes packet tun + 1.                                        *)
LEMMA ReadPipe ==
  ASSUME InputInv, Inv, CtlInv, PipeInv, NEW t \in Pushers, ReadPacket(t)
  PROVE  CtlInv' /\ PipeInv'
<1>1. /\ tun' = tun + 1 /\ pc[t] = "idle" /\ UNCHANGED <<data, sent, q>>
      /\ pc' = [pc EXCEPT ![t] = "lock"] /\ arg' = [arg EXCEPT ![t] = tun + 1]
  BY DEF ReadPacket, Push
<1>2. tun \in Nat /\ NoItem \notin 1 .. tun + 1
  <2>1. tun < Len(Input)  BY DEF ReadPacket
  <2>2. tun + 1 \in 1 .. Len(Input) /\ tun \in Nat  BY <2>1, InputFacts
  <2>3. 1 .. tun + 1 \subseteq 1 .. Len(Input)  BY <2>2
  <2> QED BY <2>2, <2>3, InputFacts
<1>3. \A u \in Threads : /\ arg'[u] = IF u = t THEN tun + 1 ELSE arg[u]
                         /\ pc'[u] = IF u = t THEN "lock" ELSE pc[u]
  BY <1>1 DEF Inv, TypeOK, Threads
<1>4. \A w \in Poppers : w # t /\ w \in Threads  BY DEF Threads
<1>5. \A u \in Pushers : u = t /\ u \in Threads  BY OneReader
<1>6. held' = held  BY <1>1, <1>3, <1>4 DEF held
<1>7. CtlInv'
  <2>1. data' \in [Poppers -> (1 .. tun') \cup {NoItem}]  BY <1>1, <1>2 DEF CtlInv
  <2>2. NoItem # tun + 1  BY <1>2
  <2> QED BY <1>1, <1>3, <1>4, <1>5, <2>1, <2>2 DEF CtlInv
<1>8. RangeInv /\ SortInv /\ OnceInv /\ CoverInv /\ AheadInv /\ SentSeq  BY DEF PipeInv
<1>9. arg[t] = NoItem  BY <1>1 DEF CtlInv
<1>10. RangeInv'
  <2>1. \A u \in Pushers : arg'[u] # NoItem => arg'[u] = tun' /\ tun' >= 1  BY <1>1, <1>2, <1>3, <1>5
  <2>2. \A x \in 1 .. tun : x \in 1 .. tun'  BY <1>1, <1>2
  <2> QED BY <1>1, <1>6, <1>8, <2>1, <2>2 DEF RangeInv
<1>11. SortInv' /\ OnceInv' /\ AheadInv' /\ SentSeq'
  BY <1>1, <1>6, <1>8 DEF SortInv, OnceInv, AheadInv, SentSeq
<1>12. LastInv'
  <2>1. \A x \in 1 .. tun : x < tun'  BY <1>1, <1>2
  <2> QED BY <1>1, <1>6, <1>8, <2>1 DEF LastInv, RangeInv
<1>13. CoverInv'
  <2> SUFFICES ASSUME NEW i \in 1 .. tun'
               PROVE  \/ \E u \in Pushers : arg'[u] = i
                      \/ \E k \in DOMAIN q : q[k] = i
                      \/ \E w \in Poppers : held[w] = i
                      \/ \E k \in DOMAIN sent : sent[k].item = i
    BY <1>1, <1>6 DEF CoverInv
  <2>1. CASE i = tun + 1  BY <1>3, <1>5, <2>1
  <2>2. CASE i \in 1 .. tun
    <3>1. \A u \in Pushers : arg[u] # i  BY <1>2, <1>5, <1>9, <2>2
    <3> QED BY <1>8, <2>2, <3>1 DEF CoverInv
  <2> QED BY <1>1, <1>2, <2>1, <2>2
<1> QED BY <1>7, <1>10, <1>11, <1>12, <1>13 DEF PipeInv

(* The reader's packet goes to the end of the queue.                       *)
LEMMA EnqueuePipe ==
  ASSUME InputInv, Inv, CtlInv, PipeInv, NEW t \in Threads, Enqueue(t), UNCHANGED <<tun, data, sent>>
  PROVE  CtlInv' /\ PipeInv'
<1>1. /\ t \in Pushers /\ pc[t] = "held" /\ q' = Append(q, arg[t])
      /\ arg' = [arg EXCEPT ![t] = NoItem] /\ pc' = [pc EXCEPT ![t] = "notify"]
  BY DEF Enqueue
<1>2. \A u \in Threads : /\ arg'[u] = IF u = t THEN NoItem ELSE arg[u]
                         /\ pc'[u] = IF u = t THEN "notify" ELSE pc[u]
  BY <1>1 DEF Inv, TypeOK
<1>3. \A w \in Poppers : w # t /\ w \in Threads  BY <1>1 DEF Threads
<1>4. \A u \in Pushers : u = t  BY <1>1, OneReader
<1>5. held' = held  BY <1>2, <1>3 DEF held
<1>6. CtlInv'  BY <1>2, <1>3, <1>4 DEF CtlInv
<1>7. RangeInv /\ SortInv /\ LastInv /\ OnceInv /\ CoverInv /\ AheadInv /\ SentSeq  BY DEF PipeInv
<1>8. arg[t] # NoItem  BY <1>1 DEF CtlInv
<1>9. arg[t] = tun /\ tun \in 1 .. tun
  BY <1>1, <1>7, <1>8, InputFacts DEF RangeInv
<1>10. PICK n \in Nat : n = Len(q)  BY DEF Inv, TypeOK
<1>11. /\ DOMAIN q = 1 .. n /\ DOMAIN q' = 1 .. n + 1
       /\ \A k \in 1 .. n : q'[k] = q[k]
       /\ q'[n + 1] = tun
  BY <1>1, <1>9, <1>10 DEF Inv, TypeOK
<1>12. ASSUME NEW k \in DOMAIN q'
       PROVE  (k \in DOMAIN q /\ q'[k] = q[k]) \/ (k = n + 1 /\ q'[k] = tun)
  BY <1>11
<1>13. \A k \in DOMAIN q : q[k] < tun  BY <1>1, <1>7, <1>8 DEF LastInv
<1>14. RangeInv'
  <2>1. \A k \in DOMAIN q' : q'[k] \in 1 .. tun  BY <1>7, <1>9, <1>12 DEF RangeInv
  <2>2. \A u \in Pushers : arg'[u] = NoItem  BY <1>2, <1>4
  <2> QED BY <1>5, <1>7, <2>1, <2>2 DEF RangeInv
<1>15. SortInv'
  <2>1. \A j, k \in DOMAIN q' : j < k => q'[j] < q'[k]
    <3> SUFFICES ASSUME NEW j \in DOMAIN q', NEW k \in DOMAIN q', j < k PROVE q'[j] < q'[k]
      OBVIOUS
    <3>1. j \in 1 .. n  BY <1>11
    <3>2. j \in DOMAIN q /\ q'[j] = q[j]  BY <1>11, <3>1
    <3> QED BY <1>7, <1>12, <1>13, <3>2 DEF SortInv
  <2>2. \A k \in DOMAIN q', w \in Poppers : held[w] # NoItem => held[w] < q'[k]
    BY <1>1, <1>7, <1>8, <1>12 DEF SortInv, LastInv
  <2>3. \A k \in DOMAIN q', j \in DOMAIN sent : sent[j].item < q'[k]
    BY <1>1, <1>7, <1>8, <1>12 DEF SortInv, LastInv
  <2> QED BY <1>5, <2>1, <2>2, <2>3 DEF SortInv
<1>16. LastInv'  BY <1>2, <1>4, OneReader DEF LastInv
<1>17. OnceInv' /\ AheadInv' /\ SentSeq'  BY <1>5, <1>7 DEF OnceInv, AheadInv, SentSeq
<1>18. CoverInv'
  <2> SUFFICES ASSUME NEW i \in 1 .. tun
               PROVE  \/ \E k \in DOMAIN q' : q'[k] = i
                      \/ \E w \in Poppers : held[w] = i
                      \/ \E k \in DOMAIN sent : sent[k].item = i
    BY <1>5 DEF CoverInv
  <2>1. CASE \E u \in Pushers : arg[u] = i
    <3>1. i = tun  BY <1>4, <1>9, <2>1
    <3>2. n + 1 \in DOMAIN q'  BY <1>11
    <3> QED BY <1>11, <3>1, <3>2
  <2>2. CASE \E k \in DOMAIN q : q[k] = i
    <3>1. PICK k \in DOMAIN q : q[k] = i  BY <2>2
    <3>2. k \in DOMAIN q' /\ q'[k] = i  BY <1>11, <3>1
    <3> QED BY <3>2
  <2> QED BY <1>7, <2>1, <2>2 DEF CoverInv
<1> QED BY <1>6, <1>14, <1>15, <1>16, <1>17, <1>18 DEF PipeInv

(* A worker takes the first packet of the queue.                           *)
LEMMA DequeuePipe ==
  ASSUME InputInv, Inv, CtlInv, PipeInv, NEW t \in Threads, Dequeue(t), UNCHANGED <<tun, data, sent>>
  PROVE  CtlInv' /\ PipeInv'
<1>1. /\ t \in Poppers /\ pc[t] = "held" /\ q # <<>> /\ q' = Tail(q)
      /\ arg' = [arg EXCEPT ![t] = Head(q)] /\ pc' = [pc EXCEPT ![t] = "notify"]
  BY DEF Dequeue, Empty
<1>2. PICK h \in Items : h = Head(q)  BY <1>1 DEF Inv, TypeOK
<1>3. \A u \in Threads : /\ arg'[u] = IF u = t THEN h ELSE arg[u]
                         /\ pc'[u] = IF u = t THEN "notify" ELSE pc[u]
  BY <1>1, <1>2 DEF Inv, TypeOK
<1>4. \A u \in Pushers : u # t /\ u \in Threads  BY <1>1 DEF Threads
<1>5. data[t] = NoItem /\ arg[t] = NoItem  BY <1>1 DEF CtlInv
<1>6. \A w \in Poppers : held'[w] = IF w = t THEN h ELSE held[w]
  BY <1>1, <1>3, <1>5 DEF held, Threads
<1>7. held[t] = NoItem  BY <1>1, <1>5 DEF held
<1>8. CtlInv'  BY <1>1, <1>3, <1>4, <1>5 DEF CtlInv, Threads
<1>9. RangeInv /\ SortInv /\ LastInv /\ OnceInv /\ CoverInv /\ AheadInv /\ SentSeq  BY DEF PipeInv
<1>10. PICK n \in Nat : Len(q) = n + 1
  <2>1. Len(q) \in Nat /\ Len(q) > 0  BY <1>1 DEF Inv, TypeOK
  <2>2. Len(q) - 1 \in Nat /\ (Len(q) - 1) + 1 = Len(q)  BY <2>1
  <2> QED BY <2>2
<1>11. /\ DOMAIN q = 1 .. n + 1 /\ DOMAIN q' = 1 .. n /\ h = q[1]
       /\ \A k \in 1 .. n : q'[k] = q[k + 1]
  <2>1. Len(q) - 1 = n  BY <1>10
  <2> QED BY <1>1, <1>2, <1>10, <2>1 DEF Inv, TypeOK
<1>12. 1 \in DOMAIN q /\ \A k \in DOMAIN q' : k \in Nat /\ k >= 1 /\ k + 1 \in DOMAIN q /\ q'[k] = q[k + 1]
  BY <1>11
<1>13. h \in 1 .. tun /\ h # NoItem /\ tun \in Nat  BY <1>9, <1>11, <1>12, InputFacts DEF RangeInv
<1>14. \A k \in DOMAIN q' : h < q'[k]  BY <1>9, <1>11, <1>12 DEF SortInv
<1>15. /\ \A w \in Poppers : held[w] # NoItem => held[w] < h
       /\ \A k \in DOMAIN sent : sent[k].item < h
  BY <1>9, <1>11, <1>12 DEF SortInv
<1>16. \A u \in Pushers : arg'[u] = arg[u]  BY <1>3, <1>4
<1>17. RangeInv'
  <2>1. \A k \in DOMAIN q' : q'[k] \in 1 .. tun  BY <1>9, <1>12 DEF RangeInv
  <2>2. \A w \in Poppers : held'[w] \in (1 .. tun) \cup {NoItem}  BY <1>6, <1>9, <1>13 DEF RangeInv
  <2> QED BY <1>9, <1>16, <2>1, <2>2 DEF RangeInv
<1>18. SortInv'
  <2>1. \A j, k \in DOMAIN q' : j < k => q'[j] < q'[k]
    <3> SUFFICES ASSUME NEW j \in DOMAIN q', NEW k \in DOMAIN q', j < k PROVE q'[j] < q'[k]
      OBVIOUS
    <3>1. j + 1 \in DOMAIN q /\ k + 1 \in DOMAIN q /\ j + 1 < k + 1  BY <1>12
    <3> QED BY <1>9, <1>12, <3>1 DEF SortInv
  <2>2. \A k \in DOMAIN q', w \in Poppers : held'[w] # NoItem => held'[w] < q'[k]
    BY <1>6, <1>9, <1>12, <1>14 DEF SortInv
  <2>3. \A k \in DOMAIN q', j \in DOMAIN sent : sent[j].item < q'[k]
    BY <1>9, <1>12 DEF SortInv
  <2> QED BY <2>1, <2>2, <2>3 DEF SortInv
<1>19. LastInv'
  <2> SUFFICES ASSUME NEW u \in Pushers, arg[u] # NoItem
               PROVE  /\ \A k \in DOMAIN q' : q'[k] < tun
                      /\ \A w \in Poppers : held'[w] # NoItem => held'[w] < tun
                      /\ \A k \in DOMAIN sent : sent[k].item < tun
    BY <1>16 DEF LastInv
  <2>1. \A k \in DOMAIN q : q[k] < tun  BY <1>9 DEF LastInv
  <2>2. h < tun  BY <1>11, <1>12, <2>1
  <2> QED BY <1>6, <1>9, <1>12, <2>1, <2>2 DEF LastInv
<1>20. OnceInv'
  <2>1. \A k \in DOMAIN sent : sent[k].item \in 1 .. tun  BY <1>9 DEF RangeInv
  <2>2. \A w \in Poppers : held[w] # NoItem => held[w] \in 1 .. tun  BY <1>9 DEF RangeInv
  <2>3. \A k \in DOMAIN sent : sent[k].item # h  BY <1>13, <1>15, <2>1
  <2>4. \A w \in Poppers : held[w] # h  BY <1>13, <1>15, <2>2
  <2> QED BY <1>6, <1>9, <2>3, <2>4 DEF OnceInv
<1>21. CoverInv'
  <2> SUFFICES ASSUME NEW i \in 1 .. tun
               PROVE  \/ \E u \in Pushers : arg[u] = i
                      \/ \E k \in DOMAIN q' : q'[k] = i
                      \/ \E w \in Poppers : held'[w] = i
                      \/ \E k \in DOMAIN sent : sent[k].item = i
    BY <1>16 DEF CoverInv
  <2>1. CASE \E k \in DOMAIN q : q[k] = i
    <3>1. PICK k \in DOMAIN q : q[k] = i  BY <2>1
    <3>2. CASE k = 1  BY <1>1, <1>6, <1>11, <3>1, <3>2
    <3>3. CASE k # 1
      <4>1. k - 1 \in 1 .. n /\ (k - 1) + 1 = k  BY <1>11, <3>1, <3>3
      <4> QED BY <1>11, <3>1, <4>1
    <3> QED BY <3>2, <3>3
  <2>2. CASE \E w \in Poppers : held[w] = i
    <3>1. PICK w \in Poppers : held[w] = i  BY <2>2
    <3>2. i # NoItem  BY InputFacts
    <3>3. w # t  BY <1>7, <3>1, <3>2
    <3> QED BY <1>6, <3>1, <3>3
  <2> QED BY <1>9, <2>1, <2>2 DEF CoverInv
<1>22. AheadInv'  BY <1>1, <1>6, <1>15 DEF AheadInv
<1>23. SentSeq'  BY <1>9 DEF SentSeq
<1> QED BY <1>8, <1>17, <1>18, <1>19, <1>20, <1>21, <1>22, <1>23 DEF PipeInv

(* A worker sends its packet and deletes it.                               *)
LEMMA ProcessPipe ==
  ASSUME InputInv, Inv, CtlInv, PipeInv, NEW t \in Poppers, data[t] # NoItem, NEW e, e.item = data[t],
         sent' = Append(sent, e), data' = [data EXCEPT ![t] = NoItem], UNCHANGED <<queue, tun>>
  PROVE  CtlInv' /\ PipeInv'
<1>1. \A w \in Poppers : data'[w] = IF w = t THEN NoItem ELSE data[w]  BY DEF CtlInv
<1>2. arg[t] = NoItem /\ UNCHANGED <<q, pc, arg>>  BY DEF CtlInv, queue
<1>3. CtlInv'  BY <1>1, <1>2 DEF CtlInv
<1>4. held[t] = data[t] /\ \A w \in Poppers : held'[w] = IF w = t THEN NoItem ELSE held[w]
  BY <1>1, <1>2 DEF held
<1>5. RangeInv /\ SortInv /\ LastInv /\ OnceInv /\ CoverInv /\ AheadInv /\ SentSeq  BY DEF PipeInv
<1>6. PICK S : sent \in Seq(S)  BY <1>5 DEF SentSeq
<1>7. sent \in Seq(S \cup {e})  BY <1>6
<1>8. sent' \in Seq(S \cup {e})  BY <1>7
<1>9. PICK n \in Nat : n = Len(sent)  BY <1>6
<1>10. /\ DOMAIN sent = 1 .. n /\ DOMAIN sent' = 1 .. n + 1
       /\ \A k \in 1 .. n : sent'[k] = sent[k]
       /\ sent'[n + 1] = e
  BY <1>7, <1>9
<1>11. ASSUME NEW k \in DOMAIN sent'
       PROVE  (k \in DOMAIN sent /\ sent'[k].item = sent[k].item) \/ (k = n + 1 /\ sent'[k].item = held[t])
  BY <1>4, <1>10
<1>12. held[t] \in 1 .. tun /\ held[t] # NoItem  BY <1>4, <1>5 DEF RangeInv
<1>13. RangeInv'  BY <1>2, <1>4, <1>5, <1>11, <1>12 DEF RangeInv
<1>14. SortInv'
  <2>1. \A k \in DOMAIN q, j \in DOMAIN sent' : sent'[j].item < q[k]
    BY <1>5, <1>11, <1>12 DEF SortInv
  <2> QED BY <1>2, <1>4, <1>5, <2>1 DEF SortInv
<1>15. LastInv'
  <2>1. ASSUME NEW u \in Pushers, arg[u] # NoItem, NEW j \in DOMAIN sent' PROVE sent'[j].item < tun
    BY <1>5, <1>11, <1>12, <2>1 DEF LastInv
  <2> QED BY <1>2, <1>4, <1>5, <2>1 DEF LastInv
<1>16. OnceInv'
  <2>1. \A v, w \in Poppers : held'[v] # NoItem /\ held'[v] = held'[w] => v = w
    BY <1>4, <1>5 DEF OnceInv
  <2>2. ASSUME NEW w \in Poppers, NEW k \in DOMAIN sent' PROVE held'[w] # sent'[k].item
    <3>1. sent'[k].item # NoItem
      <4>1. sent'[k].item \in 1 .. tun  BY <1>13 DEF RangeInv
      <4> QED BY <4>1, InputFacts
    <3> QED BY <1>4, <1>5, <1>11, <1>12, <3>1 DEF OnceInv
  <2>3. \A j, k \in DOMAIN sent' : sent'[j].item = sent'[k].item => j = k
    BY <1>5, <1>11 DEF OnceInv
  <2> QED BY <2>1, <2>2, <2>3 DEF OnceInv
<1>17. CoverInv'
  <2> SUFFICES ASSUME NEW i \in 1 .. tun
               PROVE  \/ \E u \in Pushers : arg[u] = i
                      \/ \E k \in DOMAIN q : q[k] = i
                      \/ \E w \in Poppers : held'[w] = i
                      \/ \E k \in DOMAIN sent' : sent'[k].item = i
    BY <1>2 DEF CoverInv
  <2>1. CASE \E w \in Poppers : held[w] = i
    <3>1. PICK w \in Poppers : held[w] = i  BY <2>1
    <3>2. CASE w = t
      <4>1. n + 1 \in DOMAIN sent' /\ sent'[n + 1].item = i  BY <1>4, <1>10, <3>1, <3>2
      <4> QED BY <4>1
    <3>3. CASE w # t  BY <1>4, <3>1, <3>3
    <3> QED BY <3>2, <3>3
  <2>2. CASE \E k \in DOMAIN sent : sent[k].item = i
    <3>1. PICK k \in DOMAIN sent : sent[k].item = i  BY <2>2
    <3>2. k \in DOMAIN sent' /\ sent'[k].item = i  BY <1>10, <3>1
    <3> QED BY <3>2
  <2> QED BY <1>5, <2>1, <2>2 DEF CoverInv
<1>18. AheadInv'  BY <1>4 DEF AheadInv
<1>19. SentSeq'  BY <1>8 DEF SentSeq
<1> QED BY <1>3, <1>13, <1>14, <1>15, <1>16, <1>17, <1>18, <1>19 DEF PipeInv

(* A step inside push or pop that moves no packet.                         *)
LEMMA QuietFlow ==
  ASSUME Inv, CtlInv, PipeInv, UNCHANGED <<tun, data, sent, q, arg>>,
         \A w \in Poppers : pc'[w] # pc[w] =>
           pc'[w] \in {"notify", "return"} \/ (arg[w] = NoItem /\ data[w] = NoItem),
         \A w \in Poppers : data[w] # NoItem => pc'[w] = "idle",
         \A t \in Pushers : pc'[t] \in {"lock", "held", "waiting"} <=> pc[t] \in {"lock", "held", "waiting"}
  PROVE  CtlInv' /\ PipeInv'
<1>1. CtlInv'  BY DEF CtlInv
<1>2. held' = held  BY DEF held
<1> QED BY <1>1, <1>2, PipeSame

LEMMA NextFlow == FlowInv /\ [ProxyNext]_proxyVars => FlowInv'
<1> SUFFICES ASSUME FlowInv, [ProxyNext]_proxyVars PROVE CtlInv' /\ PipeInv'
  <2>1. FlowInv /\ [ProxyNext]_proxyVars => InputInv' /\ Inv'
    BY QueueSteps, NextInv DEF FlowInv
  <2> QED BY <2>1 DEF FlowInv
<1>0. InputInv /\ Inv /\ CtlInv /\ PipeInv  BY DEF FlowInv
<1>a. /\ pc \in [Threads -> {"idle", "lock", "held", "waiting", "notify", "return"}]
      /\ arg \in [Threads -> Items \cup {NoItem}] /\ Threads = Pushers \cup Poppers
      /\ Pushers \cap Poppers = {}
  BY <1>0 DEF Inv, TypeOK, Threads
<1>1. ASSUME NEW t \in Pushers, ReadPacket(t) PROVE CtlInv' /\ PipeInv'
  BY <1>0, <1>1, ReadPipe
<1>2. ASSUME NEW t \in Pushers, PushReturns(t) PROVE CtlInv' /\ PipeInv'
  <2>1. /\ pc[t] = "return" /\ pc' = [pc EXCEPT ![t] = "idle"] /\ arg' = [arg EXCEPT ![t] = NoItem]
        /\ UNCHANGED <<q, tun, data, sent>>
    BY <1>2 DEF PushReturns, Return
  <2>2. arg[t] = NoItem  BY <1>0, <2>1 DEF CtlInv
  <2>3. arg' = arg  BY <1>a, <2>1, <2>2
  <2>4. \A u \in Threads : pc'[u] = IF u = t THEN "idle" ELSE pc[u]  BY <1>a, <2>1
  <2>5. \A w \in Poppers : pc'[w] = pc[w]  BY <1>a, <2>4
  <2>6. \A w \in Poppers : data[w] # NoItem => pc[w] = "idle"  BY <1>0 DEF CtlInv
  <2>7. \A u \in Pushers : pc'[u] \in {"lock", "held", "waiting"} <=> pc[u] \in {"lock", "held", "waiting"}
    BY <1>a, <2>1, <2>4
  <2> QED BY <1>0, <2>1, <2>3, <2>5, <2>6, <2>7, QuietFlow
<1>3. ASSUME NEW w \in Poppers, PopPacket(w) PROVE CtlInv' /\ PipeInv'
  <2>1. /\ pc[w] = "idle" /\ pc' = [pc EXCEPT ![w] = "lock"] /\ data[w] = NoItem
        /\ UNCHANGED <<q, arg, tun, data, sent>>
    BY <1>3 DEF PopPacket, Pop
  <2>2. arg[w] = NoItem  BY <1>0, <2>1 DEF CtlInv
  <2>3. \A u \in Threads : pc'[u] = IF u = w THEN "lock" ELSE pc[u]  BY <1>a, <2>1
  <2>4. /\ \A v \in Poppers : pc'[v] # pc[v] => arg[v] = NoItem /\ data[v] = NoItem
        /\ \A v \in Poppers : data[v] # NoItem => pc'[v] = "idle"
        /\ \A u \in Pushers : pc'[u] = pc[u]
    BY <1>0, <1>a, <2>1, <2>2, <2>3 DEF CtlInv
  <2> QED BY <1>0, <2>1, <2>4, QuietFlow
<1>4. ASSUME NEW w \in Poppers, PopReturns(w) PROVE CtlInv' /\ PipeInv'
  <2>1. /\ pc[w] = "return" /\ pc' = [pc EXCEPT ![w] = "idle"] /\ arg' = [arg EXCEPT ![w] = NoItem]
        /\ data' = [data EXCEPT ![w] = arg[w]] /\ UNCHANGED <<q, tun, sent>>
    BY <1>4 DEF PopReturns, Return
  <2>2. data[w] = NoItem  BY <1>0, <2>1 DEF CtlInv
  <2>3. \A u \in Threads : /\ pc'[u] = IF u = w THEN "idle" ELSE pc[u]
                           /\ arg'[u] = IF u = w THEN NoItem ELSE arg[u]
    BY <1>a, <2>1
  <2>4. \A v \in Poppers : data'[v] = IF v = w THEN arg[w] ELSE data[v]
    BY <1>0, <2>1 DEF CtlInv
  <2>5. held' = held  BY <1>a, <2>2, <2>3, <2>4 DEF held
  <2>6. \A u \in Pushers : arg'[u] = arg[u] /\ pc'[u] = pc[u]  BY <1>a, <2>3
  <2>7. PipeInv'  BY <1>0, <2>1, <2>5, <2>6, PipeSame
  <2>8. arg[w] \in (1 .. tun) \cup {NoItem}
    <3>1. held[w] = arg[w]  BY <2>2 DEF held
    <3> QED BY <1>0, <3>1 DEF PipeInv, RangeInv
  <2>9. data' \in [Poppers -> (1 .. tun) \cup {NoItem}]  BY <1>0, <2>1, <2>8 DEF CtlInv
  <2>10. CtlInv'  BY <1>0, <1>a, <2>1, <2>3, <2>4, <2>6, <2>9 DEF CtlInv
  <2> QED BY <2>7, <2>10
<1>5. ASSUME NEW w \in Poppers, ProcessPacket(w) PROVE CtlInv' /\ PipeInv'
  <2>1. data[w] # NoItem /\ UNCHANGED <<queue, tun>>  BY <1>5 DEF ProcessPacket
  <2>2. CASE Input[data[w]].ver = 4
    <3>1. PICK e : e = [item |-> data[w], pkt |-> Rewrite(Input[data[w]], TargetAddr(proxy_type))]
      OBVIOUS
    <3>2. sent' = Append(sent, e) /\ data' = [data EXCEPT ![w] = NoItem]
      BY <1>5, <2>2, <3>1 DEF ProcessPacket
    <3>3. e.item = data[w]  BY <3>1
    <3> HIDE <3>1
    <3> QED BY <1>0, <2>1, <3>2, <3>3, ProcessPipe
  <2>3. CASE Input[data[w]].ver # 4
    <3>1. UNCHANGED <<data, sent>>  BY <1>5, <2>3 DEF ProcessPacket
    <3>2. UNCHANGED <<q, arg, pc>>  BY <2>1 DEF queue
    <3>3. \A v \in Poppers : data[v] # NoItem => pc[v] = "idle"  BY <1>0 DEF CtlInv
    <3> QED BY <1>0, <2>1, <3>1, <3>2, <3>3, QuietFlow
  <2> QED BY <2>2, <2>3
<1>6. ASSUME NEW t \in Threads, QueueStep(t) PROVE CtlInv' /\ PipeInv'
  <2>0. UNCHANGED <<tun, data, sent>> /\ Step(t)  BY <1>6 DEF QueueStep
  <2>1. CASE Enqueue(t)  BY <1>0, <2>0, <2>1, EnqueuePipe
  <2>2. CASE Dequeue(t)  BY <1>0, <2>0, <2>2, DequeuePipe
  <2>3. CASE Lock(t) \/ Wait(t)
    <3>1. /\ UNCHANGED <<q, arg>> /\ pc[t] \in {"lock", "held"}
          /\ pc' = [pc EXCEPT ![t] = "held"] \/ pc' = [pc EXCEPT ![t] = "waiting"]
      BY <2>3 DEF Lock, Wait
    <3>2. \A u \in Threads : pc'[u] = IF u = t THEN pc'[t] ELSE pc[u]  BY <1>a, <3>1
    <3>3. pc'[t] \in {"held", "waiting"}  BY <1>a, <3>1
    <3>4. /\ \A v \in Poppers : pc'[v] # pc[v] => arg[v] = NoItem /\ data[v] = NoItem
          /\ \A v \in Poppers : data[v] # NoItem => pc'[v] = "idle"
      BY <1>0, <1>a, <3>1, <3>2 DEF CtlInv
    <3>5. \A u \in Pushers : pc'[u] \in {"lock", "held", "waiting"} <=> pc[u] \in {"lock", "held", "waiting"}
      BY <1>a, <3>1, <3>2, <3>3
    <3> QED BY <1>0, <2>0, <3>1, <3>4, <3>5, QuietFlow
  <2>4. CASE Notify(t)
    <3>1. UNCHANGED <<q, arg>> /\ pc[t] = "notify"  BY <2>4 DEF Notify
    <3>2. \A u \in Threads : \/ pc'[u] = pc[u] \/ (u = t /\ pc'[u] = "return")
                             \/ pc[u] = "waiting" /\ pc'[u] = "lock"
      BY <1>a, <2>4, <3>1 DEF Notify, waiting
    <3>3. /\ \A v \in Poppers : pc'[v] # pc[v] =>
               pc'[v] \in {"notify", "return"} \/ (arg[v] = NoItem /\ data[v] = NoItem)
          /\ \A v \in Poppers : data[v] # NoItem => pc'[v] = "idle"
      BY <1>0, <1>a, <3>1, <3>2 DEF CtlInv
    <3>4. \A u \in Pushers : pc'[u] \in {"lock", "held", "waiting"} <=> pc[u] \in {"lock", "held", "waiting"}
      BY <1>a, <3>1, <3>2
    <3> QED BY <1>0, <2>0, <3>1, <3>3, <3>4, QuietFlow
  <2> QED BY <2>0, <2>1, <2>2, <2>3, <2>4 DEF Step
<1>7. ASSUME NEW t \in Threads, QueueWakes(t) PROVE CtlInv' /\ PipeInv'
  <2>1. /\ UNCHANGED <<q, arg, tun, data, sent>> /\ pc[t] = "waiting"
        /\ pc' = [pc EXCEPT ![t] = "lock"]
    BY <1>7 DEF QueueWakes, SpuriousWake, waiting
  <2>2. \A u \in Threads : pc'[u] = IF u = t THEN "lock" ELSE pc[u]  BY <1>a, <2>1
  <2>3. /\ \A v \in Poppers : pc'[v] # pc[v] => arg[v] = NoItem /\ data[v] = NoItem
        /\ \A v \in Poppers : data[v] # NoItem => pc'[v] = "idle"
    BY <1>0, <1>a, <2>1, <2>2 DEF CtlInv
  <2>4. \A u \in Pushers : pc'[u] \in {"lock", "held", "waiting"} <=> pc[u] \in {"lock", "held", "waiting"}
    BY <1>a, <2>1, <2>2
  <2> QED BY <1>0, <2>1, <2>3, <2>4, QuietFlow
<1>8. CASE Fails \/ UNCHANGED proxyVars
  <2>1. UNCHANGED <<q, arg, pc, tun, data, sent>>  BY <1>8 DEF Fails, proxyVars, queue
  <2>2. \A v \in Poppers : data[v] # NoItem => pc[v] = "idle"  BY <1>0 DEF CtlInv
  <2> QED BY <1>0, <2>1, <2>2, QuietFlow
<1> QED BY <1>1, <1>2, <1>3, <1>4, <1>5, <1>6, <1>7, <1>8 DEF ProxyNext, ReaderStep, WorkerStep

LEMMA FlowSteps == ProxySpec => []FlowInv
  BY InitFlow, NextFlow, PTL DEF ProxySpec

(* The packet a worker has is with it in pop, or after.                    *)
LEMMA HeldFacts ==
  ASSUME FlowInv, NEW w \in Poppers, NEW i \in 1 .. tun
  PROVE  /\ arg[w] = i => held[w] = i /\ data[w] = NoItem
         /\ data[w] = i => held[w] = i /\ arg[w] = NoItem
         /\ held[w] = i => arg[w] = i \/ data[w] = i
         /\ i # NoItem
<1>1. i # NoItem  BY InputFacts DEF FlowInv
<1>2. data[w] # NoItem => arg[w] = NoItem  BY DEF FlowInv, CtlInv
<1> QED BY <1>1, <1>2 DEF held

(* Every packet read from the TUN device is in exactly one place, for any  *)
(* number of workers and packets and in any interleaving.                  *)
THEOREM ExactlyOnceCorrect == ProxySpec => []ExactlyOnce
<1>1. FlowInv => ExactlyOnce
  <2> SUFFICES ASSUME FlowInv, NEW i \in 1 .. tun PROVE Cardinality(Places(i)) = 1
    BY DEF ExactlyOnce
  <2>a. RangeInv /\ SortInv /\ LastInv /\ OnceInv /\ CoverInv  BY DEF FlowInv, PipeInv
  <2>b. tun \in Nat /\ i \in Nat  BY InputFacts DEF FlowInv
  <2>c. \A t \in Threads : t \in Pushers \/ t \in Poppers  BY DEF Threads
  <2> DEFINE A == {u \in Threads : arg[u] = i}
             B == {j \in DOMAIN q : q[j] = i}
             C == {v \in Poppers : data[v] = i}
             D == {j \in DOMAIN sent : sent[j].item = i}
  <2>1. \E p : Places(i) = {p}
    <3>1. CASE \E t \in Pushers : arg[t] = i
      <4>1. PICK t \in Pushers : arg[t] = i  BY <3>1
      <4>2. arg[t] # NoItem /\ i = tun  BY <2>a, <4>1, HeldFacts, InputFacts DEF RangeInv, FlowInv
      <4>3. \A w \in Poppers : held[w] # i
        <5> SUFFICES ASSUME NEW w \in Poppers, held[w] = i PROVE FALSE
          OBVIOUS
        <5>1. held[w] < tun  BY <2>a, <4>1, <4>2 DEF LastInv
        <5> QED BY <2>b, <4>2, <5>1
      <4>4. B = {} /\ D = {}  BY <2>a, <2>b, <4>1, <4>2 DEF LastInv
      <4>5. A = {t} /\ C = {}
        BY <2>c, <4>1, <4>3, HeldFacts, OneReader DEF Threads
      <4>6. Places(i) = {<<"arg", t>>}  BY <4>4, <4>5 DEF Places
      <4> QED BY <4>6
    <3>2. CASE \E k \in DOMAIN q : q[k] = i
      <4>1. PICK k \in DOMAIN q : q[k] = i  BY <3>2
      <4>2. \A w \in Poppers : held[w] # i
        <5> SUFFICES ASSUME NEW w \in Poppers, held[w] = i PROVE FALSE
          OBVIOUS
        <5>1. held[w] < q[k]  BY <2>a, HeldFacts DEF SortInv
        <5> QED BY <2>b, <4>1, <5>1
      <4>3. \A t \in Pushers : arg[t] # i
        <5> SUFFICES ASSUME NEW t \in Pushers, arg[t] = i PROVE FALSE
          OBVIOUS
        <5>1. arg[t] # NoItem /\ arg[t] = tun
          BY <2>a, InputFacts DEF RangeInv, FlowInv
        <5>2. q[k] < tun  BY <2>a, <5>1 DEF LastInv
        <5> QED BY <2>b, <4>1, <5>1, <5>2
      <4>4. A = {} /\ C = {}  BY <2>c, <4>2, <4>3, HeldFacts
      <4>5. D = {}  BY <2>a, <2>b, <4>1 DEF SortInv
      <4>6. B = {k}
        <5>1. \A j \in DOMAIN q : q[j] = i => j = k
          <6> SUFFICES ASSUME NEW j \in DOMAIN q, q[j] = i PROVE j = k
            OBVIOUS
          <6>1. j \in Nat /\ k \in Nat
            <7>1. q \in Seq(Items)  BY DEF FlowInv, Inv, TypeOK
            <7> QED BY <7>1
          <6> QED BY <2>a, <2>b, <4>1, <6>1 DEF SortInv
        <5> QED BY <4>1, <5>1
      <4>7. Places(i) = {<<"q", k>>}  BY <4>4, <4>5, <4>6 DEF Places
      <4> QED BY <4>7
    <3>3. CASE /\ \A t \in Pushers : arg[t] # i
               /\ \A k \in DOMAIN q : q[k] # i
               /\ \E w \in Poppers : held[w] = i
      <4>1. PICK w \in Poppers : held[w] = i  BY <3>3
      <4>2. B = {} /\ D = {}  BY <2>a, <3>3, <4>1 DEF OnceInv
      <4>3. \A v \in Poppers : held[v] = i => v = w  BY <2>a, <4>1, HeldFacts DEF OnceInv
      <4>4. CASE arg[w] = i
        <5>1. A = {w} /\ C = {}
          BY <2>c, <3>3, <4>3, <4>4, HeldFacts DEF Threads
        <5>2. Places(i) = {<<"arg", w>>}  BY <4>2, <5>1 DEF Places
        <5> QED BY <5>2
      <4>5. CASE data[w] = i
        <5>1. A = {} /\ C = {w}
          BY <2>c, <3>3, <4>3, <4>5, HeldFacts
        <5>2. Places(i) = {<<"data", w>>}  BY <4>2, <5>1 DEF Places
        <5> QED BY <5>2
      <4> QED BY <4>1, <4>4, <4>5, HeldFacts
    <3>4. CASE /\ \A t \in Pushers : arg[t] # i
               /\ \A k \in DOMAIN q : q[k] # i
               /\ \A w \in Poppers : held[w] # i
      <4>1. PICK k \in DOMAIN sent : sent[k].item = i  BY <2>a, <3>4 DEF CoverInv
      <4>2. A = {} /\ B = {} /\ C = {}  BY <2>c, <3>4, HeldFacts
      <4>3. D = {k}  BY <2>a, <4>1 DEF OnceInv
      <4>4. Places(i) = {<<"sent", k>>}  BY <4>2, <4>3 DEF Places
      <4> QED BY <4>4
    <3> QED BY <3>1, <3>2, <3>3, <3>4
  <2> QED BY <2>1, FS_Singleton
<1> QED BY <1>1, FlowSteps, PTL

(* Of the packets read before one that has been sent, at most one per      *)
(* other worker is still to be sent: each of them is held by a worker, and *)
(* some worker holds none of them.                                         *)
THEOREM ReorderingCorrect == ProxySpec => []BoundedReordering
<1>1. FlowInv => BoundedReordering
  <2> SUFFICES ASSUME FlowInv PROVE BoundedReordering
    OBVIOUS
  <2>a. RangeInv /\ SortInv /\ LastInv /\ OnceInv /\ CoverInv /\ AheadInv  BY DEF FlowInv, PipeInv
  <2>b. tun \in Nat /\ NoItem \notin 1 .. tun  BY InputFacts DEF FlowInv
  <2>1. PICK w0 \in Poppers : held[w0] = NoItem \/ \A k \in DOMAIN sent : sent[k].item < held[w0]
    BY <2>a DEF AheadInv
  <2>2. ASSUME NEW i \in Overtaken PROVE \E w \in Poppers \ {w0} : held[w] = i
    <3>1. i \in 1 .. tun /\ i \notin SentItems  BY DEF Overtaken
    <3>2. PICK j \in i + 1 .. tun : j \in SentItems  BY DEF Overtaken
    <3>3. PICK k \in DOMAIN sent : sent[k].item = j  BY <3>2 DEF SentItems
    <3>4. i < j /\ j \in 1 .. tun /\ i \in Nat /\ j \in Nat  BY <2>b, <3>1, <3>2
    <3>5. \A n \in DOMAIN q : q[n] # i
      <4> SUFFICES ASSUME NEW n \in DOMAIN q, q[n] = i PROVE FALSE
        OBVIOUS
      <4>1. j < i  BY <2>a, <3>3 DEF SortInv
      <4> QED BY <3>4, <4>1
    <3>6. \A t \in Pushers : arg[t] # i
      <4> SUFFICES ASSUME NEW t \in Pushers, arg[t] = i PROVE FALSE
        OBVIOUS
      <4>1. arg[t] # NoItem  BY <2>b, <3>1
      <4>2. arg[t] = tun  BY <2>a, <4>1 DEF RangeInv
      <4> QED BY <2>b, <3>2, <3>4, <4>2
    <3>7. \A n \in DOMAIN sent : sent[n].item # i  BY <3>1 DEF SentItems
    <3>8. PICK w \in Poppers : held[w] = i  BY <2>a, <3>1, <3>5, <3>6, <3>7 DEF CoverInv
    <3>9. w # w0
      <4> SUFFICES ASSUME w = w0 PROVE FALSE
        OBVIOUS
      <4>1. held[w0] # NoItem  BY <2>b, <3>1, <3>8
      <4>2. j < i  BY <2>1, <3>3, <3>8, <4>1
      <4> QED BY <3>4, <4>2
    <3> QED BY <3>8, <3>9
  <2> DEFINE f == [i \in Overtaken |-> CHOOSE w \in Poppers \ {w0} : held[w] = i]
  <2>3. \A i \in Overtaken : f[i] \in Poppers \ {w0} /\ held[f[i]] = i  BY <2>2
  <2>4. f \in [Overtaken -> Poppers \ {w0}]  BY <2>3
  <2>5. \A i, j \in Overtaken : f[i] = f[j] => i = j
    <3> HIDE DEF f
    <3> SUFFICES ASSUME NEW i \in Overtaken, NEW j \in Overtaken, f[i] = f[j] PROVE i = j
      OBVIOUS
    <3> QED BY <2>3
  <2>6. f \in Injection(Overtaken, Poppers \ {w0})
    <3> HIDE DEF f
    <3> QED BY <2>4, <2>5 DEF Injection, IsInjective
  <2>7. IsFiniteSet(Poppers)  BY FS_Subset DEF Threads
  <2>8. /\ IsFiniteSet(Poppers \ {w0})
        /\ Cardinality(Poppers \ {w0}) = Cardinality(Poppers) - 1
    BY <2>7, FS_RemoveElement
  <2>9. Cardinality(Overtaken) <= Cardinality(Poppers \ {w0})
    <3> HIDE DEF f
    <3> QED BY <2>6, <2>8, FS_Injection
  <2> QED BY <2>8, <2>9 DEF BoundedReordering
<1> QED BY <1>1, FlowSteps, PTL

-----------------------------------------------------------------------------
(* The packets the host sends: the port numbers are in the packet, and the *)
(* servers do not write to each other or to themselves.                    *)
WellFormed(p) == Len(p.seg) >= 4 /\ p.dst \notin {rec_addr, aut_addr}
WellFormedInputs ==
  \A type \in ProxyTypes : \A s \in Inputs[type] : \A k \in DOMAIN s :
    s[k].ver = 4 /\ s[k].protocol \in {TCP, UDP} => WellFormed(s[k])

(* A packet, whatever its bytes and addresses.                             *)
PacketOf(A, T) ==
  [ver : {4, 6}, protocol : {ICMP, TCP, UDP}, src : A, dst : A,
   frag : BOOLEAN, opts : {<<>>}, seg : Seq(T)]

(* Two segments of one length with the same port numbers.                  *)
SamePorts(r, s) ==
  \E U : /\ r \in Seq(U) /\ Len(r) = Len(s)
         /\ \A i \in 1 .. 4 : i <= Len(s) => r[i] = s[i]

(* Storing the checksum moves nothing, and leaves the port numbers alone.  *)
LEMMA SetCheckPorts ==
  ASSUME NEW T, NEW body \in Seq(T), NEW protocol, NEW c
  PROVE  SamePorts(SetCheck(body, protocol, c), body)
<1>1. PICK U : U = T \cup {c[1], c[2]}  OBVIOUS
<1>2. body \in Seq(U) /\ c[1] \in U /\ c[2] \in U  BY <1>1
<1>3. PICK r : r = SetCheck(body, protocol, c)  OBVIOUS
<1>4. PICK a \in {7, 17} : a = CheckAt(protocol)  BY DEF CheckAt
<1>5. /\ r \in Seq(U) /\ Len(r) = Len(body)
      /\ \A i \in 1 .. Len(body) : r[i] = IF i = a + 1 THEN c[2] ELSE IF i = a THEN c[1] ELSE body[i]
  BY <1>2, <1>3, <1>4, SetCheckOf
<1>6. \A i \in 1 .. 4 : i <= Len(body) => r[i] = body[i]  BY <1>4, <1>5
<1> QED BY <1>3, <1>5, <1>6 DEF SamePorts

(* process_packet_helper, of a packet without IP options.                  *)
LEMMA RewritePorts ==
  ASSUME NEW A, NEW T, NEW p \in PacketOf(A, T), NEW target \in A
  PROVE  \E U, r : /\ r = Rewrite(p, target) /\ r \in PacketOf(A, U)
                   /\ r.src = p.dst /\ r.dst = target /\ r.protocol = p.protocol
                   /\ Len(r.seg) = Len(p.seg)
                   /\ \A i \in 1 .. 4 : i <= Len(p.seg) => r.seg[i] = p.seg[i]
<1>1. p.opts = <<>> /\ p.seg \in Seq(T)  BY DEF PacketOf
<1>2. p.opts \o p.seg = p.seg  BY <1>1, ConcatEmptySeq
<1> DEFINE blank == SetCheck(p.seg, p.protocol, <<0, 0>>)
           ck == UdpTcpCksum(blank, p.dst, target, p.protocol)
           new == IF p.protocol = ICMP THEN p.seg ELSE SetCheck(p.seg, p.protocol, ck)
<1>3. Rewrite(p, target) = [p EXCEPT !.src = p.dst, !.dst = target,
                              !.opts = SubSeq(new, 1, Len(p.opts)),
                              !.seg = SubSeq(new, Len(p.opts) + 1, Len(new))]
  BY <1>2 DEF Rewrite
<1> HIDE DEF ck
<1>4. \E U : /\ new \in Seq(U) /\ Len(new) = Len(p.seg)
             /\ \A i \in 1 .. 4 : i <= Len(p.seg) => new[i] = p.seg[i]
  <2>1. CASE p.protocol = ICMP  BY <1>1, <2>1
  <2>2. CASE p.protocol # ICMP
    <3>1. new = SetCheck(p.seg, p.protocol, ck)  BY <2>2
    <3>2. SamePorts(new, p.seg)  BY <1>1, <3>1, SetCheckPorts
    <3> QED BY <3>2 DEF SamePorts
  <2> QED BY <2>1, <2>2
<1>5. PICK U : /\ new \in Seq(U) /\ Len(new) = Len(p.seg)
               /\ \A i \in 1 .. 4 : i <= Len(p.seg) => new[i] = p.seg[i]
  BY <1>4
<1> HIDE DEF new
<1>6. Len(p.opts) = 0  BY <1>1
<1>7. SubSeq(new, 1, Len(p.opts)) = <<>>  BY <1>6, SubSeqEmpty
<1>8. SubSeq(new, Len(p.opts) + 1, Len(new)) = new  BY <1>5, <1>6
<1>9. PICK r : r = [p EXCEPT !.src = p.dst, !.dst = target, !.opts = <<>>, !.seg = new]  OBVIOUS
<1>10. r = Rewrite(p, target)  BY <1>3, <1>7, <1>8, <1>9
<1>11. /\ r \in PacketOf(A, U) /\ r.src = p.dst /\ r.dst = target
       /\ r.protocol = p.protocol /\ r.seg = new
  BY <1>5, <1>9 DEF PacketOf
<1> QED BY <1>5, <1>10, <1>11

(* The ports of an answer are those of the packet, swapped.                *)
LEMMA AnswerPorts ==
  ASSUME NEW A, NEW T, NEW p \in PacketOf(A, T), Len(p.seg) >= 4
  PROVE  /\ Answer(p) \in PacketOf(A, T)
         /\ Answer(p).src = p.dst /\ Answer(p).dst = p.src /\ Answer(p).protocol = p.protocol
         /\ Len(Answer(p).seg) = Len(p.seg)
         /\ Answer(p).seg[1] = p.seg[3] /\ Answer(p).seg[2] = p.seg[4]
         /\ Answer(p).seg[3] = p.seg[1] /\ Answer(p).seg[4] = p.seg[2]
<1>1. PICK s \in Seq(T) : s = p.seg  BY DEF PacketOf
<1>2. PICK n \in Nat : n = Len(s) /\ n >= 4  BY <1>1
<1>3. \A i \in 1 .. n : s[i] \in T  BY <1>2
<1>4. PICK x : x = SubSeq(s, 3, 4)  OBVIOUS
<1>5. PICK y : y = SubSeq(s, 1, 2)  OBVIOUS
<1>6. PICK z : z = SubSeq(s, 5, n)  OBVIOUS
<1>7. x \in Seq(T) /\ Len(x) = 2 /\ x[1] = s[3] /\ x[2] = s[4]
  <2>1. \A i \in 3 .. 4 : s[i] \in T  BY <1>2, <1>3
  <2> QED BY <1>4, <2>1, SubSeqProperties
<1>8. y \in Seq(T) /\ Len(y) = 2 /\ y[1] = s[1] /\ y[2] = s[2]
  <2>1. \A i \in 1 .. 2 : s[i] \in T  BY <1>2, <1>3
  <2> QED BY <1>5, <2>1, SubSeqProperties
<1>9. z \in Seq(T) /\ Len(z) = n - 4
  <2>1. \A i \in 5 .. n : s[i] \in T  BY <1>2, <1>3
  <2> QED BY <1>2, <1>6, <2>1, SubSeqProperties
<1>10. PICK xy : xy = x \o y  OBVIOUS
<1>11. /\ xy \in Seq(T) /\ Len(xy) = 4
       /\ xy[1] = s[3] /\ xy[2] = s[4] /\ xy[3] = s[1] /\ xy[4] = s[2]
  <2>1. /\ x \o y \in Seq(T) /\ Len(x \o y) = Len(x) + Len(y)
        /\ \A i \in 1 .. Len(x) + Len(y) :
             (x \o y)[i] = IF i <= Len(x) THEN x[i] ELSE y[i - Len(x)]
    BY ONLY <1>7, <1>8, ConcatProperties
  <2>2. /\ xy \in Seq(T) /\ Len(xy) = 4
        /\ \A i \in 1 .. 4 : xy[i] = IF i <= 2 THEN x[i] ELSE y[i - 2]
    BY ONLY <1>7, <1>8, <1>10, <2>1
  <2>3. 3 - 2 = 1 /\ 4 - 2 = 2  OBVIOUS
  <2> QED BY ONLY <1>7, <1>8, <2>2, <2>3
<1>12. PICK a : a = xy \o z  OBVIOUS
<1>13. /\ a \in Seq(T) /\ Len(a) = n
       /\ a[1] = s[3] /\ a[2] = s[4] /\ a[3] = s[1] /\ a[4] = s[2]
  <2> HIDE <1>6, <1>10
  <2>1. /\ a \in Seq(T) /\ Len(a) = 4 + (n - 4)
        /\ \A i \in 1 .. 4 + (n - 4) : a[i] = IF i <= 4 THEN xy[i] ELSE z[i - 4]
    <3>1. /\ a \in Seq(T) /\ Len(a) = Len(xy) + Len(z)
          /\ \A i \in 1 .. Len(xy) + Len(z) : a[i] = IF i <= Len(xy) THEN xy[i] ELSE z[i - Len(xy)]
      BY ONLY <1>9, <1>11, <1>12, ConcatProperties
    <3> QED BY <1>9, <1>11, <3>1
  <2>2. \A i \in 1 .. 4 : a[i] = xy[i]  BY <1>2, <2>1
  <2> QED BY <1>2, <1>11, <2>1, <2>2
<1>14. Answer(p) = [p EXCEPT !.src = p.dst, !.dst = p.src, !.seg = a]
  BY <1>1, <1>2, <1>4, <1>5, <1>6, <1>10, <1>12 DEF Answer
<1>15. /\ Answer(p) \in PacketOf(A, T) /\ Answer(p).src = p.dst /\ Answer(p).dst = p.src
       /\ Answer(p).protocol = p.protocol /\ Answer(p).seg = a
  BY <1>13, <1>14 DEF PacketOf
<1> QED BY <1>1, <1>2, <1>13, <1>15

(* The first bytes of a segment, as Port53 and Ports look at them.         *)
LEMMA PortsOf ==
  ASSUME NEW T, NEW s \in Seq(T), Len(s) >= 4
  PROVE  /\ SubSeq(s, 1, 2) = <<s[1], s[2]>> /\ SubSeq(s, 3, 4) = <<s[3], s[4]>>
         /\ SubSeq(s, 1, 4) = <<s[1], s[2], s[3], s[4]>>
<1>1. \A i \in 1 .. 4 : s[i] \in T  OBVIOUS
<1>2. PICK x : x = SubSeq(s, 1, 2)  OBVIOUS
<1>3. PICK y : y = SubSeq(s, 3, 4)  OBVIOUS
<1>4. PICK z : z = SubSeq(s, 1, 4)  OBVIOUS
<1>5. x \in Seq(T) /\ Len(x) = 2 /\ x[1] = s[1] /\ x[2] = s[2]  BY <1>1, <1>2, SubSeqProperties
<1>6. y \in Seq(T) /\ Len(y) = 2 /\ y[1] = s[3] /\ y[2] = s[4]  BY <1>1, <1>3, SubSeqProperties
<1>7. z \in Seq(T) /\ Len(z) = 4 /\ z[1] = s[1] /\ z[2] = s[2] /\ z[3] = s[3] /\ z[4] = s[4]
  BY <1>1, <1>4, SubSeqProperties
<1> HIDE <1>2, <1>3, <1>4
<1>8. x = <<s[1], s[2]>>  BY <1>5
<1>9. y = <<s[3], s[4]>>  BY <1>6
<1>10. z = <<s[1], s[2], s[3], s[4]>>  BY <1>7
<1> QED BY <1>2, <1>3, <1>4, <1>8, <1>9, <1>10

(* What was sent is what process_packet_helper made of the packet.         *)
SentInv ==
  \A k \in DOMAIN sent : /\ sent[k] = [item |-> sent[k].item, pkt |-> sent[k].pkt]
                         /\ Input[sent[k].item].ver = 4
                         /\ sent[k].pkt = Rewrite(Input[sent[k].item], TargetAddr(proxy_type))

LEMMA SentSteps == FlowInv /\ SentInv /\ [ProxyNext]_proxyVars => SentInv'
<1> SUFFICES ASSUME FlowInv, SentInv, [ProxyNext]_proxyVars PROVE SentInv'
  OBVIOUS
<1>1. UNCHANGED <<proxy_type, Input>>
  BY DEF ProxyNext, ReaderStep, ReadPacket, PushReturns, WorkerStep, PopPacket, PopReturns,
         ProcessPacket, QueueStep, QueueWakes, Fails, proxyVars
<1>2. CASE UNCHANGED sent  BY <1>1, <1>2 DEF SentInv
<1>3. ASSUME NEW w \in Poppers, ProcessPacket(w), Input[data[w]].ver = 4 PROVE SentInv'
  <2>1. PICK e : e = [item |-> data[w], pkt |-> Rewrite(Input[data[w]], TargetAddr(proxy_type))]
    OBVIOUS
  <2>2. sent' = Append(sent, e)  BY <1>3, <2>1 DEF ProcessPacket
  <2>3. /\ e.item = data[w] /\ e.pkt = Rewrite(Input[e.item], TargetAddr(proxy_type))
        /\ e = [item |-> e.item, pkt |-> e.pkt]
    BY <2>1
  <2> HIDE <2>1
  <2>4. PICK S : sent \in Seq(S)  BY DEF FlowInv, PipeInv, SentSeq
  <2>5. sent \in Seq(S \cup {e})  BY <2>4
  <2>6. \A k \in DOMAIN sent' : (k \in DOMAIN sent /\ sent'[k] = sent[k]) \/ sent'[k] = e
    BY <2>2, <2>5
  <2> QED BY <1>1, <1>3, <2>3, <2>6 DEF SentInv
<1>4. ASSUME NEW w \in Poppers, ProcessPacket(w) PROVE UNCHANGED sent \/ Input[data[w]].ver = 4
  BY <1>4 DEF ProcessPacket
<1>5. (\E w \in Poppers : ProcessPacket(w)) \/ UNCHANGED sent
  BY DEF ProxyNext, ReaderStep, ReadPacket, PushReturns, WorkerStep, PopPacket, PopReturns,
         QueueStep, QueueWakes, Fails, proxyVars
<1> QED BY <1>2, <1>3, <1>4, <1>5

(* The two proxies hide each other, for any packets and any addresses: the *)
(* checksum that is stored, whatever it is, disturbs neither ports nor     *)
(* addresses.                                                              *)
THEOREM HierarchyCorrect == ASSUME WellFormedInputs PROVE ProxySpec => []HierarchyKept
<1>1. ProxyInit => SentInv  BY DEF ProxyInit, SentInv
<1>2. ProxySpec => []SentInv  BY <1>1, SentSteps, FlowSteps, PTL DEF ProxySpec
<1>3. FlowInv /\ SentInv => HierarchyKept
  <2> SUFFICES ASSUME FlowInv, SentInv, NEW k \in DOMAIN sent,
                      ToTun(proxy_type, Input[sent[k].item]), Input[sent[k].item].opts = <<>>
               PROVE  LET p == Input[sent[k].item]
                          a == Answer(sent[k].pkt)
                          b == Rewrite(a, TargetAddr(Other(proxy_type)))
                      IN /\ ~ToTun(proxy_type, sent[k].pkt)
                         /\ ToTun(Other(proxy_type), a)
                         /\ b.src = p.dst /\ b.dst = p.src /\ Ports(b) = Ports(Answer(p))
    BY DEF HierarchyKept
  <2>1. PICK p : p = Input[sent[k].item]  OBVIOUS
  <2>2. PICK A : A = Address  OBVIOUS
  <2>3. p \in Packet /\ p.ver = 4 /\ sent[k].item \in DOMAIN Input /\ Input \in Inputs[proxy_type]
    <3>1. sent[k].item \in 1 .. tun  BY DEF FlowInv, PipeInv, RangeInv
    <3>2. tun \in 0 .. Len(Input) /\ Input \in Seq(Packet) /\ Input \in Inputs[proxy_type]
      BY InputFacts DEF FlowInv, InputInv
    <3> QED BY <2>1, <3>1, <3>2 DEF SentInv
  <2>4. proxy_type \in ProxyTypes  BY DEF FlowInv, InputInv
  <2>5. p.protocol \in {TCP, UDP} /\ p.opts = <<>> /\ ToTun(proxy_type, p)  BY <2>1 DEF ToTun
  <2>6. Len(p.seg) >= 4 /\ p.dst \notin {rec_addr, aut_addr}
    BY <2>1, <2>3, <2>4, <2>5 DEF WellFormedInputs, WellFormed
  <2>7. p \in PacketOf(A, Octet)  BY <2>2, <2>3, <2>5 DEF Packet, PacketOf, Bytes
  <2>8. TargetAddr(proxy_type) \in A /\ TargetAddr(Other(proxy_type)) \in A
    BY <2>2 DEF TargetAddr
  <2>9. PICK U, r : /\ r = Rewrite(p, TargetAddr(proxy_type)) /\ r \in PacketOf(A, U)
                    /\ r.src = p.dst /\ r.dst = TargetAddr(proxy_type) /\ r.protocol = p.protocol
                    /\ Len(r.seg) = Len(p.seg)
                    /\ \A i \in 1 .. 4 : i <= Len(p.seg) => r.seg[i] = p.seg[i]
    BY <2>7, <2>8, RewritePorts
  <2>10. r = sent[k].pkt  BY <2>1, <2>9 DEF SentInv
  <2>11. PICK a : a = Answer(r)  OBVIOUS
  <2>12. /\ a \in PacketOf(A, U) /\ a.src = r.dst /\ a.dst = r.src /\ a.protocol = r.protocol
         /\ Len(a.seg) = Len(r.seg)
         /\ a.seg[1] = r.seg[3] /\ a.seg[2] = r.seg[4] /\ a.seg[3] = r.seg[1] /\ a.seg[4] = r.seg[2]
    BY <2>6, <2>9, <2>11, AnswerPorts
  <2>13. PICK V, b : /\ b = Rewrite(a, TargetAddr(Other(proxy_type))) /\ b \in PacketOf(A, V)
                     /\ b.src = a.dst /\ b.dst = TargetAddr(Other(proxy_type))
                     /\ Len(b.seg) = Len(a.seg)
                     /\ \A i \in 1 .. 4 : i <= Len(a.seg) => b.seg[i] = a.seg[i]
    BY <2>8, <2>12, RewritePorts, SMTT(60)
  <2>14. PICK c : c = Answer(p)  OBVIOUS
  <2>15. /\ c \in PacketOf(A, Octet) /\ Len(c.seg) = Len(p.seg)
         /\ c.seg[1] = p.seg[3] /\ c.seg[2] = p.seg[4] /\ c.seg[3] = p.seg[1] /\ c.seg[4] = p.seg[2]
    BY <2>6, <2>7, <2>14, AnswerPorts
  <2>16. /\ p.seg \in Seq(Octet) /\ c.seg \in Seq(Octet)
         /\ r.seg \in Seq(U) /\ a.seg \in Seq(U) /\ b.seg \in Seq(V)
    BY <2>7, <2>9, <2>12, <2>13, <2>15 DEF PacketOf
  <2>17. \A i \in {1, 2, 3, 4} : r.seg[i] = p.seg[i] /\ b.seg[i] = a.seg[i]
    <3>1. PICK n \in Nat : n = Len(p.seg) /\ n >= 4  BY <2>6, <2>16
    <3>2. Len(a.seg) = n /\ \A i \in {1, 2, 3, 4} : i \in 1 .. 4 /\ i <= n
      BY <2>9, <2>12, <3>1
    <3>3. \A i \in {1, 2, 3, 4} : r.seg[i] = p.seg[i]  BY <2>9, <3>1, <3>2
    <3>4. \A i \in {1, 2, 3, 4} : b.seg[i] = a.seg[i]  BY <2>13, <3>2
    <3> QED BY <3>3, <3>4
  <2>18. /\ ToTun(proxy_type, p) => ~ToTun(proxy_type, r)
         /\ proxy_type = "recursive" => p.src = rec_addr /\ <<p.seg[3], p.seg[4]>> = <<0, 53>>
         /\ proxy_type # "recursive" => p.src = aut_addr /\ <<p.seg[1], p.seg[2]>> = <<0, 53>>
    <3>1. SubSeq(p.seg, 1, 2) = <<p.seg[1], p.seg[2]>> /\ SubSeq(p.seg, 3, 4) = <<p.seg[3], p.seg[4]>>
      BY <2>6, <2>16, PortsOf
    <3> QED BY <2>5, <2>6, <2>9, <3>1 DEF ToTun, Port53
  <2>19. ToTun(Other(proxy_type), a)
    <3>1. /\ SubSeq(a.seg, 1, 2) = <<p.seg[3], p.seg[4]>>
          /\ SubSeq(a.seg, 3, 4) = <<p.seg[1], p.seg[2]>>
      BY <2>6, <2>9, <2>12, <2>16, <2>17, PortsOf
    <3>2. a.src = TargetAddr(proxy_type) /\ a.protocol \in {TCP, UDP}  BY <2>5, <2>9, <2>12
    <3> QED BY <2>4, <2>18, <3>1, <3>2 DEF ToTun, Port53, Other, TargetAddr, ProxyTypes
  <2>20. b.src = p.dst /\ b.dst = p.src
    BY <2>4, <2>9, <2>12, <2>13, <2>18 DEF TargetAddr, Other, ProxyTypes
  <2>21. Ports(b) = Ports(c)
    <3>1. Ports(b) = <<b.seg[1], b.seg[2], b.seg[3], b.seg[4]>>
      BY <2>6, <2>9, <2>12, <2>13, <2>16, PortsOf DEF Ports
    <3>2. Ports(c) = <<c.seg[1], c.seg[2], c.seg[3], c.seg[4]>>
      BY <2>6, <2>15, <2>16, PortsOf DEF Ports
    <3> QED BY <2>12, <2>15, <2>17, <3>1, <3>2
  <2> QED BY <2>1, <2>5, <2>10, <2>11, <2>13, <2>14, <2>18, <2>19, <2>20, <2>21
<1> QED BY <1>2, <1>3, FlowSteps, PTL

-----------------------------------------------------------------------------
(* The checksum of a buffer, of whatever length, is two bytes.             *)
LEMMA CksumBytes ==
  ASSUME NEW x \in Seq(Octet), NEW src \in Address, NEW dst \in Address, NEW protocol \in {TCP, UDP}
  PROVE  /\ UdpTcpCksum(x, src, dst, protocol)[1] \in Octet
         /\ UdpTcpCksum(x, src, dst, protocol)[2] \in Octet
<1>1. protocol \in Octet /\ 0 \in Octet /\ Len(x) \in Nat  BY Octets DEF TCP, UDP
<1>2. PICK hdr : hdr = PseudoHdr(src, dst, protocol, Len(x))  OBVIOUS
<1>3. hdr \in Seq(Octet) /\ Len(hdr) = 12  BY <1>1, <1>2, PseudoHdrOf
<1>4. PICK pad : pad = Padding(x)  OBVIOUS
<1>5. pad \in Seq(Octet)  BY <1>1, <1>4 DEF Padding
<1>6. PICK b : b = hdr \o x \o pad  OBVIOUS
<1>7. Joined(b, hdr, x, pad)  BY <1>3, <1>5, <1>6, Joins
<1>8. b \in Seq(Octet)  BY <1>7 DEF Joined
<1>9. UdpTcpCksum(x, src, dst, protocol) = Cksum(b)  BY <1>2, <1>4, <1>6 DEF UdpTcpCksum
<1> QED BY <1>8, <1>9, CksumOf

(* What process_packet_helper makes of any packet is a packet; without IP  *)
(* options, its segment is that of the packet with the checksum stored.    *)
LEMMA RewriteIs ==
  ASSUME NEW p \in Packet, NEW target \in Address
  PROVE  \E r : /\ r = Rewrite(p, target) /\ r \in Packet
                /\ r.src = p.dst /\ r.dst = target /\ r.protocol = p.protocol /\ r.frag = p.frag
                /\ r.opts = <<>> /\ p.protocol # ICMP =>
                     /\ p.opts = <<>>
                     /\ LET blank == SetCheck(p.seg, p.protocol, <<0, 0>>)
                        IN r.seg = SetCheck(p.seg, p.protocol,
                                            UdpTcpCksum(blank, p.dst, target, p.protocol))
<1>1. p.opts \in Seq(Octet) /\ p.seg \in Seq(Octet) /\ p.dst \in Address
      /\ p.protocol \in {ICMP, TCP, UDP}
  BY DEF Packet, Bytes
<1>2. PICK body \in Seq(Octet) : body = p.opts \o p.seg  BY <1>1, ConcatProperties
<1>3. Len(body) = Len(p.opts) + Len(p.seg)  BY <1>1, <1>2, ConcatProperties
<1>4. PICK z : z = <<0, 0>>  OBVIOUS
<1>5. z[1] \in Octet /\ z[2] \in Octet  BY <1>4, Octets
<1>6. PICK blank \in Seq(Octet) : blank = SetCheck(body, p.protocol, z)  BY <1>5, SetCheckOf
<1>7. PICK c : c = UdpTcpCksum(blank, p.dst, target, p.protocol)  OBVIOUS
<1>8. PICK new : new = IF p.protocol = ICMP THEN body ELSE SetCheck(body, p.protocol, c)  OBVIOUS
<1>9. new \in Seq(Octet) /\ Len(new) = Len(body)
  <2>1. CASE p.protocol = ICMP  BY <1>8, <2>1
  <2>2. CASE p.protocol # ICMP
    <3>1. p.protocol \in {TCP, UDP}  BY <1>1, <2>2
    <3>2. c[1] \in Octet /\ c[2] \in Octet  BY <1>1, <1>7, <3>1, CksumBytes
    <3>3. new = SetCheck(body, p.protocol, c)  BY <1>8, <2>2
    <3> QED BY <3>2, <3>3, SetCheckOf
  <2> QED BY <2>1, <2>2
<1>10. PICK r : r = [p EXCEPT !.src = p.dst, !.dst = target,
                              !.opts = SubSeq(new, 1, Len(p.opts)),
                              !.seg = SubSeq(new, Len(p.opts) + 1, Len(new))]
  OBVIOUS
<1>11. r = Rewrite(p, target)  BY <1>2, <1>4, <1>6, <1>7, <1>8, <1>10 DEF Rewrite
<1>12. PICK l \in Nat : l = Len(p.opts)  BY <1>1
<1>13. PICK n \in Nat : n = Len(new)  BY <1>9
<1>14. l <= n
  <2>1. PICK k \in Nat : k = Len(p.seg)  BY <1>1
  <2>2. n = l + k  BY <1>3, <1>9, <1>12, <1>13, <2>1
  <2> QED BY ONLY <2>2, l \in Nat, k \in Nat
<1>15. \A i \in 1 .. n : new[i] \in Octet  BY <1>9, <1>13
<1>16. PICK x : x = SubSeq(new, 1, l)  OBVIOUS
<1>17. PICK y : y = SubSeq(new, l + 1, n)  OBVIOUS
<1>18. x \in Seq(Octet) /\ Len(x) = l
  <2>1. \A i \in 1 .. l : new[i] \in Octet  BY <1>14, <1>15
  <2>2. x \in Seq(Octet)  BY <1>16, <2>1, SubSeqProperties
  <2>3. Len(x) = IF 1 <= l THEN l - 1 + 1 ELSE 0  BY <1>16, SubSeqProperties
  <2> QED BY <2>2, <2>3
<1>19. y \in Seq(Octet)
  <2>1. \A i \in l + 1 .. n : new[i] \in Octet  BY <1>14, <1>15
  <2> QED BY <1>17, <2>1, SubSeqProperties
<1>20. r = [p EXCEPT !.src = p.dst, !.dst = target, !.opts = x, !.seg = y]
  BY <1>10, <1>12, <1>13, <1>16, <1>17
<1>21. /\ r \in Packet /\ r.src = p.dst /\ r.dst = target /\ r.protocol = p.protocol
       /\ r.frag = p.frag /\ r.opts = x /\ r.seg = y
  BY <1>1, <1>18, <1>19, <1>20 DEF Packet, Bytes
<1>22. ASSUME x = <<>>, p.protocol # ICMP
       PROVE  p.opts = <<>> /\ y = SetCheck(p.seg, p.protocol,
                UdpTcpCksum(SetCheck(p.seg, p.protocol, <<0, 0>>), p.dst, target, p.protocol))
  <2>1. l = 0  BY <1>18, <1>22
  <2>2. p.opts = <<>>
    <3>1. PICK o \in Seq(Octet) : o = p.opts  BY <1>1
    <3>2. Len(o) = 0  BY <1>12, <2>1, <3>1
    <3> QED BY <3>1, <3>2, EmptySeq
  <2>3. body = p.seg  BY <1>1, <1>2, <2>2, ConcatEmptySeq
  <2>4. y = new  BY <1>9, <1>13, <1>17, <2>1
  <2> QED BY <1>4, <1>6, <1>7, <1>8, <1>22, <2>2, <2>3, <2>4
<1> QED BY <1>11, <1>21, <1>22

(* The packets the host sends: those that are no fragments have the field  *)
(* of the checksum, which process_packet_helper writes without a test.     *)
WholeHeaders ==
  \A type \in ProxyTypes : \A s \in Inputs[type] : \A k \in DOMAIN s :
    s[k].ver = 4 /\ s[k].protocol \in {TCP, UDP} /\ s[k].opts = <<>> /\ ~s[k].frag
      => CheckAt(s[k].protocol) + 1 <= Len(s[k].seg)

Up == status \in {"running", "exited"}

LEMMA StatusSteps == ProxySpec => []Up
<1>1. ProxyInit => Up  BY DEF ProxyInit, Up
<1>2. Up /\ [ProxyNext]_proxyVars => Up'
  BY DEF Up, ProxyNext, ReaderStep, ReadPacket, PushReturns, WorkerStep, PopPacket, PopReturns,
         ProcessPacket, QueueStep, QueueWakes, Fails, proxyVars
<1> QED BY <1>1, <1>2, PTL DEF ProxySpec

(* A packet that is sent is accepted by its receiver, for every length,    *)
(* every content and every carry of the sum.                               *)
THEOREM ChecksumCorrect == ASSUME WholeHeaders PROVE ProxySpec => []ChecksumValid
<1>1. ProxyInit => SentInv  BY DEF ProxyInit, SentInv
<1>2. ProxySpec => []SentInv  BY <1>1, SentSteps, FlowSteps, PTL DEF ProxySpec
<1>3. ASSUME FlowInv, SentInv, NEW k \in DOMAIN sent
      PROVE  \E p, r : /\ p \in Packet /\ r = sent[k].pkt /\ r \in Packet
                       /\ r.protocol = p.protocol /\ r.src \in Address /\ r.dst \in Address
                       /\ r.protocol \in {TCP, UDP} /\ r.opts = <<>> /\ ~r.frag
                            => Verifies(r.seg, r.src, r.dst, r.protocol)
  <2>1. PICK p : p = Input[sent[k].item]  OBVIOUS
  <2>2. p \in Packet /\ p.ver = 4 /\ sent[k].item \in DOMAIN Input /\ Input \in Inputs[proxy_type]
    <3>1. sent[k].item \in 1 .. tun  BY <1>3 DEF FlowInv, PipeInv, RangeInv
    <3>2. tun \in 0 .. Len(Input) /\ Input \in Seq(Packet) /\ Input \in Inputs[proxy_type]
      BY <1>3, InputFacts DEF FlowInv, InputInv
    <3> QED BY <1>3, <2>1, <3>1, <3>2 DEF SentInv
  <2>3. proxy_type \in ProxyTypes  BY <1>3 DEF FlowInv, InputInv
  <2>4. PICK target \in Address : target = TargetAddr(proxy_type)  BY DEF TargetAddr
  <2>5. PICK r : /\ r = Rewrite(p, target) /\ r \in Packet
                 /\ r.src = p.dst /\ r.dst = target /\ r.protocol = p.protocol /\ r.frag = p.frag
                 /\ r.opts = <<>> /\ p.protocol # ICMP =>
                      /\ p.opts = <<>>
                      /\ LET blank == SetCheck(p.seg, p.protocol, <<0, 0>>)
                         IN r.seg = SetCheck(p.seg, p.protocol,
                                             UdpTcpCksum(blank, p.dst, target, p.protocol))
    BY <2>2, RewriteIs
  <2>6. r = sent[k].pkt  BY <1>3, <2>1, <2>4, <2>5 DEF SentInv
  <2>7. p.dst \in Address /\ p.seg \in Seq(Octet)  BY <2>2 DEF Packet, Bytes
  <2>8. ASSUME r.protocol \in {TCP, UDP}, r.opts = <<>>, ~r.frag
        PROVE  Verifies(r.seg, r.src, r.dst, r.protocol)
    <3>1. p.protocol \in {TCP, UDP} /\ p.protocol # ICMP /\ ~p.frag  BY <2>5, <2>8 DEF TCP, UDP, ICMP
    <3>2. PICK blank : blank = SetCheck(p.seg, p.protocol, <<0, 0>>)  OBVIOUS
    <3>3. PICK c : c = UdpTcpCksum(blank, p.dst, target, p.protocol)  OBVIOUS
    <3>4. p.opts = <<>> /\ r.seg = SetCheck(p.seg, p.protocol, c)  BY <2>5, <2>8, <3>1, <3>2, <3>3
    <3>5. CheckAt(p.protocol) + 1 <= Len(p.seg)
      BY <2>1, <2>2, <2>3, <3>1, <3>4 DEF WholeHeaders
    <3>6. Verifies(r.seg, p.dst, target, p.protocol)
      BY <2>7, <3>1, <3>2, <3>3, <3>4, <3>5, Accepted
    <3> QED BY <2>5, <3>6
  <2> QED BY <2>2, <2>4, <2>5, <2>6, <2>7, <2>8
<1>4. FlowInv /\ SentInv /\ Up => ProxyTypeOK
  <2> SUFFICES ASSUME FlowInv, SentInv, Up PROVE ProxyTypeOK
    OBVIOUS
  <2>1. TypeOK /\ Input \in Inputs[proxy_type] /\ tun \in 0 .. Len(Input)
        /\ data \in [Poppers -> (1 .. tun) \cup {NoItem}]
    BY DEF FlowInv, Inv, InputInv, CtlInv
  <2>2. sent \in Seq([item : 1 .. tun, pkt : Packet])
    <3>1. PICK S : sent \in Seq(S)  BY DEF FlowInv, PipeInv, SentSeq
    <3>2. \A k \in DOMAIN sent : sent[k].item \in 1 .. tun  BY DEF FlowInv, PipeInv, RangeInv
    <3>3. \A k \in DOMAIN sent : sent[k].pkt \in Packet  BY <1>3
    <3>4. \A k \in DOMAIN sent : sent[k] \in [item : 1 .. tun, pkt : Packet]
      BY <3>2, <3>3 DEF SentInv
    <3>5. PICK E : E = [item : 1 .. tun, pkt : Packet]  OBVIOUS
    <3>6. \A k \in DOMAIN sent : sent[k] \in E  BY <3>4, <3>5
    <3>7. sent \in Seq(E)
      <4>1. PICK n \in Nat : n = Len(sent) /\ sent = [k \in 1 .. n |-> sent[k]] /\ DOMAIN sent = 1 .. n
        BY ONLY <3>1
      <4>2. sent \in [1 .. n -> E]  BY ONLY <3>6, <4>1
      <4> QED BY ONLY <4>2, SeqDef, n \in Nat
    <3> QED BY <3>5, <3>7
  <2>3. status \in {"running", "exited"}  BY DEF Up
  <2> QED BY <2>1, <2>2, <2>3 DEF ProxyTypeOK
<1>5. FlowInv /\ SentInv /\ Up => ChecksumValid
  <2> SUFFICES ASSUME FlowInv, SentInv, Up PROVE ChecksumValid
    OBVIOUS
  <2> QED BY <1>3, <1>4 DEF ChecksumValid
<1> QED BY <1>2, <1>5, FlowSteps, StatusSteps, PTL
=============================================================================
