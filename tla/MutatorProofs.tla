---------------------------- MODULE MutatorProofs ----------------------------
(***************************************************************************)
(* Proofs about Mutator, for every command line and input that meets       *)
(* JobsAssumption: the raw stream is transparent without options, and with *)
(* them a query changes only as they allow.                                *)
(***************************************************************************)
EXTENDS Mutator, FiniteSetTheorems, SequenceTheorems, WellFoundedInduction, TLAPS

-----------------------------------------------------------------------------
(* Induction, and recursion along a sequence.                              *)

(* What holds of 0 and goes from each n to n + 1, as far as len, holds of  *)
(* len.                                                                    *)
LEMMA Climb ==
  ASSUME NEW S, NEW len \in Nat, 0 \in S, \A n \in Nat : n + 1 <= len /\ n \in S => n + 1 \in S
  PROVE  len \in S
<1> DEFINE Less == OpToRel(<, Nat)
           Missing == {n \in Nat : n <= len /\ n \notin S}
<1>1. SUFFICES ASSUME Missing # {} PROVE FALSE
  OBVIOUS
<1>2. IsWellFoundedOn(Less, Nat)  BY NatLessThanWellFounded
<1>3. PICK x \in Missing : \A y \in Missing : <<y, x>> \notin Less
  <2>1. Missing \subseteq Nat  OBVIOUS
  <2> HIDE DEF Missing, Less
  <2> QED BY <1>1, <1>2, <2>1, WFMin
<1>4. \A y \in Missing : ~(y < x)  BY <1>3 DEF OpToRel
<1>5. x \in Nat /\ x <= len /\ x \notin S  OBVIOUS
<1>6. x # 0  BY <1>5
<1>7. x - 1 \in Nat /\ x - 1 <= len /\ x - 1 < x /\ (x - 1) + 1 = x  BY <1>5, <1>6
<1>8. x - 1 \notin Missing  BY <1>4, <1>7
<1>9. x - 1 \in S  BY <1>7, <1>8
<1> QED BY <1>5, <1>7, <1>9

(* f is the course of a computation that takes len steps from base.        *)
Course(f, base, step, len, V) ==
  /\ f \in [0 .. len -> V] /\ f[0] = base
  /\ \A k \in 1 .. len : f[k] = step[<<k, f[k - 1]>>]

LEMMA CourseExists ==
  ASSUME NEW len \in Nat, NEW V, NEW base \in V, NEW step \in [(1 .. len) \X V -> V]
  PROVE  \E f : Course(f, base, step, len, V)
<1> DEFINE Upto(n) == \E f : Course(f, base, step, n, V)
           S == {n \in 0 .. len : Upto(n)}
<1>1. Upto(0)
  <2> DEFINE g == [k \in 0 .. 0 |-> base]
  <2>1. Course(g, base, step, 0, V)  BY DEF Course
  <2> QED BY <2>1
<1>2. ASSUME NEW n \in Nat, n + 1 <= len, Upto(n) PROVE Upto(n + 1)
  <2>1. PICK f : Course(f, base, step, n, V)  BY <1>2
  <2>2. f \in [0 .. n -> V] /\ f[0] = base /\ \A k \in 1 .. n : f[k] = step[<<k, f[k - 1]>>]
    BY <2>1 DEF Course
  <2>3. PICK last \in V : last = step[<<n + 1, f[n]>>]
    <3>1. n + 1 \in 1 .. len /\ n \in 0 .. n  BY <1>2
    <3>2. f[n] \in V  BY <2>2, <3>1
    <3> QED BY <3>1, <3>2
  <2> DEFINE g == [k \in 0 .. n + 1 |-> IF k <= n THEN f[k] ELSE last]
  <2>4. g \in [0 .. n + 1 -> V]
    <3>1. ASSUME NEW k \in 0 .. n + 1 PROVE (IF k <= n THEN f[k] ELSE last) \in V
      <4>1. k <= n => k \in 0 .. n  BY <1>2
      <4> QED BY <2>2, <2>3, <4>1
    <3> QED BY <3>1
  <2>5. g[0] = base  BY <1>2, <2>2
  <2>6. ASSUME NEW k \in 1 .. n + 1 PROVE g[k] = step[<<k, g[k - 1]>>]
    <3>1. k \in 0 .. n + 1 /\ k - 1 \in 0 .. n + 1 /\ k - 1 <= n  BY <1>2
    <3>2. g[k - 1] = f[k - 1]  BY <3>1
    <3>3. CASE k <= n
      <4>1. k \in 1 .. n  BY <1>2, <3>3
      <4>2. g[k] = f[k]  BY <3>1, <3>3
      <4> QED BY <2>2, <3>2, <4>1, <4>2
    <3>4. CASE ~(k <= n)
      <4>1. k = n + 1 /\ k - 1 = n  BY <1>2, <3>4
      <4>2. g[k] = last  BY <3>1, <3>4
      <4> QED BY <2>3, <3>2, <4>1, <4>2
    <3> QED BY <3>3, <3>4
  <2> HIDE DEF g
  <2>7. Course(g, base, step, n + 1, V)  BY <2>4, <2>5, <2>6 DEF Course
  <2> QED BY <2>7
<1>3. len \in S
  <2>1. 0 \in S  BY <1>1
  <2>2. ASSUME NEW n \in Nat, n + 1 <= len, n \in S PROVE n + 1 \in S
    <3>1. Upto(n)  BY <2>2
    <3>2. Upto(n + 1)  BY <1>2, <2>2, <3>1
    <3> HIDE DEF Upto
    <3> QED BY <2>2, <3>2
  <2> HIDE DEF S
  <2> QED BY <2>1, <2>2, Climb
<1> QED BY <1>3

-----------------------------------------------------------------------------
(* Numbers and sequences.                                                  *)

LEMMA MinFacts ==
  ASSUME NEW S, S \subseteq Nat, S # {}
  PROVE  Min(S) \in S /\ \A y \in S : Min(S) <= y
<1>1. PICK x \in S : \A y \in S : <<y, x>> \notin OpToRel(<, Nat)
  <2>1. IsWellFoundedOn(OpToRel(<, Nat), Nat)  BY NatLessThanWellFounded
  <2> QED BY <2>1, WFMin
<1>2. \A y \in S : ~(y < x)  BY <1>1 DEF OpToRel
<1>3. \A y \in S : x <= y  BY <1>2
<1> QED BY <1>3 DEF Min

(* What is left of f behind its first p items.                             *)
Rest(f, p) == SubSeq(f, p + 1, Len(f))

LEMMA RestFacts ==
  ASSUME NEW S, NEW f \in Seq(S), NEW p \in 0 .. Len(f)
  PROVE  /\ Rest(f, p) \in Seq(S) /\ Len(Rest(f, p)) = Len(f) - p
         /\ DOMAIN Rest(f, p) = 1 .. Len(f) - p
         /\ \A k \in 1 .. Len(f) - p : Rest(f, p)[k] = f[p + k]
<1>1. PICK len \in Nat : len = Len(f)  OBVIOUS
<1>2. p \in Nat /\ p <= len  BY <1>1
<1>3. \A k \in p + 1 .. len : f[k] \in S  BY <1>1, <1>2
<1>4. PICK g : g = Rest(f, p)  OBVIOUS
<1>5. /\ g \in Seq(S) /\ Len(g) = (IF p + 1 <= len THEN len - (p + 1) + 1 ELSE 0)
      /\ \A k \in 1 .. len - (p + 1) + 1 : g[k] = f[(p + 1) + k - 1]
  <2>1. p + 1 \in 1 .. len + 1 /\ len \in p .. len + 1  BY <1>2
  <2> QED BY <1>1, <1>2, <1>3, <1>4, <2>1, SubSeqProperties DEF Rest
<1>6. Len(g) = len - p /\ len - (p + 1) + 1 = len - p  BY <1>2, <1>5
<1>7. \A k \in 1 .. len - p : (p + 1) + k - 1 = p + k  BY <1>2
<1> QED BY <1>1, <1>4, <1>5, <1>6, <1>7

LEMMA RestOfRest ==
  ASSUME NEW S, NEW f \in Seq(S), NEW p \in 0 .. Len(f), NEW m \in 1 .. Len(f) - p
  PROVE  /\ SubSeq(Rest(f, p), m, Len(Rest(f, p))) = Rest(f, p + m - 1)
         /\ Head(Rest(f, p + m - 1)) = f[p + m] /\ Tail(Rest(f, p + m - 1)) = Rest(f, p + m)
         /\ Rest(f, p + m - 1) # <<>>
<1>1. PICK len \in Nat : len = Len(f)  OBVIOUS
<1>2. p \in Nat /\ m \in Nat /\ m >= 1 /\ p + m <= len  BY <1>1
<1>3. PICK t \in Nat : t = p + m - 1  BY <1>2
<1>4. t \in 0 .. len /\ t + 1 = p + m /\ t + 1 \in 0 .. len  BY <1>2, <1>3
<1>5. PICK g : g = Rest(f, p)  OBVIOUS
<1>6. PICK h : h = Rest(f, t)  OBVIOUS
<1>7. PICK r : r = Rest(f, t + 1)  OBVIOUS
<1>8. g \in Seq(S) /\ Len(g) = len - p /\ \A k \in 1 .. len - p : g[k] = f[p + k]
  BY <1>1, <1>5, RestFacts
<1>9. h \in Seq(S) /\ Len(h) = len - t /\ \A k \in 1 .. len - t : h[k] = f[t + k]
  BY <1>1, <1>4, <1>6, RestFacts
<1>10. r \in Seq(S) /\ Len(r) = len - (t + 1) /\ \A k \in 1 .. len - (t + 1) : r[k] = f[(t + 1) + k]
  BY <1>1, <1>4, <1>7, RestFacts
<1>11. SubSeq(g, m, len - p) = h
  <2>1. PICK w : w = SubSeq(g, m, len - p)  OBVIOUS
  <2>2. w \in Seq(S) /\ Len(w) = len - p - m + 1 /\ \A k \in 1 .. len - p - m + 1 : w[k] = g[m + k - 1]
    <3>1. m \in 1 .. (len - p) + 1 /\ len - p \in m - 1 .. (len - p) + 1 /\ m <= len - p  BY <1>2
    <3>2. \A k \in m .. len - p : g[k] \in S  BY <1>2, <1>8
    <3>3. /\ w \in Seq(S) /\ Len(w) = IF m <= len - p THEN (len - p) - m + 1 ELSE 0
          /\ \A k \in 1 .. (len - p) - m + 1 : w[k] = g[m + k - 1]
      BY <1>8, <2>1, <3>1, <3>2, SubSeqProperties
    <3> QED BY <3>1, <3>3
  <2>3. Len(w) = len - t  BY <1>2, <1>3, <2>2
  <2>4. ASSUME NEW k \in 1 .. len - t PROVE w[k] = h[k]
    <3>1. k \in 1 .. len - p - m + 1 /\ m + k - 1 \in 1 .. len - p /\ p + (m + k - 1) = t + k
      BY <1>2, <1>3
    <3> QED BY <1>8, <1>9, <2>2, <3>1
  <2> QED BY <1>9, <2>1, <2>2, <2>3, <2>4, SeqEqual
<1>12. Len(h) >= 1 /\ h # <<>> /\ Head(h) = f[p + m]
  <2>1. Len(h) >= 1 /\ 1 \in 1 .. len - t  BY <1>2, <1>4, <1>9
  <2> QED BY <1>4, <1>9, <2>1
<1>13. Tail(h) = r
  <2>1. PICK w : w = Tail(h)  OBVIOUS
  <2>2. w \in Seq(S) /\ Len(w) = len - t - 1 /\ \A k \in 1 .. len - t - 1 : w[k] = h[k + 1]
    BY <1>9, <1>12, <2>1
  <2>3. ASSUME NEW k \in 1 .. len - (t + 1) PROVE w[k] = r[k]
    <3>1. k \in 1 .. len - t - 1 /\ k + 1 \in 1 .. len - t /\ t + (k + 1) = (t + 1) + k  BY <1>4
    <3> QED BY <1>9, <1>10, <2>2, <3>1
  <2>4. Len(w) = len - (t + 1)  BY <1>4, <2>2
  <2> QED BY <1>10, <2>1, <2>2, <2>3, <2>4
<1> QED BY <1>1, <1>3, <1>4, <1>5, <1>6, <1>7, <1>8, <1>11, <1>12, <1>13

LEMMA RestIsSuffix ==
  ASSUME NEW S, NEW f \in Seq(S), NEW p \in 0 .. Len(f)
  PROVE  IsSuffix(Rest(f, p), f)
<1>1. PICK len \in Nat : len = Len(f)  OBVIOUS
<1>2. p \in Nat /\ p <= len  BY <1>1
<1>3. PICK g : g = Rest(f, p)  OBVIOUS
<1>4. g \in Seq(S) /\ Len(g) = len - p /\ \A k \in 1 .. len - p : g[k] = f[p + k]
  BY <1>1, <1>3, RestFacts
<1>5. PICK a : a = Reverse(g)  OBVIOUS
<1>6. PICK b : b = Reverse(f)  OBVIOUS
<1>7. a = [k \in 1 .. len - p |-> g[((len - p) - k) + 1]]  BY <1>4, <1>5 DEF Reverse
<1>8. b = [k \in 1 .. len |-> f[(len - k) + 1]]  BY <1>1, <1>6 DEF Reverse
<1>9. a \in Seq(S) /\ Len(a) = len - p
  <2>1. \A k \in 1 .. len - p : ((len - p) - k) + 1 \in 1 .. len - p  BY <1>2
  <2>2. \A k \in 1 .. len - p : g[((len - p) - k) + 1] \in S  BY <1>4, <2>1
  <2>3. a \in [1 .. len - p -> S] /\ len - p \in Nat  BY <1>2, <1>7, <2>2
  <2> QED BY <2>3
<1>10. b \in Seq(S) /\ Len(b) = len
  <2>1. \A k \in 1 .. len : (len - k) + 1 \in 1 .. len  OBVIOUS
  <2>2. \A k \in 1 .. len : f[(len - k) + 1] \in S  BY <1>1, <2>1
  <2>3. b \in [1 .. len -> S]  BY <1>8, <2>2
  <2> QED BY <2>3
<1>11. \A k \in 1 .. len - p : a[k] = b[k]
  <2>1. ASSUME NEW k \in 1 .. len - p PROVE a[k] = b[k]
    <3>1. /\ ((len - p) - k) + 1 \in 1 .. len - p /\ p + (((len - p) - k) + 1) = (len - k) + 1
          /\ k \in 1 .. len
      BY <1>2
    <3> QED BY <1>4, <1>7, <1>8, <3>1
  <2> QED BY <2>1
<1>12. SubSeq(a, 1, len - p) = SubSeq(b, 1, len - p)
  <2>1. SubSeq(a, 1, len - p) = [k \in 1 .. len - p |-> a[k]]  BY <1>2, <1>9
  <2>2. SubSeq(b, 1, len - p) = [k \in 1 .. len - p |-> b[k]]  BY <1>2, <1>10
  <2> QED BY <1>11, <2>1, <2>2
<1>13. len - p <= len  BY <1>2
<1> QED BY <1>3, <1>5, <1>6, <1>9, <1>10, <1>12, <1>13 DEF IsSuffix, IsPrefix

LEMMA ModFacts ==
  ASSUME NEW c \in Nat, NEW d \in Nat \ {0}
  PROVE  /\ c % d \in 0 .. d - 1
         /\ c < d => c % d = c
         /\ (c + 1) % d = IF c % d = d - 1 THEN 0 ELSE (c % d) + 1
<1>1. PICK u : u = c \div d  OBVIOUS
<1>2. PICK r : r = c % d  OBVIOUS
<1>3. PICK v : v = (c + 1) \div d  OBVIOUS
<1>4. PICK s : s = (c + 1) % d  OBVIOUS
<1>5. u \in Int /\ r \in 0 .. d - 1 /\ c = u * d + r
  <2>1. u \in Int  BY <1>1
  <2>2. c = u * d + r  BY <1>1, <1>2
  <2>3. r \in 0 .. d - 1  BY <1>2
  <2> QED BY <2>1, <2>2, <2>3
<1>6. v \in Int /\ s \in 0 .. d - 1 /\ c + 1 = v * d + s
  <2>1. v \in Int  BY <1>3
  <2>2. c + 1 = v * d + s  BY <1>3, <1>4
  <2>3. s \in 0 .. d - 1  BY <1>4
  <2> QED BY <2>1, <2>2, <2>3
<1> HIDE <1>1, <1>2, <1>3, <1>4
<1>7. c < d => r = c
  <2>1. CASE u = 0  BY <1>5, <2>1
  <2>2. CASE u >= 1
    <3>1. u * d >= d  BY <1>5, <2>2
    <3> QED BY <1>5, <3>1
  <2>3. CASE u <= -1
    <3>1. u * d <= -d  BY <1>5, <2>3
    <3> QED BY <1>5, <3>1
  <2> QED BY <1>5, <2>1, <2>2, <2>3
<1>8. s = IF r = d - 1 THEN 0 ELSE r + 1
  <2>1. PICK e \in Int : e = v - u  BY <1>5, <1>6
  <2>2. v = u + e  BY <1>5, <1>6, <2>1
  <2>3. v * d = u * d + e * d  BY <1>5, <2>2
  <2>4. r + 1 = e * d + s
    <3>1. PICK a \in Int : a = u * d  BY <1>5
    <3>2. PICK b \in Int : b = v * d  BY <1>6
    <3>3. PICK x \in Int : x = e * d  OBVIOUS
    <3>4. b = a + x /\ c = a + r /\ c + 1 = b + s  BY <1>5, <1>6, <2>3, <3>1, <3>2, <3>3
    <3>5. r \in Int /\ s \in Int  BY <1>5, <1>6
    <3>6. r + 1 = x + s  BY ONLY <3>4, <3>5, a \in Int, b \in Int, x \in Int, c \in Nat
    <3> QED BY <3>3, <3>6
  <2>5. CASE e = 0
    <3>1. r + 1 = s  BY <1>6, <2>4, <2>5
    <3> QED BY <1>5, <1>6, <3>1
  <2>6. CASE e = 1
    <3>1. r + 1 = d + s  BY <2>4, <2>6
    <3> QED BY <1>5, <1>6, <3>1
  <2>7. CASE e >= 2
    <3>1. e * d >= 2 * d  BY <2>7
    <3> QED BY <1>5, <1>6, <2>4, <3>1
  <2>8. CASE e <= -1
    <3>1. e * d <= -d  BY <2>8
    <3> QED BY <1>5, <1>6, <2>4, <3>1
  <2> QED BY <2>5, <2>6, <2>7, <2>8
<1> QED BY <1>2, <1>4, <1>5, <1>7, <1>8

-----------------------------------------------------------------------------
(* Where one call of get() takes its item from: it passes over comments    *)
(* of a text file only.                                                    *)
Passed(fmt, f, a, b) == \A k \in a .. b : fmt = "text" /\ f[k].form = "comment"

LEMMA SourceFacts ==
  ASSUME NEW S, NEW f \in Seq(S), NEW p \in 0 .. Len(f), NEW fmt
  PROVE  \/ Source(fmt, Rest(f, p)) = <<>> /\ Passed(fmt, f, p + 1, Len(f))
         \/ \E q \in p + 1 .. Len(f) :
              /\ Source(fmt, Rest(f, p)) # <<>> /\ Head(Source(fmt, Rest(f, p))) = f[q]
              /\ Tail(Source(fmt, Rest(f, p))) = Rest(f, q)
              /\ Passed(fmt, f, p + 1, q - 1)
<1>1. PICK len \in Nat : len = Len(f)  OBVIOUS
<1>2. p \in Nat /\ p <= len  BY <1>1
<1>3. PICK g : g = Rest(f, p)  OBVIOUS
<1>4. /\ g \in Seq(S) /\ Len(g) = len - p /\ DOMAIN g = 1 .. len - p
      /\ \A k \in 1 .. len - p : g[k] = f[p + k]
  BY <1>1, <1>3, RestFacts
<1>5. PICK s : s = Source(fmt, g)  OBVIOUS
<1>6. ASSUME NEW m \in 1 .. len - p, s = SubSeq(g, m, Len(g)), \A k \in 1 .. m - 1 : fmt = "text" /\ g[k].form = "comment"
      PROVE  \E q \in p + 1 .. len :
               /\ s # <<>> /\ Head(s) = f[q] /\ Tail(s) = Rest(f, q)
               /\ Passed(fmt, f, p + 1, q - 1)
  <2>1. /\ s = Rest(f, p + m - 1)
        /\ Head(Rest(f, p + m - 1)) = f[p + m] /\ Tail(Rest(f, p + m - 1)) = Rest(f, p + m)
        /\ Rest(f, p + m - 1) # <<>>
    BY <1>1, <1>3, <1>6, RestOfRest
  <2>2. s # <<>> /\ Head(s) = f[p + m] /\ Tail(s) = Rest(f, p + m)  BY <2>1
  <2>3. Passed(fmt, f, p + 1, (p + m) - 1)
    <3>1. ASSUME NEW k \in p + 1 .. (p + m) - 1 PROVE fmt = "text" /\ f[k].form = "comment"
      <4>1. k - p \in 1 .. m - 1 /\ k - p \in 1 .. len - p /\ p + (k - p) = k  BY <1>2
      <4>2. g[k - p] = f[k]  BY <1>4, <4>1
      <4> QED BY <1>6, <4>1, <4>2
    <3> QED BY <3>1 DEF Passed
  <2>4. p + m \in p + 1 .. len  BY <1>2
  <2> QED BY <2>2, <2>3, <2>4
<1>7. CASE fmt # "text"
  <2>1. s = g  BY <1>5, <1>7 DEF Source
  <2>2. CASE p = len
    <3>1. g = <<>>  BY <1>4, <2>2
    <3>2. Passed(fmt, f, p + 1, len)  BY <1>2, <2>2 DEF Passed
    <3> QED BY <1>1, <1>3, <1>5, <2>1, <3>1, <3>2
  <2>3. CASE p # len
    <3>1. 1 \in 1 .. len - p  BY <1>2, <2>3
    <3>2. s = SubSeq(g, 1, Len(g))  BY <1>4, <2>1, SubSeqFull
    <3>3. \A k \in 1 .. 1 - 1 : fmt = "text" /\ g[k].form = "comment"  OBVIOUS
    <3> QED BY <1>1, <1>3, <1>5, <1>6, <3>1, <3>2, <3>3
  <2> QED BY <2>2, <2>3
<1>8. CASE fmt = "text"
  <2> DEFINE lines == {k \in DOMAIN g : g[k].form # "comment"}
  <2>1. s = IF lines = {} THEN <<>> ELSE SubSeq(g, Min(lines), Len(g))
    BY <1>5, <1>8 DEF Source, SkipComments
  <2>2. CASE lines = {}
    <3>1. ASSUME NEW k \in p + 1 .. len PROVE f[k].form = "comment"
      <4>1. k - p \in 1 .. len - p /\ p + (k - p) = k  BY <1>2
      <4>2. g[k - p] = f[k]  BY <1>4, <4>1
      <4> QED BY <1>4, <2>2, <4>1, <4>2
    <3>2. Passed(fmt, f, p + 1, len)  BY <1>8, <3>1 DEF Passed
    <3> QED BY <1>1, <1>3, <1>5, <2>1, <2>2, <3>2
  <2>3. CASE lines # {}
    <3>1. lines \subseteq 1 .. len - p /\ lines \subseteq Nat  BY <1>4
    <3>2. PICK m : m = Min(lines)  OBVIOUS
    <3>3. m \in lines /\ \A y \in lines : m <= y  BY <2>3, <3>1, <3>2, MinFacts
    <3>4. m \in 1 .. len - p  BY <3>1, <3>3
    <3>5. s = SubSeq(g, m, Len(g))  BY <2>1, <2>3, <3>2
    <3>6. ASSUME NEW k \in 1 .. m - 1 PROVE fmt = "text" /\ g[k].form = "comment"
      <4>1. k \in DOMAIN g /\ ~(m <= k)  BY <1>2, <1>4, <3>4
      <4>2. k \notin lines  BY <3>3, <4>1
      <4> QED BY <1>8, <4>1, <4>2
    <3> HIDE DEF lines
    <3> QED BY <1>1, <1>3, <1>5, <1>6, <3>4, <3>5, <3>6
  <2> QED BY <2>2, <2>3
<1> QED BY <1>7, <1>8

-----------------------------------------------------------------------------
(* The messages of an input.                                               *)
Full == {m \in Messages : m.raw # <<>>}
Msg(j, k) == Process(j.ift, j.input[k])
Quiet(j, k) == \A l \in 1 .. k : ~EndsProcess(j.ift, j.input[l])
Counts(j, k) == Msg(j, k).raw # <<>> /\ Quiet(j, k)

LEMMA MsgFacts ==
  ASSUME NEW j \in Jobs
  PROVE  /\ j.input \in Seq(ToSet(j.input)) /\ Len(j.input) \in Nat
         /\ \A k \in 1 .. Len(j.input) : Msg(j, k).raw # <<>> => Msg(j, k) \in Full
         /\ \A a, b \in 1 .. Len(j.input) :
              Msg(j, a).raw # <<>> /\ Msg(j, b).raw # <<>> /\ Msg(j, a).id = Msg(j, b).id => a = b
<1>1. /\ j.input \in Seq(ToSet(j.input))
      /\ \A item \in ToSet(j.input) : Process(j.ift, item) \in Messages \cup {NoRaw}
  BY JobsAssumption
<1>2. \A a, b \in DOMAIN j.input :
        Msg(j, a).raw # <<>> /\ Msg(j, b).raw # <<>> /\ Msg(j, a).id = Msg(j, b).id => a = b
  BY JobsAssumption DEF Msg
<1>3. Len(j.input) \in Nat /\ DOMAIN j.input = 1 .. Len(j.input)  BY <1>1
<1>4. ASSUME NEW k \in 1 .. Len(j.input), Msg(j, k).raw # <<>> PROVE Msg(j, k) \in Full
  <2>1. j.input[k] \in ToSet(j.input)  BY <1>3 DEF ToSet
  <2>2. Msg(j, k) \in Messages \cup {NoRaw}  BY <1>1, <2>1 DEF Msg
  <2>3. NoRaw.raw = <<>>  BY DEF NoRaw
  <2> QED BY <1>4, <2>2, <2>3 DEF Full
<1> QED BY <1>1, <1>2, <1>3, <1>4

LEMMA DirectFacts ==
  ASSUME NEW j \in Jobs
  PROVE  /\ DirectOf(j) \in [0 .. Len(j.input) -> Seq(Full)] /\ DirectOf(j)[0] = <<>>
         /\ \A k \in 1 .. Len(j.input) :
              DirectOf(j)[k] = IF Counts(j, k) THEN Append(DirectOf(j)[k - 1], Msg(j, k))
                               ELSE DirectOf(j)[k - 1]
<1>1. PICK len \in Nat : len = Len(j.input)  BY MsgFacts
<1>2. PICK V : V = Seq(Full)  OBVIOUS
<1>3. ASSUME NEW k \in 1 .. len, NEW v \in V
      PROVE  (IF Counts(j, k) THEN Append(v, Msg(j, k)) ELSE v) \in V
  <2>1. Counts(j, k) => Msg(j, k) \in Full  BY <1>1, MsgFacts DEF Counts
  <2> QED BY <1>2, <2>1
<1> DEFINE Rule(g) ==
      g = [k \in 0 .. Len(j.input) |->
             IF k = 0 THEN <<>>
             ELSE IF /\ Process(j.ift, j.input[k]).raw # <<>>
                     /\ \A l \in 1 .. k : ~EndsProcess(j.ift, j.input[l])
             THEN Append(g[k - 1], Process(j.ift, j.input[k]))
             ELSE g[k - 1]]
<1>4. PICK D : D = CHOOSE g : Rule(g)  OBVIOUS
<1>5. DirectOf(j) = D  BY <1>4 DEF DirectOf
<1>6. <<>> \in V  BY <1>2
<1>7. \E f : Rule(f)
  <2> DEFINE step == [x \in (1 .. len) \X V |->
               IF Counts(j, x[1]) THEN Append(x[2], Msg(j, x[1])) ELSE x[2]]
  <2>1. step \in [(1 .. len) \X V -> V]
    <3>1. ASSUME NEW x \in (1 .. len) \X V
          PROVE  (IF Counts(j, x[1]) THEN Append(x[2], Msg(j, x[1])) ELSE x[2]) \in V
      <4>1. x[1] \in 1 .. len /\ x[2] \in V  OBVIOUS
      <4> QED BY <1>3, <4>1
    <3> QED BY <3>1
  <2>2. \A k \in 1 .. len : \A v \in V :
          step[<<k, v>>] = IF Counts(j, k) THEN Append(v, Msg(j, k)) ELSE v
    OBVIOUS
  <2> HIDE DEF step
  <2>3. PICK f : Course(f, <<>>, step, len, V)  BY <1>6, <2>1, CourseExists
  <2>4. f \in [0 .. len -> V] /\ f[0] = <<>> /\ \A k \in 1 .. len : f[k] = step[<<k, f[k - 1]>>]
    BY <2>3 DEF Course
  <2>5. ASSUME NEW k \in 0 .. len
        PROVE  f[k] = IF k = 0 THEN <<>>
                      ELSE IF Counts(j, k) THEN Append(f[k - 1], Msg(j, k)) ELSE f[k - 1]
    <3>1. CASE k = 0  BY <2>4, <3>1
    <3>2. CASE k # 0
      <4>1. k \in 1 .. len /\ k - 1 \in 0 .. len  BY <3>2
      <4>2. f[k - 1] \in V  BY <2>4, <4>1
      <4> QED BY <2>2, <2>4, <3>2, <4>1, <4>2
    <3> QED BY <3>1, <3>2
  <2>6. Rule(f)  BY <1>1, <2>4, <2>5 DEF Counts, Msg, Quiet
  <2> QED BY <2>6
<1>8. Rule(D)
  <2> HIDE DEF Rule
  <2> QED BY <1>4, <1>7
<1>9. D = [k \in 0 .. len |->
             IF k = 0 THEN <<>>
             ELSE IF Counts(j, k) THEN Append(D[k - 1], Msg(j, k)) ELSE D[k - 1]]
  BY <1>1, <1>8 DEF Counts, Msg, Quiet
<1>10. ASSUME NEW k \in 1 .. len PROVE D[k] = IF Counts(j, k) THEN Append(D[k - 1], Msg(j, k)) ELSE D[k - 1]
  <2>1. k \in 0 .. len /\ k # 0  OBVIOUS
  <2>2. D[k] = IF k = 0 THEN <<>> ELSE IF Counts(j, k) THEN Append(D[k - 1], Msg(j, k)) ELSE D[k - 1]
    BY ONLY <1>9, <2>1
  <2> QED BY <2>1, <2>2
<1> DEFINE T == {n \in 0 .. len : D[n] \in V}
<1>11. D[0] = <<>>  BY <1>9
<1>12. ASSUME NEW n \in Nat, n + 1 <= len, n \in T PROVE n + 1 \in T
  <2>1. n + 1 \in 1 .. len /\ n + 1 \in 0 .. len /\ (n + 1) - 1 = n  BY <1>12
  <2>2. D[n + 1] = IF Counts(j, n + 1) THEN Append(D[n], Msg(j, n + 1)) ELSE D[n]
    BY <1>10, <2>1
  <2>3. D[n] \in V  BY <1>12
  <2>4. D[n + 1] \in V  BY <1>3, <2>1, <2>2, <2>3
  <2> QED BY <2>1, <2>4
<1>13. ASSUME NEW k \in 0 .. len PROVE D[k] \in V
  <2>1. k \in Nat /\ k <= len  OBVIOUS
  <2>2. 0 \in T  BY <1>6, <1>11
  <2>3. \A n \in Nat : n + 1 <= k /\ n \in T => n + 1 \in T
    <3>1. ASSUME NEW n \in Nat, n + 1 <= k, n \in T PROVE n + 1 \in T
      <4>1. n + 1 <= len  BY <2>1, <3>1
      <4> HIDE DEF T
      <4> QED BY <1>12, <3>1, <4>1
    <3> QED BY <3>1
  <2>4. k \in T
    <3> HIDE DEF T
    <3> QED BY <2>1, <2>2, <2>3, Climb
  <2> QED BY <2>4
<1>14. D \in [0 .. len -> V]
  <2>1. DOMAIN D = 0 .. len /\ D = [k \in 0 .. len |-> D[k]]  BY <1>9
  <2> QED BY <1>13, <2>1
<1> QED BY <1>1, <1>2, <1>5, <1>10, <1>11, <1>14

(* The messages grow with the input, by those items only that count.       *)
LEMMA DirectGrows ==
  ASSUME NEW j \in Jobs, NEW k \in 0 .. Len(j.input), NEW m \in k .. Len(j.input)
  PROVE  /\ DirectOf(j)[k] \in Seq(Full) /\ DirectOf(j)[m] \in Seq(Full)
         /\ Len(DirectOf(j)[k]) <= Len(DirectOf(j)[m])
         /\ \A n \in 1 .. Len(DirectOf(j)[k]) : DirectOf(j)[m][n] = DirectOf(j)[k][n]
         /\ (\A l \in k + 1 .. m : ~Counts(j, l)) => DirectOf(j)[m] = DirectOf(j)[k]
<1>1. PICK len \in Nat : len = Len(j.input)  BY MsgFacts
<1>2. k \in Nat /\ k <= len  BY <1>1
<1>3. PICK D : D = DirectOf(j)  OBVIOUS
<1>4. /\ D \in [0 .. len -> Seq(Full)]
      /\ \A x \in 1 .. len : D[x] = IF Counts(j, x) THEN Append(D[x - 1], Msg(j, x)) ELSE D[x - 1]
  BY <1>1, <1>3, DirectFacts
<1> DEFINE Good(x) ==
      /\ Len(D[k]) <= Len(D[k + x])
      /\ \A n \in 1 .. Len(D[k]) : D[k + x][n] = D[k][n]
      /\ (\A l \in k + 1 .. k + x : ~Counts(j, l)) => D[k + x] = D[k]
           T == {x \in 0 .. len - k : Good(x)}
<1>5. D[k] \in Seq(Full) /\ Len(D[k]) \in Nat  BY <1>2, <1>4
<1>6. 0 \in T
  <2>1. k + 0 = k /\ 0 \in 0 .. len - k  BY <1>2
  <2>2. Good(0)  BY <1>5, <2>1
  <2> QED BY <2>1, <2>2
<1>7. ASSUME NEW x \in Nat, x + 1 <= len - k, x \in T PROVE x + 1 \in T
  <2>1. PICK y \in Nat : y = k + x  BY <1>2
  <2>2. y + 1 = k + (x + 1) /\ y + 1 \in 1 .. len /\ y \in 0 .. len /\ (y + 1) - 1 = y /\ x + 1 \in 0 .. len - k
    BY <1>2, <1>7, <2>1
  <2>3. Good(x)  BY <1>7
  <2>4. /\ Len(D[k]) <= Len(D[y]) /\ \A n \in 1 .. Len(D[k]) : D[y][n] = D[k][n]
        /\ (\A l \in k + 1 .. y : ~Counts(j, l)) => D[y] = D[k]
    BY <2>1, <2>3
  <2>5. D[y] \in Seq(Full)  BY <1>4, <2>2
  <2>6. D[y + 1] = IF Counts(j, y + 1) THEN Append(D[y], Msg(j, y + 1)) ELSE D[y]  BY <1>4, <2>2
  <2>7. Len(D[k]) <= Len(D[y + 1]) /\ \A n \in 1 .. Len(D[k]) : D[y + 1][n] = D[k][n]
    <3>1. CASE ~Counts(j, y + 1)  BY <2>4, <2>6, <3>1
    <3>2. CASE Counts(j, y + 1)
      <4>1. Msg(j, y + 1) \in Full  BY <1>1, <2>2, <3>2, MsgFacts DEF Counts
      <4>2. Len(D[y]) \in Nat /\ Len(D[y + 1]) = Len(D[y]) + 1 /\ \A n \in 1 .. Len(D[y]) : D[y + 1][n] = D[y][n]
        BY <2>5, <2>6, <3>2, <4>1
      <4>3. \A n \in 1 .. Len(D[k]) : n \in 1 .. Len(D[y])  BY <1>5, <2>4, <4>2
      <4> QED BY <1>5, <2>4, <4>2, <4>3
    <3> QED BY <3>1, <3>2
  <2>8. ASSUME \A l \in k + 1 .. y + 1 : ~Counts(j, l) PROVE D[y + 1] = D[k]
    <3>1. y + 1 \in k + 1 .. y + 1 /\ \A l \in k + 1 .. y : l \in k + 1 .. y + 1  BY <1>2, <2>1
    <3>2. ~Counts(j, y + 1) /\ \A l \in k + 1 .. y : ~Counts(j, l)  BY <2>8, <3>1
    <3> QED BY <2>4, <2>6, <3>2
  <2>9. Good(x + 1)  BY <2>2, <2>7, <2>8
  <2> QED BY <2>2, <2>9
<1>8. PICK x \in Nat : x = m - k /\ x <= len - k /\ k + x = m  BY <1>1, <1>2
<1>9. x \in T
  <2>1. ASSUME NEW n \in Nat, n + 1 <= x, n \in T PROVE n + 1 \in T
    <3>1. n + 1 <= len - k  BY <1>2, <1>8, <2>1
    <3> HIDE DEF T
    <3> QED BY <1>7, <2>1, <3>1
  <2> HIDE DEF T
  <2> QED BY <1>6, <2>1, Climb
<1>10. Good(x)  BY <1>9
<1>11. D[m] \in Seq(Full)  BY <1>1, <1>2, <1>4
<1> QED BY <1>3, <1>5, <1>8, <1>10, <1>11

(* An item that counts is one of the messages; and a message of the input  *)
(* is known by its id.                                                     *)
LEMMA DirectHolds ==
  ASSUME NEW j \in Jobs, NEW k \in 1 .. Len(j.input), Counts(j, k)
  PROVE  /\ Msg(j, k) \in Full
         /\ DirectOf(j)[k] = Append(DirectOf(j)[k - 1], Msg(j, k))
         /\ Len(DirectOf(j)[k - 1]) \in Nat
         /\ Len(DirectOf(j)[k - 1]) + 1 <= Len(DirectOf(j)[Len(j.input)])
         /\ DirectOf(j)[Len(j.input)][Len(DirectOf(j)[k - 1]) + 1] = Msg(j, k)
<1>1. PICK len \in Nat : len = Len(j.input)  BY MsgFacts
<1>2. k \in 1 .. len /\ k - 1 \in 0 .. len /\ k \in 0 .. len /\ len \in k .. len  BY <1>1
<1>3. PICK D : D = DirectOf(j)  OBVIOUS
<1>4. D[k] = Append(D[k - 1], Msg(j, k)) /\ D[k - 1] \in Seq(Full)  BY <1>1, <1>2, <1>3, DirectFacts
<1>5. Msg(j, k) \in Full  BY <1>1, <1>2, MsgFacts DEF Counts
<1>6. Len(D[k - 1]) \in Nat /\ Len(D[k]) = Len(D[k - 1]) + 1 /\ D[k][Len(D[k - 1]) + 1] = Msg(j, k)
  BY <1>4, <1>5
<1>7. Len(D[k]) <= Len(D[len]) /\ \A n \in 1 .. Len(D[k]) : D[len][n] = D[k][n]
  BY <1>1, <1>2, <1>3, DirectGrows
<1>8. Len(D[k - 1]) + 1 \in 1 .. Len(D[k])  BY <1>6
<1> QED BY <1>1, <1>3, <1>4, <1>5, <1>6, <1>7, <1>8

LEMMA DirectComes ==
  ASSUME NEW j \in Jobs, NEW d \in Range(DirectOf(j)[Len(j.input)])
  PROVE  \E k \in 1 .. Len(j.input) : Counts(j, k) /\ d = Msg(j, k)
<1>1. PICK len \in Nat : len = Len(j.input)  BY MsgFacts
<1>2. PICK D : D = DirectOf(j)  OBVIOUS
<1>3. /\ D \in [0 .. len -> Seq(Full)] /\ D[0] = <<>>
      /\ \A x \in 1 .. len : D[x] = IF Counts(j, x) THEN Append(D[x - 1], Msg(j, x)) ELSE D[x - 1]
  BY <1>1, <1>2, DirectFacts
<1> DEFINE Good(x) == \A n \in 1 .. Len(D[x]) : \E k \in 1 .. len : Counts(j, k) /\ D[x][n] = Msg(j, k)
           T == {x \in 0 .. len : Good(x)}
<1>4. 0 \in T
  <2>1. Len(D[0]) = 0  BY <1>3
  <2>2. Good(0)  BY <2>1
  <2> QED BY <2>2
<1>5. ASSUME NEW x \in Nat, x + 1 <= len, x \in T PROVE x + 1 \in T
  <2>1. x + 1 \in 1 .. len /\ x + 1 \in 0 .. len /\ (x + 1) - 1 = x /\ x \in 0 .. len  BY <1>5
  <2>2. Good(x)  BY <1>5
  <2>3. D[x] \in Seq(Full)  BY <1>3, <2>1
  <2>4. D[x + 1] = IF Counts(j, x + 1) THEN Append(D[x], Msg(j, x + 1)) ELSE D[x]  BY <1>3, <2>1
  <2>5. CASE ~Counts(j, x + 1)
    <3>1. Good(x + 1)  BY <2>2, <2>4, <2>5
    <3> QED BY <2>1, <3>1
  <2>6. CASE Counts(j, x + 1)
    <3>1. Msg(j, x + 1) \in Full  BY <1>1, <2>1, <2>6, MsgFacts DEF Counts
    <3>2. PICK l \in Nat : l = Len(D[x])  BY <2>3
    <3>3. /\ Len(D[x + 1]) = l + 1 /\ D[x + 1][l + 1] = Msg(j, x + 1)
          /\ \A n \in 1 .. l : D[x + 1][n] = D[x][n]
      BY <2>3, <2>4, <2>6, <3>1, <3>2
    <3>4. ASSUME NEW n \in 1 .. Len(D[x + 1])
          PROVE  \E k \in 1 .. len : Counts(j, k) /\ D[x + 1][n] = Msg(j, k)
      <4>1. CASE n = l + 1  BY <2>1, <2>6, <3>3, <4>1
      <4>2. CASE n # l + 1
        <5>1. n \in 1 .. l  BY <3>3, <4>2
        <5> QED BY <2>2, <3>2, <3>3, <5>1
      <4> QED BY <4>1, <4>2
    <3>5. Good(x + 1)  BY <3>4
    <3> QED BY <2>1, <3>5
  <2> QED BY <2>5, <2>6
<1>6. len \in T
  <2> HIDE DEF T
  <2> QED BY <1>4, <1>5, Climb
<1>7. Good(len)  BY <1>6
<1>8. D[len] \in Seq(Full)  BY <1>3
<1>9. PICK n \in 1 .. Len(D[len]) : d = D[len][n]  BY <1>1, <1>2, <1>8 DEF Range
<1> QED BY <1>1, <1>7, <1>9

LEMMA DirectIds ==
  ASSUME NEW j \in Jobs, NEW d \in Range(DirectOf(j)[Len(j.input)]), NEW e \in Range(DirectOf(j)[Len(j.input)]),
         d.id = e.id
  PROVE  d = e
<1>1. PICK a \in 1 .. Len(j.input) : Counts(j, a) /\ d = Msg(j, a)  BY DirectComes
<1>2. PICK b \in 1 .. Len(j.input) : Counts(j, b) /\ e = Msg(j, b)  BY DirectComes
<1>3. a = b  BY <1>1, <1>2, MsgFacts DEF Counts
<1> QED BY <1>1, <1>2, <1>3

-----------------------------------------------------------------------------
(* What the changes make of a query.                                       *)
Fields == Header \cup Edns
IsChange(c) == c.part \in Fields /\ c.val \in Nat /\ (c.part \in OneBit => c.val \in {0, 1})

(* An EDNS field other than the DO bit, cleared with the EDNS part.        *)
Cleared(f, c, r) == f \in Edns \ OneBit /\ c.part = "do" /\ c.val = 0 /\ r[f] = 0

LEMMA ChangeFacts ==
  ASSUME NEW q \in Queries, NEW c, IsChange(c)
  PROVE  /\ Change(q, c) \in Queries
         /\ Change(q, c)[c.part] = Held(c.part, c.val)
         /\ \A f \in Fields \ {c.part} : Change(q, c)[f] = q[f] \/ Cleared(f, c, Change(q, c))
<1> USE DEF Queries, Fields, Header, Edns, OneBit
<1>1. PICK r : r = Change(q, c)  OBVIOUS
<1>2. c.part \in {"opcode", "rd", "do", "udp_size", "xrcode"} /\ c.val \in Nat  BY DEF IsChange
<1>3. CASE c.part = "opcode"
  <2>1. PICK v \in Nat : v = c.val % 2^4  BY <1>2
  <2>2. r = [q EXCEPT !.opcode = v]  BY <1>1, <1>3, <2>1 DEF Change
  <2>3. Held("opcode", c.val) = v  BY <2>1 DEF Held
  <2> QED BY <1>1, <1>3, <2>2, <2>3
<1>4. CASE c.part = "rd"
  <2>1. c.val \in {0, 1}  BY <1>4 DEF IsChange
  <2>2. r = [q EXCEPT !.rd = c.val]  BY <1>1, <1>4 DEF Change
  <2>3. Held("rd", c.val) = c.val  BY <2>1 DEF Held
  <2> QED BY <1>1, <1>2, <1>4, <2>2, <2>3
<1>5. CASE c.part = "do"
  <2>1. c.val \in {0, 1}  BY <1>5 DEF IsChange
  <2>2. CASE c.val = 1
    <3>1. r = [q EXCEPT !.do = 1]  BY <1>1, <1>5, <2>2 DEF Change
    <3>2. Held("do", c.val) = 1  BY <2>2 DEF Held
    <3> QED BY <1>1, <1>5, <3>1, <3>2
  <2>3. CASE c.val = 0
    <3>1. r = [q EXCEPT !.do = 0, !.udp_size = 0, !.xrcode = 0]  BY <1>1, <1>5, <2>3 DEF Change, NoEdns
    <3>2. Held("do", c.val) = 0  BY <2>3 DEF Held
    <3>3. r \in Queries /\ r.do = 0 /\ r.udp_size = 0 /\ r.xrcode = 0 /\ r.opcode = q.opcode /\ r.rd = q.rd
      BY <3>1
    <3> QED BY <1>1, <1>5, <2>3, <3>2, <3>3 DEF Cleared
  <2> QED BY <2>1, <2>2, <2>3
<1>6. CASE c.part = "udp_size"
  <2>1. PICK v \in Nat : v = c.val % 2^16  BY <1>2
  <2>2. r = [q EXCEPT !.udp_size = v]  BY <1>1, <1>6, <2>1 DEF Change
  <2>3. Held("udp_size", c.val) = v  BY <2>1 DEF Held
  <2> QED BY <1>1, <1>6, <2>2, <2>3
<1>7. CASE c.part = "xrcode"
  <2>1. PICK v \in Nat : v = c.val % 2^8  BY <1>2
  <2>2. r = [q EXCEPT !.xrcode = v]  BY <1>1, <1>7, <2>1 DEF Change
  <2>3. Held("xrcode", c.val) = v  BY <2>1 DEF Held
  <2> QED BY <1>1, <1>7, <2>2, <2>3
<1> QED BY <1>2, <1>3, <1>4, <1>5, <1>6, <1>7

LEMMA ChangeAllFacts ==
  ASSUME NEW q \in Queries, NEW order, NEW C, order \in Seq(C), \A c \in C : IsChange(c)
  PROVE  /\ ChangeAll(q, order) \in Queries
         /\ \A f \in Fields :
              \/ \E l \in 1 .. Len(order) : order[l].part = f /\ ChangeAll(q, order)[f] = Held(f, order[l].val)
              \/ (\A l \in 1 .. Len(order) : order[l].part # f) /\ ChangeAll(q, order)[f] = q[f]
              \/ \E l \in 1 .. Len(order) : Cleared(f, order[l], ChangeAll(q, order))
<1>1. PICK len \in Nat : len = Len(order)  OBVIOUS
<1>2. \A k \in 1 .. len : order[k] \in C  BY <1>1
<1>3. ASSUME NEW k \in 1 .. len, NEW v \in Queries PROVE Change(v, order[k]) \in Queries
  BY <1>2, ChangeFacts
<1> DEFINE Rule(g) ==
      g = [k \in 0 .. Len(order) |-> IF k = 0 THEN q ELSE Change(g[k - 1], order[k])]
<1>4. PICK D : D = CHOOSE g : Rule(g)  OBVIOUS
<1>5. ChangeAll(q, order) = D[len]  BY <1>1, <1>4 DEF ChangeAll
<1>6. PICK V : V = Queries  OBVIOUS
<1>7. \E f : Rule(f)
  <2> DEFINE step == [x \in (1 .. len) \X V |-> Change(x[2], order[x[1]])]
  <2>1. step \in [(1 .. len) \X V -> V]
    <3>1. ASSUME NEW x \in (1 .. len) \X V PROVE Change(x[2], order[x[1]]) \in V
      <4>1. x[1] \in 1 .. len /\ x[2] \in V  OBVIOUS
      <4> QED BY <1>3, <1>6, <4>1
    <3> QED BY <3>1
  <2>2. \A k \in 1 .. len : \A v \in V : step[<<k, v>>] = Change(v, order[k])
    OBVIOUS
  <2> HIDE DEF step
  <2>3. q \in V  BY <1>6
  <2>4. PICK f : Course(f, q, step, len, V)  BY <2>1, <2>3, CourseExists
  <2>5. f \in [0 .. len -> V] /\ f[0] = q /\ \A k \in 1 .. len : f[k] = step[<<k, f[k - 1]>>]
    BY <2>4 DEF Course
  <2>6. ASSUME NEW k \in 0 .. len
        PROVE  f[k] = IF k = 0 THEN q ELSE Change(f[k - 1], order[k])
    <3>1. CASE k = 0  BY <2>5, <3>1
    <3>2. CASE k # 0
      <4>1. k \in 1 .. len /\ k - 1 \in 0 .. len  BY <3>2
      <4>2. f[k - 1] \in V  BY <2>5, <4>1
      <4> QED BY <2>2, <2>5, <3>2, <4>1, <4>2
    <3> QED BY <3>1, <3>2
  <2>7. Rule(f)  BY <1>1, <2>5, <2>6
  <2> QED BY <2>7
<1>8. Rule(D)
  <2> HIDE DEF Rule
  <2> QED BY <1>4, <1>7
<1>9. D = [k \in 0 .. len |-> IF k = 0 THEN q ELSE Change(D[k - 1], order[k])]  BY <1>1, <1>8
<1>10. ASSUME NEW k \in 1 .. len PROVE D[k] = Change(D[k - 1], order[k])
  <2>1. k \in 0 .. len /\ k # 0  OBVIOUS
  <2>2. D[k] = IF k = 0 THEN q ELSE Change(D[k - 1], order[k])  BY ONLY <1>9, <2>1
  <2> QED BY <2>1, <2>2
<1>11. D[0] = q  BY <1>9
<1> DEFINE Ok(x, f) ==
      \/ \E l \in 1 .. x : order[l].part = f /\ D[x][f] = Held(f, order[l].val)
      \/ (\A l \in 1 .. x : order[l].part # f) /\ D[x][f] = q[f]
      \/ \E l \in 1 .. x : Cleared(f, order[l], D[x])
           T == {x \in 0 .. len : D[x] \in Queries /\ \A f \in Fields : Ok(x, f)}
<1>12. 0 \in T
  <2>1. \A f \in Fields : Ok(0, f)  BY <1>11
  <2> HIDE DEF Ok
  <2> QED BY <1>11, <2>1
<1>13. ASSUME NEW x \in Nat, x + 1 <= len, x \in T PROVE x + 1 \in T
  <2>1. PICK y : y = x + 1  OBVIOUS
  <2>2. y \in 1 .. len /\ y \in 0 .. len /\ y - 1 = x /\ y \in 1 .. y  BY <1>13, <2>1
  <2>3. PICK c : c = order[y]  OBVIOUS
  <2>4. IsChange(c)  BY <1>2, <2>2, <2>3
  <2>5. PICK r : r = D[x]  OBVIOUS
  <2>6. PICK s : s = D[y]  OBVIOUS
  <2>7. r \in Queries  BY <1>13, <2>5
  <2>8. s = Change(r, c)  BY <1>10, <2>2, <2>3, <2>5, <2>6
  <2>9. /\ s \in Queries /\ s[c.part] = Held(c.part, c.val)
        /\ \A f \in Fields \ {c.part} : s[f] = r[f] \/ Cleared(f, c, s)
    BY <2>4, <2>7, <2>8, ChangeFacts
  <2>10. \A l \in 1 .. x : l \in 1 .. y  BY <2>1
  <2>11. \A l \in 1 .. y : l \in 1 .. x \/ l = y  BY <2>1
  <2>12. ASSUME NEW f \in Fields PROVE Ok(y, f)
    <3>1. CASE f = c.part
      <4>1. order[y].part = f /\ D[y][f] = Held(f, order[y].val)  BY <2>3, <2>6, <2>9, <3>1
      <4> QED BY <2>2, <4>1
    <3>2. CASE f # c.part /\ Cleared(f, c, s)
      <4>1. Cleared(f, order[y], D[y])  BY <2>3, <2>6, <3>2
      <4> QED BY <2>2, <4>1
    <3>3. CASE f # c.part /\ s[f] = r[f]
      <4>1. Ok(x, f)  BY <1>13
      <4>2. D[y][f] = D[x][f]  BY <2>5, <2>6, <3>3
      <4>3. CASE \E l \in 1 .. x : order[l].part = f /\ D[x][f] = Held(f, order[l].val)
        BY <2>10, <4>2, <4>3
      <4>4. CASE (\A l \in 1 .. x : order[l].part # f) /\ D[x][f] = q[f]
        <5>1. \A l \in 1 .. y : order[l].part # f  BY <2>3, <2>11, <3>3, <4>4
        <5> QED BY <4>2, <4>4, <5>1
      <4>5. CASE \E l \in 1 .. x : Cleared(f, order[l], D[x])
        <5>1. PICK l \in 1 .. x : Cleared(f, order[l], D[x])  BY <4>5
        <5>2. Cleared(f, order[l], D[y])  BY <4>2, <5>1 DEF Cleared
        <5>3. l \in 1 .. y  BY <2>10
        <5> QED BY <5>2, <5>3
      <4> QED BY <4>1, <4>3, <4>4, <4>5
    <3> QED BY <2>9, <3>1, <3>2, <3>3
  <2> HIDE DEF Ok
  <2>13. y \in T  BY <2>2, <2>6, <2>9, <2>12
  <2> QED BY <2>1, <2>13
<1>14. len \in T
  <2> HIDE DEF T
  <2> QED BY <1>12, <1>13, Climb
<1> QED BY <1>1, <1>5, <1>14

(* An order of the changes holds each of them.                             *)
LEMMA OrderFacts ==
  ASSUME NEW C, IsFiniteSet(C), NEW order \in SetToSeqs(C)
  PROVE  order \in Seq(C) /\ \A c \in C : \E l \in 1 .. Len(order) : order[l] = c
<1>1. PICK n \in Nat : n = Cardinality(C)  BY FS_CardinalityType
<1>2. order \in [1 .. n -> C] /\ \A k, l \in 1 .. n : k # l => order[k] # order[l]
  BY <1>1 DEF SetToSeqs
<1>3. order \in Injection(1 .. n, C)  BY <1>2 DEF Injection, IsInjective
<1>4. Cardinality(1 .. n) = n
  <2>1. Cardinality(1 .. n) = IF 1 > n THEN 0 ELSE n - 1 + 1  BY FS_Interval
  <2> QED BY <2>1
<1>5. order \in Surjection(1 .. n, C)  BY <1>1, <1>3, <1>4, FS_Injection
<1>6. \A c \in C : \E l \in 1 .. n : order[l] = c  BY <1>5 DEF Surjection
<1>7. order \in Seq(C) /\ Len(order) = n  BY <1>2
<1> QED BY <1>6, <1>7

(* The options that ask something of a query, and what they ask.           *)
Chosen(roll) == {x \in job.options : x.part \in OneBit \/ roll[x] <= x.percent}
Asked(o, roll) ==
  [part |-> o.part,
   val |-> IF o.part \notin OneBit THEN o.val
           ELSE IF (roll[o] <= o.percent) = (o.val > 0) THEN 1 ELSE 0]

LEMMA OptionFacts ==
  ASSUME job \in Jobs
  PROVE  /\ IsFiniteSet(job.options)
         /\ \A o \in job.options : o.part \in Fields /\ o.percent \in Nat /\ o.val \in Nat
         /\ \A o, x \in job.options : o.part = x.part => o = x
BY JobsAssumption DEF Fields

LEMMA AppliedFacts ==
  ASSUME job \in Jobs, NEW roll \in [job.options -> Rolls]
  PROVE  /\ IsFiniteSet(Applied(roll))
         /\ \A c \in Applied(roll) : IsChange(c) /\ \E o \in Chosen(roll) : c = Asked(o, roll)
         /\ \A o \in Chosen(roll) : Asked(o, roll) \in Applied(roll)
<1>1. PICK X : X = Chosen(roll)  OBVIOUS
<1>2. X \subseteq job.options  BY <1>1 DEF Chosen
<1>3. PICK C : C = Applied(roll)  OBVIOUS
<1>4. C = {Asked(o, roll) : o \in X}  BY <1>1, <1>3 DEF Applied, Asked, Chosen
<1>5. IsFiniteSet(X)
  <2>1. IsFiniteSet(job.options) /\ X \in SUBSET job.options  BY <1>2, OptionFacts
  <2> QED BY <2>1, FS_Subset
<1>6. IsFiniteSet(C)
  <2> DEFINE g == [o \in X |-> Asked(o, roll)]
  <2>1. g \in [X -> C]  BY <1>4
  <2>2. \A c \in C : \E o \in X : g[o] = c  BY <1>4
  <2> HIDE DEF g
  <2>3. g \in Surjection(X, C)  BY <2>1, <2>2 DEF Surjection
  <2> QED BY <1>5, <2>3, FS_Surjection
<1>7. ASSUME NEW o \in X PROVE IsChange(Asked(o, roll))
  <2>1. o.part \in Fields /\ o.val \in Nat  BY <1>2, OptionFacts
  <2>2. PICK b \in BOOLEAN : b = ((roll[o] <= o.percent) = (o.val > 0))  OBVIOUS
  <2>3. Asked(o, roll) = [part |-> o.part, val |-> IF o.part \notin OneBit THEN o.val ELSE IF b THEN 1 ELSE 0]
    BY <2>2 DEF Asked
  <2> HIDE <2>2
  <2>4. PICK a : a = Asked(o, roll)  OBVIOUS
  <2>5. a.part = o.part /\ a.val = IF o.part \notin OneBit THEN o.val ELSE IF b THEN 1 ELSE 0
    BY <2>3, <2>4
  <2>6. IsChange(a)
    <3>1. CASE o.part \in OneBit
      <4>1. a.val \in {0, 1}  BY <2>5, <3>1
      <4> QED BY <2>1, <2>5, <4>1 DEF IsChange
    <3>2. CASE o.part \notin OneBit  BY <2>1, <2>5, <3>2 DEF IsChange
    <3> QED BY <3>1, <3>2
  <2> QED BY <2>4, <2>6
<1> QED BY <1>1, <1>3, <1>4, <1>6, <1>7

(* What is asked for a field, when its option selects all or none.         *)
LEMMA AskedFacts ==
  ASSUME job \in Jobs, NEW roll \in [job.options -> Rolls], NEW o \in Chosen(roll)
  PROVE  /\ o \in job.options /\ Asked(o, roll).part = o.part
         /\ o.part \notin OneBit => Asked(o, roll).val = o.val /\ o.percent # 0
         /\ o.part \in OneBit => LET v == Held(o.part, Asked(o, roll).val)
                                 IN  /\ o.percent >= 100 => v = Held(o.part, o.val)
                                     /\ o.percent = 0 => v = 1 - Held(o.part, o.val)
         /\ o.part = "do" /\ Asked(o, roll).val = 0 =>
              ~(o.val > 0 /\ o.percent >= 100) /\ ~(o.val = 0 /\ o.percent = 0)
<1>1. o \in job.options /\ (o.part \in OneBit \/ roll[o] <= o.percent)  BY DEF Chosen
<1>2. o.percent \in Nat /\ o.val \in Nat  BY <1>1, OptionFacts
<1>3. PICK n \in 1 .. 100 : n = roll[o]  BY <1>1, RollsAssumption
<1>4. PICK per \in Nat : per = o.percent  BY <1>2
<1>5. PICK val \in Nat : val = o.val  BY <1>2
<1>6. PICK v : v = Asked(o, roll).val  OBVIOUS
<1>7. v = IF o.part \notin OneBit THEN val ELSE IF (n <= per) = (val > 0) THEN 1 ELSE 0
  BY <1>3, <1>4, <1>5, <1>6 DEF Asked
<1>8. Asked(o, roll).part = o.part  BY DEF Asked
<1>9. CASE o.part \notin OneBit
  <2>1. v = val /\ n <= per  BY <1>1, <1>3, <1>4, <1>7, <1>9
  <2>2. per # 0  BY <2>1
  <2>3. o.part # "do"  BY <1>9 DEF OneBit
  <2> QED BY <1>1, <1>4, <1>5, <1>6, <1>8, <1>9, <2>1, <2>2, <2>3
<1>10. CASE o.part \in OneBit
  <2>1. Held(o.part, val) = IF val > 0 THEN 1 ELSE 0  BY <1>10 DEF Held, OneBit
  <2>2. v = IF (n <= per) = (val > 0) THEN 1 ELSE 0  BY <1>7, <1>10
  <2>3. v \in {0, 1}  BY <2>2
  <2>4. Held(o.part, v) = v  BY <1>10, <2>3 DEF Held
  <2>5. per >= 100 => v = IF val > 0 THEN 1 ELSE 0  BY <2>2
  <2>6. per = 0 => v = IF val > 0 THEN 0 ELSE 1  BY <2>2
  <2>7. v = 0 => ~(val > 0 /\ per >= 100) /\ ~(val = 0 /\ per = 0)  BY <2>5, <2>6
  <2>8. per >= 100 => Held(o.part, v) = Held(o.part, val)  BY <2>1, <2>4, <2>5
  <2>9. per = 0 => Held(o.part, v) = 1 - Held(o.part, val)  BY <2>1, <2>4, <2>6
  <2> QED BY <1>1, <1>4, <1>5, <1>6, <1>8, <1>10, <2>7, <2>8, <2>9
<1> QED BY <1>9, <1>10

LEMMA ChangesHonour ==
  ASSUME job \in Jobs, NEW roll \in [job.options -> Rolls], NEW order \in SetToSeqs(Applied(roll)),
         NEW q \in Queries
  PROVE  ChangeAll(q, order) \in Queries /\ Honours(job.options, ChangeAll(q, order), q)
<1>1. PICK C : C = Applied(roll)  OBVIOUS
<1>2. /\ IsFiniteSet(C) /\ \A c \in C : IsChange(c) /\ \E o \in Chosen(roll) : c = Asked(o, roll)
      /\ \A o \in Chosen(roll) : Asked(o, roll) \in C
  BY <1>1, AppliedFacts
<1>3. order \in Seq(C) /\ \A c \in C : \E l \in 1 .. Len(order) : order[l] = c
  BY <1>1, <1>2, OrderFacts
<1>4. PICK r : r = ChangeAll(q, order)  OBVIOUS
<1>5. /\ r \in Queries
      /\ \A f \in Fields :
           \/ \E l \in 1 .. Len(order) : order[l].part = f /\ r[f] = Held(f, order[l].val)
           \/ (\A l \in 1 .. Len(order) : order[l].part # f) /\ r[f] = q[f]
           \/ \E l \in 1 .. Len(order) : Cleared(f, order[l], r)
  BY <1>2, <1>3, <1>4, ChangeAllFacts
<1> DEFINE opt(f) == {x \in job.options : x.part = f}
           unset == \E x \in opt("do") : ~(x.val > 0 /\ x.percent >= 100) /\ ~(x.val = 0 /\ x.percent = 0)
           gone(f) == f \in Edns /\ unset /\ r[f] = 0
<1>6. ASSUME NEW l \in 1 .. Len(order)
      PROVE  \E o \in Chosen(roll) : order[l] = Asked(o, roll)
  <2>1. order[l] \in C  BY <1>3
  <2> QED BY <1>2, <2>1
<1>7. ASSUME NEW f \in Fields
      PROVE  \/ \E o \in Chosen(roll) : o.part = f /\ r[f] = Held(f, Asked(o, roll).val)
             \/ (\A o \in Chosen(roll) : o.part # f) /\ r[f] = q[f]
             \/ f \notin OneBit /\ gone(f)
  <2>1. CASE \E l \in 1 .. Len(order) : order[l].part = f /\ r[f] = Held(f, order[l].val)
    <3>1. PICK l \in 1 .. Len(order) : order[l].part = f /\ r[f] = Held(f, order[l].val)  BY <2>1
    <3>2. PICK o \in Chosen(roll) : order[l] = Asked(o, roll)  BY <1>6
    <3>3. o.part = f  BY <3>1, <3>2, AskedFacts
    <3> QED BY <3>1, <3>2, <3>3
  <2>2. CASE (\A l \in 1 .. Len(order) : order[l].part # f) /\ r[f] = q[f]
    <3>1. ASSUME NEW o \in Chosen(roll) PROVE o.part # f
      <4>1. PICK l \in 1 .. Len(order) : order[l] = Asked(o, roll)  BY <1>2, <1>3
      <4>2. Asked(o, roll).part = o.part  BY AskedFacts
      <4> QED BY <2>2, <4>1, <4>2
    <3> QED BY <2>2, <3>1
  <2>3. CASE \E l \in 1 .. Len(order) : Cleared(f, order[l], r)
    <3>1. PICK l \in 1 .. Len(order) : Cleared(f, order[l], r)  BY <2>3
    <3>2. f \in Edns \ OneBit /\ order[l].part = "do" /\ order[l].val = 0 /\ r[f] = 0  BY <3>1 DEF Cleared
    <3>3. PICK o \in Chosen(roll) : order[l] = Asked(o, roll)  BY <1>6
    <3>4. o \in job.options /\ o.part = "do"  BY <3>2, <3>3, AskedFacts
    <3>5. ~(o.val > 0 /\ o.percent >= 100) /\ ~(o.val = 0 /\ o.percent = 0)
      BY <3>2, <3>3, <3>4, AskedFacts
    <3>6. unset  BY <3>4, <3>5
    <3> QED BY <3>2, <3>6
  <2> QED BY <1>5, <2>1, <2>2, <2>3
<1>8. ASSUME NEW f \in Fields, NEW x \in opt(f), NEW o \in Chosen(roll), o.part = f PROVE o = x
  <2>1. o \in job.options /\ x \in job.options /\ x.part = f  BY DEF Chosen
  <2> QED BY <1>8, <2>1, OptionFacts
<1> HIDE DEF unset
<1>9. ASSUME NEW f \in Fields, opt(f) = {} PROVE r[f] = q[f] \/ gone(f)
  <2>1. \A o \in Chosen(roll) : o.part # f  BY <1>9 DEF Chosen
  <2> QED BY <1>7, <2>1
<1>10. ASSUME NEW f \in Fields \ OneBit, NEW x \in opt(f)
       PROVE  /\ x.percent = 0 => r[f] = q[f] \/ gone(f)
              /\ x.percent >= 100 => r[f] = Held(f, x.val) \/ gone(f)
  <2>1. x \in job.options /\ x.part = f  OBVIOUS
  <2>2. CASE \E o \in Chosen(roll) : o.part = f /\ r[f] = Held(f, Asked(o, roll).val)
    <3>1. PICK o \in Chosen(roll) : o.part = f /\ r[f] = Held(f, Asked(o, roll).val)  BY <2>2
    <3>2. o = x  BY <1>8, <3>1
    <3>3. Asked(x, roll).val = x.val /\ x.percent # 0  BY <2>1, <3>2, AskedFacts
    <3> QED BY <3>1, <3>2, <3>3
  <2>3. CASE (\A o \in Chosen(roll) : o.part # f) /\ r[f] = q[f]
    <3>1. x \notin Chosen(roll)  BY <2>1, <2>3
    <3>2. ~(roll[x] <= x.percent)  BY <2>1, <3>1 DEF Chosen
    <3>3. roll[x] \in 1 .. 100 /\ x.percent \in Nat  BY <2>1, RollsAssumption, OptionFacts
    <3>4. ~(x.percent >= 100)  BY <3>2, <3>3
    <3> QED BY <2>3, <3>4
  <2>4. CASE gone(f)  BY <2>4
  <2> QED BY <1>7, <2>2, <2>3, <2>4
<1>11. ASSUME NEW f \in OneBit, NEW x \in opt(f)
       PROVE  /\ x.percent >= 100 => r[f] = Held(f, x.val)
              /\ x.percent = 0 => r[f] = 1 - Held(f, x.val)
  <2>1. x \in job.options /\ x.part = f /\ f \in Fields  BY DEF OneBit, Fields, Header, Edns
  <2>2. x \in Chosen(roll)  BY <2>1 DEF Chosen
  <2>3. PICK o \in Chosen(roll) : o.part = f /\ r[f] = Held(f, Asked(o, roll).val)  BY <1>7, <2>1, <2>2
  <2>4. o = x  BY <1>8, <2>1, <2>3
  <2> QED BY <2>1, <2>2, <2>3, <2>4, AskedFacts
<1>12. Honours(job.options, r, q)
  <2>1. \A f \in Header \cup Edns : opt(f) = {} => r[f] = q[f] \/ gone(f)  BY <1>9 DEF Fields
  <2>2. \A f \in (Header \cup Edns) \ OneBit : \A x \in opt(f) :
           /\ x.percent = 0 => r[f] = q[f] \/ gone(f)
           /\ x.percent >= 100 => r[f] = Held(f, x.val) \/ gone(f)
    BY <1>10 DEF Fields
  <2>3. \A f \in OneBit : \A x \in opt(f) :
           /\ x.percent >= 100 => r[f] = Held(f, x.val)
           /\ x.percent = 0 => r[f] = 1 - Held(f, x.val)
    BY <1>11
  <2> QED BY ONLY <2>1, <2>2, <2>3 DEF Honours, unset
<1> QED BY <1>4, <1>5, <1>12

-----------------------------------------------------------------------------
(* The invariant.  Pos items of the input have been read.                  *)
Items == [msg : Full, cut : {"none", "size", "body"}]
Pos == Len(job.input) - Len(input)
Written == Len(received) + Len(out)
All(j) == DirectOf(j)[Len(j.input)]
Nth(j, n) == All(j)[((n - 1) % Len(All(j))) + 1]

\* What has been read is a beginning of the input, and none of it ended the
\* process.
InputInv ==
  /\ Pos \in 0 .. Len(job.input) /\ input = Rest(job.input, Pos)
  /\ Quiet(job, Pos)

\* The state has its types; nothing is written before the input is read, and a
\* raw input is not written raw.
ShapeInv ==
  /\ job \in Jobs
  /\ pc \in {"main", "ignored", "invalid option", "get", "loop", "done", "exit", "killed", "padding"}
  /\ client \in {"reading", "eof"}
  /\ warehouse \in Seq(Full) /\ received \in Seq(Full)
  /\ job.oft = "raw" => out \in Seq(Items)
  /\ job.oft # "raw" => received = <<>>
  /\ pc \in {"main", "get"} => i = 0
  /\ pc = "loop" => i \in 0 .. Len(warehouse) - 1 /\ job.loop
  /\ pc = "main" => warehouse = <<>> /\ out = <<>> /\ received = <<>> /\ input = job.input
  /\ pc \in {"get", "loop"} /\ job.oft = "raw" => job.ift # "raw"

\* Without options: what was written is what a client would get, in order, and
\* it is as long as what was read of the input; or, in loop mode, as often as
\* the loop index says.
StreamInv ==
  job.options = {} /\ job.oft = "raw" =>
    /\ \A n \in 1 .. Len(received) : received[n] = Nth(job, n)
    /\ \A n \in 1 .. Len(out) : out[n].msg = Nth(job, Len(received) + n)
    /\ ~job.loop => Written <= Len(All(job))
    /\ pc \in {"main", "get"} /\ ~job.loop => Written = Len(DirectOf(job)[Pos])
    /\ pc \in {"main", "get"} /\ job.loop => Written = 0 /\ warehouse = DirectOf(job)[Pos]
    /\ pc = "loop" => warehouse = All(job) /\ i = Written % Len(All(job))

\* Every message kept, written or read back comes from a message of the input
\* under the options.
Comes(j, m) == \E d \in Range(All(j)) : d.id = m.id /\ Honours(j.options, Head(m.raw), Head(d.raw))
OriginInv ==
  job.oft = "raw" =>
    /\ \A n \in 1 .. Len(warehouse) : Comes(job, warehouse[n])
    /\ \A n \in 1 .. Len(out) : Comes(job, out[n].msg)
    /\ \A n \in 1 .. Len(received) : Comes(job, received[n])

MutatorInv == InputInv /\ ShapeInv /\ StreamInv /\ OriginInv

-----------------------------------------------------------------------------
(* One call of get().                                                      *)
LEMMA PassedFacts ==
  ASSUME NEW j \in Jobs, NEW a \in Nat, NEW b \in Int, Passed(j.ift, j.input, a, b)
  PROVE  \A k \in a .. b : Msg(j, k).raw = <<>> /\ ~Counts(j, k) /\ ~EndsProcess(j.ift, j.input[k])
<1>1. SUFFICES ASSUME NEW k \in a .. b
               PROVE  Msg(j, k).raw = <<>> /\ ~Counts(j, k) /\ ~EndsProcess(j.ift, j.input[k])
  OBVIOUS
<1>2. j.ift = "text" /\ j.input[k].form = "comment"  BY DEF Passed
<1>3. Msg(j, k) = NoRaw  BY <1>2 DEF Msg, Process, ProcessLine
<1>4. Msg(j, k).raw = <<>>  BY <1>3 DEF NoRaw
<1>5. ~EndsProcess(j.ift, j.input[k])  BY <1>2 DEF EndsProcess
<1> QED BY <1>4, <1>5 DEF Counts

(* The input is at its end, or the next item is taken from it.             *)
LEMMA GetFacts ==
  ASSUME job \in Jobs, InputInv
  PROVE  \/ /\ Source(job.ift, input) = <<>>
            /\ DirectOf(job)[Pos] = All(job)
         \/ \E q \in Pos + 1 .. Len(job.input) :
              /\ Source(job.ift, input) # <<>>
              /\ Head(Source(job.ift, input)) = job.input[q] /\ Got(job.ift, input) = Msg(job, q)
              /\ Left(job.ift, input) = Rest(job.input, q)
              /\ DirectOf(job)[q - 1] = DirectOf(job)[Pos]
              /\ ~EndsProcess(job.ift, job.input[q]) => Quiet(job, q)
<1>1. PICK f : f = job.input  OBVIOUS
<1>2. PICK len \in Nat : len = Len(f)  BY <1>1, MsgFacts
<1>3. PICK p \in 0 .. len : p = Pos  BY <1>1, <1>2 DEF InputInv
<1>4. input = Rest(f, p) /\ Quiet(job, p)  BY <1>1, <1>3 DEF InputInv
<1>5. p \in Nat /\ p <= len  OBVIOUS
<1>6. f \in Seq(ToSet(f))  BY <1>1, MsgFacts
<1>7. PICK s : s = Source(job.ift, input)  OBVIOUS
<1>8. \/ s = <<>> /\ Passed(job.ift, f, p + 1, len)
      \/ \E q \in p + 1 .. len : s # <<>> /\ Head(s) = f[q] /\ Tail(s) = Rest(f, q) /\ Passed(job.ift, f, p + 1, q - 1)
  BY <1>2, <1>4, <1>6, <1>7, SourceFacts
<1>9. CASE s = <<>> /\ Passed(job.ift, f, p + 1, len)
  <2>1. \A k \in p + 1 .. len : ~Counts(job, k)  BY <1>1, <1>5, <1>9, PassedFacts
  <2>2. len \in p .. len /\ p \in 0 .. len  BY <1>5
  <2>3. DirectOf(job)[len] = DirectOf(job)[p]  BY <1>1, <1>2, <2>1, <2>2, DirectGrows
  <2> QED BY <1>1, <1>2, <1>3, <1>7, <1>9, <2>3 DEF All
<1>10. CASE \E q \in p + 1 .. len :
              s # <<>> /\ Head(s) = f[q] /\ Tail(s) = Rest(f, q) /\ Passed(job.ift, f, p + 1, q - 1)
  <2>1. PICK q \in p + 1 .. len :
              s # <<>> /\ Head(s) = f[q] /\ Tail(s) = Rest(f, q) /\ Passed(job.ift, f, p + 1, q - 1)
    BY <1>10
  <2>2. q \in Nat /\ q - 1 \in p .. len /\ p \in 0 .. len /\ p + 1 \in Nat /\ q - 1 \in Int  BY <1>5
  <2>3. \A k \in p + 1 .. q - 1 : ~Counts(job, k) /\ ~EndsProcess(job.ift, f[k])
    BY <1>1, <2>1, <2>2, PassedFacts
  <2>4. DirectOf(job)[q - 1] = DirectOf(job)[p]  BY <1>1, <1>2, <2>2, <2>3, DirectGrows
  <2>5. ASSUME ~EndsProcess(job.ift, f[q]) PROVE Quiet(job, q)
    <3>1. ASSUME NEW l \in 1 .. q PROVE ~EndsProcess(job.ift, f[l])
      <4>1. l \in 1 .. p \/ l \in p + 1 .. q - 1 \/ l = q  BY <1>5, <2>2
      <4> QED BY <1>1, <1>4, <2>3, <2>5, <4>1 DEF Quiet
    <3> QED BY <1>1, <3>1 DEF Quiet
  <2>6. Got(job.ift, input) = Msg(job, q)  BY <1>1, <1>7, <2>1 DEF Got, Msg
  <2>7. Left(job.ift, input) = Rest(f, q)  BY <1>7, <2>1 DEF Left
  <2> QED BY <1>1, <1>2, <1>3, <1>7, <2>1, <2>4, <2>5, <2>6, <2>7
<1> QED BY <1>8, <1>9, <1>10

LEMMA ReadingFacts ==
  ASSUME job \in Jobs, InputInv, Reading
  PROVE  \E q \in Pos + 1 .. Len(job.input) :
           /\ pc = "get" /\ Got(job.ift, input) = Msg(job, q)
           /\ Left(job.ift, input) = Rest(job.input, q)
           /\ DirectOf(job)[q - 1] = DirectOf(job)[Pos] /\ Quiet(job, q)
<1>1. PICK s : s = Source(job.ift, input)  OBVIOUS
<1>2. pc = "get" /\ ~AtEnd(job.ift, input) /\ ~Exits(job.ift, input)  BY DEF Reading
<1>3. s # <<>>  BY <1>1, <1>2 DEF AtEnd
<1>4. ~EndsProcess(job.ift, Head(s))  BY <1>1, <1>2 DEF Exits
<1> QED BY <1>1, <1>2, <1>3, <1>4, GetFacts

(* The next call takes the item behind the last one taken.                 *)
LEMMA InputAdvances ==
  ASSUME job \in Jobs, job' = job, NEW q \in 1 .. Len(job.input), input' = Rest(job.input, q), Quiet(job, q)
  PROVE  InputInv' /\ Pos' = q
<1>1. job.input \in Seq(ToSet(job.input)) /\ Len(job.input) \in Nat  BY MsgFacts
<1>2. q \in 0 .. Len(job.input)  BY <1>1
<1>3. Len(input') = Len(job.input) - q  BY <1>1, <1>2, RestFacts
<1>4. Pos' = q  BY <1>1, <1>3 DEF Pos
<1> QED BY <1>2, <1>4 DEF InputInv

(* A message that counts, mutated or not, comes from the input.            *)
LEMMA MsgComes ==
  ASSUME job \in Jobs, NEW q \in 1 .. Len(job.input), Counts(job, q)
  PROVE  Msg(job, q) \in Full /\ Msg(job, q) \in Range(All(job))
<1>1. PICK n \in Nat : n = Len(DirectOf(job)[q - 1])  BY DirectHolds
<1>2. PICK len \in Nat : len = Len(job.input)  BY MsgFacts
<1>3. All(job) \in Seq(Full)  BY <1>2, DirectFacts DEF All
<1>4. n + 1 <= Len(All(job)) /\ All(job)[n + 1] = Msg(job, q) /\ Msg(job, q) \in Full
  BY <1>1, DirectHolds DEF All
<1>5. n + 1 \in DOMAIN All(job)  BY <1>3, <1>4
<1> QED BY <1>4, <1>5 DEF Range

LEMMA HonoursNothing ==
  ASSUME NEW q
  PROVE  Honours({}, q, q)
BY DEF Honours

(* Storing a message.                                                      *)
LEMMA StoreFacts ==
  ASSUME job \in Jobs, NEW m, Store(m)
  PROVE  /\ pc' \in {pc, "padding"} /\ (job.oft = "raw" => pc' = pc)
         /\ job.loop => warehouse' = Append(warehouse, m) /\ out' = out
         /\ ~job.loop => warehouse' = warehouse /\ (job.oft = "raw" => out' = Append(out, RawItem(m)))
<1>1. CASE job.loop  BY <1>1 DEF Store
<1>2. CASE ~job.loop
  <2>1. CASE job.oft = "raw"
    <3>1. ~(job.oft = "text" /\ PadsForever(m))  BY <2>1
    <3>2. WriteOutput(m) /\ pc' = pc /\ warehouse' = warehouse  BY <1>2, <3>1 DEF Store
    <3>3. out' = Append(out, RawItem(m))  BY <2>1, <3>2 DEF WriteOutput
    <3> QED BY <1>2, <3>2, <3>3
  <2>2. CASE job.oft # "raw"
    <3>1. warehouse' = warehouse /\ pc' \in {pc, "padding"}
      <4>1. CASE job.oft = "text" /\ PadsForever(m)  BY <1>2, <4>1 DEF Store
      <4>2. CASE ~(job.oft = "text" /\ PadsForever(m))  BY <1>2, <4>2 DEF Store
      <4> QED BY <4>1, <4>2
    <3> QED BY <1>2, <2>2, <3>1
  <2> QED BY <2>1, <2>2
<1> QED BY <1>1, <1>2

(* A step of conversion takes an item that counts; and it stores a message *)
(* that comes from it, or, for an option's sake, drops it or ends the      *)
(* process.                                                                *)
LEMMA ConvertFacts ==
  ASSUME job \in Jobs, InputInv, Convert
  PROVE  \E q \in Pos + 1 .. Len(job.input) :
           /\ pc = "get" /\ UNCHANGED <<job, i, received, client>> /\ input' = Rest(job.input, q)
           /\ DirectOf(job)[q - 1] = DirectOf(job)[Pos] /\ Counts(job, q) /\ Quiet(job, q)
           /\ \/ job.options # {} /\ pc' \in {pc, "exit"} /\ UNCHANGED <<warehouse, out>>
              \/ \E m \in Full : /\ Store(m) /\ Comes(job, m)
                                 /\ job.options = {} => m = Msg(job, q)
<1>1. Reading  BY DEF Convert
<1>2. PICK q \in Pos + 1 .. Len(job.input) :
           /\ pc = "get" /\ Got(job.ift, input) = Msg(job, q)
           /\ Left(job.ift, input) = Rest(job.input, q)
           /\ DirectOf(job)[q - 1] = DirectOf(job)[Pos] /\ Quiet(job, q)
  BY <1>1, ReadingFacts
<1>3. PICK d : d = Msg(job, q)  OBVIOUS
<1>4. /\ UNCHANGED <<job, i, received, client>> /\ input' = Rest(job.input, q) /\ d.raw # <<>>
      /\ IF job.options = {} THEN Store(d) ELSE Mutate(d)
  BY <1>2, <1>3 DEF Convert
<1>5. Counts(job, q)  BY <1>2, <1>3, <1>4 DEF Counts
<1>6. q \in 1 .. Len(job.input)
  <2>1. Len(job.input) \in Nat  BY MsgFacts
  <2>2. Pos \in 0 .. Len(job.input)  BY DEF InputInv
  <2> QED BY <2>1, <2>2
<1>7. d \in Full /\ d \in Range(All(job))  BY <1>3, <1>5, <1>6, MsgComes
<1>8. d \in Messages /\ d.raw \in Seq(Queries) /\ d.raw # <<>>  BY <1>7 DEF Full, Messages
<1>9. PICK h \in Queries : h = Head(d.raw)  BY <1>8
<1>10. CASE job.options = {}
  <2>1. Store(d)  BY <1>4, <1>10
  <2>2. Honours(job.options, h, h)  BY <1>10, HonoursNothing
  <2>3. Comes(job, d)  BY <1>7, <1>9, <2>2 DEF Comes
  <2> QED BY <1>2, <1>3, <1>4, <1>5, <1>7, <2>1, <2>3
<1>11. CASE job.options # {}
  <2>1. Mutate(d)  BY <1>4, <1>11
  <2>2. PICK roll \in [job.options -> Rolls] :
          CASE NeedsPacket(Applied(roll)) /\ h.wire = "unparsable" ->
                 pc' = "exit" /\ UNCHANGED <<warehouse, out>>
            [] NeedsPacket(Applied(roll)) /\ h.wire = "unwritable" ->
                 UNCHANGED <<pc, warehouse, out>>
            [] OTHER ->
                 \E order \in SetToSeqs(Applied(roll)) :
                   Store([d EXCEPT !.raw = <<ChangeAll(h, order)>>])
    BY <1>9, <2>1 DEF Mutate
  <2>3. CASE NeedsPacket(Applied(roll)) /\ h.wire = "unparsable"
    <3>1. h.wire # "unwritable"  BY <2>3
    <3>2. pc' = "exit" /\ UNCHANGED <<warehouse, out>>  BY <2>2, <2>3, <3>1
    <3> QED BY <1>2, <1>4, <1>5, <1>11, <3>2
  <2>4. CASE NeedsPacket(Applied(roll)) /\ h.wire = "unwritable"
    <3>1. h.wire # "unparsable"  BY <2>4
    <3>2. UNCHANGED <<pc, warehouse, out>>  BY <2>2, <2>4, <3>1
    <3> QED BY <1>2, <1>4, <1>5, <1>11, <3>2
  <2>5. CASE ~(NeedsPacket(Applied(roll)) /\ h.wire = "unparsable") /\ ~(NeedsPacket(Applied(roll)) /\ h.wire = "unwritable")
    <3>1. \E order \in SetToSeqs(Applied(roll)) : Store([d EXCEPT !.raw = <<ChangeAll(h, order)>>])
      BY <2>2, <2>5
    <3>2. PICK order \in SetToSeqs(Applied(roll)) : Store([d EXCEPT !.raw = <<ChangeAll(h, order)>>])
      BY <3>1
    <3>3. PICK r : r = ChangeAll(h, order)  OBVIOUS
    <3>4. r \in Queries /\ Honours(job.options, r, h)  BY <3>3, ChangesHonour
    <3>5. PICK m : m = [d EXCEPT !.raw = <<r>>]  OBVIOUS
    <3>6. m \in Messages /\ m.raw = <<r>> /\ m.id = d.id
      <4>1. <<r>> \in Seq(Queries)  BY <3>4
      <4> QED BY <1>8, <3>5, <4>1 DEF Messages
    <3>7. m.raw # <<>> /\ Head(m.raw) = r  BY <3>6
    <3>8. m \in Full  BY <3>6, <3>7 DEF Full
    <3>9. Comes(job, m)  BY <1>7, <1>9, <3>4, <3>6, <3>7 DEF Comes
    <3>10. Store(m)  BY <3>2, <3>3, <3>5
    <3> QED BY <1>2, <1>4, <1>5, <1>11, <3>8, <3>9, <3>10
  <2> QED BY <2>3, <2>4, <2>5
<1> QED BY <1>10, <1>11

-----------------------------------------------------------------------------
(* Every action keeps the invariant.                                       *)
LEMMA AllFacts ==
  ASSUME job \in Jobs
  PROVE  All(job) \in Seq(Full) /\ Len(All(job)) \in Nat
<1>1. PICK len \in Nat : len = Len(job.input)  BY MsgFacts
<1>2. All(job) \in Seq(Full)  BY <1>1, DirectFacts DEF All
<1> QED BY <1>2

LEMMA InitInv == Init => MutatorInv
<1> SUFFICES ASSUME Init PROVE MutatorInv
  OBVIOUS
<1>1. job \in Jobs /\ pc = "main" /\ input = job.input /\ warehouse = <<>> /\ i = 0 /\ out = <<>>
      /\ received = <<>> /\ client = "reading"
  BY DEF Init
<1>2. job.input \in Seq(ToSet(job.input)) /\ Len(job.input) \in Nat  BY <1>1, MsgFacts
<1>3. Pos = 0  BY <1>1, <1>2 DEF Pos
<1>4. input = Rest(job.input, 0)  BY <1>1, <1>2, SubSeqFull DEF Rest
<1>5. InputInv  BY <1>2, <1>3, <1>4 DEF InputInv, Quiet
<1>6. ShapeInv  BY <1>1 DEF ShapeInv
<1>7. Written = 0 /\ Len(received) = 0 /\ Len(out) = 0 /\ Len(warehouse) = 0  BY <1>1 DEF Written
<1>8. DirectOf(job)[0] = <<>> /\ Len(All(job)) \in Nat  BY <1>1, DirectFacts, AllFacts
<1>9. StreamInv  BY <1>1, <1>3, <1>7, <1>8 DEF StreamInv
<1>10. OriginInv  BY <1>7 DEF OriginInv
<1> QED BY <1>5, <1>6, <1>9, <1>10 DEF MutatorInv

LEMMA StutterKeeps ==
  ASSUME MutatorInv, UNCHANGED vars
  PROVE  MutatorInv'
<1>1. InputInv'  BY DEF MutatorInv, InputInv, Pos, vars
<1>2. ShapeInv'  BY DEF MutatorInv, ShapeInv, vars
<1>3. StreamInv'  BY DEF MutatorInv, StreamInv, Written, Pos, vars
<1>4. OriginInv'  BY DEF MutatorInv, OriginInv, vars
<1> QED BY <1>1, <1>2, <1>3, <1>4 DEF MutatorInv

(* The mutator stops, and leaves everything as it is.                      *)
LEMMA StopKeeps ==
  ASSUME MutatorInv, UNCHANGED <<job, input, warehouse, i, out, received, client>>,
         pc' \in {"ignored", "invalid option", "done", "exit", "padding"}
  PROVE  MutatorInv'
<1>1. InputInv'  BY DEF MutatorInv, InputInv, Pos
<1>2. ShapeInv'  BY DEF MutatorInv, ShapeInv
<1>3. StreamInv'  BY DEF MutatorInv, StreamInv, Written
<1>4. OriginInv'  BY DEF MutatorInv, OriginInv
<1> QED BY <1>1, <1>2, <1>3, <1>4 DEF MutatorInv

LEMMA StartKeeps ==
  ASSUME MutatorInv, Start
  PROVE  MutatorInv'
<1>1. pc = "main" /\ UNCHANGED <<job, input, warehouse, i, out, received, client>>  BY DEF Start
<1>2. CASE pc' \in {"ignored", "invalid option"}  BY <1>1, <1>2, StopKeeps
<1>3. CASE pc' \notin {"ignored", "invalid option"}
  <2>1. pc' = "get" /\ ~Ignored  BY <1>3 DEF Start
  <2>2. job.oft = "raw" => job.ift # "raw"  BY <2>1 DEF Ignored
  <2>3. InputInv'  BY <1>1 DEF MutatorInv, InputInv, Pos
  <2>4. ShapeInv'  BY <1>1, <2>1, <2>2 DEF MutatorInv, ShapeInv
  <2>5. StreamInv'  BY <1>1, <2>1 DEF MutatorInv, StreamInv, Written, Pos
  <2>6. OriginInv'  BY <1>1 DEF MutatorInv, OriginInv
  <2> QED BY <2>3, <2>4, <2>5, <2>6 DEF MutatorInv
<1> QED BY <1>2, <1>3

LEMMA SkipInvalidKeeps ==
  ASSUME MutatorInv, SkipInvalid
  PROVE  MutatorInv'
<1>1. job \in Jobs /\ InputInv  BY DEF MutatorInv, ShapeInv
<1>2. UNCHANGED <<job, pc, warehouse, i, out, received, client>> /\ Reading  BY DEF SkipInvalid
<1>3. PICK q \in Pos + 1 .. Len(job.input) :
           /\ pc = "get" /\ Got(job.ift, input) = Msg(job, q)
           /\ Left(job.ift, input) = Rest(job.input, q)
           /\ DirectOf(job)[q - 1] = DirectOf(job)[Pos] /\ Quiet(job, q)
  BY <1>1, <1>2, ReadingFacts
<1>4. input' = Rest(job.input, q) /\ Msg(job, q).raw = <<>>  BY <1>3 DEF SkipInvalid
<1>5. q \in 1 .. Len(job.input)
  <2>1. Len(job.input) \in Nat /\ Pos \in 0 .. Len(job.input)  BY <1>1, MsgFacts DEF InputInv
  <2> QED BY <2>1
<1>6. InputInv' /\ Pos' = q  BY <1>1, <1>2, <1>3, <1>4, <1>5, InputAdvances
<1>7. DirectOf(job)[q] = DirectOf(job)[Pos]
  <2>1. ~Counts(job, q)  BY <1>4 DEF Counts
  <2>2. DirectOf(job)[q] = DirectOf(job)[q - 1]  BY <1>1, <1>5, <2>1, DirectFacts
  <2> QED BY <1>3, <2>2
<1>8. ShapeInv'  BY <1>2, <1>3 DEF MutatorInv, ShapeInv
<1>9. StreamInv'  BY <1>2, <1>3, <1>6, <1>7 DEF MutatorInv, StreamInv, Written
<1>10. OriginInv'  BY <1>2 DEF MutatorInv, OriginInv
<1> QED BY <1>6, <1>8, <1>9, <1>10 DEF MutatorInv

LEMMA InputExitsKeeps ==
  ASSUME MutatorInv, InputExits
  PROVE  MutatorInv'
BY StopKeeps DEF InputExits

LEMMA InputEndsKeeps ==
  ASSUME MutatorInv, InputEnds
  PROVE  MutatorInv'
<1>1. job \in Jobs /\ InputInv  BY DEF MutatorInv, ShapeInv
<1>2. /\ pc = "get" /\ AtEnd(job.ift, input) /\ UNCHANGED <<job, input, warehouse, i, out, received, client>>
      /\ pc' = IF job.loop /\ warehouse # <<>> THEN "loop" ELSE "done"
  BY DEF InputEnds
<1>3. CASE ~(job.loop /\ warehouse # <<>>)
  <2>1. pc' = "done"  BY <1>2, <1>3
  <2> QED BY <1>2, <2>1, StopKeeps
<1>4. CASE job.loop /\ warehouse # <<>>
  <2>1. pc' = "loop"  BY <1>2, <1>4
  <2>2. warehouse \in Seq(Full) /\ i = 0  BY <1>2 DEF MutatorInv, ShapeInv
  <2>3. i \in 0 .. Len(warehouse) - 1 /\ Len(warehouse) \in Nat \ {0}
    <3>1. Len(warehouse) \in Nat \ {0}  BY <1>4, <2>2
    <3> QED BY <2>2, <3>1
  <2>4. InputInv'  BY <1>2 DEF MutatorInv, InputInv, Pos
  <2>5. ShapeInv'
    <3>1. job.oft = "raw" => job.ift # "raw"  BY <1>2 DEF MutatorInv, ShapeInv
    <3> QED BY <1>2, <1>4, <2>1, <2>3, <3>1 DEF MutatorInv, ShapeInv
  <2>6. ASSUME job.options = {}, job.oft = "raw" PROVE warehouse = All(job) /\ i = Written % Len(All(job))
    <3>1. job.ift # "raw"  BY <1>2, <2>6 DEF MutatorInv, ShapeInv
    <3>2. Source(job.ift, input) = <<>>  BY <1>2, <3>1 DEF AtEnd
    <3>3. DirectOf(job)[Pos] = All(job)  BY <1>1, <3>2, GetFacts
    <3>4. Written = 0 /\ warehouse = DirectOf(job)[Pos]  BY <1>2, <1>4, <2>6 DEF MutatorInv, StreamInv
    <3>5. PICK d \in Nat \ {0} : d = Len(All(job))  BY <2>3, <3>3, <3>4
    <3>6. 0 % d = 0  BY ModFacts
    <3> QED BY <2>2, <3>3, <3>4, <3>5, <3>6
  <2>7. StreamInv'
    <3>1. job.options = {} /\ job.oft = "raw" =>
            /\ \A n \in 1 .. Len(received) : received[n] = Nth(job, n)
            /\ \A n \in 1 .. Len(out) : out[n].msg = Nth(job, Len(received) + n)
      BY DEF MutatorInv, StreamInv
    <3> QED BY <1>2, <1>4, <2>1, <2>6, <3>1 DEF StreamInv, Written
  <2>8. OriginInv'  BY <1>2 DEF MutatorInv, OriginInv
  <2> QED BY <2>4, <2>5, <2>7, <2>8 DEF MutatorInv
<1> QED BY <1>3, <1>4

(* A message written behind the others.                                    *)
LEMMA WriteFacts ==
  ASSUME out \in Seq(Items), received \in Seq(Full), NEW m \in Full,
         out' = Append(out, RawItem(m)), received' = received
  PROVE  /\ out' \in Seq(Items) /\ Written \in Nat /\ Written' = Written + 1
         /\ Len(out') = Len(out) + 1 /\ Len(out) \in Nat /\ Len(received) \in Nat
         /\ \A n \in 1 .. Len(out) : out'[n] = out[n]
         /\ out'[Len(out) + 1].msg = m
<1>1. PICK w : w = RawItem(m)  OBVIOUS
<1>2. w \in Items /\ w.msg = m  BY <1>1 DEF RawItem, Items
<1>3. PICK a : a = out'  OBVIOUS
<1>4. a = Append(out, w)  BY <1>1, <1>3
<1>5. /\ a \in Seq(Items) /\ Len(a) = Len(out) + 1 /\ a[Len(out) + 1] = w
      /\ \A n \in 1 .. Len(out) : a[n] = out[n]
  BY <1>2, <1>4, AppendProperties
<1>6. Len(out) \in Nat /\ Len(received) \in Nat  OBVIOUS
<1>7. Written \in Nat /\ Written' = Written + 1  BY <1>3, <1>5, <1>6 DEF Written
<1> QED BY <1>2, <1>3, <1>5, <1>6, <1>7

(* It is the one the client expects there.                                 *)
LEMMA WriteStream ==
  ASSUME out \in Seq(Items), received \in Seq(Full), NEW m \in Full, job' = job,
         out' = Append(out, RawItem(m)), received' = received,
         \A n \in 1 .. Len(received) : received[n] = Nth(job, n),
         \A n \in 1 .. Len(out) : out[n].msg = Nth(job, Len(received) + n),
         m = Nth(job, Written + 1)
  PROVE  /\ \A n \in 1 .. Len(received') : received'[n] = Nth(job', n)
         /\ \A n \in 1 .. Len(out') : out'[n].msg = Nth(job', Len(received') + n)
<1>1. /\ Len(out') = Len(out) + 1 /\ Len(out) \in Nat /\ Len(received) \in Nat
      /\ \A n \in 1 .. Len(out) : out'[n] = out[n]
      /\ out'[Len(out) + 1].msg = m
  BY WriteFacts
<1>2. ASSUME NEW n \in 1 .. Len(out') PROVE out'[n].msg = Nth(job, Len(received) + n)
  <2>1. CASE n = Len(out) + 1
    <3>1. Written + 1 = Len(received) + n  BY <1>1, <2>1 DEF Written
    <3> QED BY <1>1, <2>1, <3>1
  <2>2. CASE n # Len(out) + 1
    <3>1. n \in 1 .. Len(out)  BY <1>1, <2>2
    <3> QED BY <1>1, <3>1
  <2> QED BY <2>1, <2>2
<1> QED BY <1>2

LEMMA ConvertKeeps ==
  ASSUME MutatorInv, Convert
  PROVE  MutatorInv'
<1>1. job \in Jobs /\ InputInv /\ ShapeInv /\ warehouse \in Seq(Full) /\ received \in Seq(Full)
  BY DEF MutatorInv, ShapeInv
<1>2. PICK q \in Pos + 1 .. Len(job.input) :
           /\ pc = "get" /\ UNCHANGED <<job, i, received, client>> /\ input' = Rest(job.input, q)
           /\ DirectOf(job)[q - 1] = DirectOf(job)[Pos] /\ Counts(job, q) /\ Quiet(job, q)
           /\ \/ job.options # {} /\ pc' \in {pc, "exit"} /\ UNCHANGED <<warehouse, out>>
              \/ \E m \in Full : /\ Store(m) /\ Comes(job, m)
                                 /\ job.options = {} => m = Msg(job, q)
  BY <1>1, ConvertFacts
<1>3. q \in 1 .. Len(job.input)
  <2>1. Len(job.input) \in Nat /\ Pos \in 0 .. Len(job.input)  BY <1>1, MsgFacts DEF InputInv
  <2> QED BY <2>1
<1>4. InputInv' /\ Pos' = q  BY <1>1, <1>2, <1>3, InputAdvances
<1>5. CASE job.options # {} /\ pc' \in {pc, "exit"} /\ UNCHANGED <<warehouse, out>>
  <2>1. ShapeInv'  BY <1>2, <1>5 DEF MutatorInv, ShapeInv
  <2>2. StreamInv'  BY <1>2, <1>5 DEF StreamInv
  <2>3. OriginInv'  BY <1>2, <1>5 DEF MutatorInv, OriginInv
  <2> QED BY <1>4, <2>1, <2>2, <2>3 DEF MutatorInv
<1>6. CASE \E m \in Full : Store(m) /\ Comes(job, m) /\ (job.options = {} => m = Msg(job, q))
  <2>1. PICK m \in Full : Store(m) /\ Comes(job, m) /\ (job.options = {} => m = Msg(job, q))  BY <1>6
  <2>2. /\ pc' \in {"get", "padding"} /\ (job.oft = "raw" => pc' = "get")
        /\ job.loop => warehouse' = Append(warehouse, m) /\ out' = out
        /\ ~job.loop => warehouse' = warehouse /\ (job.oft = "raw" => out' = Append(out, RawItem(m)))
    BY <1>1, <1>2, <2>1, StoreFacts
  <2>3. /\ Msg(job, q) \in Full
        /\ DirectOf(job)[q] = Append(DirectOf(job)[Pos], Msg(job, q))
        /\ Len(DirectOf(job)[Pos]) \in Nat
        /\ Len(DirectOf(job)[Pos]) + 1 <= Len(All(job))
        /\ All(job)[Len(DirectOf(job)[Pos]) + 1] = Msg(job, q)
    BY <1>1, <1>2, <1>3, DirectHolds DEF All
  <2>4. warehouse' \in Seq(Full)
    <3>1. CASE job.loop
      <4>1. Append(warehouse, m) \in Seq(Full)  BY <1>1, AppendProperties
      <4> QED BY <2>2, <3>1, <4>1
    <3>2. CASE ~job.loop  BY <1>1, <2>2, <3>2
    <3> QED BY <3>1, <3>2
  <2>5. ASSUME job.oft = "raw" PROVE out' \in Seq(Items) /\ \A n \in 1 .. Len(out') : Comes(job, out'[n].msg)
    <3>1. out \in Seq(Items) /\ \A n \in 1 .. Len(out) : Comes(job, out[n].msg)
      BY <2>5 DEF MutatorInv, ShapeInv, OriginInv
    <3>2. CASE job.loop  BY <2>2, <3>1, <3>2
    <3>3. CASE ~job.loop
      <4>1. out' = Append(out, RawItem(m)) /\ received' = received  BY <1>2, <2>2, <2>5, <3>3
      <4>2. /\ out' \in Seq(Items) /\ Len(out') = Len(out) + 1 /\ Len(out) \in Nat
            /\ \A n \in 1 .. Len(out) : out'[n] = out[n]
            /\ out'[Len(out) + 1].msg = m
        BY <1>1, <3>1, <4>1, WriteFacts
      <4>3. ASSUME NEW n \in 1 .. Len(out') PROVE Comes(job, out'[n].msg)
        <5>1. n \in 1 .. Len(out) \/ n = Len(out) + 1  BY <4>2
        <5> QED BY <2>1, <3>1, <4>2, <5>1
      <4> QED BY <4>2, <4>3
    <3> QED BY <3>2, <3>3
  <2>6. ShapeInv'
    <3>1. job' \in Jobs /\ client' \in {"reading", "eof"} /\ i' = 0 /\ received' \in Seq(Full)
          /\ (job.oft # "raw" => received' = <<>>) /\ (job.oft = "raw" => job.ift # "raw")
      BY <1>2 DEF MutatorInv, ShapeInv
    <3> QED BY <1>2, <2>2, <2>4, <2>5, <3>1 DEF ShapeInv
  <2>7. StreamInv'
    <3>1. SUFFICES ASSUME job.options = {}, job.oft = "raw"
                   PROVE  /\ \A n \in 1 .. Len(received') : received'[n] = Nth(job', n)
                          /\ \A n \in 1 .. Len(out') : out'[n].msg = Nth(job', Len(received') + n)
                          /\ ~job.loop => Written' <= Len(All(job))
                          /\ ~job.loop => Written' = Len(DirectOf(job)[q])
                          /\ job.loop => Written' = 0 /\ warehouse' = DirectOf(job)[q]
      BY <1>2, <1>4, <2>2 DEF StreamInv
    <3>2. m = Msg(job, q) /\ out \in Seq(Items)  BY <2>1, <3>1 DEF MutatorInv, ShapeInv
    <3>3. /\ \A n \in 1 .. Len(received) : received[n] = Nth(job, n)
          /\ \A n \in 1 .. Len(out) : out[n].msg = Nth(job, Len(received) + n)
          /\ ~job.loop => Written = Len(DirectOf(job)[Pos])
          /\ job.loop => Written = 0 /\ warehouse = DirectOf(job)[Pos]
      BY <1>2, <3>1 DEF MutatorInv, StreamInv
    <3>4. CASE job.loop
      <4>1. Written' = 0  BY <1>2, <2>2, <3>3, <3>4 DEF Written
      <4> QED BY <1>2, <2>2, <2>3, <3>2, <3>3, <3>4, <4>1
    <3>5. CASE ~job.loop
      <4>1. out' = Append(out, RawItem(m)) /\ received' = received  BY <1>2, <2>2, <3>1, <3>5
      <4>2. PICK c \in Nat : c = Written  BY <2>3, <3>3, <3>5
      <4>3. PICK d \in Nat \ {0} : d = Len(All(job))
        <5>1. Len(All(job)) \in Nat  BY <1>1, AllFacts
        <5> QED BY <2>3, <5>1
      <4>4. c = Len(DirectOf(job)[Pos]) /\ c < d /\ All(job)[c + 1] = m  BY <2>3, <3>2, <3>3, <3>5, <4>2, <4>3
      <4>5. c % d = c  BY <4>4, ModFacts
      <4>6. m = Nth(job, Written + 1)
        <5>1. (c + 1) - 1 = c  OBVIOUS
        <5> QED BY <4>2, <4>3, <4>4, <4>5, <5>1 DEF Nth
      <4>7. Written' = Written + 1  BY <1>1, <3>2, <4>1, WriteFacts
      <4>8. /\ \A n \in 1 .. Len(received') : received'[n] = Nth(job', n)
            /\ \A n \in 1 .. Len(out') : out'[n].msg = Nth(job', Len(received') + n)
        BY <1>1, <1>2, <3>2, <3>3, <4>1, <4>6, WriteStream
      <4>9. Len(DirectOf(job)[q]) = Len(DirectOf(job)[Pos]) + 1
        <5>1. DirectOf(job)[Pos] \in Seq(Full)
          <6>1. Pos \in 0 .. Len(job.input)  BY <1>1 DEF InputInv
          <6> QED BY <1>1, <6>1, DirectFacts
        <5> QED BY <2>3, <5>1
      <4>10. Written' <= Len(All(job))
        <5>1. c < d  BY <4>4
        <5>2. c + 1 <= d  BY <5>1
        <5> QED BY <4>2, <4>3, <4>7, <5>2
      <4> QED BY <3>3, <3>5, <4>7, <4>8, <4>9, <4>10
    <3> QED BY <3>4, <3>5
  <2>8. OriginInv'
    <3>1. SUFFICES ASSUME job.oft = "raw"
                   PROVE  /\ \A n \in 1 .. Len(warehouse') : Comes(job, warehouse'[n])
                          /\ \A n \in 1 .. Len(out') : Comes(job, out'[n].msg)
                          /\ \A n \in 1 .. Len(received') : Comes(job, received'[n])
      BY <1>2 DEF OriginInv
    <3>2. \A n \in 1 .. Len(received') : Comes(job, received'[n])
      BY <1>2, <3>1 DEF MutatorInv, OriginInv
    <3>3. \A n \in 1 .. Len(warehouse) : Comes(job, warehouse[n])  BY <3>1 DEF MutatorInv, OriginInv
    <3>4. ASSUME NEW n \in 1 .. Len(warehouse') PROVE Comes(job, warehouse'[n])
      <4>1. CASE ~job.loop  BY <2>2, <3>3, <4>1
      <4>2. CASE job.loop
        <5>1. PICK l \in Nat : l = Len(warehouse)  BY <1>1
        <5>2. PICK a : a = warehouse'  OBVIOUS
        <5>3. Len(a) = l + 1 /\ a[l + 1] = m /\ \A k \in 1 .. l : a[k] = warehouse[k]
          BY <1>1, <2>2, <4>2, <5>1, <5>2, AppendProperties
        <5>4. n \in 1 .. l \/ n = l + 1  BY <5>2, <5>3
        <5> QED BY <2>1, <3>3, <5>1, <5>2, <5>3, <5>4
      <4> QED BY <4>1, <4>2
    <3> QED BY <2>5, <3>1, <3>2, <3>4
  <2> QED BY <1>4, <2>6, <2>7, <2>8 DEF MutatorInv
<1> QED BY <1>2, <1>5, <1>6

LEMMA LoopKeeps ==
  ASSUME MutatorInv, Loop
  PROVE  MutatorInv'
<1>1. job \in Jobs /\ warehouse \in Seq(Full) /\ received \in Seq(Full)  BY DEF MutatorInv, ShapeInv
<1>2. PICK m : m = warehouse[i + 1]  OBVIOUS
<1>3. /\ pc = "loop" /\ i < Len(warehouse) /\ UNCHANGED <<job, input, warehouse, received, client>>
      /\ IF job.oft = "text" /\ PadsForever(m)
         THEN pc' = "padding" /\ UNCHANGED <<out, i>>
         ELSE WriteOutput(m) /\ i' = Wrap(i) + 1 /\ UNCHANGED pc
  BY <1>2 DEF Loop
<1>4. i \in 0 .. Len(warehouse) - 1 /\ job.loop  BY <1>3 DEF MutatorInv, ShapeInv
<1>5. PICK len \in Nat \ {0} : len = Len(warehouse)
  <2>1. Len(warehouse) \in Nat  BY <1>1
  <2> QED BY <1>4, <2>1
<1>6. i \in 0 .. len - 1 /\ i + 1 \in 1 .. len  BY <1>4, <1>5
<1>7. m \in Full  BY <1>1, <1>2, <1>5, <1>6
<1>8. CASE job.oft = "text" /\ PadsForever(m)  BY <1>3, <1>8, StopKeeps
<1>9. CASE ~(job.oft = "text" /\ PadsForever(m))
  <2>1. WriteOutput(m) /\ i' = Wrap(i) + 1 /\ pc' = "loop"  BY <1>3, <1>9
  <2>2. i' = IF i = len - 1 THEN 0 ELSE i + 1
    <3>1. Wrap(i) = IF i = len - 1 THEN -1 ELSE i  BY <1>5 DEF Wrap
    <3> QED BY <1>6, <2>1, <3>1
  <2>3. i' \in 0 .. len - 1  BY <1>6, <2>2
  <2>4. InputInv'  BY <1>3 DEF MutatorInv, InputInv, Pos
  <2>5. ASSUME job.oft = "raw"
        PROVE  /\ out \in Seq(Items) /\ out' = Append(out, RawItem(m)) /\ out' \in Seq(Items)
               /\ Written \in Nat /\ Written' = Written + 1
               /\ Len(out') = Len(out) + 1 /\ Len(out) \in Nat
               /\ \A n \in 1 .. Len(out) : out'[n] = out[n]
               /\ out'[Len(out) + 1].msg = m
    <3>1. out \in Seq(Items)  BY <2>5 DEF MutatorInv, ShapeInv
    <3>2. out' = Append(out, RawItem(m)) /\ received' = received  BY <1>3, <2>1, <2>5 DEF WriteOutput
    <3> QED BY <1>1, <1>7, <3>1, <3>2, WriteFacts
  <2>6. ShapeInv'
    <3>1. client \in {"reading", "eof"} /\ (job.oft # "raw" => received = <<>>)
          /\ (job.oft = "raw" => job.ift # "raw")
      BY <1>3 DEF MutatorInv, ShapeInv
    <3> QED BY <1>1, <1>3, <1>4, <1>5, <2>1, <2>3, <2>5, <3>1 DEF ShapeInv
  <2>7. StreamInv'
    <3>1. SUFFICES ASSUME job.options = {}, job.oft = "raw"
                   PROVE  /\ \A n \in 1 .. Len(received') : received'[n] = Nth(job', n)
                          /\ \A n \in 1 .. Len(out') : out'[n].msg = Nth(job', Len(received') + n)
                          /\ warehouse' = All(job) /\ i' = Written' % Len(All(job))
      BY <1>3, <1>4, <2>1 DEF StreamInv
    <3>2. /\ \A n \in 1 .. Len(received) : received[n] = Nth(job, n)
          /\ \A n \in 1 .. Len(out) : out[n].msg = Nth(job, Len(received) + n)
          /\ warehouse = All(job) /\ i = Written % Len(All(job))
      BY <1>3, <3>1 DEF MutatorInv, StreamInv
    <3>3. PICK c \in Nat : c = Written  BY <2>5, <3>1
    <3>4. i = c % len /\ len = Len(All(job))  BY <1>5, <3>2, <3>3
    <3>5. (c + 1) % len = IF c % len = len - 1 THEN 0 ELSE (c % len) + 1  BY ModFacts
    <3>6. i' = (c + 1) % len  BY <2>2, <3>4, <3>5
    <3>7. m = Nth(job, Written + 1)
      <4>1. (c + 1) - 1 = c  OBVIOUS
      <4>2. Nth(job, c + 1) = All(job)[i + 1]  BY <3>4, <4>1 DEF Nth
      <4> QED BY <1>2, <3>2, <3>3, <4>2
    <3>8. /\ \A n \in 1 .. Len(received') : received'[n] = Nth(job', n)
          /\ \A n \in 1 .. Len(out') : out'[n].msg = Nth(job', Len(received') + n)
      BY <1>1, <1>3, <1>7, <2>5, <3>1, <3>2, <3>7, WriteStream
    <3>9. Written' = c + 1  BY <2>5, <3>1, <3>3
    <3> QED BY <1>3, <3>2, <3>4, <3>6, <3>8, <3>9
  <2>8. OriginInv'
    <3>1. SUFFICES ASSUME job.oft = "raw"
                   PROVE  \A n \in 1 .. Len(out') : Comes(job, out'[n].msg)
      BY <1>3 DEF MutatorInv, OriginInv
    <3>2. /\ \A n \in 1 .. Len(warehouse) : Comes(job, warehouse[n])
          /\ \A n \in 1 .. Len(out) : Comes(job, out[n].msg)
      BY <3>1 DEF MutatorInv, OriginInv
    <3>3. Comes(job, m)  BY <1>2, <1>5, <1>6, <3>2
    <3>4. ASSUME NEW n \in 1 .. Len(out') PROVE Comes(job, out'[n].msg)
      <4>1. n \in 1 .. Len(out) \/ n = Len(out) + 1  BY <2>5, <3>1
      <4> QED BY <2>5, <3>1, <3>2, <3>3, <4>1
    <3> QED BY <3>4
  <2> QED BY <2>4, <2>6, <2>7, <2>8 DEF MutatorInv
<1> QED BY <1>8, <1>9

(* What is left of the output when the mutator dies.                       *)
LEMMA KillFacts ==
  ASSUME Kill, job.oft = "raw", out \in Seq(Items)
  PROVE  /\ out' \in Seq(Items) /\ Len(out') <= Len(out)
         /\ \A n \in 1 .. Len(out') : out'[n].msg = out[n].msg
<1>1. PICK len \in Nat : len = Len(out)  OBVIOUS
<1>2. \E n \in 0 .. len : \E cut \in {"none", "size", "body"} :
       out' = IF cut # "none" /\ n < len
              THEN Append(SubSeq(out, 1, n), [out[n + 1] EXCEPT !.cut = cut])
              ELSE SubSeq(out, 1, n)
  BY <1>1 DEF Kill
<1>3. PICK n \in 0 .. len : \E cut \in {"none", "size", "body"} :
       out' = IF cut # "none" /\ n < len
              THEN Append(SubSeq(out, 1, n), [out[n + 1] EXCEPT !.cut = cut])
              ELSE SubSeq(out, 1, n)
  BY <1>2
<1>4. PICK cut \in {"none", "size", "body"} :
       out' = IF cut # "none" /\ n < len
              THEN Append(SubSeq(out, 1, n), [out[n + 1] EXCEPT !.cut = cut])
              ELSE SubSeq(out, 1, n)
  BY <1>3
<1>5. PICK a : a = SubSeq(out, 1, n)  OBVIOUS
<1>6. a \in Seq(Items) /\ Len(a) = n /\ \A k \in 1 .. n : a[k] = out[k]
  <2>1. n \in Nat /\ n <= len /\ \A k \in 1 .. n : k \in 1 .. len  OBVIOUS
  <2>2. \A k \in 1 .. n : out[k] \in Items  BY <1>1, <2>1
  <2>3. /\ a \in Seq(Items) /\ Len(a) = (IF 1 <= n THEN n - 1 + 1 ELSE 0)
        /\ \A k \in 1 .. n - 1 + 1 : a[k] = out[1 + k - 1]
    BY <1>5, <2>1, <2>2, SubSeqProperties
  <2>4. n - 1 + 1 = n /\ \A k \in 1 .. n : 1 + k - 1 = k  BY <2>1
  <2> QED BY <2>1, <2>3, <2>4
<1>7. CASE ~(cut # "none" /\ n < len)
  <2>1. out' = a  BY <1>4, <1>5, <1>7
  <2> QED BY <1>1, <1>6, <2>1
<1>8. CASE cut # "none" /\ n < len
  <2>1. n + 1 \in 1 .. len  BY <1>8
  <2>2. PICK o \in Items : o = out[n + 1]  BY <1>1, <2>1
  <2>3. PICK w : w = [o EXCEPT !.cut = cut]  OBVIOUS
  <2>4. w \in Items /\ w.msg = o.msg  BY <2>3 DEF Items
  <2>5. PICK b : b = Append(a, w)  OBVIOUS
  <2>6. b \in Seq(Items) /\ Len(b) = n + 1 /\ b[n + 1] = w /\ \A k \in 1 .. n : b[k] = a[k]
    BY <1>6, <2>4, <2>5, AppendProperties
  <2>7. out' = b  BY <1>4, <1>5, <1>8, <2>2, <2>3, <2>5
  <2>8. ASSUME NEW k \in 1 .. n + 1 PROVE b[k].msg = out[k].msg
    <3>1. k \in 1 .. n \/ k = n + 1  OBVIOUS
    <3> QED BY <1>6, <2>2, <2>4, <2>6, <3>1
  <2> QED BY <1>1, <1>8, <2>6, <2>7, <2>8
<1> QED BY <1>7, <1>8

LEMMA KillKeeps ==
  ASSUME MutatorInv, Kill
  PROVE  MutatorInv'
<1>1. pc' = "killed" /\ UNCHANGED <<job, input, warehouse, i, received, client>>  BY DEF Kill
<1>2. ASSUME job.oft = "raw"
      PROVE  /\ out' \in Seq(Items) /\ Len(out') <= Len(out) /\ Len(out) \in Nat /\ Len(out') \in Nat
             /\ Len(received) \in Nat
             /\ \A n \in 1 .. Len(out') : n \in 1 .. Len(out) /\ out'[n].msg = out[n].msg
  <2>1. out \in Seq(Items) /\ received \in Seq(Full)  BY <1>2 DEF MutatorInv, ShapeInv
  <2>2. /\ out' \in Seq(Items) /\ Len(out') <= Len(out)
        /\ \A n \in 1 .. Len(out') : out'[n].msg = out[n].msg
    BY <1>2, <2>1, KillFacts
  <2>3. Len(out) \in Nat /\ Len(out') \in Nat /\ Len(received) \in Nat  BY <2>1, <2>2
  <2>4. \A n \in 1 .. Len(out') : n \in 1 .. Len(out)  BY <2>2, <2>3
  <2> QED BY <2>2, <2>3, <2>4
<1>3. InputInv'  BY <1>1 DEF MutatorInv, InputInv, Pos
<1>4. ShapeInv'  BY <1>1, <1>2 DEF MutatorInv, ShapeInv
<1>5. StreamInv'
  <2>1. SUFFICES ASSUME job.options = {}, job.oft = "raw"
                 PROVE  /\ \A n \in 1 .. Len(received) : received[n] = Nth(job, n)
                        /\ \A n \in 1 .. Len(out') : out'[n].msg = Nth(job, Len(received) + n)
                        /\ ~job.loop => Written' <= Len(All(job))
    BY <1>1 DEF StreamInv
  <2>2. /\ \A n \in 1 .. Len(received) : received[n] = Nth(job, n)
        /\ \A n \in 1 .. Len(out) : out[n].msg = Nth(job, Len(received) + n)
        /\ ~job.loop => Written <= Len(All(job))
    BY <2>1 DEF MutatorInv, StreamInv
  <2>3. \A n \in 1 .. Len(out') : out'[n].msg = Nth(job, Len(received) + n)  BY <1>2, <2>1, <2>2
  <2>4. ~job.loop => Written' <= Len(All(job))
    <3>1. Len(All(job)) \in Nat
      <4>1. job \in Jobs  BY DEF MutatorInv, ShapeInv
      <4> QED BY <4>1, AllFacts
    <3>2. Written' = Len(received) + Len(out')  BY <1>1 DEF Written
    <3> QED BY <1>2, <2>1, <2>2, <3>1, <3>2 DEF Written
  <2> QED BY <2>2, <2>3, <2>4
<1>6. OriginInv'  BY <1>1, <1>2 DEF MutatorInv, OriginInv
<1> QED BY <1>3, <1>4, <1>5, <1>6 DEF MutatorInv

LEMMA ClientGetKeeps ==
  ASSUME MutatorInv, ClientGet
  PROVE  MutatorInv'
<1>1. /\ job.oft = "raw" /\ UNCHANGED <<job, pc, input, warehouse, i>>
      /\ IF AtEnd("raw", out)
         THEN ~Writing /\ client' = "eof" /\ UNCHANGED <<out, received>>
         ELSE /\ received' = Append(received, Got("raw", out))
              /\ out' = Left("raw", out)
              /\ UNCHANGED client
  BY DEF ClientGet
<1>2. out \in Seq(Items) /\ received \in Seq(Full)  BY <1>1 DEF MutatorInv, ShapeInv
<1>3. InputInv'  BY <1>1 DEF MutatorInv, InputInv, Pos
<1>4. CASE AtEnd("raw", out)
  <2>1. client' = "eof" /\ UNCHANGED <<out, received>>  BY <1>1, <1>4
  <2>2. ShapeInv'  BY <1>1, <2>1 DEF MutatorInv, ShapeInv
  <2>3. StreamInv'  BY <1>1, <2>1 DEF MutatorInv, StreamInv, Written, Pos
  <2>4. OriginInv'  BY <1>1, <2>1 DEF MutatorInv, OriginInv
  <2> QED BY <1>3, <2>2, <2>3, <2>4 DEF MutatorInv
<1>5. CASE ~AtEnd("raw", out)
  <2>1. Source("raw", out) = out  BY DEF Source
  <2>2. out # <<>>  BY <1>5, <2>1 DEF AtEnd
  <2>3. PICK m : m = Head(out).msg  OBVIOUS
  <2>4. received' = Append(received, m) /\ out' = Tail(out) /\ client' = client
    BY <1>1, <1>5, <2>1, <2>3 DEF Got, Left, Process
  <2>5. PICK lo \in Nat : lo + 1 = Len(out)
    <3>1. Len(out) \in Nat \ {0}  BY <1>2, <2>2, EmptySeq
    <3>2. Len(out) - 1 \in Nat /\ (Len(out) - 1) + 1 = Len(out)  BY <3>1
    <3> QED BY <3>2
  <2>6. PICK lr \in Nat : lr = Len(received)  BY <1>2
  <2>7. Head(out) = out[1] /\ out[1] \in Items /\ m = out[1].msg  BY <1>2, <2>2, <2>3, <2>5
  <2>8. m \in Full  BY <2>7 DEF Items
  <2>9. PICK a : a = out'  OBVIOUS
  <2>10. PICK b : b = received'  OBVIOUS
  <2>11. a \in Seq(Items) /\ Len(a) = lo /\ \A n \in 1 .. lo : a[n] = out[n + 1]
    <3>1. a \in Seq(Items) /\ Len(a) = Len(out) - 1 /\ \A n \in 1 .. Len(a) : a[n] = out[n + 1]
      BY <1>2, <2>2, <2>4, <2>9, HeadTailProperties
    <3>2. Len(a) = lo  BY <2>5, <3>1
    <3> QED BY <3>1, <3>2
  <2>12. b \in Seq(Full) /\ Len(b) = lr + 1 /\ b[lr + 1] = m /\ \A n \in 1 .. lr : b[n] = received[n]
    BY <1>2, <2>4, <2>6, <2>8, <2>10, AppendProperties
  <2>13. ShapeInv'
    <3>1. pc # "main"  BY <2>2 DEF MutatorInv, ShapeInv
    <3> QED BY <1>1, <2>4, <2>9, <2>10, <2>11, <2>12, <3>1 DEF MutatorInv, ShapeInv
  <2>14. Written' = Written
    <3>1. Written' = (lr + 1) + lo  BY <2>9, <2>10, <2>11, <2>12 DEF Written
    <3>2. Written = lr + (lo + 1)  BY <2>5, <2>6 DEF Written
    <3> QED BY <3>1, <3>2
  <2>15. StreamInv'
    <3>1. SUFFICES ASSUME job.options = {}, job.oft = "raw"
                   PROVE  /\ \A n \in 1 .. Len(b) : b[n] = Nth(job, n)
                          /\ \A n \in 1 .. Len(a) : a[n].msg = Nth(job, Len(b) + n)
      <4>1. Pos' = Pos  BY <1>1 DEF Pos
      <4> QED BY <1>1, <2>9, <2>10, <2>14, <4>1 DEF MutatorInv, StreamInv
    <3>2. /\ \A n \in 1 .. lr : received[n] = Nth(job, n)
          /\ \A n \in 1 .. lo + 1 : out[n].msg = Nth(job, lr + n)
      BY <2>5, <2>6, <3>1 DEF MutatorInv, StreamInv
    <3>3. ASSUME NEW n \in 1 .. lr + 1 PROVE b[n] = Nth(job, n)
      <4>1. CASE n = lr + 1
        <5>1. 1 \in 1 .. lo + 1  OBVIOUS
        <5>2. m = Nth(job, lr + 1)  BY <2>7, <3>2, <5>1
        <5> QED BY <2>12, <4>1, <5>2
      <4>2. CASE n # lr + 1
        <5>1. n \in 1 .. lr  BY <4>2
        <5> QED BY <2>12, <3>2, <5>1
      <4> QED BY <4>1, <4>2
    <3>4. ASSUME NEW n \in 1 .. lo PROVE a[n].msg = Nth(job, (lr + 1) + n)
      <4>1. n + 1 \in 1 .. lo + 1 /\ lr + (n + 1) = (lr + 1) + n  OBVIOUS
      <4>2. out[n + 1].msg = Nth(job, lr + (n + 1))  BY <3>2, <4>1
      <4> QED BY <2>11, <4>1, <4>2
    <3> QED BY <2>11, <2>12, <3>3, <3>4
  <2>16. OriginInv'
    <3>1. SUFFICES /\ \A n \in 1 .. Len(b) : Comes(job, b[n])
                   /\ \A n \in 1 .. Len(a) : Comes(job, a[n].msg)
      BY <1>1, <2>9, <2>10 DEF MutatorInv, OriginInv
    <3>2. /\ \A n \in 1 .. lr : Comes(job, received[n])
          /\ \A n \in 1 .. lo + 1 : Comes(job, out[n].msg)
      BY <1>1, <2>5, <2>6 DEF MutatorInv, OriginInv
    <3>3. ASSUME NEW n \in 1 .. lr + 1 PROVE Comes(job, b[n])
      <4>1. CASE n = lr + 1
        <5>1. 1 \in 1 .. lo + 1  OBVIOUS
        <5>2. Comes(job, m)  BY <2>7, <3>2, <5>1
        <5> QED BY <2>12, <4>1, <5>2
      <4>2. CASE n # lr + 1
        <5>1. n \in 1 .. lr  BY <4>2
        <5> QED BY <2>12, <3>2, <5>1
      <4> QED BY <4>1, <4>2
    <3>4. ASSUME NEW n \in 1 .. lo PROVE Comes(job, a[n].msg)
      <4>1. n + 1 \in 1 .. lo + 1  OBVIOUS
      <4> QED BY <2>11, <3>2, <4>1
    <3> QED BY <2>11, <2>12, <3>3, <3>4
  <2> QED BY <1>3, <2>13, <2>15, <2>16 DEF MutatorInv
<1> QED BY <1>4, <1>5

LEMMA NextInv == MutatorInv /\ [Next]_vars => MutatorInv'
<1> SUFFICES ASSUME MutatorInv, [Next]_vars PROVE MutatorInv'
  OBVIOUS
<1>1. CASE Start  BY <1>1, StartKeeps
<1>2. CASE SkipInvalid  BY <1>2, SkipInvalidKeeps
<1>3. CASE Convert  BY <1>3, ConvertKeeps
<1>4. CASE InputExits  BY <1>4, InputExitsKeeps
<1>5. CASE InputEnds  BY <1>5, InputEndsKeeps
<1>6. CASE Loop  BY <1>6, LoopKeeps
<1>7. CASE Kill  BY <1>7, KillKeeps
<1>8. CASE ClientGet  BY <1>8, ClientGetKeeps
<1>9. CASE UNCHANGED vars  BY <1>9, StutterKeeps
<1> QED BY <1>1, <1>2, <1>3, <1>4, <1>5, <1>6, <1>7, <1>8, <1>9 DEF Next

(* The invariant of the mutator and the client behind it.                  *)
THEOREM InvCorrect == Spec => []MutatorInv
BY InitInv, NextInv, PTL DEF Spec

LEMMA TypeFacts == MutatorInv => TypeOK
<1> SUFFICES ASSUME MutatorInv PROVE TypeOK
  OBVIOUS
<1>1. job \in Jobs /\ warehouse \in Seq(Full)  BY DEF MutatorInv, ShapeInv
<1>2. IsSuffix(input, job.input)
  <2>1. job.input \in Seq(ToSet(job.input))  BY <1>1, MsgFacts
  <2>2. Pos \in 0 .. Len(job.input) /\ input = Rest(job.input, Pos)  BY DEF MutatorInv, InputInv
  <2> QED BY <2>1, <2>2, RestIsSuffix
<1>3. \A k \in DOMAIN warehouse : warehouse[k].raw # <<>>  BY <1>1 DEF Full
<1> QED BY <1>1, <1>2, <1>3 DEF MutatorInv, ShapeInv, TypeOK

LEMMA Transparent == MutatorInv => EncodingTransparent
<1> SUFFICES ASSUME MutatorInv PROVE EncodingTransparent
  OBVIOUS
<1>1. TypeOK  BY TypeFacts
<1>2. job \in Jobs /\ received \in Seq(Full)  BY DEF MutatorInv, ShapeInv
<1>3. Direct = All(job)  BY DEF Direct, All
<1>4. ASSUME job.options = {}, NEW n \in DOMAIN received
      PROVE  /\ ~job.loop => n <= Len(Direct)
             /\ received[n] = Direct[((n - 1) % Len(Direct)) + 1]
  <2>1. n \in 1 .. Len(received) /\ Len(received) \in Nat  BY <1>2
  <2>2. job.oft = "raw"
    <3>1. received # <<>>  BY <2>1
    <3> QED BY <3>1 DEF MutatorInv, ShapeInv
  <2>3. received[n] = Nth(job, n) /\ (~job.loop => Written <= Len(All(job)))
    BY <1>4, <2>1, <2>2 DEF MutatorInv, StreamInv
  <2>4. out \in Seq(Items)  BY <2>2 DEF MutatorInv, ShapeInv
  <2>5. Written = Len(received) + Len(out) /\ Len(out) \in Nat /\ Len(All(job)) \in Nat
    BY <1>2, <2>4, AllFacts DEF Written
  <2>6. ~job.loop => n <= Len(All(job))  BY <2>1, <2>3, <2>5
  <2> QED BY <1>3, <2>3, <2>6 DEF Nth
<1> QED BY <1>1, <1>4 DEF EncodingTransparent

(* Without options the client reads what it would have got from the input  *)
(* itself, in order, once or over and over, wherever the mutator died: for *)
(* every input and however long the endless loop runs.                     *)
THEOREM EncodingCorrect == Spec => []EncodingTransparent
BY InvCorrect, Transparent, PTL

LEMMA Honoured == MutatorInv => OptionsHonoured
<1> SUFFICES ASSUME MutatorInv, NEW n \in DOMAIN received
             PROVE  Honours(job.options, Head(received[n].raw), Head(Original(received[n]).raw))
  BY DEF OptionsHonoured
<1>1. job \in Jobs /\ received \in Seq(Full)  BY DEF MutatorInv, ShapeInv
<1>2. n \in 1 .. Len(received) /\ Len(received) \in Nat  BY <1>1
<1>3. job.oft = "raw"
  <2>1. received # <<>>  BY <1>2
  <2> QED BY <2>1 DEF MutatorInv, ShapeInv
<1>4. PICK m : m = received[n]  OBVIOUS
<1>5. Comes(job, m)  BY <1>2, <1>3, <1>4 DEF MutatorInv, OriginInv
<1>6. PICK d \in Range(All(job)) : d.id = m.id /\ Honours(job.options, Head(m.raw), Head(d.raw))
  BY <1>5 DEF Comes
<1>7. Original(m) = CHOOSE e \in Range(All(job)) : e.id = m.id  BY DEF Original, Direct, All
<1>8. Original(m) \in Range(All(job)) /\ Original(m).id = m.id  BY <1>6, <1>7
<1>9. Original(m) = d  BY <1>1, <1>6, <1>8, DirectIds DEF All
<1> QED BY <1>4, <1>6, <1>9

(* Whatever the dice and the order in which the changes are applied, every *)
(* query the client reads differs from its original only as the options    *)
(* allow: for every set of options, every input and every roll of 1..100.  *)
THEOREM OptionsCorrect == Spec => []OptionsHonoured
BY InvCorrect, Honoured, PTL
=============================================================================
