--------------------------- MODULE PostmanProofs ---------------------------
(* Proofs about what the controller's Postman stands on: the streams whose *)
(* bytes it and the other read loops cut into messages (Framing), for any  *)
(* messages and loops that meet the assumptions; and the Filter from which *)
(* it draws clients, for any number of clients, total weight and input.    *)
EXTENDS Framing, Filter, SequenceTheorems, WellFoundedInduction, TLAPS

-----------------------------------------------------------------------------
(* A set of numbers that holds 0 and with each number the next one holds   *)
(* them all: the least number it does not hold would be neither 0 nor the  *)
(* successor of one that it holds.                                         *)
LEMMA NatSetInduction ==
  ASSUME NEW T \in SUBSET Nat, 0 \in T, \A n \in T : n + 1 \in T
  PROVE  \A n \in Nat : n \in T
<1> DEFINE Less == OpToRel(<, Nat)
           Missing == Nat \ T
<1>1. SUFFICES ASSUME Missing # {} PROVE FALSE
  OBVIOUS
<1>2. IsWellFoundedOn(Less, Nat)  BY NatLessThanWellFounded
<1>3. PICK x \in Missing : \A y \in Missing : <<y, x>> \notin Less
  <2>1. Missing \subseteq Nat  OBVIOUS
  <2> HIDE DEF Missing, Less
  <2> QED BY <1>1, <1>2, <2>1, WFMin
<1>4. \A y \in Missing : ~(y < x)  BY <1>3 DEF OpToRel
<1> QED BY <1>4

-----------------------------------------------------------------------------
(* Where the messages are in the stream, when the length field has h bytes: *)
(* in front of message u there are Start(h)[u] bytes.                      *)
IsStart(h, f) ==
  /\ f[1] = 0
  /\ \A u \in Msgs : f[u + 1] = f[u] + h + Sizes[u]
Start(h) == CHOOSE f \in [1 .. Len(Sizes) + 1 -> Nat] : IsStart(h, f)

LEMMA SizesType == Len(Sizes) \in Nat /\ \A u \in Msgs : Sizes[u] \in Positive
  BY FramingAssumption DEF Msgs, Positive

LEMMA StartExists ==
  ASSUME NEW h \in Nat
  PROVE  /\ Start(h) \in [1 .. Len(Sizes) + 1 -> Nat]
         /\ IsStart(h, Start(h))
<1> DEFINE Upto(n, f) == f[1] = 0 /\ \A u \in 1 .. n : f[u + 1] = f[u] + h + Sizes[u]
           T == {n \in Nat : n <= Len(Sizes) =>
                               \E f \in [1 .. n + 1 -> Nat] : Upto(n, f)}
<1>1. 0 \in T
  <2>1. [u \in 1 .. 0 + 1 |-> 0] \in [1 .. 0 + 1 -> Nat]  OBVIOUS
  <2>2. Upto(0, [u \in 1 .. 0 + 1 |-> 0])  OBVIOUS
  <2> QED BY <2>1, <2>2
<1>2. ASSUME NEW n \in T PROVE n + 1 \in T
  <2>1. SUFFICES ASSUME n + 1 <= Len(Sizes)
                 PROVE  \E g \in [1 .. n + 1 + 1 -> Nat] : Upto(n + 1, g)
    <3> HIDE DEF Upto
    <3> QED OBVIOUS
  <2>2. n \in Nat /\ n <= Len(Sizes) /\ Sizes[n + 1] \in Nat
    BY <2>1, SizesType DEF Msgs, Positive
  <2>3. PICK f \in [1 .. n + 1 -> Nat] : Upto(n, f)
    BY <2>2
  <2> DEFINE g == [u \in 1 .. n + 1 + 1 |-> IF u = n + 2 THEN f[n + 1] + h + Sizes[n + 1] ELSE f[u]]
  <2>4. g \in [1 .. n + 1 + 1 -> Nat]  BY <2>2, SMTT(60)
  <2>5. g[1] = 0  BY <2>2, <2>3
  <2>6. ASSUME NEW u \in 1 .. n + 1 PROVE g[u + 1] = g[u] + h + Sizes[u]
    BY <2>2, <2>3, SMTT(60)
  <2> QED BY <2>4, <2>5, <2>6
<1>3. Len(Sizes) \in T
  <2> HIDE DEF T
  <2>1. T \in SUBSET Nat  BY DEF T
  <2> QED BY <1>1, <1>2, <2>1, NatSetInduction, SizesType
<1>4. \E f \in [1 .. Len(Sizes) + 1 -> Nat] : IsStart(h, f)
  BY <1>3, SizesType DEF IsStart, Msgs
<1> QED BY <1>4 DEF Start

(* A message begins behind the end of each one before it.                  *)
LEMMA StartGrows ==
  ASSUME NEW h \in Nat, NEW u \in Msgs, NEW k \in 1 .. Len(Sizes) + 1, u < k
  PROVE  Start(h)[u] + h + Sizes[u] <= Start(h)[k]
<1> DEFINE f == Start(h)
           T == {n \in Nat : u + 1 + n <= Len(Sizes) + 1 => f[u + 1] <= f[u + 1 + n]}
<1>1. f \in [1 .. Len(Sizes) + 1 -> Nat] /\ \A j \in Msgs : f[j + 1] = f[j] + h + Sizes[j]
  BY StartExists DEF IsStart
<1>2. u \in Nat /\ u + 1 \in 1 .. Len(Sizes) + 1
  BY SizesType DEF Msgs
<1> HIDE DEF f
<1>3. 0 \in T  BY <1>1, <1>2
<1>4. ASSUME NEW n \in T PROVE n + 1 \in T
  <2>1. SUFFICES ASSUME u + 1 + (n + 1) <= Len(Sizes) + 1
                 PROVE  f[u + 1] <= f[u + 1 + (n + 1)]
    OBVIOUS
  <2>2. u + 1 + n \in Msgs  BY <1>2, <2>1, SizesType DEF Msgs
  <2>3. f[u + 1] <= f[u + 1 + n]  BY <1>2, <2>1, SizesType
  <2>4. f[u + 1 + n + 1] = f[u + 1 + n] + h + Sizes[u + 1 + n]  BY <1>1, <2>2
  <2>5. u + 1 + n + 1 = u + 1 + (n + 1)  BY <1>2
  <2>6. f[u + 1 + n] \in Nat /\ f[u + 1] \in Nat /\ Sizes[u + 1 + n] \in Nat
    <3>1. u + 1 + n \in 1 .. Len(Sizes) + 1  BY <2>2, SizesType DEF Msgs
    <3> QED BY <1>1, <1>2, <2>2, <3>1, SizesType DEF Positive
  <2> QED BY <2>3, <2>4, <2>5, <2>6
<1>5. \A n \in Nat : n \in T
  <2> HIDE DEF T
  <2>1. T \in SUBSET Nat  BY DEF T
  <2> QED BY <1>3, <1>4, <2>1, NatSetInduction
<1>6. k - (u + 1) \in Nat /\ u + 1 + (k - (u + 1)) = k  BY <1>2
<1>7. f[u + 1] <= f[k]
  <2>1. k - (u + 1) \in T  BY <1>5, <1>6
  <2>2. u + 1 + (k - (u + 1)) <= Len(Sizes) + 1  BY <1>6, SizesType
  <2> QED BY <1>6, <2>1, <2>2
<1> QED BY <1>1, <1>7 DEF f

(* The byte at place p of the stream is byte k of message u.               *)
IsByte(h, p, b) ==
  \E u \in Msgs : \E k \in 1 .. h + Sizes[u] : b = <<u, k>> /\ p = Start(h)[u] + k

(* No two messages share a place.                                          *)
LEMMA ByteUnique ==
  ASSUME NEW h \in Positive, NEW q \in Msgs, NEW j \in 1 .. h + Sizes[q], NEW b,
         IsByte(h, Start(h)[q] + j, b)
  PROVE  b = <<q, j>>
<1>1. PICK u \in Msgs, k \in Nat :
        k \in 1 .. h + Sizes[u] /\ b = <<u, k>> /\ Start(h)[q] + j = Start(h)[u] + k
  BY SizesType DEF IsByte, Positive
<1>2. h \in Nat /\ q \in 1 .. Len(Sizes) + 1 /\ u \in 1 .. Len(Sizes) + 1
  BY SizesType DEF Msgs, Positive
<1>3. Start(h)[q] \in Nat /\ Start(h)[u] \in Nat /\ Sizes[u] \in Nat /\ Sizes[q] \in Nat
  BY <1>2, StartExists, SizesType DEF Positive
<1>4. PICK a \in Nat, c \in Nat, x \in Nat, y \in Nat :
        a = Start(h)[u] /\ c = Start(h)[q] /\ x = Sizes[u] /\ y = Sizes[q]
  BY <1>3
<1>5. ~(u < q)
  <2>1. u < q => a + h + x <= c  BY <1>2, <1>4, StartGrows
  <2>2. c + j = a + k /\ k <= h + x /\ 1 <= j /\ j \in Nat  BY <1>1, <1>2, <1>4
  <2> QED BY <1>2, <2>1, <2>2
<1>6. ~(q < u)
  <2>1. q < u => c + h + y <= a  BY <1>2, <1>4, StartGrows
  <2>2. c + j = a + k /\ j <= h + y /\ 1 <= k /\ j \in Nat  BY <1>1, <1>2, <1>4
  <2> QED BY <1>2, <2>1, <2>2
<1>7. u = q  BY <1>2, <1>5, <1>6
<1> QED BY <1>1, <1>3, <1>7

-----------------------------------------------------------------------------
(* The inductive invariant.  The buffer and behind it the socket hold the  *)
(* bytes of the stream from the first that has not been parsed, Parsed, to *)
(* the last that has been written, Written.                                *)
Parsed  == Start(HDR)[Len(out) + 1]
Written == Start(HDR)[next] + (IF half THEN HDR ELSE 0)

InStream(s, p) == \A j \in DOMAIN s : IsByte(HDR, p + j, s[j])

Window ==
  /\ Len(out) + 1 <= next
  /\ half => next \in Msgs
  /\ Parsed + Len(buf) + Len(sock) = Written
  /\ InStream(buf, Parsed)
  /\ InStream(sock, Parsed + Len(buf))

(* The body of a loop always finds a whole length field.                   *)
FieldThere == loop = "body" => Len(buf) >= HDR

FInv == Reassembled /\ Window /\ FieldThere

LEMMA ReaderType ==
  ASSUME TypeOK
  PROVE  /\ HDR \in Nat /\ HDR >= 1 /\ HDR \in Positive
         /\ reader.left_mod \in Nat /\ reader.left_mod >= 1
         /\ reader.read_cap \in Nat /\ reader.read_cap >= 1
         /\ reader.do_while => ~reader.tcp /\ HDR <= reader.read_cap
<1>1. reader \in Readers  BY DEF TypeOK
<1>2. reader \in [hdr : Positive, do_while : BOOLEAN, left_mod : Positive,
                  read_cap : Positive, tcp : BOOLEAN]
  BY <1>1, FramingAssumption
<1> QED BY <1>1, <1>2, DoWhileAssumption DEF HDR, Positive

(* What the invariant says of the places: all of them are numbers.         *)
LEMMA PlacesType ==
  ASSUME TypeOK, Window
  PROVE  /\ Len(out) \in Nat /\ Len(buf) \in Nat /\ Len(sock) \in Nat /\ next \in Nat
         /\ Len(out) + 1 \in 1 .. Len(Sizes) + 1 /\ next \in 1 .. Len(Sizes) + 1
         /\ Parsed \in Nat /\ Written \in Nat /\ Start(HDR)[next] \in Nat
<1>1. Len(out) \in Nat /\ Len(buf) \in Nat /\ Len(sock) \in Nat /\ next \in Nat
      /\ next \in 1 .. Len(Sizes) + 1
  BY SizesType DEF TypeOK
<1>2. Len(out) + 1 \in 1 .. Len(Sizes) + 1  BY <1>1, SizesType DEF Window
<1>3. Start(HDR) \in [1 .. Len(Sizes) + 1 -> Nat]  BY ReaderType, StartExists
<1> QED BY <1>1, <1>2, <1>3, ReaderType, SMTT(60) DEF Parsed, Written

(* What Bytes makes is a piece of the stream.                              *)
LEMMA BytesInStream ==
  ASSUME TypeOK, NEW u \in Msgs, NEW first \in Nat, NEW last \in Nat,
         1 <= first, first <= last + 1, last <= HDR + Sizes[u]
  PROVE  /\ Bytes(u, first, last) \in Seq(Nat \X Nat)
         /\ Len(Bytes(u, first, last)) = last - first + 1
         /\ InStream(Bytes(u, first, last), Start(HDR)[u] + first - 1)
<1> DEFINE b == Bytes(u, first, last)
           n == last - first + 1
<1>1. n \in Nat /\ u \in Nat /\ HDR \in Nat /\ Sizes[u] \in Nat
  BY ReaderType, SizesType DEF Msgs, Positive
<1>2. b = [j \in 1 .. n |-> <<u, first + j - 1>>]  BY DEF Bytes
<1>3. \A j \in 1 .. n : b[j] = <<u, first + j - 1>>  BY <1>2
<1>4. \A j \in 1 .. n : first + j - 1 \in 1 .. HDR + Sizes[u] /\ first + j - 1 \in Nat
  BY <1>1
<1>5. b \in [1 .. n -> Nat \X Nat]  BY <1>1, <1>2, <1>4
<1>6. b \in Seq(Nat \X Nat) /\ Len(b) = n /\ DOMAIN b = 1 .. n  BY <1>1, <1>5, SMTT(60)
<1>7. Start(HDR)[u] \in Nat
  <2>1. u \in 1 .. Len(Sizes) + 1  BY SizesType DEF Msgs
  <2> QED BY <1>1, <2>1, StartExists
<1>8. ASSUME NEW j \in 1 .. n
      PROVE  IsByte(HDR, Start(HDR)[u] + first - 1 + j, b[j])
  <2>1. Start(HDR)[u] + first - 1 + j = Start(HDR)[u] + (first + j - 1)  BY <1>1, <1>7
  <2> QED BY <1>3, <1>4, <2>1 DEF IsByte
<1> QED BY <1>6, <1>8 DEF InStream

(* Two pieces that follow each other make one, and a piece can be cut.     *)
LEMMA JoinStream ==
  ASSUME NEW s \in Seq(Nat \X Nat), NEW t \in Seq(Nat \X Nat), NEW p \in Nat,
         InStream(s, p), InStream(t, p + Len(s))
  PROVE  InStream(s \o t, p)
<1> SUFFICES ASSUME NEW j \in DOMAIN (s \o t) PROVE IsByte(HDR, p + j, (s \o t)[j])
  BY DEF InStream
<1>1. Len(s) \in Nat /\ Len(t) \in Nat /\ j \in 1 .. Len(s) + Len(t)  OBVIOUS
<1>2. CASE j <= Len(s)
  BY <1>1, <1>2 DEF InStream
<1>3. CASE j > Len(s)
  <2>1. j - Len(s) \in DOMAIN t  BY <1>1, <1>3
  <2>2. (s \o t)[j] = t[j - Len(s)]  BY <1>1, <1>3
  <2>3. IsByte(HDR, p + Len(s) + (j - Len(s)), t[j - Len(s)])  BY <2>1 DEF InStream
  <2>4. p + Len(s) + (j - Len(s)) = p + j  BY <1>1
  <2> QED BY <2>2, <2>3, <2>4
<1> QED BY <1>1, <1>2, <1>3, SMTT(60)

LEMMA CutSeq ==
  ASSUME NEW S, NEW s \in Seq(S), NEW n \in Nat, n <= Len(s)
  PROVE  /\ SubSeq(s, n + 1, Len(s)) \in Seq(S)
         /\ Len(SubSeq(s, n + 1, Len(s))) = Len(s) - n
         /\ \A j \in 1 .. Len(s) - n : SubSeq(s, n + 1, Len(s))[j] = s[n + j]
<1>1. PICK m \in Int, l \in Int : m = n + 1 /\ l = Len(s) /\ l \in Nat  OBVIOUS
<1>2. \A u \in m .. l : s[u] \in S  BY <1>1
<1>3. /\ SubSeq(s, m, l) \in Seq(S)
      /\ Len(SubSeq(s, m, l)) = IF m <= l THEN l - m + 1 ELSE 0
      /\ \A u \in 1 .. l - m + 1 : SubSeq(s, m, l)[u] = s[m + u - 1]
  BY <1>2, SubSeqProperties
<1>4. ASSUME NEW j \in 1 .. l - n PROVE SubSeq(s, m, l)[j] = s[n + j]
  <2>1. j \in 1 .. l - m + 1 /\ m + j - 1 = n + j  BY <1>1
  <2> QED BY <1>3, <2>1
<1> QED BY <1>1, <1>3, <1>4

LEMMA CutStream ==
  ASSUME NEW s \in Seq(Nat \X Nat), NEW p \in Nat, InStream(s, p),
         NEW n \in Nat, n <= Len(s)
  PROVE  /\ SubSeq(s, 1, n) \in Seq(Nat \X Nat) /\ Len(SubSeq(s, 1, n)) = n
         /\ InStream(SubSeq(s, 1, n), p)
         /\ SubSeq(s, n + 1, Len(s)) \in Seq(Nat \X Nat)
         /\ Len(SubSeq(s, n + 1, Len(s))) = Len(s) - n
         /\ InStream(SubSeq(s, n + 1, Len(s)), p + n)
<1>1. /\ SubSeq(s, 1, n) \in Seq(Nat \X Nat) /\ Len(SubSeq(s, 1, n)) = n
      /\ SubSeq(s, n + 1, Len(s)) \in Seq(Nat \X Nat)
      /\ Len(SubSeq(s, n + 1, Len(s))) = Len(s) - n
  OBVIOUS
<1>2. ASSUME NEW j \in DOMAIN SubSeq(s, 1, n)
      PROVE  IsByte(HDR, p + j, SubSeq(s, 1, n)[j])
  <2>1. j \in 1 .. n  BY <1>1
  <2>2. SubSeq(s, 1, n)[j] = s[j] /\ j \in DOMAIN s  BY <2>1, SMTT(60)
  <2> QED BY <2>2 DEF InStream
<1>3. ASSUME NEW j \in DOMAIN SubSeq(s, n + 1, Len(s))
      PROVE  IsByte(HDR, p + n + j, SubSeq(s, n + 1, Len(s))[j])
  <2>1. j \in 1 .. Len(s) - n  BY <1>1
  <2>2. SubSeq(s, n + 1, Len(s))[j] = s[n + j] /\ n + j \in DOMAIN s
    <3>1. SubSeq(s, n + 1, Len(s))[j] = s[n + j]  BY <2>1, CutSeq
    <3>2. Len(s) \in Nat /\ n + j \in 1 .. Len(s)  BY <2>1, SMTT(60)
    <3> QED BY <3>1, <3>2, SMTT(60)
  <2>3. p + n + j = p + (n + j)  BY <2>1
  <2> QED BY <2>2, <2>3 DEF InStream
<1> QED BY <1>1, <1>2, <1>3 DEF InStream

-----------------------------------------------------------------------------
LEMMA InitFraming == Init => FInv /\ NothingLeftBehind
<1> SUFFICES ASSUME Init PROVE FInv /\ NothingLeftBehind
  OBVIOUS
<1>1. Len(out) = 0 /\ Len(buf) = 0 /\ Len(sock) = 0 /\ DOMAIN buf = {} /\ DOMAIN sock = {}
  BY DEF Init
<1>2. TypeOK
  <2>1. 1 \in 1 .. Len(Sizes) + 1  BY SizesType
  <2>2. sock \in Seq(Nat \X Nat) /\ buf \in Seq(Nat \X Nat) /\ out \in Seq(Msgs)
    BY EmptySeq DEF Init
  <2> QED BY <2>1, <2>2 DEF Init, TypeOK
<1>3. Reassembled
  <2>1. out = [u \in 1 .. Len(out) |-> u]  BY <1>1 DEF Init
  <2> QED BY <1>2, <2>1 DEF Reassembled, Init
<1>4. Window
  <2>1. Parsed = 0 /\ Written = 0
    <3>1. HDR \in Nat  BY <1>2, ReaderType
    <3>2. Start(HDR)[1] = 0  BY <3>1, StartExists DEF IsStart
    <3> QED BY <1>1, <3>2 DEF Parsed, Written, Init
  <2> QED BY <1>1, <2>1 DEF Window, InStream, Init
<1>5. FieldThere /\ (loop # "body") BY DEF FieldThere, Init
<1>6. NothingLeftBehind
  <2>1. ~AtHeader  BY <1>1, <1>2, ReaderType DEF AtHeader
  <2> QED BY <2>1 DEF NothingLeftBehind
<1> QED BY <1>3, <1>4, <1>5, <1>6 DEF FInv

(* A write appends what comes next in the stream.                          *)
LEMMA WriteKeeps ==
  ASSUME FInv, NEW b \in Seq(Nat \X Nat), InStream(b, Written),
         sock' = sock \o b, UNCHANGED <<reader, buf, loop, out, garbage>>,
         next' \in 1 .. Len(Sizes) + 1, half' \in BOOLEAN,
         next <= next', half' => next' \in Msgs, Written' = Written + Len(b)
  PROVE  FInv'
<1> USE DEF FInv
<1>1. TypeOK /\ Window  BY DEF Reassembled
<1>2. sock' \in Seq(Nat \X Nat) /\ Len(sock') = Len(sock) + Len(b)  BY <1>1 DEF TypeOK
<1>3. TypeOK'  BY <1>1, <1>2 DEF TypeOK
<1>4. Reassembled'  BY <1>3 DEF Reassembled
<1>5. Parsed' = Parsed /\ HDR' = HDR  BY DEF Parsed, HDR
<1>6. InStream(sock, Parsed + Len(buf))'
  <2>1. Parsed + Len(buf) + Len(sock) = Written /\ InStream(sock, Parsed + Len(buf))
    BY <1>1 DEF Window
  <2>2. Parsed + Len(buf) \in Nat  BY <1>1, PlacesType, SMTT(60)
  <2>3. InStream(sock \o b, Parsed + Len(buf))
    <3>1. sock \in Seq(Nat \X Nat)  BY <1>1 DEF TypeOK
    <3> QED BY <2>1, <2>2, <3>1, JoinStream
  <2> QED BY <1>5, <2>3 DEF InStream
<1>7. InStream(buf, Parsed)'
  BY <1>1, <1>5 DEF Window, InStream
<1>8. Window'
  <2>1. Len(out) + 1 <= next' /\ Parsed + Len(buf) + (Len(sock) + Len(b)) = Written'
    <3>1. Len(b) \in Nat /\ next' \in Nat  BY SizesType
    <3>2. Len(out) + 1 <= next /\ Parsed + Len(buf) + Len(sock) = Written
      BY <1>1 DEF Window
    <3>3. Len(out) \in Nat /\ next \in Nat /\ Parsed \in Nat /\ Len(buf) \in Nat /\ Len(sock) \in Nat
      BY <1>1, PlacesType
    <3> QED BY <3>1, <3>2, <3>3
  <2> QED BY <1>2, <1>5, <1>6, <1>7, <2>1 DEF Window
<1>9. FieldThere'  BY <1>5 DEF FieldThere
<1> QED BY <1>4, <1>8, <1>9

LEMMA WriteLengthKeeps == FInv /\ WriteLength => FInv'
<1> SUFFICES ASSUME FInv, WriteLength PROVE FInv'
  OBVIOUS
<1>1. TypeOK /\ Window  BY DEF FInv, Reassembled
<1>2. next \in Msgs /\ next \in Nat /\ ~half /\ half' = TRUE /\ next' = next
  BY <1>1, PlacesType DEF WriteLength
<1>3. HDR \in Nat /\ HDR >= 1 /\ Sizes[next] \in Nat  BY <1>1, <1>2, ReaderType, SizesType DEF Positive
<1>4. /\ Header(next) \in Seq(Nat \X Nat)
      /\ Len(Header(next)) = HDR - 1 + 1
      /\ InStream(Header(next), Start(HDR)[next] + 1 - 1)
  <2>1. 1 \in Nat /\ 1 <= 1 /\ 1 <= HDR + 1 /\ HDR <= HDR + Sizes[next]  BY <1>3
  <2>2. Header(next) = Bytes(next, 1, HDR)  BY DEF Header
  <2> QED BY ONLY <1>1, <1>2, <1>3, <2>1, <2>2, BytesInStream
<1>5. Start(HDR)[next] \in Nat /\ Written = Start(HDR)[next]
  BY <1>1, <1>2, PlacesType DEF Written
<1>6. Start(HDR)[next] + 1 - 1 = Written /\ HDR - 1 + 1 = HDR  BY <1>3, <1>5
<1>7. Written' = Written + HDR
  BY <1>2, <1>3, <1>5 DEF Written, WriteLength, HDR
<1>8. PICK b \in Seq(Nat \X Nat) :
        b = Header(next) /\ Len(b) = HDR /\ InStream(b, Written)
  BY <1>4, <1>6
<1>9. sock' = sock \o b /\ UNCHANGED <<reader, buf, loop, out, garbage>>
  BY <1>8 DEF WriteLength
<1>10. /\ next' \in 1 .. Len(Sizes) + 1 /\ half' \in BOOLEAN /\ next <= next'
       /\ (half' => next' \in Msgs) /\ Written' = Written + Len(b)
  BY <1>2, <1>7, <1>8, SizesType DEF Msgs
<1> QED BY ONLY FInv, <1>8, <1>9, <1>10, WriteKeeps

LEMMA WriteBodyKeeps == FInv /\ WriteBody => FInv'
<1> SUFFICES ASSUME FInv, WriteBody PROVE FInv'
  OBVIOUS
<1>1. TypeOK /\ Window  BY DEF FInv, Reassembled
<1>2. next \in Msgs /\ next \in Nat /\ half /\ half' = FALSE /\ next' = next + 1
  BY <1>1, PlacesType DEF WriteBody
<1>3. HDR \in Nat /\ HDR >= 1 /\ Sizes[next] \in Nat /\ Sizes[next] >= 1
  BY <1>1, <1>2, ReaderType, SizesType DEF Positive
<1>4. Start(HDR)[next] \in Nat /\ Written = Start(HDR)[next] + HDR
  BY <1>1, <1>2, PlacesType DEF Written
<1>5. PICK f \in Nat : f = HDR + 1  BY <1>3
<1>6. PICK l \in Nat : l = HDR + Sizes[next]  BY <1>3
<1>7. /\ Body(next) \in Seq(Nat \X Nat)
       /\ Len(Body(next)) = Sizes[next]
       /\ InStream(Body(next), Written)
  <2>1. 1 <= f /\ f <= l + 1 /\ l <= HDR + Sizes[next]  BY <1>3, <1>5, <1>6
  <2>2. /\ Bytes(next, f, l) \in Seq(Nat \X Nat)
        /\ Len(Bytes(next, f, l)) = l - f + 1
        /\ InStream(Bytes(next, f, l), Start(HDR)[next] + f - 1)
    BY <1>1, <1>2, <2>1, BytesInStream
  <2>3. Body(next) = Bytes(next, f, l)  BY <1>5, <1>6 DEF Body
  <2>4. Start(HDR)[next] + f - 1 = Written /\ l - f + 1 = Sizes[next]
    BY <1>3, <1>4, <1>5, <1>6
  <2> QED BY <2>2, <2>3, <2>4
<1>8. Start(HDR)[next + 1] = Start(HDR)[next] + HDR + Sizes[next]
  BY <1>2, <1>3, StartExists DEF IsStart
<1>9. Written' = Written + Sizes[next]
  BY <1>2, <1>3, <1>4, <1>8 DEF Written, WriteBody, HDR
<1>10. next + 1 \in 1 .. Len(Sizes) + 1  BY <1>2, SizesType DEF Msgs
<1>11. PICK b \in Seq(Nat \X Nat) :
         b = Body(next) /\ Len(b) = Sizes[next] /\ InStream(b, Written)
  BY <1>7
<1>12. sock' = sock \o b /\ UNCHANGED <<reader, buf, loop, out, garbage>>
  BY <1>11 DEF WriteBody
<1>13. /\ next' \in 1 .. Len(Sizes) + 1 /\ half' \in BOOLEAN /\ next <= next'
       /\ (half' => next' \in Msgs) /\ Written' = Written + Len(b)
  <2>1. next <= next' /\ next' \in 1 .. Len(Sizes) + 1  BY <1>2, <1>10
  <2>2. half' \in BOOLEAN /\ ~half'  BY <1>2
  <2>3. Written' = Written + Len(b)  BY <1>9, <1>11
  <2> QED BY ONLY <2>1, <2>2, <2>3
<1> QED BY ONLY FInv, <1>11, <1>12, <1>13, WriteKeeps

(* A read moves the border between the buffer and the socket.              *)
LEMMA ReadCbKeeps == FInv /\ ReadCb => FInv'
<1> SUFFICES ASSUME FInv, ReadCb PROVE FInv'
  OBVIOUS
<1>1. TypeOK /\ Window  BY DEF FInv, Reassembled
<1>2. buf \in Seq(Nat \X Nat) /\ sock \in Seq(Nat \X Nat)  BY <1>1 DEF TypeOK
<1>3. /\ Parsed \in Nat /\ Len(buf) \in Nat /\ Len(sock) \in Nat /\ Parsed + Len(buf) \in Nat
      /\ InStream(buf, Parsed) /\ InStream(sock, Parsed + Len(buf))
      /\ Parsed + Len(buf) + Len(sock) = Written
  BY <1>1, PlacesType DEF Window
<1>4. UNCHANGED <<reader, next, half, out, garbage>>  BY DEF ReadCb
<1>5. HDR' = HDR /\ Parsed' = Parsed /\ Written' = Written
  BY <1>4 DEF HDR, Parsed, Written
<1>6. Len(sock) >= 1  BY <1>2 DEF ReadCb
<1>7. PICK n \in ReadSizes : /\ buf' = buf \o SubSeq(sock, 1, n)
                             /\ sock' = SubSeq(sock, n + 1, Len(sock))
  BY DEF ReadCb
<1>8. /\ n \in Nat /\ 1 <= n /\ n <= Len(sock)
      /\ reader.do_while => n = Len(sock) \/ n >= HDR
  BY <1>1, <1>3, <1>6, <1>7, ReaderType DEF ReadSizes
<1>9. /\ SubSeq(sock, 1, n) \in Seq(Nat \X Nat) /\ Len(SubSeq(sock, 1, n)) = n
      /\ InStream(SubSeq(sock, 1, n), Parsed + Len(buf))
      /\ SubSeq(sock, n + 1, Len(sock)) \in Seq(Nat \X Nat)
      /\ Len(SubSeq(sock, n + 1, Len(sock))) = Len(sock) - n
      /\ InStream(SubSeq(sock, n + 1, Len(sock)), Parsed + Len(buf) + n)
  BY ONLY <1>2, <1>3, <1>8, CutStream
<1>10. PICK s \in Seq(Nat \X Nat) :
         s = SubSeq(sock, 1, n) /\ Len(s) = n /\ InStream(s, Parsed + Len(buf))
  BY <1>9
<1>11. /\ buf' \in Seq(Nat \X Nat) /\ Len(buf') = Len(buf) + n
       /\ sock' \in Seq(Nat \X Nat) /\ Len(sock') = Len(sock) - n
  <2>1. buf \o s \in Seq(Nat \X Nat) /\ Len(buf \o s) = Len(buf) + Len(s)
    BY ONLY <1>2, <1>10, ConcatProperties
  <2> QED BY <1>7, <1>9, <1>10, <2>1
<1>12. InStream(buf', Parsed)
  BY <1>2, <1>3, <1>7, <1>10, JoinStream
<1>13. loop' \in {"idle", "test", "body"}  BY DEF ReadCb
<1>14. TypeOK'  BY <1>1, <1>4, <1>11, <1>13 DEF TypeOK
<1>15. Reassembled'  BY <1>4, <1>14 DEF FInv, Reassembled
<1>16. Window'
  <2>1. Len(out) + 1 <= next /\ (half => next \in Msgs)  BY <1>1 DEF Window
  <2>2. Parsed + Len(buf') + Len(sock') = Written  BY <1>3, <1>8, <1>11
  <2>3. Parsed + Len(buf') = Parsed + Len(buf) + n  BY <1>3, <1>8, <1>11
  <2>4. InStream(buf, Parsed)'  BY <1>5, <1>12 DEF InStream
  <2>5. InStream(sock, Parsed + Len(buf))'
    <3>1. InStream(sock', Parsed + Len(buf'))  BY <1>7, <1>9, <2>3
    <3> QED BY <1>5, <3>1 DEF InStream
  <2> QED BY <1>4, <1>5, <2>1, <2>2, <2>4, <2>5 DEF Window
<1>17. FieldThere'
  <2>1. SUFFICES ASSUME reader.do_while PROVE Len(buf) + n >= HDR
    BY <1>5, <1>11 DEF FieldThere, ReadCb
  <2>2. HDR \in Nat  BY <1>1, ReaderType
  <2>3. Len(buf) + Len(sock) >= HDR
    <3>1. PICK q \in Nat : q = Len(out) + 1 /\ q \in 1 .. Len(Sizes) + 1 /\ q <= next
      BY <1>1, PlacesType DEF Window
    <3>2. next \in Nat /\ next \in 1 .. Len(Sizes) + 1 /\ Start(HDR)[next] \in Nat
      BY <1>1, PlacesType
    <3>3. Parsed = Start(HDR)[q]  BY <3>1 DEF Parsed
    <3>4. CASE q = next
      <4>1. Written = Parsed + (IF half THEN HDR ELSE 0)  BY <3>3, <3>4 DEF Written
      <4> QED BY <1>3, <1>6, <2>2, <4>1
    <3>5. CASE q < next
      <4>1. q \in Msgs /\ Sizes[q] \in Nat  BY <3>1, <3>2, <3>5, SizesType DEF Msgs, Positive
      <4>2. Start(HDR)[q] + HDR + Sizes[q] <= Start(HDR)[next]
        BY <2>2, <3>2, <3>5, <4>1, StartGrows
      <4>3. Written >= Start(HDR)[next] /\ Written \in Nat  BY <1>1, <2>2, <3>2, PlacesType DEF Written
      <4>4. PICK a \in Nat, x \in Nat : a = Start(HDR)[next] /\ x = Sizes[q]  BY <3>2, <4>1
      <4>5. Parsed + HDR + x <= a /\ a <= Written  BY <3>3, <4>2, <4>3, <4>4
      <4> QED BY <1>3, <2>2, <4>3, <4>5
    <3> QED BY <3>1, <3>2, <3>4, <3>5
  <2> QED BY <1>3, <1>8, <2>1, <2>2, <2>3
<1> QED BY <1>15, <1>16, <1>17 DEF FInv

LEMMA TestLoopKeeps == FInv /\ TestLoop => FInv'
<1> SUFFICES ASSUME FInv, TestLoop PROVE FInv'
  OBVIOUS
<1>1. TypeOK /\ Window /\ Reassembled  BY DEF FInv, Reassembled
<1>2. UNCHANGED <<reader, next, half, sock, buf, out, garbage>>  BY DEF TestLoop
<1>3. HDR' = HDR /\ Parsed' = Parsed /\ Written' = Written
  BY <1>2 DEF HDR, Parsed, Written
<1>4. Reassembled'
  BY <1>1, <1>2 DEF Reassembled, TypeOK, TestLoop
<1>5. Window'
  BY <1>1, <1>2, <1>3 DEF Window, InStream
<1>6. FieldThere'
  <2>1. HDR \in Nat /\ Len(buf) \in Nat  BY <1>1, ReaderType, PlacesType
  <2> QED BY <1>2, <1>3, <2>1 DEF FieldThere, TestLoop, LoopTest
<1> QED BY <1>4, <1>5, <1>6 DEF FInv

(* The buffer begins with the message that follows those parsed.           *)
LEMMA FrontOfBuffer ==
  ASSUME TypeOK, Window, Len(buf) >= 1, NEW q \in Nat, q = Len(out) + 1
  PROVE  /\ q \in Msgs
         /\ \A j \in 1 .. Len(buf) : j <= HDR + Sizes[q] => buf[j] = <<q, j>>
<1>1. /\ Len(buf) \in Nat /\ Len(sock) \in Nat /\ next \in Nat /\ Parsed \in Nat
      /\ Parsed + Len(buf) + Len(sock) = Written /\ q <= next
      /\ next \in 1 .. Len(Sizes) + 1 /\ Start(HDR)[next] \in Nat
  BY PlacesType DEF Window
<1>2. Parsed = Start(HDR)[q]  BY DEF Parsed
<1>3. q \in Msgs
  <2>1. CASE q = next
    <3>1. CASE half  BY <2>1, <3>1 DEF Window
    <3>2. CASE ~half
      <4>1. Written = Parsed  BY <1>1, <1>2, <2>1, <3>2 DEF Written
      <4> QED BY <1>1, <4>1
    <3> QED BY <3>1, <3>2
  <2>2. CASE q < next  BY <1>1, <2>2, SizesType DEF Msgs, TypeOK
  <2> QED BY <1>1, <2>1, <2>2
<1>4. ASSUME NEW j \in 1 .. Len(buf), j <= HDR + Sizes[q]
      PROVE  buf[j] = <<q, j>>
  <2>1. j \in DOMAIN buf  BY DEF TypeOK
  <2>2. IsByte(HDR, Start(HDR)[q] + j, buf[j])  BY <1>2, <2>1 DEF Window, InStream
  <2>3. j \in 1 .. HDR + Sizes[q] /\ HDR \in Positive
    BY <1>1, <1>3, <1>4, ReaderType, SizesType DEF Positive
  <2> QED BY <1>3, <2>2, <2>3, ByteUnique
<1> QED BY <1>3, <1>4

(* A piece of the buffer in which each byte is the right one is the piece. *)
Holds(s, q, first, last) == \A j \in first .. last : s[j] = <<q, j>>
LEMMA SamePiece ==
  ASSUME NEW s \in Seq(Nat \X Nat), NEW q \in Nat, NEW first \in Nat, NEW last \in Nat,
         1 <= first, first <= last + 1, last <= Len(s), Holds(s, q, first, last)
  PROVE  SubSeq(s, first, last) = Bytes(q, first, last)
<1> DEFINE n == last - first + 1
<1>1. n \in Nat /\ first - 1 \in Nat  OBVIOUS
<1>2. \A j \in first .. last : s[j] \in Nat \X Nat  BY DEF Holds
<1>3. PICK t \in Seq(Nat \X Nat) :
        /\ t = SubSeq(s, first, last) /\ Len(t) = n
        /\ \A j \in 1 .. n : t[j] = s[first + j - 1]
  <2>1. PICK S : S = Nat \X Nat  OBVIOUS
  <2>2. /\ SubSeq(s, first, last) \in Seq(S)
        /\ Len(SubSeq(s, first, last)) = IF first <= last THEN last - first + 1 ELSE 0
        /\ \A j \in 1 .. last - first + 1 : SubSeq(s, first, last)[j] = s[first + j - 1]
    BY <1>2, <2>1, SubSeqProperties
  <2>3. Len(SubSeq(s, first, last)) = n  BY <2>2
  <2> QED BY <2>1, <2>2, <2>3
<1>4. t = [j \in 1 .. n |-> t[j]]
  <2>1. DOMAIN t = 1 .. Len(t) /\ t = [j \in DOMAIN t |-> t[j]]  OBVIOUS
  <2>2. Len(t) = n  BY <1>3
  <2> HIDE DEF n
  <2> QED BY ONLY <2>1, <2>2
<1>5. \A j \in 1 .. n : t[j] = <<q, first + j - 1>>
  <2> SUFFICES ASSUME NEW j \in 1 .. n PROVE t[j] = <<q, first + j - 1>>
    OBVIOUS
  <2>1. first + j - 1 \in first .. last  BY <1>1
  <2> QED BY <1>3, <2>1 DEF Holds
<1> QED BY <1>3, <1>4, <1>5 DEF Bytes

(* What the body of the loop finds: the length field of the next message,  *)
(* and, when enough is left, the message.                                  *)
LEMMA BodyFinds ==
  ASSUME FInv, loop = "body", NEW q \in Nat, q = Len(out) + 1
  PROVE  /\ q \in Msgs /\ AtHeader /\ First = q
         /\ left \in Nat /\ left <= Len(buf) - HDR
         /\ HDR + Sizes[q] <= Len(buf) => SubSeq(buf, HDR + 1, HDR + Sizes[q]) = Body(q)
<1>1. TypeOK /\ Window /\ Len(buf) >= HDR  BY DEF FInv, Reassembled, FieldThere
<1>2. /\ HDR \in Nat /\ HDR >= 1 /\ reader.left_mod \in Nat /\ reader.left_mod >= 1
      /\ Len(buf) \in Nat /\ Len(buf) >= 1 /\ buf \in Seq(Nat \X Nat)
  BY <1>1, ReaderType, PlacesType, SMTT(60) DEF TypeOK
<1>3. q \in Msgs /\ \A j \in 1 .. Len(buf) : j <= HDR + Sizes[q] => buf[j] = <<q, j>>
  BY <1>1, <1>2, FrontOfBuffer
<1>4. Sizes[q] \in Nat  BY <1>3, SizesType DEF Positive
<1>5. SubSeq(buf, 1, HDR) = Header(q)
  <2>1. ASSUME NEW j \in 1 .. HDR PROVE buf[j] = <<q, j>>
    <3>1. j \in 1 .. Len(buf) /\ j <= HDR + Sizes[q]  BY <1>1, <1>2, <1>4, SMTT(60)
    <3> QED BY <1>3, <3>1
  <2>2. PICK f \in Nat : f = 1  OBVIOUS
  <2>3. f <= HDR + 1 /\ 1 <= f /\ HDR <= Len(buf)  BY <1>1, <1>2, <2>2
  <2>4. Holds(buf, q, f, HDR)  BY <2>1, <2>2 DEF Holds
  <2>5. SubSeq(buf, f, HDR) = Bytes(q, f, HDR)
    BY <1>2, <2>3, <2>4, SamePiece
  <2> QED BY <2>2, <2>5 DEF Header
<1>6. AtHeader  BY <1>1, <1>3, <1>5 DEF AtHeader
<1>7. First = q
  <2>1. 1 \in 1 .. Len(buf) /\ 1 <= HDR + Sizes[q]  BY <1>2, <1>4
  <2>2. buf[1] = <<q, 1>>  BY <1>3, <2>1
  <2> QED BY <2>2 DEF First
<1>8. left \in Nat /\ left <= Len(buf) - HDR
  <2>1. PICK x \in Nat : x = Len(buf) - HDR
    <3>1. Len(buf) - HDR \in Nat  BY <1>1, <1>2
    <3> QED BY <3>1
  <2>2. PICK m \in Nat : m = reader.left_mod /\ m >= 1  BY <1>2
  <2>3. x % m \in Nat /\ x % m <= x  BY <2>2
  <2> QED BY <2>1, <2>2, <2>3 DEF left
<1>9. ASSUME HDR + Sizes[q] <= Len(buf)
      PROVE  SubSeq(buf, HDR + 1, HDR + Sizes[q]) = Body(q)
  <2>1. PICK f \in Nat : f = HDR + 1  BY <1>2
  <2>2. PICK l \in Nat : l = HDR + Sizes[q]  BY <1>2, <1>4
  <2>3. 1 <= f /\ f <= l + 1 /\ l <= Len(buf)  BY <1>2, <1>4, <1>9, <2>1, <2>2, SMTT(60)
  <2>4. ASSUME NEW j \in f .. l PROVE buf[j] = <<q, j>>
    <3>1. j \in 1 .. Len(buf) /\ j <= HDR + Sizes[q]  BY <1>2, <2>2, <2>3
    <3> QED BY <1>3, <3>1
  <2>5. SubSeq(buf, f, l) = Bytes(q, f, l)
    <3>1. Holds(buf, q, f, l)  BY <2>4 DEF Holds
    <3> QED BY <1>2, <2>3, <3>1, SamePiece
  <2> QED BY <2>1, <2>2, <2>5 DEF Body
<1> QED BY <1>3, <1>6, <1>7, <1>8, <1>9

(* A message is parsed: the buffer begins at the next one.                 *)
LEMMA LoopBodyKeeps == FInv /\ LoopBody => FInv'
<1> SUFFICES ASSUME FInv, LoopBody PROVE FInv'
  OBVIOUS
<1>1. TypeOK /\ Window /\ Reassembled /\ loop = "body"  BY DEF FInv, Reassembled, LoopBody
<1>2. UNCHANGED <<reader, next, half, sock>>  BY DEF LoopBody
<1>3. HDR' = HDR /\ Written' = Written  BY <1>2 DEF HDR, Written
<1>4. PICK q \in Nat : q = Len(out) + 1  BY <1>1, PlacesType
<1>5. /\ q \in Msgs /\ AtHeader /\ First = q /\ left \in Nat /\ left <= Len(buf) - HDR
      /\ HDR + Sizes[q] <= Len(buf) => SubSeq(buf, HDR + 1, HDR + Sizes[q]) = Body(q)
  BY <1>1, <1>4, BodyFinds
<1>6. CASE Sizes[q] > left
  <2>1. loop' = "idle" /\ UNCHANGED <<buf, out, garbage>>  BY <1>5, <1>6 DEF LoopBody
  <2>2. Parsed' = Parsed  BY <1>3, <2>1 DEF Parsed
  <2>3. Reassembled'  BY <1>1, <1>2, <2>1 DEF Reassembled, TypeOK
  <2>4. Window'  BY <1>1, <1>2, <1>3, <2>1, <2>2 DEF Window, InStream
  <2> QED BY <2>1, <2>3, <2>4 DEF FInv, FieldThere
<1>7. CASE ~(Sizes[q] > left)
  <2>1. /\ HDR \in Nat /\ HDR >= 1 /\ Len(buf) \in Nat /\ Len(sock) \in Nat
        /\ Parsed \in Nat /\ Sizes[q] \in Nat /\ Sizes[q] >= 1 /\ next \in Nat
        /\ Len(out) \in Nat /\ Parsed + Len(buf) + Len(sock) = Written /\ q <= next
    <3>1. Sizes[q] \in Nat /\ Sizes[q] >= 1  BY <1>5, SizesType DEF Positive
    <3>2. Parsed + Len(buf) + Len(sock) = Written /\ q <= next  BY <1>1, <1>4 DEF Window
    <3> QED BY <1>1, <3>1, <3>2, ReaderType, PlacesType
  <2>2. PICK n \in Nat : n = HDR + Sizes[q]  BY <2>1
  <2>3. n <= Len(buf)  BY <1>5, <1>7, <2>1, <2>2
  <2>4. /\ out' = Append(out, q)
        /\ garbage' = (garbage \/ SubSeq(buf, HDR + 1, HDR + Sizes[q]) # Body(q))
        /\ buf' = SubSeq(buf, n + 1, Len(buf))
        /\ loop' = "test"
    BY <1>5, <1>7, <2>2 DEF LoopBody
  <2>5. ~garbage'
    <3>1. SubSeq(buf, HDR + 1, HDR + Sizes[q]) = Body(q)  BY <1>5, <2>2, <2>3
    <3> QED BY <1>1, <2>4, <3>1 DEF Reassembled
  <2>6. out' \in Seq(Msgs) /\ Len(out') = q /\ out' = [u \in 1 .. Len(out') |-> u]
    <3>1. out \in Seq(Msgs) /\ out = [u \in 1 .. Len(out) |-> u]
      BY <1>1 DEF Reassembled, TypeOK
    <3>2. out' \in Seq(Msgs) /\ Len(out') = q  BY <1>4, <1>5, <2>1, <2>4, <3>1
    <3>3. ASSUME NEW u \in 1 .. q PROVE out'[u] = u
      <4>1. CASE u = q  BY <1>4, <2>1, <2>4, <3>1, <4>1
      <4>2. CASE u # q
        <5>1. u \in 1 .. Len(out)  BY <1>4, <2>1, <4>2
        <5> QED BY <2>4, <3>1, <5>1
      <4> QED BY <4>1, <4>2
    <3>4. DOMAIN out' = 1 .. Len(out') /\ out' = [u \in DOMAIN out' |-> out'[u]]  BY <3>2
    <3>5. out' = [u \in 1 .. q |-> out'[u]]  BY ONLY <3>2, <3>4
    <3> QED BY <3>2, <3>3, <3>5
  <2>7. /\ buf' \in Seq(Nat \X Nat) /\ Len(buf') = Len(buf) - n
        /\ InStream(buf', Parsed + n)
    <3>1. buf \in Seq(Nat \X Nat) /\ InStream(buf, Parsed)  BY <1>1 DEF TypeOK, Window
    <3> QED BY <2>1, <2>3, <2>4, <3>1, CutStream
  <2>8. Parsed' = Parsed + n
    <3>1. Start(HDR)[q + 1] = Start(HDR)[q] + HDR + Sizes[q]
      BY <1>5, <2>1, StartExists DEF IsStart
    <3>2. Parsed = Start(HDR)[q] /\ Parsed' = Start(HDR)[q + 1]
      BY <1>3, <1>4, <2>6 DEF Parsed
    <3>3. PICK x \in Nat : x = Sizes[q]  BY <2>1
    <3>4. Parsed' = Parsed + HDR + x /\ n = HDR + x  BY <2>2, <3>1, <3>2, <3>3
    <3> QED BY <2>1, <3>4
  <2>9. q + 1 <= next
    <3>1. SUFFICES ASSUME q = next PROVE FALSE  BY <2>1
    <3>2. Written = Parsed + (IF half THEN HDR ELSE 0)  BY <1>4, <3>1 DEF Written, Parsed
    <3> QED BY <2>1, <2>2, <2>3, <3>2
  <2>10. Reassembled'
    <3>1. TypeOK'  BY <1>1, <1>2, <2>4, <2>5, <2>6, <2>7 DEF TypeOK
    <3> QED BY <2>5, <2>6, <3>1 DEF Reassembled
  <2>11. Window'
    <3>1. half => next \in Msgs  BY <1>1 DEF Window
    <3>2. Parsed' + Len(buf') = Parsed + Len(buf)  BY <2>1, <2>2, <2>3, <2>7, <2>8
    <3>3. InStream(sock, Parsed + Len(buf))'
      <4>1. InStream(sock, Parsed + Len(buf))  BY <1>1 DEF Window
      <4> QED BY <1>2, <1>3, <3>2, <4>1 DEF InStream
    <3>4. InStream(buf, Parsed)'  BY <1>3, <2>7, <2>8 DEF InStream
    <3>5. Parsed' + Len(buf') + Len(sock') = Written'  BY <1>2, <1>3, <2>1, <3>2
    <3> QED BY <1>2, <2>6, <2>9, <3>1, <3>3, <3>4, <3>5 DEF Window
  <2> QED BY <2>4, <2>10, <2>11 DEF FInv, FieldThere
<1> QED BY <1>6, <1>7

LEMMA NextFraming == FInv /\ [Next]_vars => FInv'
<1> SUFFICES ASSUME FInv, [Next]_vars PROVE FInv'
  OBVIOUS
<1>1. CASE UNCHANGED vars
  <2>1. UNCHANGED <<HDR, Parsed, Written>>  BY <1>1 DEF vars, HDR, Parsed, Written
  <2>2. Reassembled'  BY <1>1 DEF vars, FInv, Reassembled, TypeOK
  <2>3. Window'  BY <1>1, <2>1 DEF vars, FInv, Window, InStream
  <2>4. FieldThere'  BY <1>1, <2>1 DEF vars, FInv, FieldThere
  <2> QED BY <2>2, <2>3, <2>4 DEF FInv
<1> QED BY <1>1, WriteLengthKeeps, WriteBodyKeeps, ReadCbKeeps, TestLoopKeeps,
           LoopBodyKeeps DEF Next

(* Every byte that a loop parses as a length field is one, every message   *)
(* it parses was written as one message, and the messages come in the      *)
(* order in which they were written, none left out and none twice.         *)
THEOREM ReassembledCorrect == Spec => []Reassembled
<1>1. Init => FInv  BY InitFraming
<1>2. FInv /\ [Next]_vars => FInv'  BY NextFraming
<1>3. FInv => Reassembled  BY DEF FInv
<1> QED BY <1>1, <1>2, <1>3, PTL DEF Spec

-----------------------------------------------------------------------------
(* What a length field at the front of the buffer says of the buffer.      *)
LEMMA HeaderMessage ==
  ASSUME TypeOK, AtHeader
  PROVE  First \in Msgs /\ Len(buf) >= HDR
<1>1. PICK u \in Msgs : Len(buf) >= HDR /\ SubSeq(buf, 1, HDR) = Header(u)
  BY DEF AtHeader
<1>2. HDR \in Nat /\ HDR >= 1 /\ Len(buf) \in Nat /\ buf \in Seq(Nat \X Nat)
  BY ReaderType DEF TypeOK
<1>3. Header(u)[1] = <<u, 1>>  BY <1>2 DEF Header, Bytes
<1>4. SubSeq(buf, 1, HDR)[1] = buf[1]
  <2>1. PICK S : S = Nat \X Nat  OBVIOUS
  <2>2. \A j \in 1 .. HDR : buf[j] \in S  BY <1>1, <1>2, <2>1
  <2>3. \A j \in 1 .. HDR - 1 + 1 : SubSeq(buf, 1, HDR)[j] = buf[1 + j - 1]
    BY <1>2, <2>2, SubSeqProperties
  <2>4. PICK one \in Nat : one = 1  OBVIOUS
  <2>5. one \in 1 .. HDR - 1 + 1 /\ 1 + one - 1 = one  BY <1>2, <2>4
  <2>6. SubSeq(buf, 1, HDR)[one] = buf[one]  BY <2>3, <2>5
  <2> QED BY <2>4, <2>6
<1>5. buf[1] = <<u, 1>>  BY <1>1, <1>3, <1>4
<1>6. First = u  BY <1>5 DEF First
<1> QED BY <1>1, <1>6

LEMMA NextLeaves == FInv /\ NothingLeftBehind /\ [Next]_vars => NothingLeftBehind'
<1> SUFFICES ASSUME FInv, NothingLeftBehind, [Next]_vars,
                    loop' = "idle", AtHeader', ~Wrapped'
             PROVE  Len(buf') < HDR' + Sizes[First']
  BY DEF NothingLeftBehind
<1>1. FInv'  BY NextFraming
<1>2. TypeOK /\ TypeOK' /\ Window  BY <1>1 DEF FInv, Reassembled
<1>3. reader' = reader /\ HDR' = HDR
  BY DEF Next, vars, WriteLength, WriteBody, ReadCb, TestLoop, LoopBody, HDR
<1>4. HDR \in Nat /\ HDR >= 1 /\ reader.left_mod \in Nat /\ reader.left_mod >= 1
      /\ Len(buf) \in Nat
  BY <1>2, ReaderType, PlacesType
<1>5. CASE loop = "idle" /\ buf' = buf
  <2>1. AtHeader /\ ~Wrapped /\ First' = First
    BY <1>3, <1>5 DEF AtHeader, Wrapped, First, Header
  <2> QED BY <1>3, <1>5, <2>1 DEF NothingLeftBehind
<1>6. CASE TestLoop
  <2>1. buf' = buf /\ Len(buf) <= HDR  BY <1>4, <1>6 DEF TestLoop, LoopTest
  <2>2. First' \in Msgs
    <3>1. UNCHANGED <<buf, HDR>> /\ (AtHeader' => AtHeader) /\ First' = First
      BY <1>3, <2>1 DEF AtHeader, First, Header
    <3> QED BY <1>2, <3>1, HeaderMessage
  <2>3. Sizes[First'] \in Nat /\ Sizes[First'] >= 1  BY <2>2, SizesType DEF Positive
  <2> QED BY <1>3, <1>4, <2>1, <2>3
<1>7. CASE LoopBody
  <2>1. PICK q \in Nat : q = Len(out) + 1  BY <1>2, PlacesType
  <2>2. loop = "body"  BY <1>7 DEF LoopBody
  <2>3. q \in Msgs /\ AtHeader /\ First = q  BY <2>1, <2>2, BodyFinds
  <2>4. Sizes[q] > left /\ buf' = buf  BY <1>7, <2>3 DEF LoopBody
  <2>5. First' = q  BY <2>3, <2>4 DEF First
  <2>6. left = Len(buf) - HDR
    <3>1. Len(buf) - HDR \in Nat  BY <1>4, <2>2 DEF FInv, FieldThere
    <3>2. PICK x \in Nat : x = Len(buf) - HDR  BY <3>1
    <3>3. PICK m \in Nat : m = reader.left_mod /\ m >= 1  BY <1>4
    <3>4. x < m  BY <1>3, <2>4, <3>2, <3>3 DEF Wrapped
    <3>5. x % m = x  BY <3>3, <3>4
    <3> QED BY <3>2, <3>3, <3>5 DEF left
  <2>7. Sizes[q] \in Nat  BY <2>3, SizesType DEF Positive
  <2> QED BY <1>3, <1>4, <2>4, <2>5, <2>6, <2>7
<1>8. ~ReadCb  BY DEF ReadCb
<1>9. WriteLength \/ WriteBody \/ UNCHANGED vars => loop = "idle" /\ buf' = buf
  BY DEF WriteLength, WriteBody, vars
<1> QED BY <1>5, <1>6, <1>7, <1>8, <1>9 DEF Next

(* When a read callback returns, the message at the front of the buffer is *)
(* not complete, unless more was left than `left' can count.               *)
THEOREM NothingLeftBehindCorrect == Spec => []NothingLeftBehind
<1>1. Init => FInv /\ NothingLeftBehind  BY InitFraming
<1>2. FInv /\ [Next]_vars => FInv'  BY NextFraming
<1>3. FInv /\ NothingLeftBehind /\ [Next]_vars => NothingLeftBehind'  BY NextLeaves
<1> QED BY <1>1, <1>2, <1>3, PTL DEF Spec

-----------------------------------------------------------------------------
(* The Filter.                                                             *)

LEMMA Numbers ==
  /\ num_clients \in Nat /\ num_clients >= 1
  /\ kFilterTotalWeight \in Nat /\ kFilterTotalWeight >= 1
  /\ UMod \in Nat /\ 2 * kFilterTotalWeight < UMod /\ UMod >= 1
  BY FilterAssumption

-----------------------------------------------------------------------------
(* The recursive function that sums up weights exists, so that it is what  *)
(* its definition says.                                                    *)
LEMMA SumsExist ==
  ASSUME NEW w \in [Clients -> Int]
  PROVE  \E f \in [0 .. num_clients -> Int] :
           f[0] = 0 /\ \A k \in 1 .. num_clients : f[k] = f[k - 1] + w[k]
<1> DEFINE Upto(n, f) == f[0] = 0 /\ \A k \in 1 .. n : f[k] = f[k - 1] + w[k]
           T == {n \in Nat : n <= num_clients => \E f \in [0 .. n -> Int] : Upto(n, f)}
<1>1. 0 \in T
  <2>1. [k \in 0 .. 0 |-> 0] \in [0 .. 0 -> Int]  OBVIOUS
  <2>2. Upto(0, [k \in 0 .. 0 |-> 0])  OBVIOUS
  <2> QED BY <2>1, <2>2
<1>2. ASSUME NEW n \in T PROVE n + 1 \in T
  <2>1. SUFFICES ASSUME n + 1 <= num_clients
                 PROVE  \E g \in [0 .. n + 1 -> Int] : Upto(n + 1, g)
    <3> HIDE DEF Upto
    <3> QED OBVIOUS
  <2>2. n \in Nat /\ n <= num_clients /\ w[n + 1] \in Int
    BY <2>1, Numbers DEF Clients
  <2>3. PICK f \in [0 .. n -> Int] : Upto(n, f)  BY <2>2
  <2> DEFINE g == [k \in 0 .. n + 1 |-> IF k = n + 1 THEN f[n] + w[n + 1] ELSE f[k]]
  <2>4. g \in [0 .. n + 1 -> Int]  BY <2>2
  <2>5. g[0] = 0  BY <2>2, <2>3
  <2>6. ASSUME NEW k \in 1 .. n + 1 PROVE g[k] = g[k - 1] + w[k]
    BY <2>2, <2>3, SMTT(60)
  <2> QED BY <2>4, <2>5, <2>6
<1>3. num_clients \in T
  <2> HIDE DEF T
  <2>1. T \in SUBSET Nat  BY DEF T
  <2> QED BY <1>1, <1>2, <2>1, NatSetInduction, Numbers
<1> QED BY <1>3, Numbers

LEMMA SumsDef ==
  ASSUME NEW w \in [Clients -> Int]
  PROVE  /\ Sums(w) \in [0 .. num_clients -> Int]
         /\ Sums(w)[0] = 0
         /\ \A k \in 1 .. num_clients : Sums(w)[k] = Sums(w)[k - 1] + w[k]
<1> DEFINE Rule(g) == g = [k \in 0 .. num_clients |-> IF k = 0 THEN 0 ELSE g[k - 1] + w[k]]
<1>1. PICK f \in [0 .. num_clients -> Int] :
        f[0] = 0 /\ \A k \in 1 .. num_clients : f[k] = f[k - 1] + w[k]
  BY SumsExist
<1>2. Rule(f)  BY <1>1, Numbers
<1>3. Sums(w) = CHOOSE g : Rule(g)  BY DEF Sums
<1>4. Rule(Sums(w))
  <2> HIDE DEF Rule
  <2> QED BY <1>2, <1>3
<1>5. Sums(w) = f
  <2> DEFINE S == Sums(w)
             T == {n \in Nat : n <= num_clients => S[n] = f[n]}
  <2>1. DOMAIN S = 0 .. num_clients /\ S = [k \in DOMAIN S |-> S[k]]
        /\ \A k \in 0 .. num_clients : S[k] = IF k = 0 THEN 0 ELSE S[k - 1] + w[k]
    <3> HIDE DEF S
    <3>1. S = [k \in 0 .. num_clients |-> IF k = 0 THEN 0 ELSE S[k - 1] + w[k]]
      BY <1>4 DEF S
    <3>2. DOMAIN S = 0 .. num_clients  BY ONLY <3>1
    <3>3. \A k \in 0 .. num_clients : S[k] = IF k = 0 THEN 0 ELSE S[k - 1] + w[k]
      BY ONLY <3>1, Zenon
    <3>4. S = [k \in DOMAIN S |-> S[k]]  BY ONLY <3>1
    <3> QED BY <3>2, <3>3, <3>4
  <2> HIDE DEF S
  <2>2. 0 \in T
    <3>1. 0 \in 0 .. num_clients  BY Numbers
    <3>2. S[0] = 0  BY ONLY <2>1, <3>1
    <3> QED BY <1>1, <3>2
  <2>3. ASSUME NEW n \in T PROVE n + 1 \in T
    <3>1. SUFFICES ASSUME n + 1 <= num_clients PROVE S[n + 1] = f[n + 1]
      OBVIOUS
    <3>2. n \in Nat /\ n + 1 \in 1 .. num_clients /\ n + 1 \in 0 .. num_clients /\ n + 1 - 1 = n
      BY <3>1, Numbers
    <3>3. S[n] = f[n]  BY <3>1, <3>2, Numbers
    <3>4. S[n + 1] = S[n] + w[n + 1]  BY <2>1, <3>2
    <3>5. f[n + 1] = f[n] + w[n + 1]  BY <1>1, <3>2
    <3> QED BY <3>3, <3>4, <3>5
  <2>4. \A n \in Nat : n \in T
    <3> HIDE DEF T
    <3>1. T \in SUBSET Nat  BY DEF T
    <3> QED BY <2>2, <2>3, <3>1, NatSetInduction
  <2>5. \A k \in 0 .. num_clients : S[k] = f[k]  BY <2>4, Numbers
  <2> QED BY <2>1, <2>5 DEF S
<1> QED BY <1>1, <1>5

(* Sums of weights that are not negative grow.                             *)
LEMMA SumsGrow ==
  ASSUME NEW w \in [Clients -> Int], \A k \in Clients : w[k] >= 0,
         NEW a \in 0 .. num_clients, NEW b \in 0 .. num_clients, a <= b
  PROVE  Sums(w)[a] <= Sums(w)[b]
<1> DEFINE S == Sums(w)
           T == {n \in Nat : a + n <= num_clients => S[a] <= S[a + n]}
<1>1. /\ S \in [0 .. num_clients -> Int]
      /\ \A k \in 1 .. num_clients : S[k] = S[k - 1] + w[k]
  BY SumsDef
<1> HIDE DEF S
<1>2. 0 \in T  BY <1>1
<1>3. ASSUME NEW n \in T PROVE n + 1 \in T
  <2>1. SUFFICES ASSUME a + (n + 1) <= num_clients PROVE S[a] <= S[a + (n + 1)]
    OBVIOUS
  <2>2. /\ n \in Nat /\ a \in Nat /\ a + (n + 1) \in 1 .. num_clients
        /\ a + (n + 1) - 1 = a + n /\ a + n \in 0 .. num_clients
    BY <2>1, Numbers
  <2>3. S[a] <= S[a + n]  BY <2>2, Numbers
  <2>4. S[a + (n + 1)] = S[a + n] + w[a + (n + 1)]  BY <1>1, <2>2
  <2>5. w[a + (n + 1)] \in Int /\ w[a + (n + 1)] >= 0 /\ S[a + n] \in Int /\ S[a] \in Int
    BY <1>1, <2>2 DEF Clients
  <2> QED BY <2>3, <2>4, <2>5
<1>4. \A n \in Nat : n \in T
  <2> HIDE DEF T
  <2>1. T \in SUBSET Nat  BY DEF T
  <2> QED BY <1>2, <1>3, <2>1, NatSetInduction
<1>5. b - a \in Nat /\ a + (b - a) = b /\ b <= num_clients  BY Numbers
<1>6. b - a \in T  BY <1>4, <1>5
<1> QED BY <1>5, <1>6 DEF S

-----------------------------------------------------------------------------
(* What the reading loops leave.                                           *)
LEMMA TakenNumbers ==
  ASSUME NEW s \in Seq(Int \cup {NaN})
  PROVE  /\ \A k \in Taken(s) : k \in Clients /\ s[k] \in Int
         /\ Sum(s) \in Int
<1>1. ASSUME NEW k \in Taken(s) PROVE k \in Clients /\ s[k] \in Int
  <2>1. k \in DOMAIN s /\ k \in Clients /\ k \in 1 .. k  BY Numbers DEF Taken, Clients
  <2>2. s[k] # NaN  BY <2>1 DEF Taken
  <2>3. s[k] \in Int \cup {NaN}  BY <2>1
  <2> QED BY <2>1, <2>2, <2>3
<1>2. Sum(s) \in Int
  <2> DEFINE w == [k \in Clients |-> IF k \in Taken(s) THEN s[k] ELSE 0]
  <2>1. w \in [Clients -> Int]  BY <1>1
  <2>2. Sums(w) \in [0 .. num_clients -> Int]
    <3> HIDE DEF w
    <3> QED BY <2>1, SumsDef
  <2> QED BY <2>2, Numbers DEF Sum
<1> QED BY <1>1, <1>2

(* Of a sequence that has no number for some client the numbers behind it  *)
(* are not taken.                                                          *)
LEMMA TakenUpTo ==
  ASSUME NEW s \in Seq(Int \cup {NaN}), NEW k \in Clients,
         k \in DOMAIN s => s[k] = NaN
  PROVE  \A l \in Taken(s) : l < k
<1> SUFFICES ASSUME NEW l \in Taken(s), ~(l < k) PROVE FALSE
  OBVIOUS
<1>1. k \in Nat /\ l \in Nat /\ l \in DOMAIN s /\ k \in 1 .. l  BY Numbers DEF Taken, Clients
<1>2. Len(s) \in Nat /\ DOMAIN s = 1 .. Len(s)  OBVIOUS
<1>3. k \in DOMAIN s  BY <1>1, <1>2
<1> QED BY <1>1, <1>3 DEF Taken

-----------------------------------------------------------------------------
(* The inductive invariant.  total_weight is the sum of the weights when   *)
(* all are set, for then they come from one source; start has the sum of   *)
(* those of the first i clients, modulo UMod; and every slot below start   *)
(* has been filled, since start has passed it.                             *)
AllSet == \A k \in Clients : weight[k] # -1

Reading ==
  /\ phase \in {"file", "string"} =>
       i = 0 /\ start = 0 /\ \A j \in Slots : client_index[j] = -1
  /\ phase = "file" \/ (phase = "string" /\ input.file = NoFile) =>
       total_weight = 0 /\ \A k \in Clients : weight[k] = -1
  /\ phase = "string" /\ input.file # NoFile =>
       \E k \in Clients : \A l \in Clients : k <= l => weight[l] = -1

Totals ==
  phase \in {"fill", "done"} /\ AllSet => total_weight = Sums(weight)[num_clients]

StartIsSum == \E q \in Int : start = Sums(weight)[i] + q * UMod
PassedAreFilled == \A j \in Slots : j < start => client_index[j] # -1

(* Without negative weights each client gets its slots, and keeps them.    *)
Shares(k, j) == k <= i /\ Sums(weight)[k - 1] <= j /\ j < Sums(weight)[k]
Proper == Valid /\ \A k \in Clients : weight[k] >= 0
Exact ==
  phase \in {"fill", "done"} /\ Proper =>
    \A k \in Clients, j \in Slots : client_index[j] = k - 1 <=> Shares(k, j)

FilInv ==
  /\ FilterTypeOK /\ input \in Inputs /\ Reading /\ Totals /\ StartIsSum
  /\ PassedAreFilled /\ Exact /\ (phase = "done" => i = num_clients)

LEMMA InitFilter == FilterInit => FilInv
<1> SUFFICES ASSUME FilterInit PROVE FilInv
  OBVIOUS
<1>1. FilterTypeOK
  <2>1. -1 \in -1 .. num_clients - 1 /\ 0 \in 0 .. num_clients /\ 0 \in 0 .. UMod - 1
    BY Numbers
  <2> QED BY <2>1 DEF FilterInit, FilterTypeOK
<1>2. Reading  BY DEF FilterInit, Reading
<1>3. StartIsSum
  <2>1. weight \in [Clients -> Int] /\ start = 0 /\ i = 0  BY DEF FilterInit
  <2>2. Sums(weight)[0] = 0  BY <2>1, SumsDef
  <2>3. 0 = 0 + 0 * UMod  BY Numbers
  <2> QED BY <2>1, <2>2, <2>3 DEF StartIsSum
<1>4. PassedAreFilled  BY Numbers DEF FilterInit, PassedAreFilled, Slots
<1> QED BY <1>1, <1>2, <1>3, <1>4 DEF FilterInit, FilInv, Totals, Exact

(* The state in which the filling loop begins.                             *)
LEMMA FillBegins ==
  ASSUME FilterTypeOK', input' \in Inputs, phase' \in {"string", "fill"},
         i' = 0, start' = 0, \A j \in Slots : client_index'[j] = -1,
         Reading', Totals'
  PROVE  FilInv'
<1>1. weight' \in [Clients -> Int]  BY DEF FilterTypeOK
<1>2. StartIsSum'
  <2>1. Sums(weight')[0] = 0  BY <1>1, SumsDef
  <2>2. 0 = 0 + 0 * UMod  BY Numbers
  <2> QED BY <2>1, <2>2 DEF StartIsSum
<1>3. PassedAreFilled'  BY Numbers DEF PassedAreFilled, Slots
<1>4. Exact'
  <2> SUFFICES ASSUME NEW k \in Clients, NEW j \in Slots
               PROVE  ~(client_index'[j] = k - 1) /\ ~Shares(k, j)'
    BY DEF Exact
  <2>1. k \in Nat /\ k >= 1  BY Numbers DEF Clients
  <2> QED BY <2>1 DEF Shares
<1> QED BY <1>2, <1>3, <1>4 DEF FilInv

(* Assign makes all weights numbers of s, or leaves one unset.             *)
LEMMA AssignTypes ==
  ASSUME FilterTypeOK, NEW s \in Seq(Int \cup {NaN}), Assign(s)
  PROVE  /\ weight' \in [Clients -> Int] /\ total_weight' \in Int
         /\ \A k \in Clients : weight'[k] = IF k \in Taken(s) THEN s[k] ELSE weight[k]
  BY TakenNumbers DEF Assign, FilterTypeOK

LEMMA AssignTotals ==
  ASSUME FilterTypeOK, NEW s \in Seq(Int \cup {NaN}), Assign(s),
         total_weight = 0, \A k \in Clients : weight[k] = -1
  PROVE  AllSet' => total_weight' = Sums(weight')[num_clients]
<1> SUFFICES ASSUME AllSet' PROVE total_weight' = Sums(weight')[num_clients]
  OBVIOUS
<1>1. \A k \in Clients : weight'[k] = IF k \in Taken(s) THEN s[k] ELSE -1
  BY AssignTypes
<1>2. \A k \in Clients : k \in Taken(s)  BY <1>1 DEF AllSet
<1>3. weight' = [k \in Clients |-> IF k \in Taken(s) THEN s[k] ELSE 0]
  BY <1>2 DEF Assign
<1>4. total_weight' = Sum(s)  BY TakenNumbers DEF Assign
<1> QED BY <1>3, <1>4 DEF Sum

LEMMA FileKeeps == FilInv /\ GetWeightByFile => FilInv'
<1> SUFFICES ASSUME FilInv, GetWeightByFile PROVE FilInv'
  OBVIOUS
<1>1. /\ FilterTypeOK /\ input \in Inputs /\ phase = "file" /\ i = 0 /\ start = 0
      /\ (\A j \in Slots : client_index[j] = -1)
      /\ total_weight = 0 /\ (\A k \in Clients : weight[k] = -1)
  BY DEF FilInv, Reading, GetWeightByFile
<1>2. UNCHANGED <<input, client_index, i, start>>  BY DEF GetWeightByFile
<1>3. CASE input.file = NoFile
  <2>1. phase' = "string" /\ UNCHANGED <<weight, total_weight>>
    BY <1>3 DEF GetWeightByFile
  <2>2. FilterTypeOK'  BY <1>1, <1>2, <2>1 DEF FilterTypeOK
  <2>3. Reading' /\ Totals'  BY <1>1, <1>2, <1>3, <2>1 DEF Reading, Totals
  <2> QED BY <1>1, <1>2, <2>1, <2>2, <2>3, FillBegins
<1>4. CASE input.file # NoFile
  <2>1. PICK s \in Seq(Int \cup {NaN}) : s = input.file
    BY <1>1, <1>4, InputsAssumption
  <2>2. Assign(s) /\ phase' = IF Throws(s) THEN "string" ELSE "fill"
    BY <1>4, <2>1 DEF GetWeightByFile
  <2>3. /\ weight' \in [Clients -> Int] /\ total_weight' \in Int
        /\ \A k \in Clients : weight'[k] = IF k \in Taken(s) THEN s[k] ELSE -1
    BY <1>1, <2>2, AssignTypes
  <2>4. phase' \in {"string", "fill"}  BY <2>2
  <2>5. FilterTypeOK'  BY <1>1, <1>2, <2>3, <2>4 DEF FilterTypeOK
  <2>6. AllSet' => total_weight' = Sums(weight')[num_clients]
    BY <1>1, <2>2, AssignTotals
  <2>7. ASSUME phase' = "string"
        PROVE  \E k \in Clients : \A l \in Clients : k <= l => weight'[l] = -1
    <3>1. PICK k \in Clients : k \in DOMAIN s /\ s[k] = NaN
      BY <2>2, <2>7 DEF Throws
    <3>2. \A l \in Taken(s) : l < k  BY <3>1, TakenUpTo
    <3>3. ASSUME NEW l \in Clients, k <= l PROVE weight'[l] = -1
      <4>1. ~(l < k)  BY <3>3, Numbers DEF Clients
      <4> QED BY <2>3, <3>2, <4>1
    <3> QED BY <3>3
  <2>8. Reading'
    BY <1>1, <1>2, <1>4, <2>4, <2>7 DEF Reading
  <2>9. Totals'  BY <2>6 DEF Totals
  <2> QED BY <1>1, <1>2, <2>4, <2>5, <2>8, <2>9, FillBegins
<1> QED BY <1>3, <1>4

LEMMA StringKeeps == FilInv /\ GetWeightByString => FilInv'
<1> SUFFICES ASSUME FilInv, GetWeightByString PROVE FilInv'
  OBVIOUS
<1>1. /\ FilterTypeOK /\ input \in Inputs /\ phase = "string" /\ i = 0 /\ start = 0
      /\ (\A j \in Slots : client_index[j] = -1)
  BY DEF FilInv, Reading, GetWeightByString
<1>2. UNCHANGED <<input, client_index, i, start>> /\ phase' = "fill"
  BY DEF GetWeightByString
<1>3. PICK s \in Seq(Int \cup {NaN}) : s = input.str  BY <1>1, InputsAssumption
<1>4. Assign(s)  BY <1>3 DEF GetWeightByString
<1>5. /\ weight' \in [Clients -> Int] /\ total_weight' \in Int
      /\ \A k \in Clients : weight'[k] = IF k \in Taken(s) THEN s[k] ELSE weight[k]
  BY <1>1, <1>4, AssignTypes
<1>6. FilterTypeOK'  BY <1>1, <1>2, <1>5 DEF FilterTypeOK
<1>7. Reading'  BY <1>2 DEF Reading
<1>8. AllSet' => total_weight' = Sums(weight')[num_clients]
  <2>1. CASE input.file = NoFile
    <3>1. total_weight = 0 /\ \A k \in Clients : weight[k] = -1
      BY <1>1, <2>1 DEF FilInv, Reading
    <3> QED BY <1>1, <1>4, <3>1, AssignTotals
  <2>2. CASE input.file # NoFile
    <3>1. PICK a \in Clients : \A l \in Clients : a <= l => weight[l] = -1
      BY <1>1, <2>2 DEF FilInv, Reading
    <3>2. PICK b \in Clients : b \in DOMAIN s => s[b] = NaN
      BY <1>1, <1>3, <2>2, InputsAssumption DEF Clients
    <3>3. \A l \in Taken(s) : l < b  BY <3>2, TakenUpTo
    <3>4. PICK m \in Clients : a <= m /\ ~(m < b)
      <4>1. a \in Nat /\ b \in Nat  BY Numbers DEF Clients
      <4>2. CASE a <= b  BY <4>1, <4>2
      <4>3. CASE b <= a  BY <4>1, <4>3
      <4> QED BY <4>1, <4>2, <4>3
    <3>5. weight'[m] = -1  BY <1>5, <3>1, <3>3, <3>4
    <3> QED BY <3>5 DEF AllSet
  <2> QED BY <2>1, <2>2
<1>9. Totals'  BY <1>8 DEF Totals
<1> QED BY <1>1, <1>2, <1>6, <1>7, <1>9, FillBegins

-----------------------------------------------------------------------------
(* Two numbers below m that differ by a multiple of m are the same.        *)
LEMMA SameBelow ==
  ASSUME NEW m \in Nat, NEW x \in Int, NEW y \in Int, NEW q \in Int,
         0 <= x, x < m, 0 <= y, y < m, x = y + q * m
  PROVE  x = y
<1>1. q = 0  OBVIOUS
<1> QED BY <1>1

LEMMA DivMod ==
  ASSUME NEW x \in Int, NEW m \in Nat \ {0}
  PROVE  x \div m \in Int /\ x % m \in 0 .. m - 1 /\ x = (x \div m) * m + (x % m)
<1>1. x \div m \in Int  OBVIOUS
<1>2. x = (x \div m) * m + (x % m)  OBVIOUS
<1>3. x % m \in 0 .. m - 1  OBVIOUS
<1> QED BY <1>1, <1>2, <1>3

(* With proper weights the sums stay in the range of an unsigned number,   *)
(* so start and end do not wrap.                                           *)
LEMMA ProperSums ==
  ASSUME FilterTypeOK, Proper, total_weight = Sums(weight)[num_clients]
  PROVE  \A k \in 0 .. num_clients :
           Sums(weight)[k] \in 0 .. kFilterTotalWeight
<1> SUFFICES ASSUME NEW k \in 0 .. num_clients
             PROVE  Sums(weight)[k] \in 0 .. kFilterTotalWeight
  OBVIOUS
<1>1. weight \in [Clients -> Int] /\ \A c \in Clients : weight[c] >= 0
  BY DEF FilterTypeOK, Proper
<1>2. /\ Sums(weight) \in [0 .. num_clients -> Int] /\ Sums(weight)[0] = 0
      /\ Sums(weight)[num_clients] = kFilterTotalWeight
  BY <1>1, SumsDef DEF Proper, Valid
<1>3. 0 \in 0 .. num_clients /\ num_clients \in 0 .. num_clients /\ 0 <= k /\ k <= num_clients
  BY Numbers
<1>4. Sums(weight)[0] <= Sums(weight)[k] /\ Sums(weight)[k] <= Sums(weight)[num_clients]
  BY <1>1, <1>3, SumsGrow
<1> QED BY <1>2, <1>4, Numbers

(* One iteration adds a weight to start, modulo UMod.                      *)
LEMMA FillStart ==
  ASSUME FilInv, FillIndex
  PROVE  /\ end \in 0 .. UMod - 1
         /\ \E q \in Int : end = Sums(weight)[i + 1] + q * UMod
<1>1. FilterTypeOK /\ weight \in [Clients -> Int] /\ start \in Int /\ i \in Nat /\ i + 1 \in 1 .. num_clients
  BY Numbers DEF FilInv, FilterTypeOK, FillIndex
<1>2. PICK q \in Int : start = Sums(weight)[i] + q * UMod  BY DEF FilInv, StartIsSum
<1>3. PICK a \in Int : a = Sums(weight)[i]
  BY <1>1, SumsDef, Numbers
<1>4. PICK w \in Int : w = weight[i + 1]  BY <1>1 DEF Clients
<1>5. Sums(weight)[i + 1] = a + w
  <2>1. i + 1 - 1 = i  BY <1>1
  <2>2. Sums(weight)[i + 1] = Sums(weight)[i + 1 - 1] + weight[i + 1]  BY <1>1, SumsDef
  <2> QED BY <1>3, <1>4, <2>1, <2>2
<1>6. PICK d \in Int, e \in Int : end = e /\ start + w = d * UMod + e /\ e \in 0 .. UMod - 1
  <2>1. PICK x \in Int : x = start + w  BY <1>1
  <2>2. UMod \in Nat \ {0}  BY Numbers
  <2>3. x \div UMod \in Int /\ x % UMod \in 0 .. UMod - 1 /\ x = (x \div UMod) * UMod + (x % UMod)
    BY ONLY x \in Int, <2>2, DivMod
  <2>4. end = x % UMod  BY <1>4, <2>1 DEF end
  <2>5. PICK d \in Int : d = x \div UMod  BY <2>3
  <2>6. PICK e \in Int : e = x % UMod /\ e \in 0 .. UMod - 1  BY <2>2, <2>3
  <2>7. end = e /\ start + w = d * UMod + e  BY ONLY <2>1, <2>3, <2>4, <2>5, <2>6
  <2> QED BY <2>6, <2>7
<1>7. end \in 0 .. UMod - 1  BY <1>6
<1>8. end = (a + w) + (q - d) * UMod
  <2>1. PICK qm \in Int : qm = q * UMod  BY Numbers
  <2>2. PICK dm \in Int : dm = d * UMod  BY Numbers
  <2>3. (q - d) * UMod = qm - dm  BY <2>1, <2>2, Numbers
  <2>4. start = a + qm  BY <1>2, <1>3, <2>1
  <2>5. start + w = dm + e  BY <1>6, <2>2
  <2> QED BY <1>1, <1>6, <2>3, <2>4, <2>5
<1>9. q - d \in Int  OBVIOUS
<1> QED BY <1>5, <1>7, <1>8, <1>9

LEMMA FillKeeps == FilInv /\ FillIndex => FilInv'
<1> SUFFICES ASSUME FilInv, FillIndex PROVE FilInv'
  OBVIOUS
<1>1. FilterTypeOK /\ i \in Nat /\ i < num_clients /\ phase = "fill" /\ start \in Int
  BY Numbers DEF FilInv, FilterTypeOK, FillIndex
<1>2. UNCHANGED <<input, weight, total_weight, phase>> /\ start' = end /\ i' = i + 1
  BY DEF FillIndex
<1>3. \A j \in Slots : client_index'[j] = IF start <= j /\ j < end THEN i ELSE client_index[j]
  BY DEF FillIndex
<1>4. end \in 0 .. UMod - 1 /\ end \in Int  BY FillStart, Numbers
<1>5. FilterTypeOK'
  <2>1. i \in -1 .. num_clients - 1 /\ i + 1 \in 0 .. num_clients  BY <1>1, Numbers
  <2>2. client_index' \in [Slots -> -1 .. num_clients - 1]
    BY <1>1, <2>1 DEF FillIndex, FilterTypeOK
  <2> QED BY <1>1, <1>2, <1>4, <2>1, <2>2 DEF FilterTypeOK
<1>6. StartIsSum'
  <2>1. \E q \in Int : end = Sums(weight)[i + 1] + q * UMod  BY FillStart
  <2> QED BY <1>2, <2>1 DEF StartIsSum
<1>7. PassedAreFilled'
  <2> SUFFICES ASSUME NEW j \in Slots, j < end PROVE client_index'[j] # -1
    BY <1>2 DEF PassedAreFilled
  <2>1. j \in Int  BY DEF Slots
  <2>2. CASE start <= j  BY <1>1, <1>3, <2>2
  <2>3. CASE j < start  BY <1>1, <1>3, <2>1, <2>3 DEF FilInv, PassedAreFilled
  <2> QED BY <1>1, <2>1, <2>2, <2>3
<1>8. Exact'
  <2> SUFFICES ASSUME Proper, NEW k \in Clients, NEW j \in Slots
               PROVE  client_index'[j] = k - 1 <=> Shares(k, j)'
    BY <1>2 DEF Exact, Proper, Valid
  <2> DEFINE S == Sums(weight)
  <2>1. weight \in [Clients -> Int] /\ \A c \in Clients : weight[c] >= 0
    BY <1>1 DEF FilterTypeOK, Proper
  <2>2. total_weight = S[num_clients]
    BY <1>1 DEF FilInv, Totals, Proper, Valid, AllSet
  <2>3. \A c \in 0 .. num_clients : S[c] \in 0 .. kFilterTotalWeight
    BY <1>1, <2>2, ProperSums
  <2>4. k \in Nat /\ k >= 1 /\ k <= num_clients /\ j \in Nat /\ j < kFilterTotalWeight
    BY Numbers DEF Clients, Slots
  <2>5. PICK a \in Nat, b \in Nat :
          a = S[i] /\ b = S[i + 1] /\ a <= kFilterTotalWeight /\ b <= kFilterTotalWeight
    <3>1. i \in 0 .. num_clients /\ i + 1 \in 0 .. num_clients  BY <1>1, Numbers
    <3>2. S[i] \in Nat /\ S[i + 1] \in Nat /\ S[i] <= kFilterTotalWeight /\ S[i + 1] <= kFilterTotalWeight
      BY <2>3, <3>1, Numbers
    <3> HIDE DEF S
    <3> QED BY <3>2
  <2>6. start = a
    <3>1. PICK q \in Int : start = S[i] + q * UMod  BY DEF FilInv, StartIsSum
    <3>2. 0 <= start /\ start < UMod /\ a < UMod  BY <1>1, <2>5, Numbers DEF FilterTypeOK
    <3> QED BY <1>1, <2>5, <3>1, <3>2, SameBelow, Numbers
  <2>7. end = b
    <3>1. PICK q \in Int : end = S[i + 1] + q * UMod  BY FillStart
    <3>2. 0 <= end /\ end < UMod /\ b < UMod  BY <1>4, <2>5, Numbers
    <3> QED BY <1>4, <2>5, <3>1, <3>2, SameBelow, Numbers
  <2>8. client_index[j] = k - 1 <=> (k <= i /\ S[k - 1] <= j /\ j < S[k])
    BY <1>1 DEF FilInv, Exact, Shares
  <2>9. Shares(k, j)' <=> (k <= i + 1 /\ S[k - 1] <= j /\ j < S[k])
    BY <1>2 DEF Shares
  <2>10. client_index'[j] = IF a <= j /\ j < b THEN i ELSE client_index[j]
    BY <1>3, <2>6, <2>7
  <2>11. PICK x \in Nat, y \in Nat : x = S[k - 1] /\ y = S[k]
    <3>1. k - 1 \in 0 .. num_clients /\ k \in 0 .. num_clients  BY <2>4, Numbers
    <3>2. S[k - 1] \in Nat /\ S[k] \in Nat  BY <2>3, <3>1, Numbers
    <3> HIDE DEF S
    <3> QED BY <3>2
  <2>12. k <= i => y <= a
    <3>1. k \in 0 .. num_clients /\ i \in 0 .. num_clients  BY <1>1, <2>4, Numbers
    <3> QED BY <2>1, <2>5, <2>11, <3>1, SumsGrow
  <2>13. k = i + 1 => x = a /\ y = b
    <3>1. k = i + 1 => k - 1 = i  BY <1>1
    <3> QED BY <2>5, <2>11, <3>1
  <2>14. client_index[j] \in Int  BY <1>1, Numbers DEF FilterTypeOK
  <2> HIDE DEF S
  <2>15. CASE k <= i
    BY <1>1, <2>4, <2>8, <2>9, <2>10, <2>11, <2>12, <2>14, <2>15
  <2>16. CASE k = i + 1
    BY <1>1, <2>4, <2>8, <2>9, <2>10, <2>11, <2>13, <2>14, <2>16
  <2>17. CASE k > i + 1
    BY <1>1, <2>4, <2>8, <2>9, <2>10, <2>14, <2>17
  <2> QED BY <1>1, <2>4, <2>15, <2>16, <2>17
<1>9. Reading' /\ Totals'  BY <1>1, <1>2 DEF FilInv, Reading, Totals, AllSet
<1> QED BY <1>1, <1>2, <1>5, <1>6, <1>7, <1>8, <1>9 DEF FilInv

LEMMA DoneKeeps == FilInv /\ Done => FilInv'
  BY DEF FilInv, Done, FilterTypeOK, Reading, Totals, AllSet, StartIsSum, PassedAreFilled, Exact,
         Shares, Proper, Valid

LEMMA NextFilter == FilInv /\ [FilterNext]_filter_vars => FilInv'
<1>1. FilInv /\ UNCHANGED filter_vars => FilInv'
  BY DEF FilInv, filter_vars, FilterTypeOK, Reading, Totals, AllSet, StartIsSum, PassedAreFilled, Exact,
         Shares, Proper, Valid
<1> QED BY <1>1, FileKeeps, StringKeeps, FillKeeps, DoneKeeps DEF FilterNext

LEMMA FilterImplies == FilInv => ValidCovers /\ FillMatchesWeights
<1> SUFFICES ASSUME FilInv PROVE ValidCovers /\ FillMatchesWeights
  OBVIOUS
<1>1. FilterTypeOK  BY DEF FilInv
<1>2. ASSUME phase = "done", Valid, NEW j \in Slots PROVE client_index[j] + 1 \in Clients
  <2>1. i = num_clients /\ Sums(weight)[num_clients] = kFilterTotalWeight
    BY <1>2 DEF FilInv, Totals, Valid, AllSet
  <2>2. PICK q \in Int : start = kFilterTotalWeight + q * UMod
    BY <2>1 DEF FilInv, StartIsSum
  <2>3. start \in Int /\ 0 <= start /\ start < UMod /\ kFilterTotalWeight < UMod
    BY <1>1, Numbers DEF FilterTypeOK
  <2>4. start = kFilterTotalWeight  BY <2>2, <2>3, SameBelow, Numbers
  <2>5. j < start  BY <2>4, Numbers DEF Slots
  <2>6. client_index[j] # -1 /\ client_index[j] \in -1 .. num_clients - 1
    BY <1>1, <2>5 DEF FilInv, PassedAreFilled, FilterTypeOK
  <2> QED BY <2>6, Numbers DEF Clients
<1>3. ValidCovers  BY <1>1, <1>2 DEF ValidCovers
<1>4. ASSUME phase = "done", Proper, NEW k \in Clients
      PROVE  {j \in Slots : client_index[j] = k - 1} = Before(k - 1) .. Before(k) - 1
  <2>1. i = num_clients /\ total_weight = Sums(weight)[num_clients]
    BY <1>4 DEF FilInv, Totals, Proper, Valid, AllSet
  <2>2. k \in Nat /\ k >= 1 /\ k <= num_clients  BY Numbers DEF Clients
  <2>3. PICK x \in Nat, y \in Nat :
          x = Sums(weight)[k - 1] /\ y = Sums(weight)[k] /\ y <= kFilterTotalWeight
    <3>1. k - 1 \in 0 .. num_clients /\ k \in 0 .. num_clients  BY <2>2, Numbers
    <3>2. Sums(weight)[k - 1] \in 0 .. kFilterTotalWeight /\ Sums(weight)[k] \in 0 .. kFilterTotalWeight
      BY <1>1, <1>4, <2>1, <3>1, ProperSums
    <3> QED BY <3>2, Numbers
  <2>4. \A j \in Slots : client_index[j] = k - 1 <=> (x <= j /\ j < y)
    BY <1>4, <2>1, <2>2, <2>3 DEF FilInv, Exact, Shares
  <2>5. \A j : j \in x .. y - 1 <=> j \in Slots /\ x <= j /\ j < y
    BY <2>3, Numbers DEF Slots
  <2> QED BY <2>3, <2>4, <2>5 DEF Before
<1>5. FillMatchesWeights  BY <1>4 DEF FillMatchesWeights, Proper
<1> QED BY <1>3, <1>5

(* A filter that ValidateWeight accepts has a client in every slot,        *)
(* whatever the weights: where negative ones make start jump back, the     *)
(* slots are filled again when start passes them on its way to the total.  *)
THEOREM ValidCoversCorrect == FilterSpec => []ValidCovers
<1>1. FilterInit => FilInv  BY InitFilter
<1>2. FilInv /\ [FilterNext]_filter_vars => FilInv'  BY NextFilter
<1>3. FilInv => ValidCovers  BY FilterImplies
<1> QED BY <1>1, <1>2, <1>3, PTL DEF FilterSpec

(* With weights that are not negative each client has as many slots as its *)
(* weight says, in the order of the clients.                               *)
THEOREM FillMatchesWeightsCorrect == FilterSpec => []FillMatchesWeights
<1>1. FilterInit => FilInv  BY InitFilter
<1>2. FilInv /\ [FilterNext]_filter_vars => FilInv'  BY NextFilter
<1>3. FilInv => FillMatchesWeights  BY FilterImplies
<1> QED BY <1>1, <1>2, <1>3, PTL DEF FilterSpec
=============================================================================
