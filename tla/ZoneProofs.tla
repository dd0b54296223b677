------------------------------ MODULE ZoneProofs ------------------------------
(***************************************************************************)
(* Proofs about ZoneConstructor: every zone holds only records of names    *)
(* inside it and every zone of an address exists; what a server was seen   *)
(* to answer is served at its address unless a zone learnt later shadows   *)
(* it; and the construction gives up for two reasons only.  All hold for   *)
(* every input, every order of its directories and every order of views.   *)
(***************************************************************************)
EXTENDS ZoneConstructor, SequenceTheorems, WellFoundedInduction, TLAPS

-----------------------------------------------------------------------------
(* Induction, and recursion along a sequence.                              *)

(* What holds of 0 and goes from each n to n + 1, as far as len, holds of  *)
(* len.                                                                    *)
LEMMA Climb ==
  ASSUME NEW S, NEW len \in Nat, 0 \in S, \A n \in Nat : n + 1 <= len /\ n \in S => n + 1 \in S
  PROVE  len \in S
<1> DEFINE Less == OpToRel(<, Nat)
           Missing == {n \in Nat : n <= len /\ n \notin S}
<1>1. SUFFICES ASSUME Missing # {} PROVE FALSE
  OBVIOUS
<1>2. IsWellFoundedOn(Less, Nat)  BY NatLessThanWellFounded
<1>3. PICK x \in Missing : \A y \in Missing : <<y, x>> \notin Less
  <2>1. Missing \subseteq Nat  OBVIOUS
  <2> HIDE DEF Missing, Less
  <2> QED BY <1>1, <1>2, <2>1, WFMin
<1>4. \A y \in Missing : ~(y < x)  BY <1>3 DEF OpToRel
<1>5. x \in Nat /\ x <= len /\ x \notin S  OBVIOUS
<1>6. x # 0  BY <1>5
<1>7. x - 1 \in Nat /\ x - 1 <= len /\ x - 1 < x /\ (x - 1) + 1 = x  BY <1>5, <1>6
<1>8. x - 1 \notin Missing  BY <1>4, <1>7
<1>9. x - 1 \in S  BY <1>7, <1>8
<1> QED BY <1>5, <1>7, <1>9

(* f is the course of a computation that takes len steps from base.        *)
Course(f, base, step, len, V) ==
  /\ f \in [0 .. len -> V] /\ f[0] = base
  /\ \A i \in 1 .. len : f[i] = step[<<i, f[i - 1]>>]

LEMMA CourseExists ==
  ASSUME NEW len \in Nat, NEW V, NEW base \in V, NEW step \in [(1 .. len) \X V -> V]
  PROVE  \E f : Course(f, base, step, len, V)
<1> DEFINE Upto(n) == \E f : Course(f, base, step, n, V)
           S == {n \in 0 .. len : Upto(n)}
<1>1. Upto(0)
  <2> DEFINE g == [i \in 0 .. 0 |-> base]
  <2>1. Course(g, base, step, 0, V)  BY DEF Course
  <2> QED BY <2>1
<1>2. ASSUME NEW n \in Nat, n + 1 <= len, Upto(n) PROVE Upto(n + 1)
  <2>1. PICK f : Course(f, base, step, n, V)  BY <1>2
  <2>2. f \in [0 .. n -> V] /\ f[0] = base /\ \A i \in 1 .. n : f[i] = step[<<i, f[i - 1]>>]
    BY <2>1 DEF Course
  <2>3. PICK last \in V : last = step[<<n + 1, f[n]>>]
    <3>1. n + 1 \in 1 .. len /\ n \in 0 .. n  BY <1>2
    <3>2. f[n] \in V  BY <2>2, <3>1
    <3> QED BY <3>1, <3>2
  <2> DEFINE g == [i \in 0 .. n + 1 |-> IF i <= n THEN f[i] ELSE last]
  <2>4. g \in [0 .. n + 1 -> V]
    <3>1. ASSUME NEW i \in 0 .. n + 1 PROVE (IF i <= n THEN f[i] ELSE last) \in V
      <4>1. i <= n => i \in 0 .. n  BY <1>2
      <4> QED BY <2>2, <2>3, <4>1
    <3> QED BY <3>1
  <2>5. g[0] = base  BY <1>2, <2>2
  <2>6. ASSUME NEW i \in 1 .. n + 1 PROVE g[i] = step[<<i, g[i - 1]>>]
    <3>1. i \in 0 .. n + 1 /\ i - 1 \in 0 .. n + 1 /\ i - 1 <= n  BY <1>2
    <3>2. g[i - 1] = f[i - 1]  BY <3>1
    <3>3. CASE i <= n
      <4>1. i \in 1 .. n  BY <1>2, <3>3
      <4>2. g[i] = f[i]  BY <3>1, <3>3
      <4> QED BY <2>2, <3>2, <4>1, <4>2
    <3>4. CASE ~(i <= n)
      <4>1. i = n + 1 /\ i - 1 = n  BY <1>2, <3>4
      <4>2. g[i] = last  BY <3>1, <3>4
      <4> QED BY <2>3, <3>2, <4>1, <4>2
    <3> QED BY <3>3, <3>4
  <2> HIDE DEF g
  <2>7. Course(g, base, step, n + 1, V)  BY <2>4, <2>5, <2>6 DEF Course
  <2> QED BY <2>7
<1>3. len \in S
  <2>1. 0 \in S  BY <1>1
  <2>2. ASSUME NEW n \in Nat, n + 1 <= len, n \in S PROVE n + 1 \in S
    <3>1. Upto(n)  BY <2>2
    <3>2. Upto(n + 1)  BY <1>2, <2>2, <3>1
    <3> HIDE DEF Upto
    <3> QED BY <2>2, <3>2
  <2> HIDE DEF S
  <2> QED BY <2>1, <2>2, Climb
<1> QED BY <1>3

-----------------------------------------------------------------------------
(* Names.                                                                  *)

LEMMA SuffixFacts ==
  ASSUME NEW z \in Seq(STRING)
  PROVE  IsSuffix(z, z) /\ IsSuffix(root, z)
<1>1. PICK rev : rev = Reverse(z)  OBVIOUS
<1>2. rev = [i \in 1 .. Len(z) |-> z[(Len(z) - i) + 1]]  BY <1>1 DEF Reverse
<1>3. rev \in Seq(STRING)
  <2>1. Len(z) \in Nat  OBVIOUS
  <2>2. \A i \in 1 .. Len(z) : (Len(z) - i) + 1 \in 1 .. Len(z)  BY <2>1
  <2>3. \A i \in 1 .. Len(z) : z[(Len(z) - i) + 1] \in STRING  BY <2>2
  <2>4. rev \in [1 .. Len(z) -> STRING]  BY <1>2, <2>3
  <2> QED BY <2>1, <2>4
<1>4. IsSuffix(z, z)  BY <1>1, <1>3 DEF IsSuffix, IsPrefix
<1>5. PICK no : no = Reverse(<<>>)  OBVIOUS
<1>6. no = [i \in 1 .. Len(<<>>) |-> <<>>[(Len(<<>>) - i) + 1]]  BY <1>5 DEF Reverse
<1>7. no = <<>>
  <2>1. no = [i \in 1 .. 0 |-> <<>>[(Len(<<>>) - i) + 1]]  BY <1>6
  <2>2. no \in [1 .. 0 -> STRING]  BY <2>1
  <2>3. no \in Seq(STRING) /\ Len(no) = 0  BY <2>2
  <2> QED BY <2>3
<1>8. IsSuffix(root, z)
  <2>1. Len(no) = 0 /\ Len(rev) \in Nat  BY <1>3, <1>7
  <2>2. SubSeq(no, 1, 0) = SubSeq(rev, 1, 0)  BY <1>3, <1>7
  <2> QED BY <1>1, <1>5, <2>1, <2>2 DEF IsSuffix, IsPrefix, root
<1> QED BY <1>4, <1>8

-----------------------------------------------------------------------------
(* read_dns_message: what it keeps of a directory are messages of it, less *)
(* the records that dnspython cannot handle.                               *)
LEMMA ReadFacts ==
  ASSUME NEW dir, dir \in Seq(ToSet(dir))
  PROVE  ReadDnsMessage(dir) \in Seq({Cleaned(m) : m \in ToSet(dir)})
<1> DEFINE M == {Cleaned(m) : m \in ToSet(dir)}
<1>1. PICK len \in Nat : len = Len(dir)  OBVIOUS
<1>2. PICK V : V = Seq(M)  OBVIOUS
<1>3. ASSUME NEW i \in 1 .. len, NEW v \in V
      PROVE  (IF Usable(dir[i]) THEN Append(v, Cleaned(dir[i])) ELSE v) \in V
  <2>1. dir[i] \in ToSet(dir)  BY <1>1 
  <2>2. Cleaned(dir[i]) \in M  BY <2>1
  <2> HIDE DEF M
  <2> QED BY <1>2, <2>2
<1> DEFINE Rule(g) ==
      g = [i \in 0 .. Len(dir) |->
             IF i = 0 THEN <<>>
             ELSE IF Usable(dir[i]) THEN Append(g[i - 1], Cleaned(dir[i])) ELSE g[i - 1]]
<1>4. PICK S : S = CHOOSE g : Rule(g)  OBVIOUS
<1>5. ReadDnsMessage(dir) = S[len]  BY <1>1, <1>4 DEF ReadDnsMessage
<1>6. <<>> \in V  BY <1>2
<1>7. \E f : Rule(f)
  <2> DEFINE step == [p \in (1 .. len) \X V |->
               IF Usable(dir[p[1]]) THEN Append(p[2], Cleaned(dir[p[1]])) ELSE p[2]]
  <2>1. step \in [(1 .. len) \X V -> V]
    <3>1. ASSUME NEW p \in (1 .. len) \X V
          PROVE  (IF Usable(dir[p[1]]) THEN Append(p[2], Cleaned(dir[p[1]])) ELSE p[2]) \in V
      <4>1. p[1] \in 1 .. len /\ p[2] \in V  OBVIOUS
      <4> QED BY <1>3, <4>1
    <3> QED BY <3>1
  <2>2. \A i \in 1 .. len : \A v \in V :
          step[<<i, v>>] = IF Usable(dir[i]) THEN Append(v, Cleaned(dir[i])) ELSE v
    OBVIOUS
  <2> HIDE DEF step
  <2>3. PICK f : Course(f, <<>>, step, len, V)  BY <1>6, <2>1, CourseExists
  <2>4. f \in [0 .. len -> V] /\ f[0] = <<>> /\ \A i \in 1 .. len : f[i] = step[<<i, f[i - 1]>>]
    BY <2>3 DEF Course
  <2>5. ASSUME NEW i \in 0 .. len
        PROVE  f[i] = IF i = 0 THEN <<>>
                      ELSE IF Usable(dir[i]) THEN Append(f[i - 1], Cleaned(dir[i])) ELSE f[i - 1]
    <3>1. CASE i = 0  BY <2>4, <3>1
    <3>2. CASE i # 0
      <4>1. i \in 1 .. len /\ i - 1 \in 0 .. len  BY <3>2
      <4>2. f[i - 1] \in V  BY <2>4, <4>1
      <4> QED BY <2>2, <2>4, <3>2, <4>1, <4>2
    <3> QED BY <3>1, <3>2
  <2>6. Rule(f)  BY <1>1, <2>4, <2>5
  <2> QED BY <2>6
<1>8. Rule(S)
  <2> HIDE DEF Rule
  <2> QED BY <1>4, <1>7
<1>9. S = [i \in 0 .. len |->
             IF i = 0 THEN <<>>
             ELSE IF Usable(dir[i]) THEN Append(S[i - 1], Cleaned(dir[i])) ELSE S[i - 1]]
  BY <1>1, <1>8
<1> DEFINE T == {n \in 0 .. len : S[n] \in V}
<1>10. 0 \in T  BY <1>6, <1>9
<1>11. ASSUME NEW n \in Nat, n + 1 <= len, n \in T PROVE n + 1 \in T
  <2>1. n + 1 \in 1 .. len /\ n + 1 \in 0 .. len /\ (n + 1) - 1 = n /\ n + 1 # 0  BY <1>11
  <2>2. S[n + 1] = IF Usable(dir[n + 1]) THEN Append(S[n], Cleaned(dir[n + 1])) ELSE S[n]
    BY <1>9, <2>1
  <2>3. S[n] \in V  BY <1>11
  <2>4. S[n + 1] \in V  BY <1>3, <2>1, <2>2, <2>3
  <2> QED BY <2>1, <2>4
<1>12. len \in T
  <2> HIDE DEF T
  <2> QED BY <1>10, <1>11, Climb
<1> QED BY <1>2, <1>5, <1>12

LEMMA ReadIsSeq ==
  ASSUME NEW dir, dir \in Seq(ToSet(dir))
  PROVE  ReadDnsMessage(dir) \in Seq(ToSet(ReadDnsMessage(dir)))
<1>1. PICK M, msgs : M = {Cleaned(m) : m \in ToSet(dir)} /\ msgs = ReadDnsMessage(dir)  OBVIOUS
<1>2. msgs \in Seq(M)  BY <1>1, ReadFacts
<1>3. Len(msgs) \in Nat /\ msgs \in [1 .. Len(msgs) -> M]  BY <1>2
<1>4. \A i \in 1 .. Len(msgs) : msgs[i] \in ToSet(msgs)  BY <1>3 DEF ToSet
<1>5. msgs \in [1 .. Len(msgs) -> ToSet(msgs)]  BY <1>3, <1>4
<1> QED BY <1>1, <1>3, <1>5

(* So the zones that a directory makes are names of the order.             *)
LEMMA CreatedNames ==
  ASSUME NEW in \in Inputs, NEW dir \in in
  PROVE  /\ dir \in Seq(ToSet(dir)) /\ Created(ReadDnsMessage(dir)) \subseteq Names
<1>1. dir \in UNION Inputs  OBVIOUS
<1>2. dir \in Seq(ToSet(dir))  BY <1>1, ZoneAssumption
<1>3. ASSUME NEW msg \in ToSet(dir), NEW r \in msg.ans \cup msg.aut, r.type = "NS" PROVE r.name \in Names
  BY <1>1, <1>3, ZoneAssumption
<1>4. PICK M, msgs : M = {Cleaned(m) : m \in ToSet(dir)} /\ msgs = ReadDnsMessage(dir)  OBVIOUS
<1>5. msgs \in Seq(M)  BY <1>2, <1>4, ReadFacts
<1>6. ASSUME NEW r \in Delegations(msgs) PROVE r.name \in Names
  <2>1. r.type = "NS" /\ r \in Section(msgs, "ans") \cup Section(msgs, "aut")  BY DEF Delegations
  <2>2. PICK i \in DOMAIN msgs : r \in msgs[i].ans \cup msgs[i].aut  BY <2>1 DEF Section
  <2>3. msgs[i] \in M  BY <1>5
  <2>4. PICK m \in ToSet(dir) : msgs[i] = Cleaned(m)  BY <1>4, <2>3
  <2>5. r \in m.ans \cup m.aut  BY <2>2, <2>4 DEF Cleaned, Clean
  <2> QED BY <1>3, <2>1, <2>5
<1> QED BY <1>2, <1>4, <1>6 DEF Created

-----------------------------------------------------------------------------
(* DNSZone.add_record and fix_delegation.                                  *)

LEMMA AddFacts ==
  ASSUME NEW records, NEW z, NEW new
  PROVE  /\ AddRecords(records, z, new) \subseteq records \cup new
         /\ \A r \in records : r.type \notin Singletons => r \in AddRecords(records, z, new)
         /\ \A r \in new : r.type \notin Singletons => r \in AddRecords(records, z, new)
BY SingletonsAssumption DEF AddRecords

(* A record that zone z gives to zone t is one of z; it lies in t, or the  *)
(* text of t is the end of the name of a delegation of z, or of its        *)
(* server, that t does not contain.                                        *)
Textual(t, r) ==
  /\ r.type = "NS" /\ t # root
  /\ \E name \in {r.name, r.data} : EndsWith(name, t) /\ ~IsSuffix(t, name)

LEMMA MovedFacts ==
  ASSUME NEW zones, NEW view, NEW z, NEW t, NEW r \in Moved(zones, view, z, t)
  PROVE  r \in zones[z] /\ (IsSuffix(t, r.name) \/ \E s \in zones[z] : Textual(t, s))
<1> DEFINE cuts == {s \in zones[z] : s.type = "NS" /\ t \in TmpZone(view, z, s)}
<1>1. ASSUME NEW s \in cuts
      PROVE  s \in zones[z] /\ s.type = "NS" /\ t # root /\ EndsWith(s.name, t)
  BY DEF TmpZone
<1>2. r \in cuts \/ \E s \in cuts : EndsWith(s.data, t) /\ r \in A(zones[z], s.data)
  BY DEF Moved, EndsAsWritten
<1>3. CASE r \in cuts
  <2>1. IsSuffix(t, r.name) \/ Textual(t, r)  BY <1>1, <1>3 DEF Textual
  <2> QED BY <1>1, <1>3, <2>1
<1>4. ASSUME NEW s \in cuts, EndsWith(s.data, t), r \in A(zones[z], s.data)
      PROVE  r \in zones[z] /\ (IsSuffix(t, r.name) \/ \E u \in zones[z] : Textual(t, u))
  <2>1. r \in zones[z] /\ r.name = s.data  BY <1>4 DEF A
  <2>2. IsSuffix(t, r.name) \/ Textual(t, s)  BY <1>1, <1>4, <2>1 DEF Textual
  <2> QED BY <1>1, <2>1, <2>2
<1> QED BY <1>2, <1>3, <1>4

(* What the passes over a view make of the zones: they stay as they are    *)
(* outside it, inside it no record but one of Singletons goes, and none    *)
(* comes that was not in a zone of the view; all records lie in their      *)
(* zones, or the text of a zone of the view explains why not.              *)
Explains(zones, view) == \E z, t \in view : \E r \in zones[z] : Textual(t, r)
Placed(zones) == \A z \in DOMAIN zones : \A r \in zones[z] : IsSuffix(z, r.name)
Passed(old, new, view) ==
  /\ new = [z \in DOMAIN old |-> new[z]]
  /\ \A z \in DOMAIN old : \A r \in old[z] : r.type \notin Singletons => r \in new[z]
  /\ \A z \in DOMAIN old \ view : new[z] = old[z]
  /\ \A z \in view : \A r \in new[z] : \E y \in view : r \in old[y]
  /\ Explains(old, view) \/ \A z \in DOMAIN old : \A r \in new[z] : IsSuffix(z, r.name)

LEMMA PassedStart ==
  ASSUME NEW old, NEW view, old = [z \in DOMAIN old |-> old[z]], Placed(old)
  PROVE  Passed(old, old, view)
BY DEF Passed, Placed

LEMMA PassedStep ==
  ASSUME NEW old, NEW new, NEW view, view \subseteq DOMAIN old, NEW z \in view, Passed(old, new, view)
  PROVE  Passed(old, FixZone(new, view, z), view)
<1>1. PICK out : out = FixZone(new, view, z)  OBVIOUS
<1>2. DOMAIN new = DOMAIN old  BY DEF Passed
<1>3. out = [t \in DOMAIN old |->
        IF t \in view THEN AddRecords(new[t], t, Moved(new, view, z, t)) ELSE new[t]]
  BY <1>1, <1>2 DEF FixZone
<1>4. \A t \in DOMAIN old \ view : out[t] = new[t]  BY <1>3
<1>5. \A t \in view : out[t] = AddRecords(new[t], t, Moved(new, view, z, t))  BY <1>3
<1>6. out = [t \in DOMAIN old |-> out[t]]  BY <1>3
<1>7. ASSUME NEW t \in DOMAIN old, NEW r \in old[t], r.type \notin Singletons PROVE r \in out[t]
  <2>1. r \in new[t]  BY <1>7 DEF Passed
  <2> QED BY <1>4, <1>5, <1>7, <2>1, AddFacts
<1>8. ASSUME NEW t \in DOMAIN old \ view PROVE out[t] = old[t]  BY <1>4 DEF Passed
<1>9. ASSUME NEW s \in new[z] PROVE \E y \in view : s \in old[y]  BY DEF Passed
<1>10. ASSUME NEW t \in view, NEW r \in out[t]
       PROVE  r \in new[t] \/ r \in Moved(new, view, z, t)
  BY <1>5, AddFacts
<1>11. ASSUME NEW t \in view, NEW r \in out[t] PROVE \E y \in view : r \in old[y]
  <2>1. CASE r \in new[t]  BY <2>1 DEF Passed
  <2>2. CASE r \in Moved(new, view, z, t)
    <3>1. r \in new[z]  BY <2>2, MovedFacts
    <3> QED BY <1>9, <3>1
  <2> QED BY <1>10, <2>1, <2>2
<1>12. ASSUME ~Explains(old, view), NEW t \in DOMAIN old, NEW r \in out[t] PROVE IsSuffix(t, r.name)
  <2>1. \A y \in DOMAIN old : \A s \in new[y] : IsSuffix(y, s.name)  BY <1>12 DEF Passed
  <2>2. CASE t \notin view  BY <1>4, <2>1, <2>2
  <2>3. CASE t \in view /\ r \in Moved(new, view, z, t)
    <3>1. ASSUME NEW s \in new[z], Textual(t, s) PROVE FALSE
      <4>1. PICK y \in view : s \in old[y]  BY <1>9
      <4> QED BY <1>12, <2>3, <3>1, <4>1 DEF Explains
    <3> QED BY <2>3, <3>1, MovedFacts
  <2> QED BY <1>10, <2>1, <2>2, <2>3
<1> QED BY <1>1, <1>6, <1>7, <1>8, <1>11, <1>12 DEF Passed

LEMMA PassedType ==
  ASSUME NEW old, NEW new, NEW view, view \subseteq DOMAIN old, Passed(old, new, view)
  PROVE  new \in [DOMAIN old -> SUBSET UNION {old[z] : z \in DOMAIN old}]
<1>1. ASSUME NEW z \in DOMAIN old, NEW r \in new[z] PROVE \E y \in DOMAIN old : r \in old[y]
  BY DEF Passed
<1>2. new = [z \in DOMAIN old |-> new[z]]  BY DEF Passed
<1>3. \A z \in DOMAIN old : new[z] \in SUBSET UNION {old[y] : y \in DOMAIN old}  BY <1>1
<1> QED BY <1>2, <1>3

(* S holds the zones after the passes over each beginning of NameOrder.    *)
Passes(S, old, view, len) ==
  /\ S[0] = old /\ \A n \in 0 .. len : Passed(old, S[n], view)
  /\ \A n \in 1 .. len : S[n] = IF NameOrder[n] \in view THEN FixZone(S[n - 1], view, NameOrder[n])
                              ELSE S[n - 1]

LEMMA FixViewPasses ==
  ASSUME NEW view, view \subseteq DOMAIN name2zone,
         name2zone = [z \in DOMAIN name2zone |-> name2zone[z]], Placed(name2zone)
  PROVE  \E S : /\ Passes(S, name2zone, view, Len(NameOrder))
               /\ FixView(view) = S[Len(NameOrder)]
<1>1. PICK old : old = name2zone  OBVIOUS
<1>2. PICK len \in Nat : len = Len(NameOrder)  BY ZoneAssumption
<1> DEFINE U == UNION {old[z] : z \in DOMAIN old}
           W == {new \in [DOMAIN old -> SUBSET U] : Passed(old, new, view)}
<1>3. PICK V : V = W  OBVIOUS
<1>4. \A new : Passed(old, new, view) => new \in V
  BY <1>1, <1>3, PassedType
<1>5. \A new \in V : Passed(old, new, view)  BY <1>3
<1> HIDE DEF W, U
<1>6. old \in V  BY <1>1, <1>4, PassedStart
<1>7. ASSUME NEW i \in 1 .. len, NEW v \in V
      PROVE  (IF NameOrder[i] \in view THEN FixZone(v, view, NameOrder[i]) ELSE v) \in V
  BY <1>1, <1>4, <1>5, PassedStep
<1> DEFINE Rule(g) ==
      g = [n \in 0 .. Len(NameOrder) |->
             IF n = 0 THEN name2zone
             ELSE IF NameOrder[n] \in view THEN FixZone(g[n - 1], view, NameOrder[n])
             ELSE g[n - 1]]
<1>8. PICK S : S = CHOOSE g : Rule(g)  OBVIOUS
<1>9. FixView(view) = S[len]  BY <1>2, <1>8 DEF FixView
<1>10. \E f : Rule(f)
  <2> DEFINE step == [p \in (1 .. len) \X V |->
               IF NameOrder[p[1]] \in view THEN FixZone(p[2], view, NameOrder[p[1]]) ELSE p[2]]
  <2>1. step \in [(1 .. len) \X V -> V]
    <3>1. ASSUME NEW p \in (1 .. len) \X V
          PROVE  (IF NameOrder[p[1]] \in view THEN FixZone(p[2], view, NameOrder[p[1]]) ELSE p[2]) \in V
      <4>1. p[1] \in 1 .. len /\ p[2] \in V  OBVIOUS
      <4> QED BY <1>7, <4>1
    <3> QED BY <3>1
  <2>2. \A i \in 1 .. len : \A v \in V :
          step[<<i, v>>] = IF NameOrder[i] \in view THEN FixZone(v, view, NameOrder[i]) ELSE v
    OBVIOUS
  <2> HIDE DEF step
  <2>3. PICK f : Course(f, old, step, len, V)  BY <1>6, <2>1, CourseExists
  <2>4. f \in [0 .. len -> V] /\ f[0] = old /\ \A i \in 1 .. len : f[i] = step[<<i, f[i - 1]>>]
    BY <2>3 DEF Course
  <2>5. ASSUME NEW i \in 0 .. len
        PROVE  f[i] = IF i = 0 THEN name2zone
                      ELSE IF NameOrder[i] \in view THEN FixZone(f[i - 1], view, NameOrder[i])
                      ELSE f[i - 1]
    <3>1. CASE i = 0  BY <1>1, <2>4, <3>1
    <3>2. CASE i # 0
      <4>1. i \in 1 .. len /\ i - 1 \in 0 .. len  BY <3>2
      <4>2. f[i - 1] \in V  BY <2>4, <4>1
      <4> QED BY <2>2, <2>4, <3>2, <4>1, <4>2
    <3> QED BY <3>1, <3>2
  <2>6. Rule(f)  BY <1>2, <2>4, <2>5
  <2> QED BY <2>6
<1>11. Rule(S)
  <2> HIDE DEF Rule
  <2> QED BY <1>8, <1>10
<1>12. S = [n \in 0 .. len |->
             IF n = 0 THEN name2zone
             ELSE IF NameOrder[n] \in view THEN FixZone(S[n - 1], view, NameOrder[n])
             ELSE S[n - 1]]
  BY <1>2, <1>11
<1>13. S[0] = old  BY <1>1, <1>12
<1>14. ASSUME NEW n \in 1 .. len
       PROVE  S[n] = IF NameOrder[n] \in view THEN FixZone(S[n - 1], view, NameOrder[n]) ELSE S[n - 1]
  BY <1>12
<1>15. ASSUME NEW m \in 0 .. len PROVE S[m] \in V
  <2> DEFINE T == {n \in 0 .. m : S[n] \in V}
  <2>1. 0 \in T  BY <1>6, <1>13
  <2>2. ASSUME NEW n \in Nat, n + 1 <= m, n \in T PROVE n + 1 \in T
    <3>1. n + 1 \in 1 .. len /\ n + 1 \in 0 .. m /\ (n + 1) - 1 = n  BY <2>2
    <3>2. S[n] \in V  BY <2>2
    <3>3. S[n + 1] \in V  BY <1>7, <1>14, <3>1, <3>2
    <3> QED BY <3>1, <3>3
  <2>3. m \in T
    <3> HIDE DEF T
    <3> QED BY <2>1, <2>2, Climb
  <2> QED BY <2>3
<1>16. Passes(S, old, view, len)  BY <1>5, <1>13, <1>14, <1>15 DEF Passes
<1> QED BY <1>1, <1>2, <1>9, <1>16

LEMMA FixViewPassed ==
  ASSUME NEW view, view \subseteq DOMAIN name2zone,
         name2zone = [z \in DOMAIN name2zone |-> name2zone[z]], Placed(name2zone)
  PROVE  Passed(name2zone, FixView(view), view)
<1>1. PICK S : Passes(S, name2zone, view, Len(NameOrder)) /\ FixView(view) = S[Len(NameOrder)]
  BY FixViewPasses
<1>2. Len(NameOrder) \in 0 .. Len(NameOrder)  BY ZoneAssumption
<1> QED BY <1>1, <1>2 DEF Passes

-----------------------------------------------------------------------------
(* The inductive invariant.  What TypeOK leaves open of the types:         *)
Shape ==
  /\ done \in Seq(input)
  /\ name2zone = [z \in DOMAIN name2zone |-> name2zone[z]]
  /\ phase \in {"dirs", "push"} => views = {}
  /\ dns_msg = <<>> \/ /\ done # <<>>
                       /\ dns_msg \in Seq(ToSet(ReadDnsMessage(done[Len(done)])))

(* What a sequence of directories shows: that address a serves zone z.     *)
Shows(dir, a, z) ==
  LET msgs == ReadDnsMessage(dir)
  IN \E ns \in Section(msgs, "ans") \cup Section(msgs, "aut"), glue \in Rrs(msgs) :
        /\ ns.type = "NS" /\ ns.name = z
        /\ glue.type = "A" /\ glue.name = ns.data /\ glue.data = a
Known(dirs, k, a) ==
  {z \in Names : \E j \in 1 .. k : Shows(dirs[j], a, z)}
    \cup (IF a \in HintAddrs THEN {root, root_servers} ELSE {})

(* All that the directories show is in addr2name.                          *)
KnownIn(dirs, addrs) ==
  \A a : \A z \in Known(dirs, Len(dirs), a) : a \in DOMAIN addrs /\ z \in addrs[a]

(* A message of directory k has been pushed: its records are in the zones  *)
(* that answer for them, as far as these were known then.                  *)
Innermost(zs, name, z) == IsSuffix(z, name) /\ \A y \in zs : IsSuffix(y, name) => Len(y) <= Len(z)
Settled(dirs, addrs, zones, k, msg) ==
  \A r \in Rrs(<<msg>>) : \A z \in Known(dirs, k, msg.src) :
    r.type \notin Singletons /\ Innermost(addrs[msg.src], r.name, z) => r \in zones[z]
AllSettled(dirs, addrs, zones, todo) ==
  \A k \in 1 .. Len(dirs) : \A msg \in ToSet(ReadDnsMessage(dirs[k])) :
    Settled(dirs, addrs, zones, k, msg) \/ (k = Len(dirs) /\ msg \in ToSet(todo))

ZoneInv ==
  /\ TypeOK /\ Shape
  /\ KnownIn(done, addr2name)
  /\ phase # "exit" => AllSettled(done, addr2name, name2zone, dns_msg)
  /\ AbortsExplained

LEMMA KnownIs == \A k, a : KnownAfter(k, a) = Known(done, k, a)
BY DEF KnownAfter, Known, Shows

LEMMA KnownGrows ==
  ASSUME NEW dirs, NEW a, NEW m \in Nat, NEW k \in Nat, k <= m
  PROVE  Known(dirs, k, a) \subseteq Known(dirs, m, a)
BY DEF Known

LEMMA KnownSame ==
  ASSUME NEW D, NEW dirs \in Seq(D), NEW dir, NEW k \in 0 .. Len(dirs), NEW a
  PROVE  Known(Append(dirs, dir), k, a) = Known(dirs, k, a)
<1>1. \A j \in 1 .. k : Append(dirs, dir)[j] = dirs[j]
  BY AppendProperties
<1> QED BY <1>1 DEF Known

LEMMA SeqToSet ==
  ASSUME NEW D, NEW s \in Seq(D)
  PROVE  /\ Len(s) \in Nat /\ ToSet(s) = {s[i] : i \in 1 .. Len(s)} /\ ToSet(s) \subseteq D
         /\ \A x \in ToSet(s) : \E i \in 1 .. Len(s) : x = s[i]
BY DEF ToSet

LEMMA NameFacts == /\ Names \subseteq Seq(STRING) /\ root \in Names /\ root_servers \in Names
                   /\ \A z \in Names : IsSuffix(z, z)
<1>1. NameOrder \in Seq(Seq(STRING)) /\ root \in Names /\ root_servers \in Names  BY ZoneAssumption
<1>2. Names \subseteq Seq(STRING)  BY <1>1, SeqToSet DEF Names
<1> QED BY <1>1, <1>2, SuffixFacts

LEMMA NewZoneFacts ==
  ASSUME NEW z \in Names, NEW r \in NewZone(z) PROVE IsSuffix(z, r.name)
BY NameFacts DEF NewZone

LEMMA InitInv == Init => ZoneInv
<1> SUFFICES ASSUME Init PROVE ZoneInv
  OBVIOUS
<1>1. /\ input \in Inputs /\ done = <<>> /\ dns_msg = <<>> /\ views = {} /\ phase = "dirs"
      /\ addr2name = [a \in HintAddrs |-> {root, root_servers}]
  BY DEF Init
<1>2. name2zone = [z \in {root, root_servers} |->
                     AddRecords(NewZone(z), z, IF z = root THEN RootHint ELSE HintNS)]
  BY DEF Init
<1>3. DOMAIN name2zone = {root, root_servers} /\ name2zone = [z \in DOMAIN name2zone |-> name2zone[z]]
  BY <1>2
<1>4. ASSUME NEW z \in {root, root_servers}, NEW r \in name2zone[z] PROVE IsSuffix(z, r.name)
  <2>1. name2zone[z] = AddRecords(NewZone(z), z, IF z = root THEN RootHint ELSE HintNS)  BY <1>2
  <2>2. r \in NewZone(z) \/ r \in IF z = root THEN RootHint ELSE HintNS  BY <2>1, AddFacts
  <2>3. CASE r \in NewZone(z)  BY <2>3, NameFacts, NewZoneFacts
  <2>4. CASE z = root /\ r \in RootHint  BY <2>4, ZoneAssumption, SuffixFacts
  <2>5. CASE z # root /\ r \in HintNS
    <3>1. r.name = root_servers  BY <2>5 DEF HintNS
    <3> QED BY <2>5, <3>1, NameFacts
  <2> QED BY <2>2, <2>3, <2>4, <2>5
<1>5. ToSet(done) = {} /\ done \in Seq(input) /\ Len(done) = 0  BY <1>1 DEF ToSet
<1>6. TypeOK
  <2>1. DOMAIN name2zone \subseteq Names  BY <1>3, NameFacts
  <2>2. \A a \in DOMAIN addr2name : addr2name[a] \subseteq DOMAIN name2zone  BY <1>1, <1>3
  <2>3. phase = "push" <=> (dns_msg # <<>> /\ phase # "exit")  BY <1>1
  <2>4. \A z \in DOMAIN name2zone : \A r \in name2zone[z] : IsSuffix(z, r.name)  BY <1>3, <1>4
  <2> QED BY <1>1, <1>5, <2>1, <2>2, <2>3, <2>4 DEF TypeOK
<1>7. Shape  BY <1>1, <1>3, <1>5 DEF Shape
<1>8. KnownIn(done, addr2name)
  <2>1. ASSUME NEW a, NEW z \in Known(done, Len(done), a) PROVE a \in HintAddrs /\ z \in {root, root_servers}
    BY <1>5 DEF Known
  <2> QED BY <1>1, <2>1 DEF KnownIn
<1>9. AllSettled(done, addr2name, name2zone, dns_msg)  BY <1>5 DEF AllSettled
<1>10. AbortsExplained  BY <1>1 DEF AbortsExplained
<1> QED BY <1>6, <1>7, <1>8, <1>9, <1>10 DEF ZoneInv

-----------------------------------------------------------------------------
(* process_dir: the zones of a directory come in with their addresses.     *)

LEMMA WithZonesFacts ==
  ASSUME NEW msgs, Created(msgs) \subseteq Names, Placed(name2zone)
  PROVE  /\ DOMAIN WithZones(msgs) = DOMAIN name2zone \cup Created(msgs)
         /\ WithZones(msgs) = [z \in DOMAIN WithZones(msgs) |-> WithZones(msgs)[z]]
         /\ Placed(WithZones(msgs))
         /\ \A z \in DOMAIN name2zone : \A r \in name2zone[z] :
              r.type \notin Singletons => r \in WithZones(msgs)[z]
<1> DEFINE Old(z) == IF z \in DOMAIN name2zone THEN name2zone[z] ELSE NewZone(z)
<1>1. PICK new : new = WithZones(msgs)  OBVIOUS
<1>2. new = [z \in DOMAIN name2zone \cup Created(msgs) |->
               IF z \in Created(msgs) THEN AddRecords(Old(z), z, ZoneRecords(msgs, z)) ELSE Old(z)]
  BY <1>1 DEF WithZones
<1>3. DOMAIN new = DOMAIN name2zone \cup Created(msgs) /\ new = [z \in DOMAIN new |-> new[z]]
  BY <1>2
<1>4. \A z \in Created(msgs) : new[z] = AddRecords(Old(z), z, ZoneRecords(msgs, z))  BY <1>2
<1>5. \A z \in DOMAIN name2zone \ Created(msgs) : new[z] = name2zone[z]  BY <1>2
<1>6. ASSUME NEW z \in DOMAIN new, NEW r \in Old(z) PROVE IsSuffix(z, r.name)
  <2>1. CASE z \in DOMAIN name2zone  BY <2>1 DEF Placed
  <2>2. CASE z \notin DOMAIN name2zone  BY <1>3, <2>2, NewZoneFacts
  <2> QED BY <2>1, <2>2
<1>7. ASSUME NEW z \in Created(msgs), NEW r \in ZoneRecords(msgs, z) PROVE IsSuffix(z, r.name)
  <2>1. IsSuffix(z, z)  BY NameFacts
  <2>2. CASE r \in NS(Rrs(msgs), z)
    <3>1. r.name = z  BY <2>2 DEF NS
    <3> QED BY <2>1, <3>1
  <2>3. ASSUME NEW s, Under(s.data, z), r \in A(Rrs(msgs), s.data) PROVE IsSuffix(z, r.name)
    BY <2>3 DEF A, Under
  <2>4. r \in NS(Rrs(msgs), z) \/ \E s : Under(s.data, z) /\ r \in A(Rrs(msgs), s.data)
    BY DEF ZoneRecords
  <2> QED BY <2>2, <2>3, <2>4
<1>8. ASSUME NEW z \in DOMAIN new, NEW r \in new[z] PROVE IsSuffix(z, r.name)
  <2> HIDE DEF Old
  <2>1. CASE z \in Created(msgs)
    <3>1. r \in Old(z) \/ r \in ZoneRecords(msgs, z)  BY <1>4, <2>1, AddFacts
    <3> QED BY <1>6, <1>7, <2>1, <3>1
  <2>2. CASE z \notin Created(msgs)  BY <1>3, <1>5, <2>2 DEF Placed
  <2> QED BY <2>1, <2>2
<1>9. ASSUME NEW z \in DOMAIN name2zone, NEW r \in name2zone[z], r.type \notin Singletons PROVE r \in new[z]
  <2>1. CASE z \in Created(msgs)
    <3>1. new[z] = AddRecords(name2zone[z], z, ZoneRecords(msgs, z))  BY <1>4, <2>1
    <3> QED BY <1>9, <3>1, AddFacts
  <2>2. CASE z \notin Created(msgs)  BY <1>5, <2>2
  <2> QED BY <2>1, <2>2
<1> QED BY <1>1, <1>3, <1>8, <1>9 DEF Placed

LEMMA WithAddrsFacts ==
  ASSUME NEW msgs
  PROVE  /\ \A a \in DOMAIN addr2name :
              a \in DOMAIN WithAddrs(msgs) /\ addr2name[a] \subseteq WithAddrs(msgs)[a]
         /\ \A a \in DOMAIN WithAddrs(msgs) : \A z \in WithAddrs(msgs)[a] :
              z \in Created(msgs) \/ (a \in DOMAIN addr2name /\ z \in addr2name[a])
         /\ \A z \in Created(msgs) : \A a \in ZoneAddrs(msgs, z) :
              a \in DOMAIN WithAddrs(msgs) /\ z \in WithAddrs(msgs)[a]
BY DEF WithAddrs

LEMMA ShowsCreates ==
  ASSUME NEW dir, NEW a, NEW z, Shows(dir, a, z)
  PROVE  z \in Created(ReadDnsMessage(dir)) /\ a \in ZoneAddrs(ReadDnsMessage(dir), z)
<1>1. PICK msgs : msgs = ReadDnsMessage(dir)  OBVIOUS
<1>2. PICK ns \in Section(msgs, "ans") \cup Section(msgs, "aut"), glue \in Rrs(msgs) :
        /\ ns.type = "NS" /\ ns.name = z
        /\ glue.type = "A" /\ glue.name = ns.data /\ glue.data = a
  BY <1>1 DEF Shows
<1>3. ns \in Delegations(msgs)  BY <1>2 DEF Delegations
<1>4. z \in Created(msgs)  BY <1>2, <1>3 DEF Created
<1>5. glue \in A(Rrs(msgs), ns.data)  BY <1>2 DEF A
<1>6. a \in ZoneAddrs(msgs, z)  BY <1>2, <1>3, <1>5 DEF ZoneAddrs
<1> QED BY <1>1, <1>4, <1>6

(* What has been pushed stays where it is, and answers as it did.          *)
Keeps(zones, new) ==
  \A z \in DOMAIN zones : \A r \in zones[z] : r.type \notin Singletons => r \in new[z]
Widens(addrs, new) ==
  \A a \in DOMAIN addrs : a \in DOMAIN new /\ addrs[a] \subseteq new[a]
Backed(addrs, zones) == \A a \in DOMAIN addrs : addrs[a] \subseteq DOMAIN zones

LEMMA SettledStays ==
  ASSUME NEW dirs, NEW dirs2, NEW addrs, NEW addrs2, NEW zones, NEW zones2, NEW k \in Nat, NEW msg,
         Len(dirs) \in Nat, k <= Len(dirs), KnownIn(dirs, addrs), Backed(addrs, zones),
         Keeps(zones, zones2), Widens(addrs, addrs2),
         Known(dirs2, k, msg.src) = Known(dirs, k, msg.src),
         Settled(dirs, addrs, zones, k, msg)
  PROVE  Settled(dirs2, addrs2, zones2, k, msg)
<1> SUFFICES ASSUME NEW r \in Rrs(<<msg>>), NEW z \in Known(dirs2, k, msg.src),
                    r.type \notin Singletons, Innermost(addrs2[msg.src], r.name, z)
             PROVE  r \in zones2[z]
  BY DEF Settled
<1>1. z \in Known(dirs, k, msg.src)  OBVIOUS
<1>2. z \in Known(dirs, Len(dirs), msg.src)  BY <1>1, KnownGrows
<1>3. msg.src \in DOMAIN addrs /\ z \in addrs[msg.src]  BY <1>2 DEF KnownIn
<1>4. addrs[msg.src] \subseteq addrs2[msg.src]  BY <1>3 DEF Widens
<1>5. Innermost(addrs[msg.src], r.name, z)  BY <1>4 DEF Innermost
<1>6. r \in zones[z]  BY <1>1, <1>5 DEF Settled
<1>7. z \in DOMAIN zones  BY <1>3 DEF Backed
<1> QED BY <1>6, <1>7 DEF Keeps

(* What the invariant says in the terms of these lemmas.                   *)
LEMMA InvFacts ==
  ASSUME ZoneInv
  PROVE  /\ input \in Inputs /\ done \in Seq(input) /\ Len(done) \in Nat
         /\ Placed(name2zone) /\ Backed(addr2name, name2zone)
         /\ KnownIn(done, addr2name)
         /\ phase # "exit" => AllSettled(done, addr2name, name2zone, dns_msg)
BY DEF ZoneInv, TypeOK, Shape, Placed, Backed

LEMMA ProcessDirInv ==
  ASSUME ZoneInv, NEW dir \in input, ProcessDir(dir)
  PROVE  ZoneInv'
<1>1. PICK msgs : msgs = ReadDnsMessage(dir)  OBVIOUS
<1>2. /\ phase = "dirs" /\ name2zone' = WithZones(msgs) /\ addr2name' = WithAddrs(msgs)
      /\ dns_msg' = msgs /\ done' = Append(done, dir) /\ input' = input /\ views' = views
      /\ phase' = IF msgs = <<>> THEN "dirs" ELSE "push"
  BY <1>1 DEF ProcessDir
<1>3. /\ input \in Inputs /\ done \in Seq(input) /\ Len(done) \in Nat
      /\ Placed(name2zone) /\ Backed(addr2name, name2zone) /\ KnownIn(done, addr2name)
      /\ AllSettled(done, addr2name, name2zone, dns_msg)
  BY <1>2, InvFacts
<1>4. dns_msg = <<>> /\ views = {}  BY <1>2 DEF ZoneInv, TypeOK, Shape
<1>5. dir \in Seq(ToSet(dir)) /\ Created(msgs) \subseteq Names  BY <1>1, <1>3, CreatedNames
<1>6. msgs \in Seq(ToSet(msgs))  BY <1>1, <1>5, ReadIsSeq
<1>7. /\ done' \in Seq(input) /\ Len(done') = Len(done) + 1 /\ done' # <<>>
      /\ done'[Len(done) + 1] = dir /\ \A i \in 1 .. Len(done) : done'[i] = done[i]
  BY <1>2, <1>3, AppendProperties
<1>8. /\ DOMAIN name2zone' = DOMAIN name2zone \cup Created(msgs)
      /\ name2zone' = [z \in DOMAIN name2zone' |-> name2zone'[z]]
      /\ Placed(name2zone') /\ Keeps(name2zone, name2zone')
  BY <1>2, <1>3, <1>5, WithZonesFacts DEF Keeps
<1>9. Widens(addr2name, addr2name')  BY <1>2, WithAddrsFacts DEF Widens
<1>10. TypeOK'
  <2>1. ToSet(done') \subseteq input'  BY <1>2, <1>7, SeqToSet
  <2>2. DOMAIN name2zone' \subseteq Names  BY <1>5, <1>8 DEF ZoneInv, TypeOK
  <2>3. \A z \in DOMAIN name2zone' : \A r \in name2zone'[z] : IsSuffix(z, r.name)
    BY <1>8 DEF Placed
  <2>4. \A a \in DOMAIN addr2name' : addr2name'[a] \subseteq DOMAIN name2zone'
    <3>1. ASSUME NEW a \in DOMAIN addr2name', NEW z \in addr2name'[a] PROVE z \in DOMAIN name2zone'
      <4>1. z \in Created(msgs) \/ (a \in DOMAIN addr2name /\ z \in addr2name[a])
        BY <1>2, WithAddrsFacts
      <4> QED BY <1>3, <1>8, <4>1 DEF Backed
    <3> QED BY <3>1
  <2>5. phase' = "push" <=> (dns_msg' # <<>> /\ phase' # "exit")  BY <1>2
  <2>6. phase' \in {"dirs", "push", "views", "written", "exit", "keyerror"}  BY <1>2
  <2>7. input' \in Inputs /\ views' = {}  BY <1>2, <1>3, <1>4
  <2> QED BY <2>1, <2>2, <2>3, <2>4, <2>5, <2>6, <2>7 DEF TypeOK
<1>11. Shape'
  <2>1. done'[Len(done')] = dir  BY <1>7
  <2>2. dns_msg' \in Seq(ToSet(ReadDnsMessage(done'[Len(done')])))  BY <1>1, <1>2, <1>6, <2>1
  <2> QED BY <1>2, <1>4, <1>7, <1>8, <2>2 DEF Shape
<1>12. KnownIn(done', addr2name')
  <2>1. SUFFICES ASSUME NEW a, NEW z \in Known(done', Len(done'), a)
                 PROVE  a \in DOMAIN addr2name' /\ z \in addr2name'[a]
    BY DEF KnownIn
  <2>2. CASE z \in Known(done', Len(done), a)
    <3>1. z \in Known(done, Len(done), a)  BY <1>2, <1>3, <2>2, KnownSame
    <3>2. a \in DOMAIN addr2name /\ z \in addr2name[a]  BY <1>3, <3>1 DEF KnownIn
    <3> QED BY <1>9, <3>2 DEF Widens
  <2>3. CASE z \notin Known(done', Len(done), a)
    <3>1. PICK j \in 1 .. Len(done') : Shows(done'[j], a, z)  BY <2>1, <2>3 DEF Known
    <3>2. z \in Names  BY <2>1, <2>3 DEF Known
    <3>3. j \notin 1 .. Len(done)  BY <2>3, <3>1, <3>2 DEF Known
    <3>4. j = Len(done) + 1  BY <1>3, <1>7, <3>3
    <3>5. Shows(dir, a, z)  BY <1>7, <3>1, <3>4
    <3> QED BY <1>1, <1>2, <3>5, ShowsCreates, WithAddrsFacts
  <2> QED BY <2>2, <2>3
<1>13. AllSettled(done', addr2name', name2zone', dns_msg')
  <2>1. SUFFICES ASSUME NEW k \in 1 .. Len(done'), NEW msg \in ToSet(ReadDnsMessage(done'[k]))
                 PROVE  \/ Settled(done', addr2name', name2zone', k, msg)
                        \/ k = Len(done') /\ msg \in ToSet(dns_msg')
    BY DEF AllSettled
  <2>2. CASE k \in 1 .. Len(done)
    <3>1. msg \in ToSet(ReadDnsMessage(done[k]))  BY <1>7, <2>2
    <3>2. ToSet(dns_msg) = {}  BY <1>4 DEF ToSet
    <3>3. Settled(done, addr2name, name2zone, k, msg)  BY <1>3, <2>2, <3>1, <3>2 DEF AllSettled
    <3>4. k \in Nat /\ k <= Len(done) /\ k \in 0 .. Len(done)  BY <1>3, <2>2
    <3>5. Known(done', k, msg.src) = Known(done, k, msg.src)  BY <1>2, <1>3, <3>4, KnownSame
    <3> QED BY <1>3, <1>8, <1>9, <3>3, <3>4, <3>5, SettledStays
  <2>3. CASE k \notin 1 .. Len(done)
    <3>1. k = Len(done')  BY <1>3, <1>7, <2>3
    <3>2. msg \in ToSet(dns_msg')  BY <1>1, <1>2, <1>7, <3>1
    <3> QED BY <3>1, <3>2
  <2> QED BY <2>2, <2>3
<1>14. AbortsExplained'  BY <1>2 DEF AbortsExplained
<1> QED BY <1>10, <1>11, <1>12, <1>13, <1>14 DEF ZoneInv

-----------------------------------------------------------------------------
(* push_zone: the message in hand is settled.                              *)
LEMMA PushInv ==
  ASSUME ZoneInv, PushMessage
  PROVE  ZoneInv'
<1>1. PICK msg : msg = Head(dns_msg)  OBVIOUS
<1>2. PICK last : last = ReadDnsMessage(done[Len(done)])  OBVIOUS
<1>3. /\ phase = "push" /\ dns_msg' = Tail(dns_msg) /\ input' = input /\ done' = done
      /\ addr2name' = addr2name /\ views' = views
  BY DEF PushMessage
<1>4. /\ input \in Inputs /\ done \in Seq(input) /\ Len(done) \in Nat
      /\ Placed(name2zone) /\ Backed(addr2name, name2zone) /\ KnownIn(done, addr2name)
      /\ AllSettled(done, addr2name, name2zone, dns_msg)
  BY <1>3, InvFacts
<1>5. dns_msg # <<>> /\ views = {} /\ done # <<>> /\ dns_msg \in Seq(ToSet(last))
  BY <1>2, <1>3 DEF ZoneInv, TypeOK, Shape
<1>6. /\ msg \in ToSet(last) /\ dns_msg' \in Seq(ToSet(last))
      /\ \A m \in ToSet(dns_msg) : m = msg \/ m \in ToSet(dns_msg')
  <2>1. msg \in ToSet(last) /\ dns_msg' \in Seq(ToSet(last))  BY <1>1, <1>3, <1>5
  <2>2. ASSUME NEW m \in ToSet(dns_msg), m # msg PROVE m \in ToSet(dns_msg')
    <3>1. PICK i \in 1 .. Len(dns_msg) : m = dns_msg[i]  BY <1>5, SeqToSet
    <3>2. i # 1  BY <1>1, <1>5, <2>2, <3>1
    <3>3. i - 1 \in 1 .. Len(dns_msg') /\ dns_msg'[i - 1] = dns_msg[i]  BY <1>3, <1>5, <3>1, <3>2
    <3> QED BY <2>1, <3>1, <3>3, SeqToSet
  <2> QED BY <2>1, <2>2
<1>7. DOMAIN done = 1 .. Len(done) /\ Len(done) \in 1 .. Len(done)  BY <1>4, <1>5
<1>8. KnownIn(done', addr2name')  BY <1>3, <1>4
<1>9. CASE phase' = "exit" /\ name2zone' = name2zone /\ msg.src \notin DOMAIN addr2name
  <2>1. TypeOK'  BY <1>3, <1>9 DEF ZoneInv, TypeOK
  <2>2. Shape'  BY <1>2, <1>3, <1>4, <1>5, <1>6, <1>9 DEF ZoneInv, Shape
  <2>3. Known(done, Len(done), msg.src) = {}  BY <1>4, <1>9 DEF KnownIn
  <2>4. KnownAfter(Len(done), msg.src)' = {}  BY <1>3, <2>3 DEF KnownAfter, Known, Shows
  <2>5. AbortsExplained'
    <3>1. \E k \in DOMAIN done' : \E m \in ToSet(ReadDnsMessage(done'[k])) :
            KnownAfter(k, m.src)' = {}
      BY <1>2, <1>3, <1>6, <1>7, <2>4
    <3> QED BY <1>9, <3>1 DEF AbortsExplained
  <2> QED BY <1>8, <1>9, <2>1, <2>2, <2>5 DEF ZoneInv
<1>10. CASE ~(phase' = "exit" /\ name2zone' = name2zone /\ msg.src \notin DOMAIN addr2name)
  <2> DEFINE Mine(z) == {r \in Rrs(<<msg>>) : z \in FindZone(msg.src, r.name)}
  <2>1. /\ Rrs(<<msg>>) = {} \/ msg.src \in DOMAIN addr2name
        /\ name2zone' = [z \in DOMAIN name2zone |-> AddRecords(name2zone[z], z, Mine(z))]
        /\ phase' = IF dns_msg' = <<>> THEN "dirs" ELSE "push"
    BY <1>1, <1>10 DEF PushMessage
  <2>2. /\ DOMAIN name2zone' = DOMAIN name2zone
        /\ name2zone' = [z \in DOMAIN name2zone' |-> name2zone'[z]]
        /\ \A z \in DOMAIN name2zone : name2zone'[z] = AddRecords(name2zone[z], z, Mine(z))
    BY <2>1
  <2>3. ASSUME NEW z, NEW r \in Mine(z) PROVE r \in Rrs(<<msg>>) /\ z \in FindZone(msg.src, r.name)
    OBVIOUS
  <2>4. ASSUME NEW z, NEW r \in Rrs(<<msg>>), z \in FindZone(msg.src, r.name) PROVE r \in Mine(z)
    BY <2>4
  <2> HIDE DEF Mine
  <2>5. Placed(name2zone')
    <3>1. ASSUME NEW z \in DOMAIN name2zone, NEW r \in name2zone'[z] PROVE IsSuffix(z, r.name)
      <4>1. r \in name2zone[z] \/ r \in Mine(z)  BY <2>2, AddFacts
      <4>2. CASE r \in name2zone[z]  BY <1>4, <4>2 DEF Placed
      <4>3. CASE r \in Mine(z)  BY <2>3, <4>3 DEF FindZone, Under
      <4> QED BY <4>1, <4>2, <4>3
    <3> QED BY <2>2, <3>1 DEF Placed
  <2>6. Keeps(name2zone, name2zone')  BY <2>2, AddFacts DEF Keeps
  <2>7. TypeOK'
    <3>1. phase' = "push" <=> (dns_msg' # <<>> /\ phase' # "exit")  BY <2>1
    <3>2. phase' \in {"dirs", "push", "views", "written", "exit", "keyerror"}  BY <2>1
    <3>3. \A z \in DOMAIN name2zone' : \A r \in name2zone'[z] : IsSuffix(z, r.name)
      BY <2>5 DEF Placed
    <3> QED BY <1>3, <2>2, <3>1, <3>2, <3>3 DEF ZoneInv, TypeOK
  <2>8. Shape'  BY <1>2, <1>3, <1>4, <1>5, <1>6, <2>2 DEF ZoneInv, Shape
  <2>9. Settled(done, addr2name, name2zone', Len(done), msg)
    <3>1. SUFFICES ASSUME NEW r \in Rrs(<<msg>>), NEW z \in Known(done, Len(done), msg.src),
                          r.type \notin Singletons, Innermost(addr2name[msg.src], r.name, z)
                   PROVE  r \in name2zone'[z]
      BY DEF Settled
    <3>2. msg.src \in DOMAIN addr2name /\ z \in addr2name[msg.src]  BY <1>4 DEF KnownIn
    <3>3. z \in DOMAIN name2zone  BY <1>4, <3>2 DEF Backed
    <3>4. z \in FindZone(msg.src, r.name)  BY <3>1, <3>2 DEF FindZone, Under, Innermost
    <3>5. r \in Mine(z)  BY <2>4, <3>4
    <3> QED BY <2>2, <3>1, <3>3, <3>5, AddFacts
  <2>10. AllSettled(done', addr2name', name2zone', dns_msg')
    <3>1. SUFFICES ASSUME NEW k \in 1 .. Len(done), NEW m \in ToSet(ReadDnsMessage(done[k]))
                   PROVE  \/ Settled(done, addr2name, name2zone', k, m)
                          \/ k = Len(done) /\ m \in ToSet(dns_msg')
      BY <1>3 DEF AllSettled
    <3>2. CASE Settled(done, addr2name, name2zone, k, m)
      <4>1. k \in Nat /\ k <= Len(done) /\ Widens(addr2name, addr2name)  BY <1>4 DEF Widens
      <4> QED BY <1>4, <2>6, <3>2, <4>1, SettledStays
    <3>3. CASE k = Len(done) /\ m \in ToSet(dns_msg)  BY <1>6, <2>9, <3>3
    <3> QED BY <1>4, <3>2, <3>3 DEF AllSettled
  <2>11. AbortsExplained'  BY <2>1 DEF AbortsExplained
  <2> QED BY <1>8, <2>7, <2>8, <2>10, <2>11 DEF ZoneInv
<1> QED BY <1>9, <1>10

-----------------------------------------------------------------------------
(* write_to_file.                                                          *)

(* A step that leaves the zones alone, and does not give up.               *)
LEMMA StillInv ==
  ASSUME ZoneInv, UNCHANGED <<input, done, dns_msg, name2zone, addr2name>>,
         (phase = "dirs" /\ phase' = "views") \/ (phase = "views" /\ phase' = "written"),
         views' \subseteq {addr2name[a] : a \in DOMAIN addr2name}
  PROVE  ZoneInv'
<1>1. TypeOK'  BY DEF ZoneInv, TypeOK
<1>2. Shape'  BY DEF ZoneInv, Shape
<1>3. KnownIn(done', addr2name')  BY DEF ZoneInv
<1>4. AllSettled(done', addr2name', name2zone', dns_msg')  BY DEF ZoneInv
<1>5. AbortsExplained'  BY DEF AbortsExplained
<1> QED BY <1>1, <1>2, <1>3, <1>4, <1>5 DEF ZoneInv

LEMMA FixDelegationInv ==
  ASSUME ZoneInv, NEW view \in views, FixDelegation(view)
  PROVE  ZoneInv'
<1>1. /\ phase = "views" /\ views' \subseteq views
      /\ UNCHANGED <<input, done, dns_msg, addr2name>>
  BY DEF FixDelegation
<1>2. /\ input \in Inputs /\ done \in Seq(input) /\ Len(done) \in Nat
      /\ Placed(name2zone) /\ Backed(addr2name, name2zone) /\ KnownIn(done, addr2name)
      /\ AllSettled(done, addr2name, name2zone, dns_msg)
  BY <1>1, InvFacts
<1>3. PICK a \in DOMAIN addr2name : view = addr2name[a]  BY DEF ZoneInv, TypeOK
<1>4. view \subseteq DOMAIN name2zone  BY <1>2, <1>3 DEF Backed
<1>5. name2zone = [z \in DOMAIN name2zone |-> name2zone[z]]  BY DEF ZoneInv, Shape
<1>6. PICK new : new = FixView(view)  OBVIOUS
<1>7. Passed(name2zone, new, view)  BY <1>2, <1>4, <1>5, <1>6, FixViewPassed
<1>8. DOMAIN new = DOMAIN name2zone /\ new = [z \in DOMAIN new |-> new[z]]  BY <1>7 DEF Passed
<1>9. views' \subseteq {addr2name[b] : b \in DOMAIN addr2name}  BY <1>1 DEF ZoneInv, TypeOK
<1>10. CASE Misplaced(new)
  <2>1. phase' = "keyerror" /\ name2zone' = name2zone  BY <1>6, <1>10 DEF FixDelegation
  <2>2. Explains(name2zone, view)
    <3>1. ~ \A z \in DOMAIN name2zone : \A r \in new[z] : IsSuffix(z, r.name)
      BY <1>8, <1>10 DEF Misplaced, Under
    <3> QED BY <1>7, <3>1 DEF Passed
  <2>3. PICK z \in view, t \in view : \E r \in name2zone[z] : Textual(t, r)  BY <2>2 DEF Explains
  <2>4. PICK r \in name2zone[z] : Textual(t, r)  BY <2>3
  <2>5. AbortsExplained'
    <3>1. /\ r.type = "NS" /\ t # root
          /\ \E name \in {r.name, r.data} : EndsWith(name, t) /\ ~IsSuffix(t, name)
      BY <2>4 DEF Textual
    <3>2. a \in DOMAIN addr2name' /\ z \in addr2name'[a] /\ t \in addr2name'[a] /\ r \in name2zone'[z]
      BY <1>1, <1>3, <2>1
    <3> QED BY <2>1, <3>1, <3>2 DEF AbortsExplained
  <2>6. TypeOK'  BY <1>1, <1>9, <2>1 DEF ZoneInv, TypeOK
  <2>7. Shape'  BY <1>1, <2>1 DEF ZoneInv, Shape
  <2>8. KnownIn(done', addr2name') /\ AllSettled(done', addr2name', name2zone', dns_msg')
    BY <1>1, <1>2, <2>1
  <2> QED BY <2>5, <2>6, <2>7, <2>8 DEF ZoneInv
<1>11. CASE ~Misplaced(new)
  <2>1. phase' = phase /\ name2zone' = new  BY <1>6, <1>11 DEF FixDelegation
  <2>2. Keeps(name2zone, new)  BY <1>7 DEF Passed, Keeps
  <2>3. \A z \in DOMAIN new : \A r \in new[z] : IsSuffix(z, r.name)  BY <1>11 DEF Misplaced, Under
  <2>4. TypeOK'  BY <1>1, <1>8, <1>9, <2>1, <2>3 DEF ZoneInv, TypeOK
  <2>5. Shape'  BY <1>1, <1>8, <2>1 DEF ZoneInv, Shape
  <2>6. ASSUME NEW k \in 1 .. Len(done), NEW m, Settled(done, addr2name, name2zone, k, m)
        PROVE  Settled(done, addr2name, new, k, m)
    <3>1. k \in Nat /\ k <= Len(done) /\ Widens(addr2name, addr2name)  BY <1>2 DEF Widens
    <3> QED BY <1>2, <2>2, <2>6, <3>1, SettledStays
  <2>7. AllSettled(done', addr2name', name2zone', dns_msg')
    BY <1>1, <1>2, <2>1, <2>6 DEF AllSettled
  <2>8. KnownIn(done', addr2name')  BY <1>1, <1>2
  <2>9. AbortsExplained'  BY <1>1, <2>1 DEF AbortsExplained
  <2> QED BY <2>4, <2>5, <2>7, <2>8, <2>9 DEF ZoneInv
<1> QED BY <1>10, <1>11

(* A step of Next, or none, keeps the invariant.                           *)
LEMMA NextInv ==
  ASSUME ZoneInv, [Next]_vars
  PROVE  ZoneInv'
<1>1. ASSUME NEW dir \in input, ProcessDir(dir) PROVE ZoneInv'  BY <1>1, ProcessDirInv
<1>2. CASE PushMessage  BY <1>2, PushInv
<1>3. CASE StartWriting
  <2>1. views' \subseteq {addr2name[a] : a \in DOMAIN addr2name}  BY <1>3 DEF StartWriting
  <2>2. UNCHANGED <<input, done, dns_msg, name2zone, addr2name>> /\ phase = "dirs" /\ phase' = "views"
    BY <1>3 DEF StartWriting
  <2> QED BY <2>1, <2>2, StillInv
<1>4. ASSUME NEW view \in views, FixDelegation(view) PROVE ZoneInv'  BY <1>4, FixDelegationInv
<1>5. CASE WriteZones
  <2>1. views' \subseteq {addr2name[a] : a \in DOMAIN addr2name}  BY <1>5 DEF WriteZones
  <2> QED BY <1>5, <2>1, StillInv DEF WriteZones
<1>6. CASE UNCHANGED vars
  <2>1. TypeOK' /\ Shape'  BY <1>6 DEF vars, ZoneInv, TypeOK, Shape
  <2>2. KnownIn(done', addr2name')  BY <1>6 DEF vars, ZoneInv
  <2>3. phase' # "exit" => AllSettled(done', addr2name', name2zone', dns_msg')
    BY <1>6 DEF vars, ZoneInv
  <2>4. AbortsExplained'
    BY <1>6 DEF vars, ZoneInv, AbortsExplained, KnownAfter
  <2> QED BY <2>1, <2>2, <2>3, <2>4 DEF ZoneInv
<1> QED BY <1>1, <1>2, <1>3, <1>4, <1>5, <1>6 DEF Next

THEOREM InvCorrect == Spec => []ZoneInv
BY InitInv, NextInv, PTL DEF Spec

(* TypeOK holds in every run: no zone gets a record of a name outside it,  *)
(* and every zone that addr2name lists exists.                             *)
THEOREM TypeCorrect == Spec => []TypeOK
<1>1. ZoneInv => TypeOK  BY DEF ZoneInv
<1> QED BY <1>1, InvCorrect, PTL

(* On well-formed files of class IN the construction gives up only where   *)
(* the address of a server was not shown, or where a name ends with the    *)
(* text of a zone that does not contain it.                                *)
THEOREM AbortsCorrect == Spec => []AbortsExplained
<1>1. ZoneInv => AbortsExplained  BY DEF ZoneInv
<1> QED BY <1>1, InvCorrect, PTL

(* What a server was seen to answer is in the zone that the replay answers *)
(* from at its address, unless a later directory brought that zone there;  *)
(* whichever types, SOA among them, are Singletons and exempt.             *)
THEOREM ServedCorrect == Spec => []ServedUnlessShadowed
<1>1. ASSUME ZoneInv PROVE ServedUnlessShadowed
  <2>1. SUFFICES ASSUME phase = "written", NEW k \in DOMAIN done,
                        NEW msg \in ToSet(ReadDnsMessage(done[k])), NEW r \in Rrs(<<msg>>),
                        r.type \notin Singletons, NEW z \in AnsweringZone(msg.src, r.name),
                        z \in KnownAfter(k, msg.src)
                 PROVE  r \in name2zone[z]
    BY DEF ServedUnlessShadowed
  <2>2. done \in Seq(input) /\ AllSettled(done, addr2name, name2zone, dns_msg)  BY <1>1, <2>1, InvFacts
  <2>3. dns_msg = <<>>  BY <1>1, <2>1 DEF ZoneInv, TypeOK
  <2>4. ToSet(dns_msg) = {} /\ k \in 1 .. Len(done)  BY <2>2, <2>3 DEF ToSet
  <2>5. Settled(done, addr2name, name2zone, k, msg)  BY <2>2, <2>4 DEF AllSettled
  <2>6. z \in Known(done, k, msg.src)  BY <2>1, KnownIs
  <2>7. Innermost(addr2name[msg.src], r.name, z)  BY DEF AnsweringZone, Innermost
  <2> QED BY <2>1, <2>5, <2>6, <2>7 DEF Settled
<1> QED BY <1>1, InvCorrect, PTL

-----------------------------------------------------------------------------
(* fix_delegation does what it is there for.                               *)

LEMMA ReverseFacts ==
  ASSUME NEW s \in Seq(STRING)
  PROVE  /\ Reverse(s) \in Seq(STRING) /\ Len(Reverse(s)) = Len(s)
         /\ \A i \in 1 .. Len(s) : s[i] = Reverse(s)[(Len(s) - i) + 1]
<1>1. PICK len \in Nat : len = Len(s)  OBVIOUS
<1>2. PICK rev : rev = Reverse(s)  OBVIOUS
<1>3. rev = [i \in 1 .. len |-> s[(len - i) + 1]]  BY <1>1, <1>2 DEF Reverse
<1>4. ASSUME NEW i \in 1 .. len
      PROVE  (len - i) + 1 \in 1 .. len /\ (len - ((len - i) + 1)) + 1 = i /\ s[(len - i) + 1] \in STRING
  BY <1>1
<1>5. rev \in [1 .. len -> STRING]  BY <1>3, <1>4
<1>6. \A i \in 1 .. len : s[i] = rev[(len - i) + 1]  BY <1>3, <1>4
<1> QED BY <1>1, <1>2, <1>5, <1>6

(* Of one name, two ends of the same length are the same.                  *)
LEMMA SuffixSame ==
  ASSUME NEW s \in Seq(STRING), NEW t \in Seq(STRING), NEW name,
         IsSuffix(s, name), IsSuffix(t, name), Len(s) = Len(t)
  PROVE  s = t
<1>1. PICK n \in Nat : n = Len(s)  OBVIOUS
<1>2. PICK p \in Seq(STRING), q \in Seq(STRING) : p = Reverse(s) /\ q = Reverse(t)  BY ReverseFacts
<1>3. Len(p) = n /\ Len(q) = n  BY <1>1, <1>2, ReverseFacts
<1>4. SubSeq(p, 1, n) = SubSeq(q, 1, n)  BY <1>2, <1>3 DEF IsSuffix, IsPrefix
<1>5. SubSeq(p, 1, n) = p /\ SubSeq(q, 1, n) = q  BY <1>3, SubSeqFull
<1>6. p = q  BY <1>4, <1>5
<1>7. \A i \in 1 .. n : s[i] = p[(n - i) + 1] /\ t[i] = q[(n - i) + 1]
  BY <1>1, <1>2, ReverseFacts
<1>8. \A i \in 1 .. n : s[i] = t[i]  BY <1>6, <1>7
<1> QED BY <1>1, <1>8

LEMMA SuffixShorter ==
  ASSUME NEW s \in Seq(STRING), NEW t \in Seq(STRING), IsSuffix(s, t), s # t
  PROVE  Len(t) > Len(s)
<1>1. Len(s) <= Len(t)  BY ReverseFacts DEF IsSuffix, IsPrefix
<1>2. IsSuffix(t, t)  BY SuffixFacts
<1>3. Len(s) # Len(t)  BY <1>2, SuffixSame
<1>4. Len(s) \in Nat /\ Len(t) \in Nat  OBVIOUS
<1> QED BY <1>1, <1>3, <1>4

(* r is a delegation of z, before the passes over view, that t must get.   *)
Hidden(zones, view, z, t, r) ==
  /\ z \in view \ {root} /\ t \in view /\ NS(zones[z], t) # {} /\ r \in zones[z]
  /\ r.type = "NS" /\ IsSuffix(t, r.name) /\ r.name # t
  /\ \A y \in view \ {r.name} : EndsWith(r.name, y) => IsSuffix(y, r.name) /\ Len(y) <= Len(t)

LEMMA HiddenTmpZone ==
  ASSUME NEW zones, NEW view, view \subseteq DOMAIN zones, DOMAIN zones \subseteq Names, Placed(zones),
         NEW z, NEW t, NEW r, Hidden(zones, view, z, t, r), t # z
  PROVE  t \in TmpZone(view, z, r)
<1>1. /\ z \in view /\ z # root /\ t \in view /\ IsSuffix(t, r.name) /\ r.name # t
      /\ \A y \in view \ {r.name} : EndsWith(r.name, y) => IsSuffix(y, r.name) /\ Len(y) <= Len(t)
  BY DEF Hidden
<1>2. \A y \in view : y \in Seq(STRING) /\ Len(y) \in Nat  BY NameFacts
<1>3. PICK s \in zones[z] : s.name = t  BY DEF Hidden, NS
<1>4. IsSuffix(z, t)  BY <1>1, <1>3 DEF Placed
<1>5. Len(t) > Len(z)  BY <1>1, <1>2, <1>4, SuffixShorter
<1>6. t # root
  <2>1. Len(root) = 0  BY DEF root
  <2> QED BY <1>1, <1>2, <1>5, <2>1
<1>7. EndsWith(r.name, t) /\ Longer(t, z)  BY <1>1, <1>5 DEF EndsWith, Longer
<1>8. ASSUME NEW y \in view \ {z, root, r.name}, EndsWith(r.name, y), Longer(y, t) PROVE FALSE
  <2>1. IsSuffix(y, r.name) /\ Len(y) <= Len(t)  BY <1>1, <1>8
  <2>2. Len(y) = Len(t) /\ y # t  BY <1>1, <1>2, <1>8, <2>1 DEF Longer
  <2> QED BY <1>1, <1>2, <2>1, <2>2, SuffixSame
<1> QED BY <1>1, <1>6, <1>7, <1>8 DEF TmpZone

(* The records that t must get with r, and that it has them.               *)
Inside(t, name) == IsSuffix(t, name) /\ <<name, t>> \notin Capitals
Due(zones, z, t, r) == {r} \cup {a \in A(zones[z], r.data) : Inside(t, r.data)}

LEMMA DueFacts ==
  ASSUME NEW zones, NEW view, NEW z, NEW t, NEW r, Hidden(zones, view, z, t, r),
         NEW a \in Due(zones, z, t, r)
  PROVE  /\ a \in zones[z] /\ a.type \notin Singletons
         /\ a = r \/ (a \in A(zones[z], r.data) /\ Inside(t, r.data))
BY SingletonsAssumption DEF Due, Hidden, A

(* The pass over z itself gives them to t ...                              *)
LEMMA PassGives ==
  ASSUME NEW old, NEW zones, NEW view, view \subseteq DOMAIN old, DOMAIN old \subseteq Names, Placed(old),
         Passed(old, zones, view), NEW z, NEW t, NEW r, Hidden(old, view, z, t, r), t # z,
         NEW a \in Due(old, z, t, r)
  PROVE  a \in FixZone(zones, view, z)[t]
<1>1. z \in view /\ z # root /\ t \in view /\ r \in old[z] /\ r.type = "NS" /\ NS(old[z], t) # {}
  BY DEF Hidden
<1>2. t \in TmpZone(view, z, r)  BY HiddenTmpZone
<1>3. DOMAIN zones = DOMAIN old  BY DEF Passed
<1>4. \A s \in old[z] : s.type \notin Singletons => s \in zones[z]  BY <1>1 DEF Passed
<1>5. r \in zones[z] /\ NS(zones[z], t) # {}  BY <1>1, <1>4, SingletonsAssumption DEF NS
<1>6. a \in old[z] /\ a.type \notin Singletons /\ (a = r \/ (a \in A(old[z], r.data) /\ Inside(t, r.data)))
  BY DueFacts
<1>7. a \in zones[z]  BY <1>4, <1>6
<1>8. a \in Moved(zones, view, z, t)
  <2> DEFINE cuts == {s \in zones[z] : s.type = "NS" /\ t \in TmpZone(view, z, s)}
  <2>1. r \in cuts  BY <1>1, <1>2, <1>5
  <2>2. Moved(zones, view, z, t) =
          cuts \cup UNION {A(zones[z], s.data) : s \in {u \in cuts : EndsAsWritten(u.data, t)}}
    BY <1>1, <1>5 DEF Moved
  <2>3. CASE a = r  BY <2>1, <2>2, <2>3
  <2>4. CASE a \in A(old[z], r.data) /\ Inside(t, r.data)
    <3>1. a \in A(zones[z], r.data)  BY <1>7, <2>4 DEF A
    <3>2. EndsAsWritten(r.data, t)  BY <2>4 DEF EndsAsWritten, EndsWith, Inside
    <3> HIDE DEF cuts
    <3> QED BY <2>1, <2>2, <3>1, <3>2
  <2> QED BY <1>6, <2>3, <2>4
<1>9. FixZone(zones, view, z)[t] = AddRecords(zones[t], t, Moved(zones, view, z, t))
  BY <1>1, <1>3 DEF FixZone
<1> QED BY <1>6, <1>8, <1>9, AddFacts

(* ... and no pass takes them away.                                        *)
LEMMA PassKeeps ==
  ASSUME NEW zones, NEW view, NEW z, NEW t \in DOMAIN zones, NEW a \in zones[t], a.type \notin Singletons
  PROVE  a \in FixZone(zones, view, z)[t]
BY AddFacts DEF FixZone

LEMMA FixViewGives ==
  ASSUME NEW view, view \subseteq DOMAIN name2zone, DOMAIN name2zone \subseteq Names,
         name2zone = [z \in DOMAIN name2zone |-> name2zone[z]], Placed(name2zone),
         NEW z, NEW t, NEW r, Hidden(name2zone, view, z, t, r), NEW a \in Due(name2zone, z, t, r)
  PROVE  a \in FixView(view)[t]
<1>1. PICK old : old = name2zone  OBVIOUS
<1>2. PICK len \in Nat : len = Len(NameOrder)  BY ZoneAssumption
<1>3. PICK S : Passes(S, old, view, len) /\ FixView(view) = S[len]  BY <1>1, <1>2, FixViewPasses
<1>4. z \in view /\ t \in view /\ t \in DOMAIN old /\ a \in old[z] /\ a.type \notin Singletons
  BY <1>1, DueFacts DEF Hidden
<1>5. \A n \in 0 .. len : Passed(old, S[n], view) /\ DOMAIN S[n] = DOMAIN old
  BY <1>3 DEF Passes, Passed
<1>6. len \in 0 .. len  OBVIOUS
<1>7. CASE t = z  BY <1>3, <1>4, <1>5, <1>6, <1>7 DEF Passed
<1>8. CASE t # z
  <2>1. PICK i \in 1 .. len : NameOrder[i] = z
    <3>1. z \in Names /\ NameOrder \in Seq(Seq(STRING))  BY <1>4, ZoneAssumption
    <3> QED BY <1>2, <3>1, SeqToSet DEF Names
  <2>2. \A n \in 1 .. len : S[n] = IF NameOrder[n] \in view THEN FixZone(S[n - 1], view, NameOrder[n])
                                  ELSE S[n - 1]
    BY <1>3 DEF Passes
  <2>3. a \in S[i][t]
    <3>1. i - 1 \in 0 .. len  OBVIOUS
    <3>2. Passed(old, S[i - 1], view)  BY <1>5, <3>1
    <3>3. S[i] = FixZone(S[i - 1], view, z)  BY <1>4, <2>1, <2>2
    <3> QED BY <1>1, <1>8, <3>2, <3>3, PassGives
  <2> DEFINE T == {n \in 0 .. len - i : a \in S[i + n][t]}
  <2>4. 0 \in T  BY <2>3
  <2>5. ASSUME NEW n \in Nat, n + 1 <= len - i, n \in T PROVE n + 1 \in T
    <3>1. PICK m \in 0 .. len : m = i + n  BY <2>5
    <3>2. m + 1 \in 1 .. len /\ (m + 1) - 1 = m /\ i + (n + 1) = m + 1  BY <2>5, <3>1
    <3>3. a \in S[m][t]  BY <2>5, <3>1
    <3>4. t \in DOMAIN S[m]  BY <1>4, <1>5
    <3>5. S[m + 1] = S[m] \/ S[m + 1] = FixZone(S[m], view, NameOrder[m + 1])  BY <2>2, <3>2
    <3>6. a \in S[m + 1][t]  BY <1>4, <3>3, <3>4, <3>5, PassKeeps
    <3> QED BY <2>5, <3>2, <3>6
  <2>6. len - i \in T
    <3>1. len - i \in Nat  OBVIOUS
    <3> HIDE DEF T
    <3> QED BY <2>4, <2>5, <3>1, Climb
  <2>7. a \in S[i + (len - i)][t]  BY <2>6
  <2>8. i + (len - i) = len  OBVIOUS
  <2> QED BY <1>3, <2>7, <2>8
<1> QED BY <1>7, <1>8

LEMMA FixDelegationFixes ==
  ASSUME ZoneInv, NEW view \in views, FixDelegation(view), phase' = "views"
  PROVE  Fixed(view)
<1>1. name2zone' = FixView(view)  BY DEF FixDelegation
<1>2. PICK a \in DOMAIN addr2name : view = addr2name[a]  BY DEF ZoneInv, TypeOK
<1>3. view \subseteq DOMAIN name2zone /\ DOMAIN name2zone \subseteq Names
  BY <1>2 DEF ZoneInv, TypeOK
<1>4. name2zone = [z \in DOMAIN name2zone |-> name2zone[z]] /\ Placed(name2zone)
  BY InvFacts DEF ZoneInv, Shape
<1>5. ASSUME NEW z, NEW t, NEW r, Hidden(name2zone, view, z, t, r), NEW g \in Due(name2zone, z, t, r)
      PROVE  g \in name2zone'[t]
  BY <1>1, <1>3, <1>4, <1>5, FixViewGives
<1>6. ASSUME NEW z \in view \ {root}, NEW t \in view, NS(name2zone[z], t) # {}, NEW r \in name2zone[z],
             r.type = "NS", IsSuffix(t, r.name), r.name # t,
             \A y \in view \ {r.name} : EndsWith(r.name, y) => IsSuffix(y, r.name) /\ Len(y) <= Len(t)
      PROVE  /\ r \in name2zone'[t]
             /\ Inside(t, r.data) => A(name2zone[z], r.data) \subseteq name2zone'[t]
  <2>1. Hidden(name2zone, view, z, t, r)  BY <1>6 DEF Hidden
  <2>2. r \in Due(name2zone, z, t, r)  BY DEF Due
  <2>3. Inside(t, r.data) => A(name2zone[z], r.data) \subseteq Due(name2zone, z, t, r)  BY DEF Due
  <2> QED BY <1>5, <2>1, <2>2, <2>3
<1> QED BY <1>6 DEF Fixed, Inside

(* fix_delegation uncovers, in the view it passes over, every delegation   *)
(* that a zone of the view hides, with the addresses of those servers      *)
(* inside the zone whose names were captured in lower case; whatever other *)
(* names were captured with capital letters.                               *)
THEOREM DelegationFixedCorrect == Spec => DelegationFixed
<1>1. ASSUME ZoneInv, [Next]_vars
      PROVE  [\A view \in views : views' = views \ {view} /\ phase' = "views" => Fixed(view)]_vars
  <2>1. SUFFICES ASSUME Next, NEW view \in views, views' = views \ {view}, phase' = "views"
                 PROVE  Fixed(view)
    BY <1>1
  <2>2. phase \notin {"dirs", "push"}  BY <1>1 DEF ZoneInv, Shape
  <2>3. views # {}  OBVIOUS
  <2>4. PICK v \in views : FixDelegation(v)
    BY <2>1, <2>2, <2>3 DEF Next, ProcessDir, PushMessage, StartWriting, WriteZones
  <2>5. views' = views \ {v}  BY <2>4 DEF FixDelegation
  <2>6. v = view  BY <2>1, <2>5
  <2> QED BY <1>1, <2>1, <2>4, <2>6, FixDelegationFixes
<1> QED BY <1>1, InvCorrect, PTL DEF Spec, DelegationFixed
=============================================================================
