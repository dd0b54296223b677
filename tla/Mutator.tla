------------------------------ MODULE Mutator ------------------------------
(***************************************************************************)
(* dns-query-mutator: reads a query stream, changes header and EDNS fields *)
(* of a share of the queries, and writes the stream as raw messages or as  *)
(* text, once or for ever; and the dns-replay-client at the other end of   *)
(* the file or pipe, reading the raw stream back with its own InputSource. *)
(*                                                                         *)
(* A query is [opcode, rd, do, udp_size, xrcode, wire]: a header number, a *)
(* header bit, three EDNS fields (all 0: no EDNS part), and what ldns can  *)
(* do with its wire form: "ok", "unparsable", or "unwritable".             *)
(***************************************************************************)
EXTENDS InputSource, SequencesExt

CONSTANTS
  Jobs,     \* command lines: [ift, oft, loop, input, options]
  Rolls,    \* the values of rand() % 100 + 1 that are tried
  MayKill,  \* the mutator may be killed while it runs
  MaxRead   \* bound: messages the client reads back

VARIABLES
  job,       \* the command line of this run
  pc,        \* where the mutator is
  input,     \* what InputStream has not read yet
  warehouse, \* the queries kept for the endless loop
  i,         \* the index of the endless loop
  out,       \* written and not yet read by the client (raw), or the text lines
  received,  \* the messages the client read back
  client     \* "reading", or "eof" once get() returned NULL

vars == <<job, pc, input, warehouse, i, out, received, client>>

OneBit == {"rd", "do"}
Edns == {"do", "udp_size", "xrcode"}
Header == {"opcode", "rd"}

Queries == [opcode : Nat, rd : Nat, do : Nat, udp_size : Nat, xrcode : Nat, wire : STRING]
Messages == [id : Int, src : STRING, seconds : Int, microseconds : Int, tcp : BOOLEAN,
             size : Int, raw : Seq(Queries)]

\* An input holds items of its format, and id tells its queries apart; an
\* option is given once for a field, with two numbers.
ASSUME JobsAssumption ==
  \A j \in Jobs :
    /\ j.ift \in {"trace", "text", "raw"} /\ j.oft \in {"text", "raw"} /\ j.loop \in BOOLEAN
    /\ j.input \in Seq(ToSet(j.input))
    /\ \A item \in ToSet(j.input) : Process(j.ift, item) \in Messages \cup {NoRaw}
    /\ \A a, b \in DOMAIN j.input :
         LET m == Process(j.ift, j.input[a])
             n == Process(j.ift, j.input[b])
         IN  m.raw # <<>> /\ n.raw # <<>> /\ m.id = n.id => a = b
    /\ IsFiniteSet(j.options)
    /\ \A o \in j.options : o.part \in Header \cup Edns /\ o.percent \in Nat /\ o.val \in Nat
    /\ \A o, x \in j.options : o.part = x.part => o = x

ASSUME RollsAssumption == Rolls \subseteq 1..100

Init ==
  /\ job \in Jobs
  /\ pc = "main"
  /\ input = job.input
  /\ warehouse = <<>>
  /\ i = 0
  /\ out = <<>>
  /\ received = <<>>
  /\ client = "reading"

(***************************************************************************)
(* main and the constructor                                                *)
(***************************************************************************)
\* raw -> raw and trace/text -> text are ignored: main returns at once.
Ignored == (job.oft = "raw") = (job.ift = "raw")

\* The field an option of the command line selects.  main asks DNS_OPT_MAP for
\* "edns-extended-code", a name it does not hold, and gets 0, which
\* valid_dns_option refuses.
OptionKey(o) == IF o.name = "edns-extended-rcode" THEN "none" ELSE o.part

Start ==
  /\ pc = "main"
  /\ pc' = CASE Ignored -> "ignored"
             [] ~Ignored /\ (\E o \in job.options : OptionKey(o) = "none") -> "invalid option"
             [] OTHER -> "get"
  /\ UNCHANGED <<job, input, warehouse, i, out, received, client>>

(***************************************************************************)
(* mutate_query and change_dns_pkt                                         *)
(***************************************************************************)
\* Mutant: a number is set in every query, whatever the roll.
AppliedAlways(roll) ==
  {[part |-> o.part,
    val |-> IF o.part \notin OneBit THEN o.val
            ELSE IF (roll[o] <= o.percent) = (o.val > 0) THEN 1 ELSE 0] : o \in job.options}

\* What the options ask of one query: the chosen value in the selected share;
\* in the rest a one-bit field gets the other value, and a number is left alone.
Applied(roll) ==
  {[part |-> o.part,
    val |-> IF o.part \notin OneBit THEN o.val
            ELSE IF (roll[o] <= o.percent) = (o.val > 0) THEN 1 ELSE 0] :
     o \in {x \in job.options : x.part \in OneBit \/ roll[x] <= x.percent}}

NoEdns(q) == [q EXCEPT !.do = 0, !.udp_size = 0, !.xrcode = 0]

Change(q, c) ==
  CASE c.part = "opcode" -> [q EXCEPT !.opcode = c.val % 2^4]
    [] c.part = "rd" -> [q EXCEPT !.rd = c.val]
    [] c.part = "do" /\ c.val > 0 -> [q EXCEPT !.do = 1]
    [] c.part = "do" /\ c.val = 0 -> NoEdns(q)
    [] c.part = "udp_size" -> [q EXCEPT !.udp_size = c.val % 2^16]
    [] c.part = "xrcode" -> [q EXCEPT !.xrcode = c.val % 2^8]

\* The changes are kept in unordered maps, so they are applied in any order.
ChangeAll(q, order) ==
  LET after[k \in 0..Len(order)] == IF k = 0 THEN q ELSE Change(after[k - 1], order[k])
  IN  after[Len(order)]

\* An EDNS change needs the packet parsed (else the process ends) and written
\* again (else the query is dropped); header bits are changed in place.
NeedsPacket(changes) == \E c \in changes : c.part \in Edns

(***************************************************************************)
(* write_output                                                            *)
(***************************************************************************)
RawItem(m) == [msg |-> m, cut |-> "none"]

\* Decimal digits of a number of microseconds, as to_string writes it.
Digits(n) == Min({d \in 1..9 : n < 10^d})

\* write_text pads to six digits in a loop whose unsigned bound 6 - length is
\* negative, that is huge, for a longer number: the loop does not end.
PadsForever(m) == Digits(m.microseconds) > 6

\* dns_msg_str fails on a packet ldns cannot parse: the line is not written.
Line(m) == IF Head(m.raw).wire = "unparsable" THEN <<>> ELSE <<[id |-> m.id, usec |-> m.microseconds]>>

WriteOutput(m) == out' = IF job.oft = "raw" THEN Append(out, RawItem(m)) ELSE out \o Line(m)

(***************************************************************************)
(* Mutator::start                                                          *)
(***************************************************************************)
\* Keep the message for the loop, or write it and drop it.
Store(m) ==
  IF job.loop
  THEN warehouse' = Append(warehouse, m) /\ UNCHANGED <<out, pc>>
  ELSE /\ UNCHANGED warehouse
       /\ IF job.oft = "text" /\ PadsForever(m)
          THEN pc' = "padding" /\ UNCHANGED out
          ELSE WriteOutput(m) /\ UNCHANGED pc

Mutate(m) ==
  \E roll \in [job.options -> Rolls] :
    LET changes == Applied(roll)
        q == Head(m.raw)
    IN  CASE NeedsPacket(changes) /\ q.wire = "unparsable" ->
               pc' = "exit" /\ UNCHANGED <<warehouse, out>>
          [] NeedsPacket(changes) /\ q.wire = "unwritable" ->
               UNCHANGED <<pc, warehouse, out>>
          [] OTHER ->
               \E order \in SetToSeqs(changes) :
                 Store([m EXCEPT !.raw = <<ChangeAll(q, order)>>])

Reading == pc = "get" /\ ~AtEnd(job.ift, input) /\ ~Exits(job.ift, input)

SkipInvalid ==
  /\ Reading
  /\ Got(job.ift, input).raw = <<>>
  /\ input' = Left(job.ift, input)
  /\ UNCHANGED <<job, pc, warehouse, i, out, received, client>>

Convert ==
  /\ Reading
  /\ Len(out) < MaxRead
  /\ LET m == Got(job.ift, input)
     IN  m.raw # <<>> /\ (IF job.options = {} THEN Store(m) ELSE Mutate(m))
  /\ input' = Left(job.ift, input)
  /\ UNCHANGED <<job, i, received, client>>

InputExits ==
  /\ pc = "get" /\ Exits(job.ift, input)
  /\ pc' = "exit"
  /\ UNCHANGED <<job, input, warehouse, i, out, received, client>>

\* Mutant: the end of the input is noticed in loop mode only.
InputEndsInLoop ==
  /\ pc = "get" /\ AtEnd(job.ift, input) /\ job.loop
  /\ pc' = IF warehouse # <<>> THEN "loop" ELSE "done"
  /\ UNCHANGED <<job, input, warehouse, i, out, received, client>>

InputEnds ==
  /\ pc = "get" /\ AtEnd(job.ift, input)
  /\ pc' = IF job.loop /\ warehouse # <<>> THEN "loop" ELSE "done"
  /\ UNCHANGED <<job, input, warehouse, i, out, received, client>>

\* Mutant: the index is set to 0 at the last query, so that i++ skips the first.
WrapToZero(k) == IF k = Len(warehouse) - 1 THEN 0 ELSE k

\* for (i = 0; i < size; i++) { write warehouse[i]; if (i == size-1) i = -1; }
\* where the unsigned -1 wraps to 0 at the i++ that follows.
Wrap(k) == IF k = Len(warehouse) - 1 THEN -1 ELSE k

Loop ==
  /\ pc = "loop" /\ i < Len(warehouse)
  /\ Len(out) + Len(received) < MaxRead
  /\ LET m == warehouse[i + 1]
     IN  IF job.oft = "text" /\ PadsForever(m)
         THEN pc' = "padding" /\ UNCHANGED <<out, i>>
         ELSE WriteOutput(m) /\ i' = Wrap(i) + 1 /\ UNCHANGED pc
  /\ UNCHANGED <<job, input, warehouse, received, client>>

(***************************************************************************)
(* Death of the mutator (external): what stdio had not flushed is lost,    *)
(* and the file may end inside a message.                                  *)
(***************************************************************************)
Kill ==
  /\ MayKill
  /\ pc \in {"get", "loop"}
  /\ pc' = "killed"
  /\ \E n \in 0..Len(out), cut \in {"none", "size", "body"} :
       out' = IF cut # "none" /\ n < Len(out) /\ job.oft = "raw"
              THEN Append(SubSeq(out, 1, n), [out[n + 1] EXCEPT !.cut = cut])
              ELSE SubSeq(out, 1, n)
  /\ UNCHANGED <<job, input, warehouse, i, received, client>>

(***************************************************************************)
(* The client reads the raw stream.  Its read blocks while the mutator may *)
(* still write.                                                            *)
(***************************************************************************)
Writing == pc \in {"main", "get", "loop", "padding"}

ClientGet ==
  /\ job.oft = "raw" /\ client = "reading" /\ pc # "ignored"
  /\ IF AtEnd("raw", out)
     THEN ~Writing /\ client' = "eof" /\ UNCHANGED <<out, received>>
     ELSE /\ received' = Append(received, Got("raw", out))
          /\ out' = Left("raw", out)
          /\ UNCHANGED client
  /\ UNCHANGED <<job, pc, input, warehouse, i>>

Next ==
  \/ Start \/ SkipInvalid \/ Convert \/ InputExits \/ InputEnds
  \/ Loop \/ Kill \/ ClientGet

Spec == Init /\ [][Next]_vars

\* Both programs are single-threaded loops that keep running; being killed is
\* not something either owes.
FairSpec ==
  /\ Spec
  /\ WF_vars(Start \/ SkipInvalid \/ Convert \/ InputExits \/ InputEnds \/ Loop)
  /\ WF_vars(ClientGet)
-----------------------------------------------------------------------------
(***************************************************************************)
(* Properties                                                              *)
(***************************************************************************)
\* The type of the state, and the loop index within the stored queries.
TypeOK ==
  /\ job \in Jobs
  /\ pc \in {"main", "ignored", "invalid option", "get", "loop", "done", "exit", "killed", "padding"}
  /\ client \in {"reading", "eof"}
  /\ IsSuffix(input, job.input)
  /\ \A k \in DOMAIN warehouse : warehouse[k].raw # <<>>
  /\ pc = "loop" => i \in 0..Len(warehouse) - 1

\* What a client would get from the first k items of the input without the
\* mutator: the messages with a query, in order, up to an item that ends the
\* process; and from all of it.
DirectOf(j) ==
  LET upto[k \in 0..Len(j.input)] ==
        IF k = 0 THEN <<>>
        ELSE IF /\ Process(j.ift, j.input[k]).raw # <<>>
                /\ \A l \in 1..k : ~EndsProcess(j.ift, j.input[l])
        THEN Append(upto[k - 1], Process(j.ift, j.input[k]))
        ELSE upto[k - 1]
  IN  upto
Direct == DirectOf(job)[Len(job.input)]

\* Without options the raw stream is transparent: a client that reads it back,
\* whenever and however it ends, sees the messages it would have got from the
\* trace or the text itself, in order; in loop mode over and over, from the
\* first again after the last, at the wrap of the loop index as well.  (And the
\* state has its types.)
EncodingTransparent ==
  /\ TypeOK
  /\ job.options = {} =>
       \A n \in DOMAIN received :
         /\ ~job.loop => n <= Len(Direct)
         /\ received[n] = Direct[((n - 1) % Len(Direct)) + 1]

Original(m) == CHOOSE d \in Range(Direct) : d.id = m.id

\* A value as a field holds it.
Held(f, val) ==
  CASE f \in OneBit -> IF val > 0 THEN 1 ELSE 0
    [] f = "opcode" -> val % 2^4
    [] f = "udp_size" -> val % 2^16
    [] f = "xrcode" -> val % 2^8

\* q comes from the query o under these options: a field no option names is
\* kept, and so is a number selected for no query; a number selected for all
\* has its value, and a one-bit field selected for all or none the value or its
\* opposite.  EDNS fields aside, which are gone where the DO bit was unset.
Honours(options, q, o) ==
  LET opt(f) == {x \in options : x.part = f}
      unset == \E x \in opt("do") : ~(x.val > 0 /\ x.percent >= 100) /\ ~(x.val = 0 /\ x.percent = 0)
      gone(f) == f \in Edns /\ unset /\ q[f] = 0
  IN  /\ \A f \in Header \cup Edns : opt(f) = {} => q[f] = o[f] \/ gone(f)
      /\ \A f \in (Header \cup Edns) \ OneBit : \A x \in opt(f) :
           /\ x.percent = 0 => q[f] = o[f] \/ gone(f)
           /\ x.percent >= 100 => q[f] = Held(f, x.val) \/ gone(f)
      /\ \A f \in OneBit : \A x \in opt(f) :
           /\ x.percent >= 100 => q[f] = Held(f, x.val)
           /\ x.percent = 0 => q[f] = 1 - Held(f, x.val)

\* Whatever the dice and the order of the maps, a converted query differs from
\* its original only where an option allows it.
OptionsHonoured ==
  \A n \in DOMAIN received :
    Honours(job.options, Head(received[n].raw), Head(Original(received[n]).raw))

\* A conversion that is neither killed, nor endless, nor stopped by its input
\* comes to its end, and the client then has every query of the input that ldns
\* could rewrite; except that decoding a message whose microseconds have seven
\* digits, as a text file can give it, pads for ever.
ConversionCompletes ==
  <>(\/ pc \in {"ignored", "invalid option", "exit", "killed"}
     \/ pc = "padding" /\ \E k \in DOMAIN job.input : PadsForever(Process(job.ift, job.input[k]))
     \/ job.loop
     \/ /\ pc = "done"
        /\ job.oft = "raw" =>
             /\ client = "eof"
             /\ \A d \in Range(Direct) :
                  Head(d.raw).wire = "ok" => \E n \in DOMAIN received : received[n].id = d.id)
=============================================================================
