----------------------------- MODULE MCMutator -----------------------------
(***************************************************************************)
(* Instances of Mutator: one input per format, holding each kind of item.  *)
(***************************************************************************)
EXTENDS Mutator

Query == [opcode |-> 0, rd |-> 0, do |-> 1, udp_size |-> 4096, xrcode |-> 0, wire |-> "ok"]
Plain == [Query EXCEPT !.do = 0, !.udp_size = 0, !.rd = 1]
Packet == [error |-> FALSE, l3 |-> "ip", port53 |-> TRUE, proto |-> "udp", len |-> 30, qr |-> FALSE,
           addresses |-> TRUE, id |-> 1, src |-> "s1", sec |-> 7, usec |-> 999999, query |-> Query]
TcpQuery == [Packet EXCEPT !.id = 2, !.proto = "tcp", !.len = 15, !.l3 = "ip6", !.query = Plain]
Response == [Packet EXCEPT !.id = 3, !.qr = TRUE]
HeaderOnly == [Packet EXCEPT !.id = 4, !.proto = "tcp", !.len = 14]
OtherPort == [Packet EXCEPT !.id = 5, !.port53 = FALSE]
Cut == [Packet EXCEPT !.id = 6, !.len = -1]
NoAddress == [Packet EXCEPT !.id = 7, !.addresses = FALSE]
ReadError == [Packet EXCEPT !.id = 10, !.error = TRUE]
Unparsable == [Packet EXCEPT !.id = 8, !.query.wire = "unparsable"]
Unwritable == [Packet EXCEPT !.id = 9, !.query.wire = "unwritable"]

Fields == [form |-> "fields", builds |-> TRUE, dots |-> 1, fraction |-> 79111, len |-> 29, id |-> 1,
           src |-> "s1", sec |-> 7, proto |-> "udp", query |-> Plain]
Comment == [Fields EXCEPT !.form = "comment"]
Short == [Fields EXCEPT !.form = "short"]
BadName == [Fields EXCEPT !.id = 2, !.builds = FALSE]
Empty == [Fields EXCEPT !.id = 3, !.len = 12, !.proto = "tcp"]
TwoDots == [Fields EXCEPT !.id = 4, !.dots = 2]

RawOf(p, usec, cut) == [msg |-> [ProcessPacket(p) EXCEPT !.microseconds = usec], cut |-> cut]

Job(ift, oft, loop, in, options) ==
  [ift |-> ift, oft |-> oft, loop |-> loop, input |-> in, options |-> options]

Option(name, part, percent, val) == [name |-> name, part |-> part, percent |-> percent, val |-> val]

Encode == {
  Job("trace", "raw", l, in, {}) : l \in BOOLEAN,
    in \in {<<Packet, Response, TcpQuery, HeaderOnly, Unparsable>>,
            <<OtherPort, TcpQuery, Cut, NoAddress, Packet>>,
            <<TcpQuery, ReadError, Packet>>, <<Response>>, <<>>} }
  \cup { Job("text", "raw", l, in, {}) : l \in BOOLEAN,
    in \in {<<Comment, Fields, Short, Comment, Empty, BadName, Comment>>, <<Fields, TwoDots, Empty>>} }

Options == {Option("dns-opcode", "opcode", p, 18) : p \in {0, 50, 100}}
     \cup {Option("dns-rd", "rd", p, v) : p \in {0, 50, 100}, v \in {0, 1}}
     \cup {Option("edns-do", "do", p, v) : p \in {0, 50, 100}, v \in {0, 1}}
     \cup {Option("edns-udp-size", "udp_size", p, 512) : p \in {50, 120}}

Mutations == {
  Job("trace", "raw", FALSE, in, o) :
    in \in {<<Packet, TcpQuery, Unwritable>>, <<TcpQuery, Unparsable, Packet>>},
    o \in {x \in SUBSET Options : /\ Cardinality(x) \in 1..2
                                  /\ \A a, b \in x : a.part = b.part => a = b} }

Decode == {
  Job("raw", "text", FALSE, <<RawOf(Packet, u, "none"), RawOf(Unparsable, 5, "none"), RawOf(TcpQuery, 0, c)>>, {}) :
    u \in {0, 999999}, c \in {"none", "size", "body"} }
  \cup { Job("raw", "raw", FALSE, <<RawOf(Packet, 5, "none")>>, {}), Job("text", "text", FALSE, <<Fields>>, {}) }

\* A raw file made from a text file with seven digits behind the dot.
LongFraction == {Job("raw", "text", FALSE, <<RawOf(Packet, 1234567, "none")>>, {})}

\* An option that main does not accept, though the README lists it.
ExtendedRcode == {Job("trace", "raw", FALSE, <<Packet>>, {Option("edns-extended-rcode", "xrcode", 100, 1)})}

MCJobs == Encode \cup Decode \cup Mutations \cup LongFraction \cup ExtendedRcode

Boundary == {1, 50, 51, 100}
=============================================================================
