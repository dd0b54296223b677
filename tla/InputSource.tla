---------------------------- MODULE InputSource ----------------------------
(***************************************************************************)
(* The reader of query streams: class InputSource of dns-replay-client and *)
(* dns-replay-controller (the two files are the same), and InputStream of  *)
(* dns-query-mutator, its later copy.                                      *)
(*                                                                         *)
(* A source is the sequence of items left in the input.  One call of get() *)
(* returns a message, the end (NULL), or ends the process.  A message      *)
(* whose raw part is empty stands for "not a query, ignore it".            *)
(*                                                                         *)
(* Items, one shape per format:                                            *)
(*   trace  a captured packet, or a read error of libtrace;                *)
(*   text   a line: comment, wrong number of fields, or six fields;        *)
(*   raw    a length followed by a message; "cut" tells where the file     *)
(*          ends inside the item, if it does.                              *)
(***************************************************************************)
EXTENDS Integers, Sequences, FiniteSetsExt

\* A DNSMsg on which set_raw was never called.
NoRaw == [raw |-> <<>>]

DnsHeaderLen == 12
LeftLimit(proto) == IF proto = "tcp" THEN 2 ELSE 0

(***************************************************************************)
(* process_packet: raw is set last, so every early return leaves a message *)
(* that the caller ignores.  len counts the bytes behind the UDP or TCP    *)
(* header, -1 when the header itself is cut; a TCP payload starts with the *)
(* two bytes of the DNS length.                                            *)
(***************************************************************************)
HasDnsPayload(p) ==
  /\ p.l3 \in {"ip", "ip6"}
  /\ p.port53
  /\ p.proto \in {"udp", "tcp"}
  /\ p.len >= 0
  /\ p.len > LeftLimit(p.proto) + DnsHeaderLen

ProcessPacket(p) ==
  IF HasDnsPayload(p) /\ ~p.qr /\ p.addresses
  THEN [id |-> p.id, src |-> p.src, seconds |-> p.sec, microseconds |-> p.usec,
        tcp |-> p.proto = "tcp", size |-> p.len - LeftLimit(p.proto), raw |-> <<p.query>>]
  ELSE NoRaw

(***************************************************************************)
(* process_line: a line without exactly six fields is ignored; so is one   *)
(* whose query ldns cannot build, because build_dns_query leaves the       *)
(* buffer empty.  The microseconds are the digits behind the dot, read as  *)
(* an integer.  A second dot ends the process.                             *)
(***************************************************************************)
ProcessLine(l) ==
  IF l.form = "fields" /\ l.builds
  THEN [id |-> l.id, src |-> l.src, seconds |-> l.sec, microseconds |-> l.fraction,
        tcp |-> l.proto = "tcp", size |-> l.len, raw |-> <<l.query>>]
  ELSE NoRaw

EndsProcess(fmt, item) ==
  \/ fmt = "trace" /\ item.error
  \/ fmt = "text" /\ item.form = "fields" /\ item.dots > 1

Process(fmt, item) ==
  CASE fmt = "trace" -> ProcessPacket(item)
    [] fmt = "text" -> ProcessLine(item)
    [] fmt = "raw" -> item.msg

\* get_from_text passes over blank lines and comments before it takes one.
SkipComments(f) ==
  LET lines == {k \in DOMAIN f : f[k].form # "comment"}
  IN  IF lines = {} THEN <<>> ELSE SubSeq(f, Min(lines), Len(f))

\* What is left to take an item from.
Source(fmt, f) == IF fmt = "text" THEN SkipComments(f) ELSE f

\* get() returns NULL: nothing is left, or the file ends inside an item.
AtEnd(fmt, f) ==
  LET s == Source(fmt, f)
  IN  IF s = <<>> THEN TRUE ELSE fmt = "raw" /\ Head(s).cut # "none"

\* get() ends the process: libtrace reports an error, or a malformed time.
Exits(fmt, f) == ~AtEnd(fmt, f) /\ EndsProcess(fmt, Head(Source(fmt, f)))

\* Otherwise the message it returns, and what it leaves to the next call.
Got(fmt, f) == Process(fmt, Head(Source(fmt, f)))
Left(fmt, f) == Tail(Source(fmt, f))
=============================================================================
