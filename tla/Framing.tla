------------------------------ MODULE Framing ------------------------------
(***************************************************************************)
(* The length-prefixed byte streams between the processes, and the loops   *)
(* that cut them into messages again:                                      *)
(*   Reader -> Postman          skt_read_cb      (do-while, 4 byte length) *)
(*   Postman -> manager         com_read_cb      (while)                   *)
(*   manager -> DNSClient       manager_read_cb  (while)                   *)
(*   server -> DNSClient, TCP   server_read_cb   (while, 2 byte length,    *)
(*                                                `left' has 16 bits)      *)
(* The sender writes the length, then the body.  A read callback appends   *)
(* what the bufferevent has read to a buffer and then loops.               *)
(***************************************************************************)
EXTENDS Integers, Sequences, FiniteSets

CONSTANTS
  Sizes,      \* the body size of each message, in bytes
  Readers     \* the loops, as records:
              \*   hdr       the bytes of the length field
              \*   do_while  the loop tests the buffer only after its body
              \*   left_mod  `left' is computed modulo this
              \*   read_cap  the most one read takes from the socket
              \*   tcp       a read may return any part of what was written

Positive == Nat \ {0}
ASSUME FramingAssumption ==
  /\ Sizes \in Seq(Positive)
  /\ Readers \subseteq [hdr : Positive, do_while : BOOLEAN, left_mod : Positive,
                        read_cap : Positive, tcp : BOOLEAN]
(* The loop that does not test for a length field first, skt_read_cb, is   *)
(* at the end of a socket pair, and one of its reads has room for a field. *)
ASSUME DoWhileAssumption ==
  \A r \in Readers : r.do_while => ~r.tcp /\ r.hdr <= r.read_cap

VARIABLES
  reader,   \* the loop at the end of this stream
  next,     \* the message that is written next
  half,     \* its length has been written, its body not
  sock,     \* bytes in the socket
  buf,      \* skt_buffer, com_msg_buffer, msg_buffer, server_msg_buffer
  loop,     \* "idle", "test" (the loop condition) or "body"
  out,      \* the messages parsed, in order
  garbage   \* something else than a message was parsed

vars == <<reader, next, half, sock, buf, loop, out, garbage>>

Msgs == 1 .. Len(Sizes)
HDR  == reader.hdr

(* Byte k of message i; the first HDR are its length field.                *)
Bytes(i, first, last) == [j \in 1 .. last - first + 1 |-> <<i, first + j - 1>>]
Header(i) == Bytes(i, 1, HDR)
Body(i)   == Bytes(i, HDR + 1, HDR + Sizes[i])

(* The types of the state: the writer stays within the messages, and the   *)
(* parser yields nothing but messages.                                     *)
TypeOK ==
  /\ reader \in Readers /\ next \in 1 .. Len(Sizes) + 1 /\ half \in BOOLEAN
  /\ sock \in Seq(Nat \X Nat) /\ buf \in Seq(Nat \X Nat)
  /\ loop \in {"idle", "test", "body"}
  /\ out \in Seq(Msgs) /\ garbage \in BOOLEAN

Init ==
  /\ reader \in Readers
  /\ next = 1 /\ half = FALSE /\ sock = <<>> /\ buf = <<>>
  /\ loop = "idle" /\ out = <<>> /\ garbage = FALSE

(* The two write() calls.                                                  *)
WriteLengthButLast ==  \* mutant: the last message is not written
  /\ next \in 1 .. Len(Sizes) - 1 /\ ~half
  /\ sock' = sock \o Header(next)
  /\ half' = TRUE
  /\ UNCHANGED <<reader, next, buf, loop, out, garbage>>
WriteLength ==
  /\ next \in Msgs /\ ~half
  /\ sock' = sock \o Header(next)
  /\ half' = TRUE
  /\ UNCHANGED <<reader, next, buf, loop, out, garbage>>

WriteBody ==
  /\ next \in Msgs /\ half
  /\ sock' = sock \o Body(next)
  /\ half' = FALSE /\ next' = next + 1
  /\ UNCHANGED <<reader, buf, loop, out, garbage>>

(* What one read takes: on a unix socket everything it can hold, on TCP    *)
(* perhaps less, because segments arrive one by one.                       *)
ReadSizes ==
  LET most == IF Len(sock) < reader.read_cap THEN Len(sock) ELSE reader.read_cap
  IN IF reader.tcp THEN 1 .. most ELSE {most}

(* The read callback begins.                                               *)
ReadCb ==
  /\ loop = "idle" /\ sock # <<>>
  /\ \E n \in ReadSizes :
       /\ buf' = buf \o SubSeq(sock, 1, n)
       /\ sock' = SubSeq(sock, n + 1, Len(sock))
  /\ loop' = IF reader.do_while THEN "body" ELSE "test"
  /\ UNCHANGED <<reader, next, half, out, garbage>>

LoopTestNonempty == buf # <<>>        \* mutant: the size of the length field is forgotten
LoopTest == Len(buf) > HDR

TestLoop ==
  /\ loop = "test"
  /\ loop' = IF LoopTest THEN "body" ELSE "idle"
  /\ UNCHANGED <<reader, next, half, sock, buf, out, garbage>>

(* The memcpy of the length field finds one only at the start of a message *)
(* that is there with all its HDR bytes; it is never checked.              *)
AtHeader == \E i \in Msgs : Len(buf) >= HDR /\ SubSeq(buf, 1, HDR) = Header(i)
First == buf[1][1]

leftShort == Len(buf) - HDR - 1      \* mutant: off by one
left == (Len(buf) - HDR) % reader.left_mod

(* One iteration: break if the message is not complete, else parse it and  *)
(* trim the buffer.                                                        *)
LoopBody ==
  /\ loop = "body"
  /\ IF ~AtHeader
       THEN garbage' = TRUE /\ loop' = "idle" /\ UNCHANGED <<buf, out>>
     ELSE IF Sizes[First] > left
       THEN loop' = "idle" /\ UNCHANGED <<buf, out, garbage>>
     ELSE /\ out' = Append(out, First)
          /\ garbage' = (garbage \/ SubSeq(buf, HDR + 1, HDR + Sizes[First]) # Body(First))
          /\ buf' = SubSeq(buf, HDR + Sizes[First] + 1, Len(buf))
          /\ loop' = "test"
  /\ UNCHANGED <<reader, next, half, sock>>

Next == WriteLength \/ WriteBody \/ ReadCb \/ TestLoop \/ LoopBody

Spec == Init /\ [][Next]_vars
FairSpec == Spec /\ WF_vars(Next)

-----------------------------------------------------------------------------
(* Only whole messages are parsed, in the order they were written,         *)
(* whatever parts of the stream each read returns.  For the do-while loop  *)
(* this needs that a length field is written at once and that a read takes *)
(* what there is: it never sees fewer than HDR bytes.  (And the state has  *)
(* its types.)                                                             *)
Reassembled ==
  /\ TypeOK
  /\ ~garbage
  /\ out = [i \in 1 .. Len(out) |-> i]

(* More is in the buffer than `left' can count.                            *)
Wrapped == Len(buf) - HDR >= reader.left_mod

(* "not enough data left": a callback that has ended has left no complete  *)
(* message in its buffer, unless `left' has wrapped: then it can, and the  *)
(* message waits for the next read.                                        *)
NothingLeftBehind ==
  loop = "idle" /\ AtHeader /\ ~Wrapped => Len(buf) < HDR + Sizes[First]

(* Every message written is parsed, with the same exception: nothing may   *)
(* be read after the messages that wait.                                   *)
AllParsed == <>(Wrapped \/ out = [i \in Msgs |-> i])
=============================================================================
