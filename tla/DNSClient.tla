------------------------------ MODULE DNSClient ------------------------------
(***************************************************************************)
(* How a DNSClient (client.cc) sends its queries and matches responses:    *)
(* the UDP sockets and TCP connections it keeps per source address, the    *)
(* table of outstanding queries, and what it reports to the manager.       *)
(* ReplayTimer says when send_query is called; here, it is called for the  *)
(* queries in any order.                                                   *)
(*                                                                         *)
(* Descriptor numbers are used again after a close, so a UDP socket has a  *)
(* number of its own, under which the server answers it.  An event that is *)
(* waiting for a closed descriptor fires when the number is open again.    *)
(***************************************************************************)
EXTENDS Integers, Sequences, FiniteSets

CONSTANTS
  Setups,          \* what a worker may be given, as records:
                   \*   queries        records [src, qname, tcp, raw]; raw is
                   \*                  FALSE for no payload
                   \*   conn_type      "udp", "tcp" (also TLS) or "adaptive"
                   \*   socket_unify   --unify-udp
                   \*   output_option  "latency", "timing" or "none"
  Srcs, Names, Ids, Fds,
  NoSrc, NoFd, NoName,
  MaxTimeouts,     \* bound: UDP sockets closed after 60 s without a response
  MaxCopies,       \* bound: how often the network delivers an answer
  MaxConns         \* bound: TCP connections opened

Query == [src : Srcs, qname : Names \cup {NoName}, tcp : BOOLEAN, raw : BOOLEAN]
Setup == [queries : Seq(Query), conn_type : {"udp", "tcp", "adaptive"},
          socket_unify : BOOLEAN, output_option : {"latency", "timing", "none"}]
ASSUME ClientAssumption ==
  /\ Setups \subseteq Setup /\ Fds \subseteq Nat \ {0} /\ NoFd \notin Fds
  /\ NoSrc \notin Srcs /\ NoName \notin Names
  /\ MaxTimeouts \in Nat /\ MaxCopies \in Nat /\ MaxConns \in Nat

VARIABLES
  setup,            \* this worker's options and queries
  todo,             \* queries send_query has not been called for
  id,               \* the DNS id a query was given, or -1
  query_table,      \* the query a key stands for, or 0
  src2udpfd, udpfd2src,
  udp_read_event,   \* descriptors with a read event
  sock,             \* the UDP socket open under a descriptor, or 0
  sockets,          \* how many UDP sockets were opened
  writes,           \* write events: [fd, q]
  sent,             \* the source whose socket a query left from
  answers,          \* the server's UDP answers: [sock, q, copies]
  src2bev, bev2src, \* TCP connections, numbered as they are opened
  conns,            \* how many were opened
  outgoing,         \* queries written to a connection
  stream,           \* what the server has sent on it
  server_msg_buffer,
  complete,         \* answers whose last byte has been read
  reported,         \* lines sent to the manager about the answer to a query
  overwritten,      \* outstanding queries whose entry of query_table was replaced
  timeouts,
  status            \* "running" or "exited" (log_err)

udp == <<src2udpfd, udpfd2src, udp_read_event, sock, sockets, writes, answers, timeouts>>
tcp == <<src2bev, bev2src, conns, outgoing, stream, server_msg_buffer>>
vars == <<setup, todo, id, query_table, udp, sent, tcp, complete, reported, overwritten,
          status>>

Queries       == setup.queries
conn_type     == setup.conn_type
socket_unify  == setup.socket_unify
output_option == setup.output_option

Q == 1 .. Len(Queries)
Conns == 1 .. MaxConns
Unified == 0                     \* unified_udp_fd, which is never closed

(* get_query_rr_str separates its words by tabs and ends the line; fmt_str *)
(* turns that into single blanks.  The two forms of a key are different.   *)
RawKey(i, n) == <<"tabs", i, n>>
FmtKey(i, n) == <<"blanks", i, n>>
Keys == {FmtKey(i, n) : i \in Ids, n \in Names}
Outstanding(key) == key \in Keys /\ query_table[key] # 0

Unit == [part : {"length", "body"}, q : Q]

(* The types of the state: every id that is given is one of the id space,  *)
(* and every write event, answer and report belongs to a query.            *)
TypeOK ==
  /\ setup \in Setups /\ todo \subseteq Q /\ id \in [Q -> Ids \cup {-1}]
  /\ query_table \in [Keys -> Q \cup {0}]
  /\ src2udpfd \in [Srcs -> Fds \cup {NoFd}]
  /\ udpfd2src \in [Fds -> Srcs \cup {NoSrc}]
  /\ udp_read_event \subseteq Fds
  /\ sock \in [Fds -> Nat] /\ sockets \in Nat
  /\ writes \subseteq [fd : Fds \cup {Unified}, q : Q]
  /\ sent \in [Q -> Srcs \cup {NoSrc, "unsent"}]
  /\ answers \subseteq [sock : Nat, q : Q, copies : 1 .. MaxCopies]
  /\ src2bev \in [Srcs -> Conns \cup {0}] /\ bev2src \in [Conns -> Srcs \cup {NoSrc}]
  /\ conns \in 0 .. MaxConns
  /\ outgoing \in [Conns -> Seq(Q)] /\ stream \in [Conns -> Seq(Unit)]
  /\ server_msg_buffer \in [Conns -> Seq(Unit)]
  /\ complete \subseteq Q /\ reported \in [Q -> Nat]
  /\ overwritten \subseteq Q /\ timeouts \in Nat /\ status \in {"running", "exited"}

Init ==
  /\ setup \in Setups
  /\ todo = Q /\ id = [q \in Q |-> -1] /\ query_table = [k \in Keys |-> 0]
  /\ src2udpfd = [s \in Srcs |-> NoFd] /\ udpfd2src = [f \in Fds |-> NoSrc]
  /\ udp_read_event = {} /\ sock = [f \in Fds |-> 0] /\ sockets = 0
  /\ writes = {} /\ sent = [q \in Q |-> "unsent"] /\ answers = {}
  /\ src2bev = [s \in Srcs |-> 0] /\ bev2src = [c \in Conns |-> NoSrc] /\ conns = 0
  /\ outgoing = [c \in Conns |-> <<>>] /\ stream = [c \in Conns |-> <<>>]
  /\ server_msg_buffer = [c \in Conns |-> <<>>]
  /\ complete = {} /\ reported = [q \in Q |-> 0] /\ overwritten = {} /\ timeouts = 0
  /\ status = "running"

-----------------------------------------------------------------------------
(* Sending.                                                                *)

UseTcp(q) == conn_type = "tcp" \/ (conn_type = "adaptive" /\ Queries[q].tcp)

(* The loop that looks for an id whose key is not in the table; it looks   *)
(* for the form with tabs.                                                 *)
FreshIds(n) == {i \in Ids : ~Outstanding(RawKey(i, n))}

(* query_table[key] = qt, for a query with a name and output of latency.   *)
LogQuery(q, i) ==
  LET key == FmtKey(i, Queries[q].qname)
  IN IF Queries[q].qname # NoName /\ output_option = "latency"
       THEN /\ query_table' = [query_table EXCEPT ![key] = q]
            /\ overwritten' = overwritten \cup ({query_table[key]} \ {0})
       ELSE UNCHANGED <<query_table, overwritten>>

(* A query without payload is dropped.                                     *)
SendEmpty(q) ==
  /\ q \in todo /\ ~Queries[q].raw
  /\ todo' = todo \ {q}
  /\ UNCHANGED <<id, query_table, udp, sent, tcp, complete, reported, overwritten>>

LowestFree(fd) == sock[fd] = 0 /\ \A g \in Fds : g < fd => sock[g] # 0

(* The socket send_query_udp uses, for a source that has one, and the new  *)
(* one it opens otherwise.                                                 *)
UdpSocketAny(s, fd) ==         \* mutant: any socket that is open is taken
  \/ /\ fd \in udp_read_event
     /\ UNCHANGED <<src2udpfd, udpfd2src, udp_read_event, sock, sockets>>
  \/ /\ udp_read_event = {} /\ fd \in Fds /\ LowestFree(fd)
     /\ sockets' = sockets + 1
     /\ sock' = [sock EXCEPT ![fd] = sockets']
     /\ src2udpfd' = [src2udpfd EXCEPT ![s] = fd]
     /\ udpfd2src' = [udpfd2src EXCEPT ![fd] = s]
     /\ udp_read_event' = udp_read_event \cup {fd}
UdpSocket(s, fd) ==
  \/ /\ socket_unify /\ fd = Unified
     /\ UNCHANGED <<src2udpfd, udpfd2src, udp_read_event, sock, sockets>>
  \/ /\ ~socket_unify /\ src2udpfd[s] # NoFd /\ fd = src2udpfd[s]
     /\ UNCHANGED <<src2udpfd, udpfd2src, udp_read_event, sock, sockets>>
  \/ /\ ~socket_unify /\ src2udpfd[s] = NoFd /\ fd \in Fds /\ LowestFree(fd)
     /\ sockets' = sockets + 1
     /\ sock' = [sock EXCEPT ![fd] = sockets']
     /\ src2udpfd' = [src2udpfd EXCEPT ![s] = fd]
     /\ udpfd2src' = [udpfd2src EXCEPT ![fd] = s]
     /\ udp_read_event' = udp_read_event \cup {fd}

(* The write event of a query.                                             *)
NoWriteEvent(fd, q) == writes' = writes      \* mutant: event_add is missing
WriteEvent(fd, q) == writes' = writes \cup {[fd |-> fd, q |-> q]}

(* DNSClient::send_query_udp: the query waits for a write event.           *)
SendUdp(q) ==
  /\ q \in todo /\ Queries[q].raw /\ ~UseTcp(q)
  /\ todo' = todo \ {q}
  /\ \E i \in FreshIds(Queries[q].qname), fd \in Fds \cup {Unified} :
       /\ id' = [id EXCEPT ![q] = i]
       /\ UdpSocket(Queries[q].src, fd)
       /\ LogQuery(q, i)
       /\ WriteEvent(fd, q)
  /\ UNCHANGED <<sent, answers, timeouts, tcp, complete, reported>>

(* DNSClient::send_query_tcp: on the source's connection, or a new one.    *)
SendTcp(q) ==
  /\ q \in todo /\ Queries[q].raw /\ UseTcp(q)
  /\ todo' = todo \ {q}
  /\ \E i \in FreshIds(Queries[q].qname) : id' = [id EXCEPT ![q] = i] /\ LogQuery(q, i)
  /\ LET s == Queries[q].src
         c == IF src2bev[s] # 0 THEN src2bev[s] ELSE conns + 1
     IN /\ c \in Conns
        /\ conns' = IF c > conns THEN c ELSE conns
        /\ src2bev' = [src2bev EXCEPT ![s] = c]
        /\ bev2src' = [bev2src EXCEPT ![c] = s]
        /\ outgoing' = [outgoing EXCEPT ![c] = Append(@, q)]
        /\ sent' = [sent EXCEPT ![q] = s]
  /\ UNCHANGED <<udp, stream, server_msg_buffer, complete, reported>>

-----------------------------------------------------------------------------
(* UDP.                                                                    *)

(* DNSClient::server_udp_write_cb, when the descriptor is open; the server *)
(* then answers, and the network may deliver the answer more than once.    *)
ServerUdpWrite(w) ==
  /\ w \in writes /\ w.fd # Unified => sock[w.fd] # 0
  /\ writes' = writes \ {w}
  /\ sent' = [sent EXCEPT ![w.q] = IF w.fd = Unified THEN NoSrc ELSE udpfd2src[w.fd]]
  /\ \E n \in 1 .. MaxCopies :
       answers' = answers \cup {[sock |-> IF w.fd = Unified THEN 0 ELSE sock[w.fd],
                                 q |-> w.q, copies |-> n]}
  /\ UNCHANGED <<todo, id, query_table, src2udpfd, udpfd2src, udp_read_event, sock,
                 sockets, timeouts, tcp, complete, reported, overwritten>>

(* DNSClient::server_udp_read_timeout_cb.                                  *)
UdpTimeoutKeepsSrc(fd) ==     \* mutant: src2udpfd is not cleaned up
  /\ fd \in udp_read_event /\ timeouts < MaxTimeouts
  /\ timeouts' = timeouts + 1
  /\ sock' = [sock EXCEPT ![fd] = 0]
  /\ udp_read_event' = udp_read_event \ {fd}
  /\ udpfd2src' = [udpfd2src EXCEPT ![fd] = NoSrc]
  /\ UNCHANGED <<todo, id, query_table, src2udpfd, sockets, writes, sent, answers, tcp,
                 complete, reported, overwritten>>
UdpReadTimeout(fd) ==
  /\ fd \in udp_read_event /\ timeouts < MaxTimeouts
  /\ timeouts' = timeouts + 1
  /\ sock' = [sock EXCEPT ![fd] = 0]
  /\ udp_read_event' = udp_read_event \ {fd}
  /\ src2udpfd' = IF udpfd2src[fd] = NoSrc THEN src2udpfd
                  ELSE [src2udpfd EXCEPT ![udpfd2src[fd]] = NoFd]
  /\ udpfd2src' = [udpfd2src EXCEPT ![fd] = NoSrc]
  /\ UNCHANGED <<todo, id, query_table, sockets, writes, sent, answers, tcp,
                 complete, reported, overwritten>>

(* DNSClient::sendto_manager: the entry of the answer's key is reported    *)
(* and removed; an answer without an entry is only logged.                 *)
SendtoManagerKeeps(q) ==      \* mutant: query_table.erase is missing
  LET key == FmtKey(id[q], Queries[q].qname)
  IN /\ query_table' = query_table
     /\ IF Outstanding(key)
          THEN reported' = [reported EXCEPT ![query_table[key]] = @ + 1]
          ELSE UNCHANGED reported
SendtoManager(q) ==
  LET key == FmtKey(id[q], Queries[q].qname)
  IN IF Outstanding(key)
       THEN /\ reported' = [reported EXCEPT ![query_table[key]] = @ + 1]
            /\ query_table' = [query_table EXCEPT ![key] = 0]
       ELSE UNCHANGED <<reported, query_table>>

(* What server_udp_read_cb does with an answer.                            *)
ReportAnswer(q) ==
  CASE output_option = "latency" -> SendtoManager(q)
    [] output_option = "timing"  -> /\ reported' = [reported EXCEPT ![q] = @ + 1]
                                    /\ UNCHANGED query_table
    [] OTHER -> UNCHANGED <<reported, query_table>>

(* DNSClient::server_udp_read_cb.                                          *)
ServerUdpRead(a) ==
  /\ a \in answers
  /\ a.sock = 0 \/ \E fd \in Fds : sock[fd] = a.sock
  /\ answers' = (answers \ {a}) \cup
                (IF a.copies > 1 THEN {[a EXCEPT !.copies = @ - 1]} ELSE {})
  /\ complete' = complete \cup {a.q}
  /\ ReportAnswer(a.q)
  /\ UNCHANGED <<todo, id, src2udpfd, udpfd2src, udp_read_event, sock, sockets, writes,
                 sent, timeouts, tcp, overwritten>>

-----------------------------------------------------------------------------
(* TCP.                                                                    *)

(* The server answers the next query of a connection.                      *)
ServerAnswers(c) ==
  /\ bev2src[c] # NoSrc /\ outgoing[c] # <<>>
  /\ outgoing' = [outgoing EXCEPT ![c] = Tail(@)]
  /\ stream' = [stream EXCEPT ![c] = @ \o <<[part |-> "length", q |-> Head(outgoing[c])],
                                            [part |-> "body",   q |-> Head(outgoing[c])]>>]
  /\ UNCHANGED <<todo, id, query_table, udp, sent, src2bev, bev2src, conns,
                 server_msg_buffer, complete, reported, overwritten>>

Bodies(units) == {units[i].q : i \in {j \in DOMAIN units : units[j].part = "body"}}

(* What is left of a connection's buffer when the loop has cut it up.      *)
RestUntrimmed(buf) == buf     \* mutant: the messages are not cut off
Rest(buf) == IF buf[Len(buf)].part = "length" THEN <<buf[Len(buf)]>> ELSE <<>>

(* DNSClient::server_read_cb on n units of the stream.  With timing, the   *)
(* connection's buffer is cut into messages; with latency, whatever was    *)
(* read is taken for one message and its length field.                     *)
ServerRead(c, n) ==
  LET data  == SubSeq(stream[c], 1, n)
      whole == n >= 2 /\ data[1].part = "length"
      buf   == server_msg_buffer[c] \o data
  IN /\ bev2src[c] # NoSrc /\ n \in 1 .. Len(stream[c])
     /\ stream' = [stream EXCEPT ![c] = SubSeq(@, n + 1, Len(@))]
     /\ complete' = complete \cup Bodies(data)
     /\ CASE output_option = "timing" ->
               /\ server_msg_buffer' = [server_msg_buffer EXCEPT ![c] = Rest(buf)]
               /\ reported' = [q \in Q |-> reported[q] + (IF q \in Bodies(buf) THEN 1 ELSE 0)]
               /\ UNCHANGED query_table
          [] output_option = "latency" ->
               /\ IF whole THEN SendtoManager(data[1].q)
                  ELSE UNCHANGED <<reported, query_table>>
               /\ UNCHANGED server_msg_buffer
          [] OTHER -> UNCHANGED <<reported, query_table, server_msg_buffer>>
     /\ UNCHANGED <<todo, id, udp, sent, src2bev, bev2src, conns, outgoing, overwritten>>

(* DNSClient::server_event_cb on a timeout, a close or an error.           *)
ServerEvent(c) ==
  /\ bev2src[c] # NoSrc
  /\ src2bev' = [src2bev EXCEPT ![bev2src[c]] = 0]
  /\ bev2src' = [bev2src EXCEPT ![c] = NoSrc]
  /\ server_msg_buffer' = [server_msg_buffer EXCEPT ![c] = <<>>]
  /\ outgoing' = [outgoing EXCEPT ![c] = <<>>] /\ stream' = [stream EXCEPT ![c] = <<>>]
  /\ UNCHANGED <<todo, id, query_table, udp, sent, conns, complete, reported, overwritten>>

-----------------------------------------------------------------------------
(* A system call fails: log_err or err ends the process.                   *)
LogErr ==
  /\ status = "running" /\ status' = "exited"
  /\ UNCHANGED <<setup, todo, id, query_table, udp, sent, tcp, complete, reported, overwritten>>

Running == status = "running" /\ UNCHANGED <<setup, status>>

SendQuery == Running /\ \E q \in Q : SendEmpty(q) \/ SendUdp(q) \/ SendTcp(q)
UdpWrite  == Running /\ \E w \in writes : ServerUdpWrite(w)

Next ==
  \/ SendQuery \/ UdpWrite \/ LogErr
  \/ Running /\ \E fd \in Fds : UdpReadTimeout(fd)
  \/ Running /\ \E a \in answers : ServerUdpRead(a)
  \/ Running /\ \E c \in Conns : ServerAnswers(c) \/ ServerEvent(c)
  \/ Running /\ \E c \in Conns : \E n \in 1 .. Len(stream[c]) : ServerRead(c, n)

Spec == Init /\ [][Next]_vars

(* Timers fire, and a socket that can be written to is.                    *)
FairSpec == Spec /\ WF_vars(SendQuery) /\ WF_vars(UdpWrite)

-----------------------------------------------------------------------------
(* Properties.                                                             *)

(* Sources and UDP sockets, and sources and TCP connections, map to each   *)
(* other one to one, and only to open ones, however closing, re-use of     *)
(* descriptor numbers and sending interleave.  (And the types hold.)       *)
SocketMaps ==
  /\ TypeOK
  /\ \A s \in Srcs, fd \in Fds : (src2udpfd[s] = fd) <=> (udpfd2src[fd] = s)
  /\ \A fd \in Fds : /\ udpfd2src[fd] # NoSrc <=> sock[fd] # 0
                     /\ fd \in udp_read_event <=> sock[fd] # 0
  /\ \A s \in Srcs, c \in Conns : (src2bev[s] = c) <=> (bev2src[c] = s)

(* "By default it uses different sockets for different source IP": a query *)
(* leaves from the socket of its own source, as long as no UDP socket has  *)
(* timed out (a write event that waits for a closed descriptor fires on    *)
(* the socket that is given its number next, of whatever source).          *)
OwnSocket ==
  ~socket_unify /\ timeouts = 0 => \A q \in Q : sent[q] \in {"unsent", Queries[q].src}

(* "set rand id at least once in case we get the same key with existing    *)
(* one": no outstanding query loses its entry to another query.            *)
NoOverwrite == overwritten = {}

(* A query's latency is reported at most once, however often its answer    *)
(* arrives, and only when that answer has been read; the entry is gone     *)
(* then.  (Queries have different names here, so their keys differ.)       *)
LatencyOnce ==
  output_option = "latency" =>
    \A q \in Q : /\ reported[q] <= 1
                 /\ reported[q] = 1 => q \in complete
                 /\ reported[q] = 1 => \A k \in Keys : query_table[k] # q

(* "latency (output the latency of each query)", "timing (output the       *)
(* timing of each query and response)": an answer that was read completely *)
(* has been reported.  With latency this is so over UDP only: over TCP a   *)
(* read is taken for exactly one answer.  With timing, each answer on a    *)
(* TCP connection is reported once, wherever the reads cut the stream and  *)
(* whichever connections close.                                            *)
EachAnswerReported ==
  /\ \A q \in complete :
       \/ output_option = "timing"
       \/ output_option = "latency" /\ ~UseTcp(q) /\ Queries[q].qname # NoName
       => reported[q] >= 1
  /\ conn_type = "tcp" /\ output_option = "timing" =>
       \A q \in Q : reported[q] = IF q \in complete THEN 1 ELSE 0

(* Every query with a payload is sent, while no UDP socket times out and   *)
(* the bound on connections is not reached, unless the worker exits.       *)
AllSent ==
  <>(\/ status = "exited" \/ timeouts > 0 \/ conns = MaxConns
     \/ \A q \in Q : Queries[q].raw => sent[q] # "unsent")
=============================================================================
