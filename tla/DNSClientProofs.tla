-------------------------- MODULE DNSClientProofs --------------------------
(* Theorems about DNSClient, for every set of sources, names, ids and      *)
(* descriptors, every list of queries and every setting of a worker.       *)
EXTENDS DNSClient, SequenceTheorems, TLAPS

USE ClientAssumption

LEMMA SetupFacts ==
  ASSUME TypeOK
  PROVE  /\ Len(Queries) \in Nat
         /\ \A q \in Q : /\ Queries[q].src \in Srcs /\ Queries[q].qname \in Names \cup {NoName}
                         /\ Queries[q].raw \in BOOLEAN /\ q \in Nat /\ q # 0
<1>1. setup \in Setup  BY DEF TypeOK
<1>2. Queries \in Seq(Query)  BY <1>1 DEF Setup, Queries
<1>3. \A q \in Q : Queries[q] \in Query  BY <1>2 DEF Q
<1> QED BY <1>2, <1>3 DEF Query, Q

LEMMA SameSetup ==
  ASSUME setup' = setup
  PROVE  /\ Q' = Q /\ Queries' = Queries /\ Unit' = Unit
         /\ socket_unify' = socket_unify /\ output_option' = output_option
         /\ conn_type' = conn_type
  BY DEF Q, Queries, Unit, socket_unify, output_option, conn_type

LEMMA UnitFacts ==
  ASSUME NEW s \in Seq(Unit), NEW i \in DOMAIN s
  PROVE  s[i] \in Unit /\ s[i].q \in Q /\ s[i].part \in {"length", "body"}
<1>1. s[i] \in Unit  OBVIOUS
<1>2. \A u \in Unit : u.q \in Q /\ u.part \in {"length", "body"}  BY DEF Unit
<1> QED BY <1>1, <1>2

LEMMA LogQueryType ==
  ASSUME TypeOK, NEW q \in Q, NEW i \in Ids, LogQuery(q, i)
  PROVE  query_table' \in [Keys -> Q \cup {0}] /\ overwritten' \subseteq Q
<1> DEFINE key == FmtKey(i, Queries[q].qname)
<1>1. CASE Queries[q].qname # NoName /\ output_option = "latency"
  <2>1. Queries[q].qname \in Names  BY <1>1, SetupFacts
  <2>2. key \in Keys  BY <2>1 DEF Keys
  <2>3. query_table' = [query_table EXCEPT ![key] = q]
        /\ overwritten' = overwritten \cup ({query_table[key]} \ {0})
    BY <1>1 DEF LogQuery
  <2> HIDE DEF key
  <2> QED BY <2>2, <2>3 DEF TypeOK
<1>2. CASE ~(Queries[q].qname # NoName /\ output_option = "latency")
  BY <1>2 DEF LogQuery, TypeOK
<1> QED BY <1>1, <1>2

LEMMA SendtoManagerType ==
  ASSUME TypeOK, NEW q \in Q, SendtoManager(q)
  PROVE  query_table' \in [Keys -> Q \cup {0}] /\ reported' \in [Q -> Nat]
<1> DEFINE key == FmtKey(id[q], Queries[q].qname)
<1>1. CASE Outstanding(key)
  <2>1. key \in Keys /\ query_table[key] # 0  BY <1>1 DEF Outstanding
  <2>2. /\ reported' = [reported EXCEPT ![query_table[key]] = @ + 1]
        /\ query_table' = [query_table EXCEPT ![key] = 0]
    BY <1>1 DEF SendtoManager
  <2> HIDE DEF key
  <2>3. query_table[key] \in Q  BY <2>1 DEF TypeOK
  <2> QED BY <2>1, <2>2, <2>3 DEF TypeOK
<1>2. CASE ~Outstanding(key)
  BY <1>2 DEF SendtoManager, TypeOK
<1> QED BY <1>1, <1>2
-----------------------------------------------------------------------------
(* The maps of SocketMaps, and that a connection that was not opened yet   *)
(* belongs to no source.                                                   *)
UdpMaps ==
  /\ \A s \in Srcs, fd \in Fds : (src2udpfd[s] = fd) <=> (udpfd2src[fd] = s)
  /\ \A fd \in Fds : /\ udpfd2src[fd] # NoSrc <=> sock[fd] # 0
                     /\ fd \in udp_read_event <=> sock[fd] # 0
TcpMaps ==
  /\ \A s \in Srcs, c \in Conns : (src2bev[s] = c) <=> (bev2src[c] = s)
  /\ \A c \in Conns : c > conns => bev2src[c] = NoSrc

MapsInv == TypeOK /\ UdpMaps /\ TcpMaps

LEMMA UdpSame ==
  ASSUME UdpMaps, UNCHANGED <<src2udpfd, udpfd2src, udp_read_event, sock>>
  PROVE  UdpMaps'
  BY DEF UdpMaps

LEMMA TcpSame ==
  ASSUME TcpMaps, UNCHANGED <<src2bev, bev2src, conns>>
  PROVE  TcpMaps'
  BY DEF TcpMaps

LEMMA InitMaps == Init => MapsInv
<1> SUFFICES ASSUME Init PROVE MapsInv
  OBVIOUS
<1>1. TypeOK
  <2>1. setup \in Setups /\ Q \subseteq Nat  BY DEF Init, Q
  <2>2. /\ todo \subseteq Q /\ id \in [Q -> Ids \cup {-1}]
        /\ query_table \in [Keys -> Q \cup {0}]
        /\ sent \in [Q -> Srcs \cup {NoSrc, "unsent"}]
        /\ reported \in [Q -> Nat] /\ complete \subseteq Q /\ overwritten \subseteq Q
    BY DEF Init
  <2>3. /\ src2udpfd \in [Srcs -> Fds \cup {NoFd}]
        /\ udpfd2src \in [Fds -> Srcs \cup {NoSrc}]
        /\ sock \in [Fds -> Nat] /\ sockets \in Nat
        /\ writes \subseteq [fd : Fds \cup {Unified}, q : Q]
        /\ answers \subseteq [sock : Nat, q : Q, copies : 1 .. MaxCopies]
        /\ src2bev \in [Srcs -> Conns \cup {0}] /\ bev2src \in [Conns -> Srcs \cup {NoSrc}]
        /\ conns \in 0 .. MaxConns /\ udp_read_event \subseteq Fds
    BY DEF Init
  <2>4. /\ outgoing \in [Conns -> Seq(Q)] /\ stream \in [Conns -> Seq(Unit)]
        /\ server_msg_buffer \in [Conns -> Seq(Unit)]
    BY DEF Init
  <2> QED BY <2>1, <2>2, <2>3, <2>4 DEF Init, TypeOK
<1>2. UdpMaps  BY DEF Init, UdpMaps
<1>3. TcpMaps  BY DEF Init, TcpMaps, Conns
<1> QED BY <1>1, <1>2, <1>3 DEF MapsInv

LEMMA UdpSocketMaps ==
  ASSUME TypeOK, UdpMaps, NEW s \in Srcs, NEW fd \in Fds \cup {Unified}, UdpSocket(s, fd)
  PROVE  /\ src2udpfd' \in [Srcs -> Fds \cup {NoFd}]
         /\ udpfd2src' \in [Fds -> Srcs \cup {NoSrc}]
         /\ udp_read_event' \subseteq Fds /\ sock' \in [Fds -> Nat] /\ sockets' \in Nat
         /\ UdpMaps'
         /\ socket_unify => fd = Unified
         /\ ~socket_unify => fd \in Fds /\ udpfd2src'[fd] = s /\ sock'[fd] # 0
         /\ \A g \in Fds : sock[g] # 0 => udpfd2src'[g] = udpfd2src[g] /\ sock'[g] = sock[g]
<1>1. CASE UNCHANGED <<src2udpfd, udpfd2src, udp_read_event, sock, sockets>>
  <2>1. UdpMaps'  BY <1>1, UdpSame
  <2>2. socket_unify => fd = Unified  BY DEF UdpSocket
  <2>3. ASSUME ~socket_unify PROVE fd \in Fds /\ udpfd2src'[fd] = s /\ sock'[fd] # 0
    <3>1. CASE src2udpfd[s] # NoFd /\ fd = src2udpfd[s]
      <4>1. fd \in Fds  BY <3>1 DEF TypeOK
      <4>2. udpfd2src[fd] = s  BY <3>1, <4>1 DEF UdpMaps
      <4>3. sock[fd] # 0  BY <4>1, <4>2 DEF UdpMaps
      <4> QED BY <1>1, <4>1, <4>2, <4>3
    <3>2. CASE src2udpfd[s] = NoFd /\ fd \in Fds /\ sockets' = sockets + 1
      <4>1. sockets' # sockets  BY <3>2 DEF TypeOK
      <4> QED BY <1>1, <4>1
    <3> QED BY <2>3, <3>1, <3>2 DEF UdpSocket
  <2> QED BY <1>1, <2>1, <2>2, <2>3 DEF TypeOK
<1>2. CASE /\ ~socket_unify /\ src2udpfd[s] = NoFd /\ fd \in Fds /\ LowestFree(fd)
           /\ sockets' = sockets + 1
           /\ sock' = [sock EXCEPT ![fd] = sockets']
           /\ src2udpfd' = [src2udpfd EXCEPT ![s] = fd]
           /\ udpfd2src' = [udpfd2src EXCEPT ![fd] = s]
           /\ udp_read_event' = udp_read_event \cup {fd}
  <2>1. /\ \A g \in Fds : sock'[g] = IF g = fd THEN sockets + 1 ELSE sock[g]
        /\ \A r \in Srcs : src2udpfd'[r] = IF r = s THEN fd ELSE src2udpfd[r]
        /\ \A g \in Fds : udpfd2src'[g] = IF g = fd THEN s ELSE udpfd2src[g]
        /\ sockets \in Nat /\ sock[fd] = 0
    BY <1>2 DEF TypeOK, LowestFree
  <2>2. udpfd2src[fd] = NoSrc /\ \A r \in Srcs : src2udpfd[r] # fd
    BY <1>2, <2>1 DEF UdpMaps
  <2>3. \A r \in Srcs, g \in Fds : (src2udpfd'[r] = g) <=> (udpfd2src'[g] = r)
    BY <1>2, <2>1, <2>2 DEF UdpMaps
  <2>4. \A g \in Fds : /\ udpfd2src'[g] # NoSrc <=> sock'[g] # 0
                       /\ g \in udp_read_event' <=> sock'[g] # 0
    BY <1>2, <2>1 DEF UdpMaps
  <2>5. UdpMaps'  BY <2>3, <2>4 DEF UdpMaps
  <2>6. /\ src2udpfd' \in [Srcs -> Fds \cup {NoFd}]
        /\ udpfd2src' \in [Fds -> Srcs \cup {NoSrc}]
        /\ udp_read_event' \subseteq Fds /\ sock' \in [Fds -> Nat] /\ sockets' \in Nat
    <3>1. src2udpfd' \in [Srcs -> Fds \cup {NoFd}]  BY <1>2 DEF TypeOK
    <3>2. udpfd2src' \in [Fds -> Srcs \cup {NoSrc}]  BY <1>2 DEF TypeOK
    <3>3. udp_read_event' \subseteq Fds  BY <1>2 DEF TypeOK
    <3>4. sockets' \in Nat  BY <1>2, <2>1
    <3>5. sock' \in [Fds -> Nat]  BY <1>2, <3>4 DEF TypeOK
    <3> QED BY <3>1, <3>2, <3>3, <3>4, <3>5
  <2>7. fd \in Fds /\ udpfd2src'[fd] = s /\ sock'[fd] # 0
    BY <1>2, <2>1
  <2>8. \A g \in Fds : sock[g] # 0 => udpfd2src'[g] = udpfd2src[g] /\ sock'[g] = sock[g]
    BY <2>1
  <2> QED BY <1>2, <2>5, <2>6, <2>7, <2>8
<1> QED BY <1>1, <1>2 DEF UdpSocket

LEMMA SendUdpMaps ==
  ASSUME MapsInv, NEW q \in Q, SendUdp(q), UNCHANGED <<setup, status>>
  PROVE  MapsInv'
<1>1. TypeOK /\ UdpMaps /\ TcpMaps  BY DEF MapsInv
<1>2. PICK i \in Ids, fd \in Fds \cup {Unified} :
        /\ id' = [id EXCEPT ![q] = i] /\ UdpSocket(Queries[q].src, fd)
        /\ LogQuery(q, i) /\ WriteEvent(fd, q)
  BY DEF SendUdp, FreshIds
<1>3. Queries[q].src \in Srcs  BY <1>1, SetupFacts
<1>4. /\ src2udpfd' \in [Srcs -> Fds \cup {NoFd}]
      /\ udpfd2src' \in [Fds -> Srcs \cup {NoSrc}]
      /\ udp_read_event' \subseteq Fds /\ sock' \in [Fds -> Nat] /\ sockets' \in Nat
      /\ UdpMaps'
  BY <1>1, <1>2, <1>3, UdpSocketMaps
<1>5. query_table' \in [Keys -> Q \cup {0}] /\ overwritten' \subseteq Q
  BY <1>1, <1>2, LogQueryType
<1>6. UNCHANGED <<sent, answers, timeouts, complete, reported, src2bev, bev2src, conns, outgoing,
                  stream, server_msg_buffer>> /\ todo' \subseteq todo
  BY DEF SendUdp, tcp
<1>7. id' \in [Q -> Ids \cup {-1}] /\ writes' \subseteq [fd : Fds \cup {Unified}, q : Q]
  BY <1>1, <1>2 DEF TypeOK, WriteEvent
<1>8. TypeOK'
  BY <1>1, <1>4, <1>5, <1>6, <1>7, SameSetup DEF TypeOK
<1>9. TcpMaps'  BY <1>1, <1>6, TcpSame
<1> QED BY <1>4, <1>8, <1>9 DEF MapsInv

LEMMA SendTcpMaps ==
  ASSUME MapsInv, NEW q \in Q, SendTcp(q), UNCHANGED <<setup, status>>
  PROVE  MapsInv'
<1>1. TypeOK /\ UdpMaps /\ TcpMaps  BY DEF MapsInv
<1>2. PICK i \in Ids : id' = [id EXCEPT ![q] = i] /\ LogQuery(q, i)
  BY DEF SendTcp, FreshIds
<1>3. PICK s \in Srcs : s = Queries[q].src  BY <1>1, SetupFacts
<1>4. PICK c \in Conns : c = IF src2bev[s] # 0 THEN src2bev[s] ELSE conns + 1
  BY <1>3 DEF SendTcp
<1>5. /\ conns' = IF c > conns THEN c ELSE conns
      /\ src2bev' = [src2bev EXCEPT ![s] = c]
      /\ bev2src' = [bev2src EXCEPT ![c] = s]
      /\ outgoing' = [outgoing EXCEPT ![c] = Append(@, q)]
      /\ sent' = [sent EXCEPT ![q] = s]
      /\ todo' \subseteq todo
      /\ UNCHANGED <<udp, stream, server_msg_buffer, complete, reported>>
  BY <1>3, <1>4 DEF SendTcp
<1>6. query_table' \in [Keys -> Q \cup {0}] /\ overwritten' \subseteq Q
  BY <1>1, <1>2, LogQueryType
<1>7. Conns \subseteq Nat /\ conns \in Nat  BY <1>1 DEF Conns, TypeOK
<1>8. outgoing' \in [Conns -> Seq(Q)]
  <2>1. outgoing[c] \in Seq(Q)  BY <1>1 DEF TypeOK
  <2>2. Append(outgoing[c], q) \in Seq(Q)  BY <2>1
  <2> QED BY <1>1, <1>5, <2>2 DEF TypeOK
<1>9. TypeOK'
  <2>1. conns' \in 0 .. MaxConns  BY <1>1, <1>5, <1>7 DEF Conns, TypeOK
  <2>2. /\ src2bev' \in [Srcs -> Conns \cup {0}] /\ bev2src' \in [Conns -> Srcs \cup {NoSrc}]
        /\ sent' \in [Q -> Srcs \cup {NoSrc, "unsent"}] /\ id' \in [Q -> Ids \cup {-1}]
    BY <1>1, <1>2, <1>5 DEF TypeOK
  <2> QED BY <1>1, <1>5, <1>6, <1>8, <2>1, <2>2, SameSetup DEF TypeOK, udp
<1>10. TcpMaps'
  <2>1. /\ \A r \in Srcs : src2bev'[r] = IF r = s THEN c ELSE src2bev[r]
        /\ \A d \in Conns : bev2src'[d] = IF d = c THEN s ELSE bev2src[d]
    BY <1>1, <1>5 DEF TypeOK
  <2>2. CASE src2bev[s] # 0
    <3>1. c = src2bev[s] /\ bev2src[c] = s  BY <1>1, <1>4, <2>2 DEF TcpMaps
    <3>2. c <= conns  BY <1>1, <1>7, <3>1 DEF TcpMaps
    <3>3. conns' = conns  BY <1>5, <1>7, <3>2
    <3> QED BY <1>1, <2>1, <3>1, <3>3 DEF TcpMaps
  <2>3. CASE src2bev[s] = 0
    <3>1. c = conns + 1 /\ conns' = c  BY <1>4, <1>5, <1>7, <2>3
    <3>2. bev2src[c] = NoSrc  BY <1>1, <1>7, <3>1 DEF TcpMaps
    <3>3. \A r \in Srcs : src2bev[r] # c  BY <1>1, <3>2 DEF TcpMaps
    <3>4. \A d \in Conns : d > conns' => d > conns /\ d # c  BY <1>7, <3>1
    <3>5. 0 \notin Conns  BY DEF Conns
    <3>6. \A r \in Srcs, d \in Conns : (src2bev'[r] = d) <=> (bev2src'[d] = r)
      <4> SUFFICES ASSUME NEW r \in Srcs, NEW d \in Conns
                   PROVE  (src2bev'[r] = d) <=> (bev2src'[d] = r)
        OBVIOUS
      <4>1. (src2bev[r] = d) <=> (bev2src[d] = r)  BY <1>1 DEF TcpMaps
      <4> QED BY <2>1, <2>3, <3>2, <3>3, <3>5, <4>1
    <3> QED BY <1>1, <2>1, <3>4, <3>6 DEF TcpMaps
  <2> QED BY <2>2, <2>3
<1>11. UdpMaps'  BY <1>1, <1>5, UdpSame DEF udp
<1> QED BY <1>9, <1>10, <1>11 DEF MapsInv

LEMMA TimeoutMaps ==
  ASSUME MapsInv, NEW fd \in Fds, UdpReadTimeout(fd), UNCHANGED <<setup, status>>
  PROVE  MapsInv'
<1>1. TypeOK /\ UdpMaps /\ TcpMaps  BY DEF MapsInv
<1>2. fd \in udp_read_event  BY DEF UdpReadTimeout
<1>3. udpfd2src[fd] # NoSrc  BY <1>1, <1>2 DEF UdpMaps
<1>4. PICK s \in Srcs : s = udpfd2src[fd]  BY <1>1, <1>3 DEF TypeOK
<1>5. src2udpfd[s] = fd  BY <1>1, <1>4 DEF UdpMaps
<1>6. /\ src2udpfd' = [src2udpfd EXCEPT ![s] = NoFd]
      /\ udpfd2src' = [udpfd2src EXCEPT ![fd] = NoSrc]
      /\ sock' = [sock EXCEPT ![fd] = 0] /\ udp_read_event' = udp_read_event \ {fd}
      /\ timeouts' = timeouts + 1
      /\ UNCHANGED <<todo, id, query_table, sockets, writes, sent, answers, tcp,
                     complete, reported, overwritten>>
  BY <1>3, <1>4 DEF UdpReadTimeout
<1>7. TypeOK'
  <2>1. /\ src2udpfd' \in [Srcs -> Fds \cup {NoFd}]
        /\ udpfd2src' \in [Fds -> Srcs \cup {NoSrc}] /\ sock' \in [Fds -> Nat]
        /\ timeouts' \in Nat
    BY <1>1, <1>6 DEF TypeOK
  <2> QED BY <1>1, <1>6, <2>1, SameSetup DEF TypeOK, tcp
<1>8. UdpMaps'
  <2>1. /\ \A g \in Fds : sock'[g] = IF g = fd THEN 0 ELSE sock[g]
        /\ \A r \in Srcs : src2udpfd'[r] = IF r = s THEN NoFd ELSE src2udpfd[r]
        /\ \A g \in Fds : udpfd2src'[g] = IF g = fd THEN NoSrc ELSE udpfd2src[g]
    BY <1>1, <1>6 DEF TypeOK
  <2>2. \A r \in Srcs, g \in Fds : (src2udpfd'[r] = g) <=> (udpfd2src'[g] = r)
    BY <1>1, <1>4, <1>5, <2>1 DEF UdpMaps
  <2>3. \A g \in Fds : /\ udpfd2src'[g] # NoSrc <=> sock'[g] # 0
                       /\ g \in udp_read_event' <=> sock'[g] # 0
    BY <1>1, <1>6, <2>1 DEF UdpMaps
  <2> QED BY <2>2, <2>3 DEF UdpMaps
<1>9. TcpMaps'  BY <1>1, <1>6, TcpSame DEF tcp
<1> QED BY <1>7, <1>8, <1>9 DEF MapsInv

LEMMA UdpWriteMaps ==
  ASSUME MapsInv, NEW w \in writes, ServerUdpWrite(w), UNCHANGED <<setup, status>>
  PROVE  MapsInv'
<1>1. TypeOK /\ UdpMaps /\ TcpMaps  BY DEF MapsInv
<1>2. w.fd \in Fds \cup {Unified} /\ w.q \in Q  BY <1>1 DEF TypeOK
<1>3. /\ writes' = writes \ {w}
      /\ sent' = [sent EXCEPT ![w.q] = IF w.fd = Unified THEN NoSrc ELSE udpfd2src[w.fd]]
      /\ UNCHANGED <<todo, id, query_table, src2udpfd, udpfd2src, udp_read_event, sock,
                     sockets, timeouts, tcp, complete, reported, overwritten>>
  BY DEF ServerUdpWrite
<1>4. PICK n \in 1 .. MaxCopies, k \in Nat :
        answers' = answers \cup {[sock |-> k, q |-> w.q, copies |-> n]}
  <2>1. (IF w.fd = Unified THEN 0 ELSE sock[w.fd]) \in Nat  BY <1>1, <1>2 DEF TypeOK
  <2> QED BY <2>1 DEF ServerUdpWrite
<1>5. answers' \subseteq [sock : Nat, q : Q, copies : 1 .. MaxCopies]
  BY <1>1, <1>2, <1>4 DEF TypeOK
<1>6. sent' \in [Q -> Srcs \cup {NoSrc, "unsent"}]
  BY <1>1, <1>2, <1>3 DEF TypeOK
<1>7. TypeOK'
  BY <1>1, <1>3, <1>5, <1>6, SameSetup DEF TypeOK, tcp
<1> QED BY <1>1, <1>3, <1>7, UdpSame, TcpSame DEF MapsInv, tcp

LEMMA UdpReadMaps ==
  ASSUME MapsInv, NEW a \in answers, ServerUdpRead(a), UNCHANGED <<setup, status>>
  PROVE  MapsInv'
<1>1. TypeOK /\ UdpMaps /\ TcpMaps  BY DEF MapsInv
<1>2. a \in [sock : Nat, q : Q, copies : 1 .. MaxCopies]  BY <1>1 DEF TypeOK
<1>3. query_table' \in [Keys -> Q \cup {0}] /\ reported' \in [Q -> Nat]
  <2>1. ReportAnswer(a.q) /\ a.q \in Q  BY <1>2 DEF ServerUdpRead
  <2>2. CASE output_option = "latency"
    BY <1>1, <2>1, <2>2, SendtoManagerType DEF ReportAnswer
  <2>3. CASE output_option = "timing"
    BY <1>1, <2>1, <2>3 DEF ReportAnswer, TypeOK
  <2>4. CASE output_option \notin {"latency", "timing"}
    BY <1>1, <2>1, <2>4 DEF ReportAnswer, TypeOK
  <2> QED BY <2>2, <2>3, <2>4
<1>4. /\ answers' = (answers \ {a}) \cup
                     (IF a.copies > 1 THEN {[a EXCEPT !.copies = @ - 1]} ELSE {})
      /\ complete' = complete \cup {a.q}
      /\ UNCHANGED <<todo, id, src2udpfd, udpfd2src, udp_read_event, sock, sockets, writes,
                     sent, timeouts, tcp, overwritten>>
  BY DEF ServerUdpRead
<1>5. answers' \subseteq [sock : Nat, q : Q, copies : 1 .. MaxCopies]
  <2>1. a.copies > 1 => [a EXCEPT !.copies = @ - 1] \in [sock : Nat, q : Q, copies : 1 .. MaxCopies]
    BY <1>2
  <2> QED BY <1>1, <1>4, <2>1 DEF TypeOK
<1>6. TypeOK'
  BY <1>1, <1>2, <1>3, <1>4, <1>5, SameSetup DEF TypeOK, tcp
<1> QED BY <1>1, <1>4, <1>6, UdpSame, TcpSame DEF MapsInv, tcp

LEMMA AnswersMaps ==
  ASSUME MapsInv, NEW c \in Conns, ServerAnswers(c), UNCHANGED <<setup, status>>
  PROVE  MapsInv'
<1>1. TypeOK /\ UdpMaps /\ TcpMaps  BY DEF MapsInv
<1>2. outgoing[c] \in Seq(Q) /\ outgoing[c] # <<>> /\ stream[c] \in Seq(Unit)
  BY <1>1 DEF ServerAnswers, TypeOK
<1>3. PICK h \in Q : h = Head(outgoing[c])  BY <1>2
<1>4. Tail(outgoing[c]) \in Seq(Q)  BY <1>2
<1>5. PICK u \in Unit, v \in Unit : u = [part |-> "length", q |-> h] /\ v = [part |-> "body", q |-> h]
  BY DEF Unit
<1>6. stream[c] \o <<u, v>> \in Seq(Unit)
  <2>1. <<u, v>> \in Seq(Unit)  OBVIOUS
  <2> HIDE <1>5
  <2> QED BY <1>2, <2>1, ConcatProperties
<1>7. /\ outgoing' = [outgoing EXCEPT ![c] = Tail(outgoing[c])]
      /\ stream' = [stream EXCEPT ![c] = stream[c] \o <<u, v>>]
      /\ UNCHANGED <<todo, id, query_table, udp, sent, src2bev, bev2src, conns,
                     server_msg_buffer, complete, reported, overwritten>>
  BY <1>3, <1>5 DEF ServerAnswers
<1>8. outgoing' \in [Conns -> Seq(Q)] /\ stream' \in [Conns -> Seq(Unit)]
  <2> HIDE <1>5
  <2> QED BY <1>1, <1>4, <1>6, <1>7 DEF TypeOK
<1>9. TypeOK'
  BY <1>1, <1>7, <1>8, SameSetup DEF TypeOK, udp
<1> QED BY <1>1, <1>7, <1>9, UdpSame, TcpSame DEF MapsInv, udp

LEMMA EventMaps ==
  ASSUME MapsInv, NEW c \in Conns, ServerEvent(c), UNCHANGED <<setup, status>>
  PROVE  MapsInv'
<1>1. TypeOK /\ UdpMaps /\ TcpMaps  BY DEF MapsInv
<1>2. PICK s \in Srcs : s = bev2src[c]  BY <1>1 DEF ServerEvent, TypeOK
<1>3. /\ src2bev' = [src2bev EXCEPT ![s] = 0]
      /\ bev2src' = [bev2src EXCEPT ![c] = NoSrc]
      /\ server_msg_buffer' = [server_msg_buffer EXCEPT ![c] = <<>>]
      /\ outgoing' = [outgoing EXCEPT ![c] = <<>>] /\ stream' = [stream EXCEPT ![c] = <<>>]
      /\ UNCHANGED <<todo, id, query_table, udp, sent, conns, complete, reported, overwritten>>
  BY <1>2 DEF ServerEvent
<1>4. /\ outgoing' \in [Conns -> Seq(Q)] /\ stream' \in [Conns -> Seq(Unit)]
      /\ server_msg_buffer' \in [Conns -> Seq(Unit)]
  BY <1>1, <1>3 DEF TypeOK
<1>5. src2bev' \in [Srcs -> Conns \cup {0}] /\ bev2src' \in [Conns -> Srcs \cup {NoSrc}]
  BY <1>1, <1>3 DEF TypeOK
<1>6. TypeOK'
  BY <1>1, <1>3, <1>4, <1>5, SameSetup DEF TypeOK, udp
<1>7. TcpMaps'
  <2>1. /\ \A r \in Srcs : src2bev'[r] = IF r = s THEN 0 ELSE src2bev[r]
        /\ \A d \in Conns : bev2src'[d] = IF d = c THEN NoSrc ELSE bev2src[d]
        /\ conns' = conns
    BY <1>1, <1>3 DEF TypeOK
  <2>2. 0 \notin Conns /\ src2bev[s] = c  BY <1>1, <1>2 DEF Conns, TcpMaps
  <2>3. ASSUME NEW r \in Srcs, NEW d \in Conns
        PROVE  (src2bev'[r] = d) <=> (bev2src'[d] = r)
    <3>1. (src2bev[r] = d) <=> (bev2src[d] = r)  BY <1>1 DEF TcpMaps
    <3> QED BY <1>2, <2>1, <2>2, <3>1
  <2> QED BY <1>1, <2>1, <2>3 DEF TcpMaps
<1> QED BY <1>1, <1>3, <1>6, <1>7, UdpSame DEF MapsInv, udp

(* What a read of n units takes from a connection and leaves on it.        *)
LEMMA ReadFacts ==
  ASSUME TypeOK, NEW c \in Conns, NEW n \in 1 .. Len(stream[c])
  PROVE  /\ stream[c] \in Seq(Unit) /\ Len(stream[c]) \in Nat /\ n \in Nat
         /\ SubSeq(stream[c], 1, n) \in Seq(Unit) /\ Len(SubSeq(stream[c], 1, n)) = n
         /\ \A i \in 1 .. n : SubSeq(stream[c], 1, n)[i] = stream[c][i]
         /\ SubSeq(stream[c], n + 1, Len(stream[c])) \in Seq(Unit)
         /\ Len(SubSeq(stream[c], n + 1, Len(stream[c]))) = Len(stream[c]) - n
         /\ \A i \in 1 .. Len(stream[c]) - n :
              SubSeq(stream[c], n + 1, Len(stream[c]))[i] = stream[c][i + n]
<1>1. stream[c] \in Seq(Unit)  BY DEF TypeOK
<1>2. PICK l \in Nat : l = Len(stream[c])  BY <1>1
<1>3. /\ n \in Nat /\ n <= l /\ \A i \in 1 .. l : stream[c][i] \in Unit
  BY <1>1, <1>2
<1>4. /\ \A i \in 1 .. n : stream[c][i] \in Unit
      /\ \A i \in n + 1 .. l : stream[c][i] \in Unit
  BY <1>3
<1>5. /\ SubSeq(stream[c], 1, n) \in Seq(Unit)
      /\ Len(SubSeq(stream[c], 1, n)) = n
      /\ \A i \in 1 .. n : SubSeq(stream[c], 1, n)[i] = stream[c][i]
  <2>1. /\ SubSeq(stream[c], 1, n) \in Seq(Unit)
        /\ Len(SubSeq(stream[c], 1, n)) = IF 1 <= n THEN n - 1 + 1 ELSE 0
        /\ \A i \in 1 .. n - 1 + 1 : SubSeq(stream[c], 1, n)[i] = stream[c][1 + i - 1]
    BY <1>3, <1>4, SubSeqProperties
  <2>2. n - 1 + 1 = n /\ 1 <= n /\ \A i \in 1 .. n : 1 + i - 1 = i  BY <1>3
  <2> QED BY <2>1, <2>2
<1>6. /\ SubSeq(stream[c], n + 1, l) \in Seq(Unit)
      /\ Len(SubSeq(stream[c], n + 1, l)) = l - n
      /\ \A i \in 1 .. l - n : SubSeq(stream[c], n + 1, l)[i] = stream[c][i + n]
  <2>1. /\ SubSeq(stream[c], n + 1, l) \in Seq(Unit)
        /\ Len(SubSeq(stream[c], n + 1, l)) = IF n + 1 <= l THEN l - (n + 1) + 1 ELSE 0
        /\ \A i \in 1 .. l - (n + 1) + 1 : SubSeq(stream[c], n + 1, l)[i] = stream[c][n + 1 + i - 1]
    BY <1>3, <1>4, SubSeqProperties
  <2>2. l - (n + 1) + 1 = l - n /\ \A i \in 1 .. l - n : n + 1 + i - 1 = i + n  BY <1>3
  <2>3. ~(n + 1 <= l) => l - n = 0  BY <1>3
  <2> QED BY <2>1, <2>2, <2>3
<1> QED BY <1>1, <1>2, <1>3, <1>5, <1>6

LEMMA ReadMaps ==
  ASSUME MapsInv, NEW c \in Conns, NEW n \in 1 .. Len(stream[c]), ServerRead(c, n),
         UNCHANGED <<setup, status>>
  PROVE  MapsInv'
<1>1. TypeOK /\ UdpMaps /\ TcpMaps  BY DEF MapsInv
<1> DEFINE data == SubSeq(stream[c], 1, n)
           buf  == server_msg_buffer[c] \o data
<1>2. /\ stream' = [stream EXCEPT ![c] = SubSeq(stream[c], n + 1, Len(stream[c]))]
      /\ complete' = complete \cup Bodies(data)
      /\ UNCHANGED <<todo, id, udp, sent, src2bev, bev2src, conns, outgoing, overwritten>>
  BY DEF ServerRead
<1>3. stream' \in [Conns -> Seq(Unit)]
  <2>1. SubSeq(stream[c], n + 1, Len(stream[c])) \in Seq(Unit)  BY <1>1, ReadFacts
  <2> QED BY <1>1, <1>2, <2>1 DEF TypeOK
<1>4. data \in Seq(Unit) /\ Len(data) = n /\ n \in Nat /\ n >= 1
      /\ server_msg_buffer[c] \in Seq(Unit)
  BY <1>1, ReadFacts, SMTT(60) DEF TypeOK
<1>5. Bodies(data) \subseteq Q
  <2> HIDE DEF data
  <2>1. \A i \in DOMAIN data : data[i].q \in Q  BY <1>4, UnitFacts
  <2> QED BY <2>1 DEF Bodies
<1>6. buf \in Seq(Unit) /\ Len(buf) \in Nat /\ Len(buf) >= 1
  <2>1. Len(server_msg_buffer[c]) \in Nat  BY <1>4
  <2>2. buf \in Seq(Unit) /\ Len(buf) = Len(server_msg_buffer[c]) + Len(data)
    <3> HIDE DEF data
    <3> QED BY <1>4, ConcatProperties, ZenonT(60)
  <2> HIDE DEF data, buf
  <2> QED BY <1>4, <2>1, <2>2
<1>7. Rest(buf) \in Seq(Unit)
  <2> HIDE DEF buf, data
  <2>1. buf[Len(buf)] \in Unit  BY <1>6
  <2>2. <<buf[Len(buf)]>> \in Seq(Unit)  BY <2>1
  <2> QED BY <2>2 DEF Rest
<1>8. /\ query_table' \in [Keys -> Q \cup {0}] /\ reported' \in [Q -> Nat]
      /\ server_msg_buffer' \in [Conns -> Seq(Unit)]
  <2>1. CASE output_option = "timing"
    <3>1. /\ server_msg_buffer' = [server_msg_buffer EXCEPT ![c] = Rest(buf)]
          /\ reported' = [q \in Q |-> reported[q] + (IF q \in Bodies(buf) THEN 1 ELSE 0)]
          /\ UNCHANGED query_table
      BY <2>1 DEF ServerRead
    <3> HIDE DEF buf, data
    <3> QED BY <1>1, <1>7, <3>1 DEF TypeOK
  <2>2. CASE output_option = "latency"
    <3>1. /\ \/ SendtoManager(data[1].q)
             \/ UNCHANGED <<reported, query_table>>
          /\ UNCHANGED server_msg_buffer
      BY <2>2 DEF ServerRead
    <3> HIDE DEF buf, data
    <3>2. data[1].q \in Q  BY <1>4, UnitFacts
    <3> QED BY <1>1, <3>1, <3>2, SendtoManagerType DEF TypeOK
  <2>3. CASE output_option \notin {"timing", "latency"}
    BY <1>1, <2>3 DEF ServerRead, TypeOK
  <2> QED BY <2>1, <2>2, <2>3
<1> HIDE DEF buf, data
<1>9. TypeOK'
  BY <1>1, <1>2, <1>3, <1>5, <1>8, SameSetup DEF TypeOK, udp
<1> QED BY <1>1, <1>2, <1>9, UdpSame, TcpSame DEF MapsInv, udp

LEMMA NextMaps == MapsInv /\ [Next]_vars => MapsInv'
<1> SUFFICES ASSUME MapsInv, [Next]_vars PROVE MapsInv'
  OBVIOUS
<1>1. CASE SendQuery
  <2>1. PICK q \in Q : SendEmpty(q) \/ SendUdp(q) \/ SendTcp(q)  BY <1>1 DEF SendQuery
  <2>2. UNCHANGED <<setup, status>>  BY <1>1 DEF SendQuery, Running
  <2>3. CASE SendEmpty(q)
    <3>1. TypeOK'
      BY <2>2, <2>3, SameSetup DEF MapsInv, SendEmpty, udp, tcp, TypeOK
    <3> QED BY <2>3, <3>1, UdpSame, TcpSame DEF MapsInv, SendEmpty, udp, tcp
  <2> QED BY <2>1, <2>2, <2>3, SendUdpMaps, SendTcpMaps
<1>2. CASE UdpWrite
  BY <1>2, UdpWriteMaps DEF UdpWrite, Running
<1>3. CASE LogErr \/ UNCHANGED vars
  <2>1. /\ UNCHANGED <<setup, todo, id, query_table, udp, sent, tcp, complete, reported, overwritten>>
        /\ status' = status \/ status' = "exited"
    BY <1>3 DEF LogErr, vars
  <2>2. TypeOK'
    BY <2>1, SameSetup DEF MapsInv, udp, tcp, TypeOK
  <2> QED BY <2>1, <2>2, UdpSame, TcpSame DEF MapsInv, udp, tcp
<1>4. CASE Running /\ \E fd \in Fds : UdpReadTimeout(fd)
  BY <1>4, TimeoutMaps DEF Running
<1>5. CASE Running /\ \E a \in answers : ServerUdpRead(a)
  BY <1>5, UdpReadMaps DEF Running
<1>6. CASE Running /\ \E c \in Conns : ServerAnswers(c) \/ ServerEvent(c)
  BY <1>6, AnswersMaps, EventMaps DEF Running
<1>7. CASE Running /\ \E c \in Conns : \E n \in 1 .. Len(stream[c]) : ServerRead(c, n)
  BY <1>7, ReadMaps DEF Running
<1> QED BY <1>1, <1>2, <1>3, <1>4, <1>5, <1>6, <1>7 DEF Next

LEMMA MapsSteps == Spec => []MapsInv
  BY InitMaps, NextMaps, PTL DEF Spec

(* Sources map one to one to open UDP sockets and to TCP connections in    *)
(* every reachable state, however descriptor numbers are used again.       *)
THEOREM SocketMapsCorrect == Spec => []SocketMaps
<1>1. MapsInv => SocketMaps  BY DEF MapsInv, SocketMaps, UdpMaps, TcpMaps
<1> QED BY <1>1, MapsSteps, PTL
-----------------------------------------------------------------------------
(* OwnSocket, and that a write event waits on the open socket of its       *)
(* query's source.                                                         *)
OwnInv ==
  ~socket_unify /\ timeouts = 0 =>
    /\ \A q \in Q : sent[q] \in {"unsent", Queries[q].src}
    /\ \A w \in writes : /\ w.fd \in Fds /\ sock[w.fd] # 0
                         /\ udpfd2src[w.fd] = Queries[w.q].src

LEMMA InitOwn == Init => OwnInv
  BY DEF Init, OwnInv

LEMMA OwnSame ==
  ASSUME OwnInv, UNCHANGED <<setup, timeouts, sent, writes, sock, udpfd2src>>
  PROVE  OwnInv'
  BY SameSetup DEF OwnInv

LEMMA SendUdpOwn ==
  ASSUME MapsInv, OwnInv, NEW q \in Q, SendUdp(q), UNCHANGED <<setup, status>>
  PROVE  OwnInv'
<1> SUFFICES ASSUME ~socket_unify, timeouts = 0
             PROVE  /\ \A r \in Q : sent'[r] \in {"unsent", Queries[r].src}
                    /\ \A w \in writes' : /\ w.fd \in Fds /\ sock'[w.fd] # 0
                                          /\ udpfd2src'[w.fd] = Queries[w.q].src
  <2>1. timeouts' = timeouts  BY DEF SendUdp
  <2> QED BY <2>1, SameSetup DEF OwnInv
<1>1. TypeOK /\ UdpMaps  BY DEF MapsInv
<1>2. PICK i \in Ids, fd \in Fds \cup {Unified} :
        UdpSocket(Queries[q].src, fd) /\ WriteEvent(fd, q)
  BY DEF SendUdp, FreshIds
<1>3. Queries[q].src \in Srcs  BY <1>1, SetupFacts
<1>4. /\ fd \in Fds /\ udpfd2src'[fd] = Queries[q].src /\ sock'[fd] # 0
      /\ \A g \in Fds : sock[g] # 0 => udpfd2src'[g] = udpfd2src[g] /\ sock'[g] = sock[g]
  BY <1>1, <1>2, <1>3, UdpSocketMaps
<1>5. sent' = sent /\ \A w \in writes' : w \in writes \/ w = [fd |-> fd, q |-> q]
  BY <1>2 DEF SendUdp, WriteEvent
<1>6. ASSUME NEW w \in writes'
      PROVE  w.fd \in Fds /\ sock'[w.fd] # 0 /\ udpfd2src'[w.fd] = Queries[w.q].src
  <2>1. CASE w \in writes  BY <1>4, <2>1 DEF OwnInv
  <2>2. CASE w = [fd |-> fd, q |-> q]
    <3>1. w.fd = fd /\ w.q = q  BY <2>2
    <3> QED BY <1>4, <3>1
  <2> QED BY <1>5, <2>1, <2>2
<1> QED BY <1>5, <1>6 DEF OwnInv

LEMMA NextOwn == MapsInv /\ OwnInv /\ [Next]_vars => OwnInv'
<1> SUFFICES ASSUME MapsInv, OwnInv, [Next]_vars PROVE OwnInv'
  OBVIOUS
<1>0. TypeOK  BY DEF MapsInv
<1>1. CASE SendQuery
  <2>1. PICK q \in Q : SendEmpty(q) \/ SendUdp(q) \/ SendTcp(q)  BY <1>1 DEF SendQuery
  <2>2. UNCHANGED <<setup, status>>  BY <1>1 DEF SendQuery, Running
  <2>3. CASE SendEmpty(q)  BY <2>2, <2>3, OwnSame DEF SendEmpty, udp
  <2>4. CASE SendUdp(q)  BY <2>2, <2>4, SendUdpOwn
  <2>5. CASE SendTcp(q)
    <3>1. /\ sent' = [sent EXCEPT ![q] = Queries[q].src]
          /\ UNCHANGED <<writes, sock, udpfd2src, timeouts>>
      BY <2>5 DEF SendTcp, udp
    <3>2. \A r \in Q : sent'[r] = IF r = q THEN Queries[q].src ELSE sent[r]
      BY <1>0, <3>1 DEF TypeOK
    <3> QED BY <2>2, <3>1, <3>2, SameSetup DEF OwnInv
  <2> QED BY <2>1, <2>3, <2>4, <2>5
<1>2. CASE UdpWrite
  <2>1. PICK w \in writes : ServerUdpWrite(w)  BY <1>2 DEF UdpWrite
  <2>2. /\ writes' = writes \ {w} /\ UNCHANGED <<udpfd2src, sock, timeouts, setup>>
        /\ sent' = [sent EXCEPT ![w.q] = IF w.fd = Unified THEN NoSrc ELSE udpfd2src[w.fd]]
    BY <1>2, <2>1 DEF ServerUdpWrite, UdpWrite, Running
  <2>3. ASSUME ~socket_unify, timeouts = 0
        PROVE  \A r \in Q : sent'[r] \in {"unsent", Queries[r].src}
    <3>1. w.fd \in Fds /\ udpfd2src[w.fd] = Queries[w.q].src  BY <2>3 DEF OwnInv
    <3>2. w.fd # Unified  BY <3>1 DEF Unified
    <3>3. \A r \in Q : sent'[r] = IF r = w.q THEN Queries[r].src ELSE sent[r]
      BY <1>0, <2>2, <3>1, <3>2 DEF TypeOK
    <3> QED BY <2>3, <3>3 DEF OwnInv
  <2> QED BY <2>2, <2>3, SameSetup DEF OwnInv
<1>3. CASE LogErr \/ UNCHANGED vars
  BY <1>3, OwnSame DEF LogErr, vars, udp
<1>4. CASE Running /\ \E fd \in Fds : UdpReadTimeout(fd)
  <2>1. timeouts' = timeouts + 1  BY <1>4 DEF UdpReadTimeout
  <2>2. timeouts' # 0  BY <1>0, <2>1 DEF TypeOK
  <2> QED BY <2>2 DEF OwnInv
<1>5. CASE Running /\ \E a \in answers : ServerUdpRead(a)
  BY <1>5, OwnSame DEF Running, ServerUdpRead
<1>6. CASE Running /\ \E c \in Conns : ServerAnswers(c) \/ ServerEvent(c)
  BY <1>6, OwnSame DEF Running, ServerAnswers, ServerEvent, udp
<1>7. CASE Running /\ \E c \in Conns : \E n \in 1 .. Len(stream[c]) : ServerRead(c, n)
  <2>1. UNCHANGED <<udp, sent, setup>>  BY <1>7 DEF Running, ServerRead
  <2> QED BY <2>1, OwnSame DEF udp
<1> QED BY <1>1, <1>2, <1>3, <1>4, <1>5, <1>6, <1>7 DEF Next

(* As long as no UDP socket has timed out, a query leaves from the socket  *)
(* of its own source, whichever sockets are opened in between.             *)
THEOREM OwnSocketCorrect == Spec => []OwnSocket
<1>1. OwnInv => OwnSocket  BY DEF OwnInv, OwnSocket
<1> QED BY <1>1, InitOwn, NextOwn, MapsSteps, PTL DEF Spec
-----------------------------------------------------------------------------
(* What is on the way belongs to a query that was sent, over UDP or over   *)
(* TCP; and in the stream of a connection a length is followed by its body. *)
Under(q, t) == q \notin todo /\ Queries[q].raw /\ (UseTcp(q) <=> t)
FlightInv ==
  /\ \A w \in writes : Under(w.q, FALSE)
  /\ \A a \in answers : Under(a.q, FALSE)
  /\ \A c \in Conns : \A i \in DOMAIN outgoing[c] : Under(outgoing[c][i], TRUE)
  /\ \A c \in Conns : \A i \in DOMAIN stream[c] : Under(stream[c][i].q, TRUE)
PairInv ==
  \A c \in Conns : \A i \in DOMAIN stream[c] : stream[c][i].part = "length" =>
    /\ i + 1 \in DOMAIN stream[c]
    /\ stream[c][i + 1].part = "body" /\ stream[c][i + 1].q = stream[c][i].q

LEMMA InitFlight == Init => FlightInv /\ PairInv
  BY DEF Init, FlightInv, PairInv

LEMMA UnderStays ==
  ASSUME todo' \subseteq todo, setup' = setup, NEW q, NEW t, Under(q, t)
  PROVE  Under(q, t)'
  BY SameSetup DEF Under, UseTcp

(* A step that puts nothing new on the way.                                *)
LEMMA FlightShrinks ==
  ASSUME FlightInv, todo' \subseteq todo, setup' = setup,
         \A w \in writes' : w \in writes \/ Under(w.q, FALSE)',
         \A a \in answers' : (\E b \in answers : b.q = a.q) \/ Under(a.q, FALSE)',
         \A c \in Conns : \A i \in DOMAIN outgoing'[c] :
           (\E j \in DOMAIN outgoing[c] : outgoing'[c][i] = outgoing[c][j])
           \/ \E q : q = outgoing'[c][i] /\ Under(q, TRUE)',
         \A c \in Conns : \A i \in DOMAIN stream'[c] :
           (\E j \in DOMAIN stream[c] : stream'[c][i] = stream[c][j])
           \/ \E q : q = stream'[c][i].q /\ Under(q, TRUE)'
  PROVE  FlightInv'
<1> USE UnderStays
<1>1. \A w \in writes' : Under(w.q, FALSE)'
  <2> SUFFICES ASSUME NEW w \in writes' PROVE Under(w.q, FALSE)'
    OBVIOUS
  <2>1. CASE w \in writes  BY <2>1 DEF FlightInv
  <2> QED BY <2>1
<1>2. \A a \in answers' : Under(a.q, FALSE)'
  <2> SUFFICES ASSUME NEW a \in answers' PROVE Under(a.q, FALSE)'
    OBVIOUS
  <2>1. CASE \E b \in answers : b.q = a.q
    <3>1. Under(a.q, FALSE)  BY <2>1 DEF FlightInv
    <3> QED BY <3>1
  <2> QED BY <2>1
<1>3. ASSUME NEW c \in Conns, NEW i \in DOMAIN outgoing'[c], NEW q, q = outgoing'[c][i]
      PROVE  Under(q, TRUE)'
  <2>1. CASE \E j \in DOMAIN outgoing[c] : outgoing'[c][i] = outgoing[c][j]
    <3>1. Under(q, TRUE)  BY <1>3, <2>1 DEF FlightInv
    <3> QED BY <3>1
  <2> QED BY <1>3, <2>1
<1>4. ASSUME NEW c \in Conns, NEW i \in DOMAIN stream'[c], NEW q, q = stream'[c][i].q
      PROVE  Under(q, TRUE)'
  <2>1. CASE \E j \in DOMAIN stream[c] : stream'[c][i] = stream[c][j]
    <3>1. Under(q, TRUE)  BY <1>4, <2>1 DEF FlightInv
    <3> QED BY <3>1
  <2> QED BY <1>4, <2>1
<1> QED BY <1>1, <1>2, <1>3, <1>4 DEF FlightInv

(* The sequences of the connections, before and after a step: a query is   *)
(* appended, the server answers the first, a connection is closed, and     *)
(* n units are read.                                                       *)
LEMMA SendTcpSeqs ==
  ASSUME TypeOK, NEW q \in Q, SendTcp(q)
  PROVE  \E c \in Conns :
           /\ \A d \in Conns : d # c => outgoing'[d] = outgoing[d]
           /\ DOMAIN outgoing[c] = 1 .. Len(outgoing[c]) /\ Len(outgoing[c]) \in Nat
           /\ DOMAIN outgoing'[c] = 1 .. Len(outgoing[c]) + 1
           /\ \A i \in 1 .. Len(outgoing[c]) : outgoing'[c][i] = outgoing[c][i]
           /\ outgoing'[c][Len(outgoing[c]) + 1] = q
<1>1. PICK c \in Conns : outgoing' = [outgoing EXCEPT ![c] = Append(@, q)]
  BY DEF SendTcp
<1>2. outgoing[c] \in Seq(Q) /\ DOMAIN outgoing = Conns  BY DEF TypeOK
<1>3. outgoing'[c] = Append(outgoing[c], q) /\ \A d \in Conns : d # c => outgoing'[d] = outgoing[d]
  BY <1>1, <1>2
<1>4. /\ DOMAIN outgoing[c] = 1 .. Len(outgoing[c]) /\ Len(outgoing[c]) \in Nat
      /\ DOMAIN Append(outgoing[c], q) = 1 .. Len(outgoing[c]) + 1
      /\ \A i \in 1 .. Len(outgoing[c]) : Append(outgoing[c], q)[i] = outgoing[c][i]
      /\ Append(outgoing[c], q)[Len(outgoing[c]) + 1] = q
  BY <1>2
<1> QED BY <1>3, <1>4

LEMMA AnswersSeqs ==
  ASSUME TypeOK, NEW c \in Conns, ServerAnswers(c)
  PROVE  \E l \in Nat, m \in Nat, h \in Q :
           /\ \A d \in Conns : d # c => outgoing'[d] = outgoing[d] /\ stream'[d] = stream[d]
           /\ DOMAIN outgoing[c] = 1 .. m + 1 /\ h = outgoing[c][1]
           /\ DOMAIN outgoing'[c] = 1 .. m
           /\ \A i \in 1 .. m : outgoing'[c][i] = outgoing[c][i + 1]
           /\ DOMAIN stream[c] = 1 .. l /\ DOMAIN stream'[c] = 1 .. l + 2
           /\ \A i \in 1 .. l : stream'[c][i] = stream[c][i]
           /\ stream'[c][l + 1].part = "length" /\ stream'[c][l + 1].q = h
           /\ stream'[c][l + 2].part = "body" /\ stream'[c][l + 2].q = h
<1>1. outgoing[c] \in Seq(Q) /\ outgoing[c] # <<>> /\ stream[c] \in Seq(Unit)
      /\ DOMAIN outgoing = Conns /\ DOMAIN stream = Conns
  BY DEF ServerAnswers, TypeOK
<1>2. PICK h \in Q : h = Head(outgoing[c])  BY <1>1
<1>3. PICK u \in Unit, v \in Unit : u = [part |-> "length", q |-> h] /\ v = [part |-> "body", q |-> h]
  BY DEF Unit
<1>4. u.part = "length" /\ u.q = h /\ v.part = "body" /\ v.q = h  BY <1>3
<1>5. /\ outgoing' = [outgoing EXCEPT ![c] = Tail(outgoing[c])]
      /\ stream' = [stream EXCEPT ![c] = stream[c] \o <<u, v>>]
  BY <1>2, <1>3 DEF ServerAnswers
<1> HIDE <1>3
<1>6. /\ \A d \in Conns : d # c => outgoing'[d] = outgoing[d] /\ stream'[d] = stream[d]
      /\ outgoing'[c] = Tail(outgoing[c]) /\ stream'[c] = stream[c] \o <<u, v>>
  BY <1>1, <1>5
<1>7. PICK m \in Nat : m + 1 = Len(outgoing[c])
  <2>1. Len(outgoing[c]) \in Nat /\ Len(outgoing[c]) >= 1  BY <1>1
  <2>2. Len(outgoing[c]) - 1 \in Nat /\ (Len(outgoing[c]) - 1) + 1 = Len(outgoing[c])  BY <2>1
  <2> QED BY <2>2
<1>8. /\ DOMAIN outgoing[c] = 1 .. m + 1 /\ h = outgoing[c][1]
      /\ DOMAIN outgoing'[c] = 1 .. m
      /\ \A i \in 1 .. m : outgoing'[c][i] = outgoing[c][i + 1]
  <2>1. Len(outgoing[c]) - 1 = m  BY <1>7
  <2> QED BY <1>1, <1>2, <1>6, <1>7, <2>1
<1>9. PICK l \in Nat : l = Len(stream[c])  BY <1>1
<1>10. /\ DOMAIN stream[c] = 1 .. l /\ DOMAIN stream'[c] = 1 .. l + 2
       /\ \A i \in 1 .. l : stream'[c][i] = stream[c][i]
       /\ stream'[c][l + 1] = u /\ stream'[c][l + 2] = v
  <2>1. <<u, v>> \in Seq(Unit) /\ Len(<<u, v>>) = 2 /\ <<u, v>>[1] = u /\ <<u, v>>[2] = v
    OBVIOUS
  <2>2. PICK t \in Seq(Unit) : t = <<u, v>>  BY <2>1
  <2>3. Len(t) = 2 /\ t[1] = u /\ t[2] = v  BY <2>1, <2>2
  <2>4. stream'[c] = stream[c] \o t  BY <1>6, <2>2
  <2> HIDE <2>2
  <2>5. /\ stream[c] \o t \in Seq(Unit) /\ Len(stream[c] \o t) = Len(stream[c]) + Len(t)
        /\ \A i \in 1 .. Len(stream[c]) + Len(t) :
             (stream[c] \o t)[i] = IF i <= Len(stream[c]) THEN stream[c][i] ELSE t[i - Len(stream[c])]
    BY <1>1, ConcatProperties
  <2>6. /\ stream'[c] \in Seq(Unit) /\ Len(stream'[c]) = l + 2
        /\ \A i \in 1 .. l + 2 : stream'[c][i] = IF i <= l THEN stream[c][i] ELSE t[i - l]
    BY <1>9, <2>3, <2>4, <2>5
  <2>7. l + 1 - l = 1 /\ l + 2 - l = 2 /\ ~(l + 1 <= l) /\ ~(l + 2 <= l)
        /\ l + 1 \in 1 .. l + 2 /\ l + 2 \in 1 .. l + 2
    OBVIOUS
  <2>8. stream'[c][l + 1] = u /\ stream'[c][l + 2] = v  BY <2>3, <2>6, <2>7
  <2>9. \A i \in 1 .. l : stream'[c][i] = stream[c][i]  BY <2>6, SMTT(60)
  <2>10. DOMAIN stream[c] = 1 .. l /\ DOMAIN stream'[c] = 1 .. l + 2
    BY <1>1, <1>9, <2>6
  <2> QED BY <2>8, <2>9, <2>10
<1> QED BY <1>4, <1>6, <1>8, <1>10

LEMMA EventSeqs ==
  ASSUME TypeOK, NEW c \in Conns, ServerEvent(c)
  PROVE  /\ \A d \in Conns : d # c => /\ outgoing'[d] = outgoing[d] /\ stream'[d] = stream[d]
                                      /\ server_msg_buffer'[d] = server_msg_buffer[d]
         /\ DOMAIN outgoing'[c] = {} /\ DOMAIN stream'[c] = {} /\ DOMAIN server_msg_buffer'[c] = {}
<1>1. /\ server_msg_buffer' = [server_msg_buffer EXCEPT ![c] = <<>>]
      /\ outgoing' = [outgoing EXCEPT ![c] = <<>>] /\ stream' = [stream EXCEPT ![c] = <<>>]
  BY DEF ServerEvent
<1>2. DOMAIN outgoing = Conns /\ DOMAIN stream = Conns /\ DOMAIN server_msg_buffer = Conns
  BY DEF TypeOK
<1>3. /\ \A d \in Conns : d # c => /\ outgoing'[d] = outgoing[d] /\ stream'[d] = stream[d]
                                   /\ server_msg_buffer'[d] = server_msg_buffer[d]
      /\ outgoing'[c] = <<>> /\ stream'[c] = <<>> /\ server_msg_buffer'[c] = <<>>
  BY <1>1, <1>2
<1> QED BY <1>3

LEMMA ReadSeqs ==
  ASSUME TypeOK, NEW c \in Conns, NEW n \in 1 .. Len(stream[c]), ServerRead(c, n)
  PROVE  \E l \in Nat :
           /\ \A d \in Conns : d # c => stream'[d] = stream[d]
           /\ n \in 1 .. l /\ n \in Nat
           /\ DOMAIN stream[c] = 1 .. l /\ DOMAIN stream'[c] = 1 .. l - n
           /\ \A i \in 1 .. l - n : stream'[c][i] = stream[c][i + n]
<1>1. stream' = [stream EXCEPT ![c] = SubSeq(stream[c], n + 1, Len(stream[c]))]
  BY DEF ServerRead
<1>2. PICK t : t = SubSeq(stream[c], n + 1, Len(stream[c]))  OBVIOUS
<1>3. /\ stream[c] \in Seq(Unit) /\ Len(stream[c]) \in Nat /\ n \in Nat
      /\ t \in Seq(Unit) /\ Len(t) = Len(stream[c]) - n
      /\ \A i \in 1 .. Len(stream[c]) - n : t[i] = stream[c][i + n]
  BY <1>2, ReadFacts
<1>4. stream' = [stream EXCEPT ![c] = t]  BY <1>1, <1>2
<1> HIDE <1>1, <1>2
<1>5. stream'[c] = t /\ \A d \in Conns : d # c => stream'[d] = stream[d]
  BY <1>4 DEF TypeOK
<1>6. PICK l \in Nat : l = Len(stream[c])  BY <1>3
<1>7. DOMAIN stream[c] = 1 .. l /\ DOMAIN t = 1 .. l - n  BY <1>3, <1>6
<1> QED BY <1>3, <1>5, <1>6, <1>7

LEMMA PairSame ==
  ASSUME PairInv, UNCHANGED stream
  PROVE  PairInv'
  BY DEF PairInv

LEMMA FlightSame ==
  ASSUME FlightInv, UNCHANGED <<setup, writes, answers, outgoing, stream>>, todo' \subseteq todo
  PROVE  FlightInv'
  BY FlightShrinks

LEMMA SendFlight ==
  ASSUME TypeOK, FlightInv, NEW q \in Q, SendUdp(q) \/ SendTcp(q), setup' = setup
  PROVE  FlightInv' /\ stream' = stream
<1>1. todo' = todo \ {q} /\ Queries[q].raw  BY DEF SendUdp, SendTcp
<1>2. CASE SendUdp(q)
  <2>1. Under(q, FALSE)'
    BY <1>1, <1>2, SameSetup DEF SendUdp, Under, UseTcp
  <2>2. \A w \in writes' : w \in writes \/ w.q = q
    BY <1>2 DEF SendUdp, WriteEvent
  <2>3. UNCHANGED <<answers, outgoing, stream>>
    BY <1>2 DEF SendUdp, tcp
  <2>4. \A w \in writes' : w \in writes \/ Under(w.q, FALSE)'
    BY <2>1, <2>2
  <2> QED BY <1>1, <2>3, <2>4, FlightShrinks
<1>3. CASE SendTcp(q)
  <2>1. Under(q, TRUE)'
    BY <1>1, <1>3, SameSetup DEF SendTcp, Under, UseTcp
  <2>2. UNCHANGED <<writes, answers, stream>>
    BY <1>3 DEF SendTcp, udp
  <2>3. PICK c \in Conns :
           /\ \A d \in Conns : d # c => outgoing'[d] = outgoing[d]
           /\ DOMAIN outgoing[c] = 1 .. Len(outgoing[c]) /\ Len(outgoing[c]) \in Nat
           /\ DOMAIN outgoing'[c] = 1 .. Len(outgoing[c]) + 1
           /\ \A i \in 1 .. Len(outgoing[c]) : outgoing'[c][i] = outgoing[c][i]
           /\ outgoing'[c][Len(outgoing[c]) + 1] = q
    BY <1>3, SendTcpSeqs
  <2>4. ASSUME NEW d \in Conns, NEW i \in DOMAIN outgoing'[d]
        PROVE  (\E j \in DOMAIN outgoing[d] : outgoing'[d][i] = outgoing[d][j])
               \/ outgoing'[d][i] = q
    <3>1. CASE d # c  BY <2>3, <3>1
    <3>2. CASE d = c
      <4>1. i \in 1 .. Len(outgoing[c]) \/ i = Len(outgoing[c]) + 1  BY <2>3, <3>2
      <4> QED BY <2>3, <3>2, <4>1
    <3> QED BY <3>1, <3>2
  <2>5. \A d \in Conns : \A i \in DOMAIN outgoing'[d] :
           (\E j \in DOMAIN outgoing[d] : outgoing'[d][i] = outgoing[d][j])
           \/ \E r : r = outgoing'[d][i] /\ Under(r, TRUE)'
    BY <2>1, <2>4
  <2> QED BY <1>1, <2>2, <2>5, FlightShrinks
<1> QED BY <1>2, <1>3

LEMMA AnswersFlight ==
  ASSUME TypeOK, FlightInv, PairInv, NEW c \in Conns, ServerAnswers(c), setup' = setup
  PROVE  FlightInv' /\ PairInv'
<1>1. PICK l \in Nat, m \in Nat, h \in Q :
           /\ \A d \in Conns : d # c => outgoing'[d] = outgoing[d] /\ stream'[d] = stream[d]
           /\ DOMAIN outgoing[c] = 1 .. m + 1 /\ h = outgoing[c][1]
           /\ DOMAIN outgoing'[c] = 1 .. m
           /\ \A i \in 1 .. m : outgoing'[c][i] = outgoing[c][i + 1]
           /\ DOMAIN stream[c] = 1 .. l /\ DOMAIN stream'[c] = 1 .. l + 2
           /\ \A i \in 1 .. l : stream'[c][i] = stream[c][i]
           /\ stream'[c][l + 1].part = "length" /\ stream'[c][l + 1].q = h
           /\ stream'[c][l + 2].part = "body" /\ stream'[c][l + 2].q = h
  BY AnswersSeqs
<1>2. UNCHANGED <<writes, answers, todo>>  BY DEF ServerAnswers, udp
<1>3. 1 \in DOMAIN outgoing[c] /\ \A i \in 1 .. m : i + 1 \in 1 .. m + 1  BY <1>1
<1>4. Under(h, TRUE)'
  <2>1. Under(h, TRUE)  BY <1>1, <1>3 DEF FlightInv
  <2> QED BY <1>2, <2>1, UnderStays
<1>5. \A i \in 1 .. l + 2 : i \in 1 .. l \/ i = l + 1 \/ i = l + 2  OBVIOUS
<1>6. FlightInv'
  <2>1. ASSUME NEW d \in Conns, NEW i \in DOMAIN outgoing'[d]
        PROVE  \E j \in DOMAIN outgoing[d] : outgoing'[d][i] = outgoing[d][j]
    <3>1. CASE d # c
      <4>1. outgoing'[d] = outgoing[d]  BY <1>1, <3>1
      <4> QED BY <4>1
    <3>2. CASE d = c
      <4>1. i \in 1 .. m  BY <1>1, <3>2
      <4>2. i + 1 \in DOMAIN outgoing[c] /\ outgoing'[c][i] = outgoing[c][i + 1]
        BY <1>1, <1>3, <4>1
      <4> QED BY <3>2, <4>2
    <3> QED BY <3>1, <3>2
  <2>2. ASSUME NEW d \in Conns, NEW i \in DOMAIN stream'[d]
        PROVE  (\E j \in DOMAIN stream[d] : stream'[d][i] = stream[d][j]) \/ stream'[d][i].q = h
    <3>1. CASE d # c  BY <1>1, <3>1
    <3>2. CASE d = c
      <4>1. i \in 1 .. l \/ i = l + 1 \/ i = l + 2  BY <1>1, <1>5, <3>2
      <4> QED BY <1>1, <3>2, <4>1
    <3> QED BY <3>1, <3>2
  <2>3. /\ \A d \in Conns : \A i \in DOMAIN outgoing'[d] :
             (\E j \in DOMAIN outgoing[d] : outgoing'[d][i] = outgoing[d][j])
             \/ \E r : r = outgoing'[d][i] /\ Under(r, TRUE)'
        /\ \A d \in Conns : \A i \in DOMAIN stream'[d] :
             (\E j \in DOMAIN stream[d] : stream'[d][i] = stream[d][j])
             \/ \E r : r = stream'[d][i].q /\ Under(r, TRUE)'
    BY <1>4, <2>1, <2>2
  <2> QED BY <1>2, <2>3, FlightShrinks
<1>7. PairInv'
  <2> SUFFICES ASSUME NEW d \in Conns, NEW i \in DOMAIN stream'[d], stream'[d][i].part = "length"
               PROVE  /\ i + 1 \in DOMAIN stream'[d]
                      /\ stream'[d][i + 1].part = "body" /\ stream'[d][i + 1].q = stream'[d][i].q
    BY DEF PairInv
  <2>1. CASE d # c  BY <1>1, <2>1 DEF PairInv
  <2>2. CASE d = c /\ i \in 1 .. l
    <3>1. stream[c][i].part = "length" /\ stream'[c][i].q = stream[c][i].q  BY <1>1, <2>2
    <3>2. /\ i + 1 \in 1 .. l
          /\ stream[c][i + 1].part = "body" /\ stream[c][i + 1].q = stream[c][i].q
      BY <1>1, <2>2, <3>1, SMTT(60) DEF PairInv
    <3>3. i + 1 \in 1 .. l + 2 /\ stream'[c][i + 1] = stream[c][i + 1]  BY <1>1, <3>2
    <3> QED BY <1>1, <2>2, <3>1, <3>2, <3>3
  <2>3. CASE d = c /\ i = l + 1
    <3>1. i + 1 = l + 2 /\ i + 1 \in 1 .. l + 2  BY <2>3
    <3>2. stream'[c][i + 1].part = "body" /\ stream'[c][i + 1].q = h /\ stream'[c][i].q = h
      BY <1>1, <2>3, <3>1
    <3> QED BY <1>1, <2>3, <3>1, <3>2
  <2>4. CASE d = c /\ i = l + 2  BY <1>1, <2>4
  <2> QED BY <1>1, <1>5, <2>1, <2>2, <2>3, <2>4
<1> QED BY <1>6, <1>7

LEMMA ReadFlight ==
  ASSUME TypeOK, FlightInv, PairInv, NEW c \in Conns, NEW n \in 1 .. Len(stream[c]),
         ServerRead(c, n), setup' = setup
  PROVE  FlightInv' /\ PairInv'
<1>1. PICK l \in Nat :
           /\ \A d \in Conns : d # c => stream'[d] = stream[d]
           /\ n \in 1 .. l /\ n \in Nat
           /\ DOMAIN stream[c] = 1 .. l /\ DOMAIN stream'[c] = 1 .. l - n
           /\ \A i \in 1 .. l - n : stream'[c][i] = stream[c][i + n]
  BY ReadSeqs
<1>2. UNCHANGED <<writes, answers, todo, outgoing>>  BY DEF ServerRead, udp
<1>3. \A i \in 1 .. l - n : i + n \in 1 .. l /\ i \in Nat  BY <1>1
<1>4. \A d \in Conns : \A i \in DOMAIN stream'[d] :
        \E j \in DOMAIN stream[d] : stream'[d][i] = stream[d][j]
  <2> SUFFICES ASSUME NEW d \in Conns, NEW i \in DOMAIN stream'[d]
               PROVE  \E j \in DOMAIN stream[d] : stream'[d][i] = stream[d][j]
    OBVIOUS
  <2>1. CASE d # c
    <3>1. stream'[d] = stream[d]  BY <1>1, <2>1
    <3> QED BY <3>1
  <2>2. CASE d = c  BY <1>1, <1>3, <2>2
  <2> QED BY <2>1, <2>2
<1>5. FlightInv'  BY <1>2, <1>4, FlightShrinks
<1>6. PairInv'
  <2> SUFFICES ASSUME NEW d \in Conns, NEW i \in DOMAIN stream'[d], stream'[d][i].part = "length"
               PROVE  /\ i + 1 \in DOMAIN stream'[d]
                      /\ stream'[d][i + 1].part = "body" /\ stream'[d][i + 1].q = stream'[d][i].q
    BY DEF PairInv
  <2>1. CASE d # c  BY <1>1, <2>1 DEF PairInv
  <2>2. CASE d = c
    <3>0. i \in 1 .. l - n  BY <1>1, <2>2
    <3>1. /\ i + n + 1 \in 1 .. l
          /\ stream[c][i + n + 1].part = "body" /\ stream[c][i + n + 1].q = stream[c][i + n].q
      <4>1. i + n \in DOMAIN stream[c] /\ stream[c][i + n].part = "length"
        BY <1>1, <1>3, <2>2, <3>0
      <4> QED BY <1>1, <4>1 DEF PairInv
    <3>2. i + 1 \in 1 .. l - n /\ (i + 1) + n = i + n + 1  BY <1>1, <1>3, <3>0, <3>1
    <3> QED BY <1>1, <2>2, <3>0, <3>1, <3>2
  <2> QED BY <2>1, <2>2
<1> QED BY <1>5, <1>6

LEMMA NextFlight == MapsInv /\ FlightInv /\ PairInv /\ [Next]_vars => FlightInv' /\ PairInv'
<1> SUFFICES ASSUME MapsInv, FlightInv, PairInv, [Next]_vars PROVE FlightInv' /\ PairInv'
  OBVIOUS
<1>0. TypeOK  BY DEF MapsInv
<1>1. CASE SendQuery
  <2>1. PICK q \in Q : SendEmpty(q) \/ SendUdp(q) \/ SendTcp(q)  BY <1>1 DEF SendQuery
  <2>2. setup' = setup  BY <1>1 DEF SendQuery, Running
  <2>3. CASE SendEmpty(q)  BY <2>2, <2>3, FlightSame, PairSame DEF SendEmpty, udp, tcp
  <2>4. CASE SendUdp(q) \/ SendTcp(q)  BY <1>0, <2>2, <2>4, SendFlight, PairSame
  <2> QED BY <2>1, <2>3, <2>4
<1>2. CASE UdpWrite
  <2>1. PICK w \in writes : ServerUdpWrite(w)  BY <1>2 DEF UdpWrite
  <2>2. PICK n, k : answers' = answers \cup {[sock |-> k, q |-> w.q, copies |-> n]}
    BY <2>1 DEF ServerUdpWrite
  <2>3. writes' \subseteq writes /\ UNCHANGED <<todo, outgoing, stream, setup>>
    BY <1>2, <2>1 DEF ServerUdpWrite, UdpWrite, Running, tcp
  <2>4. Under(w.q, FALSE)'
    <3>1. Under(w.q, FALSE)  BY DEF FlightInv
    <3> QED BY <2>3, <3>1, UnderStays
  <2>5. \A a \in answers' : a \in answers \/ a.q = w.q  BY <2>2
  <2>6. \A a \in answers' : (\E b \in answers : b.q = a.q) \/ Under(a.q, FALSE)'
    BY <2>4, <2>5
  <2> QED BY <2>3, <2>6, FlightShrinks, PairSame
<1>3. CASE LogErr \/ UNCHANGED vars
  BY <1>3, FlightSame, PairSame DEF LogErr, vars, udp, tcp
<1>4. CASE Running /\ \E fd \in Fds : UdpReadTimeout(fd)
  BY <1>4, FlightSame, PairSame DEF UdpReadTimeout, Running, tcp
<1>5. CASE Running /\ \E a \in answers : ServerUdpRead(a)
  <2>1. PICK a \in answers : ServerUdpRead(a)  BY <1>5
  <2>2. /\ answers' = (answers \ {a}) \cup
                       (IF a.copies > 1 THEN {[a EXCEPT !.copies = @ - 1]} ELSE {})
        /\ UNCHANGED <<todo, writes, outgoing, stream, setup>>
    BY <1>5, <2>1 DEF ServerUdpRead, Running, tcp
  <2>3. [a EXCEPT !.copies = @ - 1].q = a.q
    <3>1. a \in [sock : Nat, q : Q, copies : 1 .. MaxCopies]  BY <1>0 DEF TypeOK
    <3> QED BY <3>1
  <2>4. \A b \in answers' : \E d \in answers : d.q = b.q  BY <2>2, <2>3
  <2> QED BY <2>2, <2>4, FlightShrinks, PairSame
<1>6. CASE Running /\ \E c \in Conns : ServerAnswers(c)
  BY <1>0, <1>6, AnswersFlight DEF Running
<1>7. CASE Running /\ \E c \in Conns : ServerEvent(c)
  <2>1. PICK c \in Conns : ServerEvent(c)  BY <1>7
  <2>2. UNCHANGED <<setup, todo, writes, answers>>  BY <1>7, <2>1 DEF ServerEvent, Running, udp
  <2>3. /\ \A d \in Conns : d # c => outgoing'[d] = outgoing[d] /\ stream'[d] = stream[d]
        /\ DOMAIN outgoing'[c] = {} /\ DOMAIN stream'[c] = {}
    BY <1>0, <2>1, EventSeqs
  <2>4. /\ \A d \in Conns : \A i \in DOMAIN outgoing'[d] :
             \E j \in DOMAIN outgoing[d] : outgoing'[d][i] = outgoing[d][j]
        /\ \A d \in Conns : \A i \in DOMAIN stream'[d] :
             \E j \in DOMAIN stream[d] : stream'[d][i] = stream[d][j]
    BY <2>3
  <2>5. FlightInv'  BY <2>2, <2>4, FlightShrinks
  <2>6. PairInv'  BY <2>3 DEF PairInv
  <2> QED BY <2>5, <2>6
<1>8. CASE Running /\ \E c \in Conns : \E n \in 1 .. Len(stream[c]) : ServerRead(c, n)
  BY <1>0, <1>8, ReadFlight DEF Running
<1> QED BY <1>1, <1>2, <1>3, <1>4, <1>5, <1>6, <1>7, <1>8 DEF Next
-----------------------------------------------------------------------------
(* The keys of the table tell the queries apart: a worker that reports     *)
(* latency has no two queries with a payload and the same name.  (With two *)
(* of the same name NoOverwrite fails, and one latency is lost.)           *)
DistinctNames ==
  \A st \in Setups : st.output_option = "latency" =>
    \A q, r \in 1 .. Len(st.queries) :
      /\ st.queries[q].raw /\ st.queries[r].raw
      /\ st.queries[q].qname # NoName /\ st.queries[q].qname = st.queries[r].qname
      => q = r

(* An entry of query_table is that of a query under its own key, not yet   *)
(* reported; a query is reported at most once, when its answer was read; a *)
(* query that was sent has its entry until it is reported.                 *)
KeyOf(q) == FmtKey(id[q], Queries[q].qname)
EntryInv ==
  \A k \in Keys : query_table[k] # 0 =>
    /\ k = KeyOf(query_table[k]) /\ reported[query_table[k]] = 0
    /\ query_table[k] \notin todo /\ Queries[query_table[k]].raw
CountInv ==
  \A q \in Q : reported[q] = 0 \/ (reported[q] = 1 /\ q \notin todo /\ q \in complete)
WaitInv ==
  \A q \in Q : q \notin todo /\ Queries[q].raw /\ Queries[q].qname # NoName =>
    (KeyOf(q) \in Keys /\ query_table[KeyOf(q)] = q) \/ reported[q] = 1
TableInv == output_option = "latency" => EntryInv /\ CountInv /\ WaitInv

LEMMA KeyFacts ==
  ASSUME NEW i, NEW n, NEW j, NEW m
  PROVE  /\ FmtKey(i, n) = FmtKey(j, m) => i = j /\ n = m
         /\ FmtKey(i, n) \in Keys => i \in Ids /\ n \in Names
         /\ i \in Ids /\ n \in Names => FmtKey(i, n) \in Keys
  BY DEF FmtKey, Keys

LEMMA SameName ==
  ASSUME DistinctNames, TypeOK, output_option = "latency", NEW q \in Q, NEW r \in Q,
         Queries[q].raw, Queries[r].raw, Queries[q].qname # NoName,
         Queries[q].qname = Queries[r].qname
  PROVE  q = r
<1>1. setup \in Setups  BY DEF TypeOK
<1>2. setup.output_option = "latency"  BY DEF output_option
<1> QED BY <1>1, <1>2 DEF DistinctNames, Q, Queries

LEMMA InitTable == Init => TableInv
<1> SUFFICES ASSUME Init PROVE EntryInv /\ CountInv /\ WaitInv
  BY DEF TableInv
<1> QED BY DEF Init, EntryInv, CountInv, WaitInv

LEMMA TableSame ==
  ASSUME TableInv, UNCHANGED <<setup, id, query_table, reported>>, todo' \subseteq todo,
         complete \subseteq complete',
         \A q \in Q : q \in todo /\ q \notin todo' => ~Queries[q].raw
  PROVE  TableInv'
<1> SUFFICES ASSUME output_option = "latency", EntryInv, CountInv, WaitInv
             PROVE  EntryInv' /\ CountInv' /\ WaitInv'
  BY SameSetup DEF TableInv
<1>1. Q' = Q /\ Queries' = Queries  BY SameSetup
<1>2. \A q : KeyOf(q)' = KeyOf(q)  BY <1>1 DEF KeyOf, FmtKey
<1>3. EntryInv'  BY <1>1, <1>2 DEF EntryInv, KeyOf, FmtKey
<1>4. CountInv'  BY <1>1, <1>2 DEF CountInv
<1>5. WaitInv'  BY <1>1, <1>2 DEF WaitInv, KeyOf, FmtKey
<1> QED BY <1>3, <1>4, <1>5

(* A query is given its key and, if it has a name, its entry.              *)
LEMMA LogTable ==
  ASSUME DistinctNames, TypeOK, TableInv, NEW q \in Q, NEW i \in Ids, q \in todo, Queries[q].raw,
         id' = [id EXCEPT ![q] = i], LogQuery(q, i), todo' = todo \ {q},
         UNCHANGED <<setup, reported, complete>>
  PROVE  TableInv'
<1> SUFFICES ASSUME output_option = "latency", EntryInv, CountInv, WaitInv
             PROVE  EntryInv' /\ CountInv' /\ WaitInv'
  BY SameSetup DEF TableInv
<1>1. Q' = Q /\ Queries' = Queries  BY SameSetup
<1>2. \A r \in Q : id'[r] = IF r = q THEN i ELSE id[r]  BY DEF TypeOK
<1>3. CountInv'  BY <1>1 DEF CountInv
<1>4. reported[q] = 0  BY DEF CountInv
<1> DEFINE n == Queries[q].qname
           key == FmtKey(i, n)
<1>5. CASE n # NoName
  <2>1. key \in Keys  BY <1>5, SetupFacts, KeyFacts
  <2>2. \A k \in Keys : query_table'[k] = IF k = key THEN q ELSE query_table[k]
    <3>1. query_table' = [query_table EXCEPT ![key] = q]  BY <1>5 DEF LogQuery
    <3> HIDE DEF key
    <3> QED BY <2>1, <3>1 DEF TypeOK
  <2>3. ASSUME NEW k \in Keys, query_table'[k] # 0, NEW r, r = query_table'[k]
        PROVE  /\ k = FmtKey(id'[r], Queries[r].qname) /\ reported[r] = 0
               /\ r \notin todo' /\ Queries[r].raw
    <3>1. CASE k = key
      <4>1. r = q  BY <2>2, <2>3, <3>1
      <4> QED BY <1>2, <1>4, <3>1, <4>1
    <3>2. CASE k # key
      <4>1. r = query_table[k] /\ r # 0  BY <2>2, <2>3, <3>2
      <4>2. /\ k = FmtKey(id[r], Queries[r].qname) /\ reported[r] = 0
            /\ r \notin todo /\ Queries[r].raw
        BY <4>1 DEF EntryInv, KeyOf
      <4>3. r \in Q /\ r # q  BY <4>1, <4>2 DEF TypeOK
      <4> QED BY <1>2, <4>2, <4>3
    <3> QED BY <3>1, <3>2
  <2>4. EntryInv'
    <3> SUFFICES ASSUME NEW k \in Keys, query_table'[k] # 0
                 PROVE  /\ k = FmtKey(id'[query_table'[k]], Queries'[query_table'[k]].qname)
                        /\ reported'[query_table'[k]] = 0
                        /\ query_table'[k] \notin todo' /\ Queries'[query_table'[k]].raw
      BY DEF EntryInv, KeyOf, FmtKey
    <3> QED BY <1>1, <2>3
  <2>5. ASSUME NEW r \in Q, r \notin todo', Queries[r].raw, Queries[r].qname # NoName
        PROVE  \/ reported[r] = 1
               \/ /\ FmtKey(id'[r], Queries[r].qname) \in Keys
                  /\ query_table'[FmtKey(id'[r], Queries[r].qname)] = r
    <3>1. CASE r = q  BY <1>2, <2>1, <2>2, <3>1
    <3>2. CASE r # q
      <4>1. r \notin todo  BY <2>5, <3>2
      <4>2. PICK k : k = FmtKey(id[r], Queries[r].qname)  OBVIOUS
      <4>3. \/ reported[r] = 1
            \/ k \in Keys /\ query_table[k] = r
        BY <2>5, <4>1, <4>2 DEF WaitInv, KeyOf
      <4>4. k # key
        <5> SUFFICES ASSUME k = key PROVE FALSE
          OBVIOUS
        <5>1. Queries[r].qname = n  BY <4>2 DEF FmtKey
        <5> QED BY <2>5, <3>2, <5>1, SameName
      <4>5. FmtKey(id'[r], Queries[r].qname) = k  BY <1>2, <3>2, <4>2
      <4> QED BY <2>2, <4>3, <4>4, <4>5
    <3> QED BY <3>1, <3>2
  <2>6. WaitInv'  BY <1>1, <2>5 DEF WaitInv, KeyOf, FmtKey
  <2> QED BY <1>3, <2>4, <2>6
<1>6. CASE n = NoName
  <2>1. query_table' = query_table  BY <1>6 DEF LogQuery
  <2>2. EntryInv'
    <3> SUFFICES ASSUME NEW k \in Keys, query_table[k] # 0
                 PROVE  /\ k = FmtKey(id'[query_table[k]], Queries[query_table[k]].qname)
                        /\ reported[query_table[k]] = 0
                        /\ query_table[k] \notin todo' /\ Queries[query_table[k]].raw
      BY <1>1, <2>1 DEF EntryInv, KeyOf, FmtKey
    <3>1. query_table[k] \in Q /\ query_table[k] # q  BY DEF TypeOK, EntryInv
    <3> QED BY <1>2, <3>1 DEF EntryInv, KeyOf
  <2>3. ASSUME NEW r \in Q, r \notin todo', Queries[r].raw, Queries[r].qname # NoName
        PROVE  \/ reported[r] = 1
               \/ /\ FmtKey(id'[r], Queries[r].qname) \in Keys
                  /\ query_table[FmtKey(id'[r], Queries[r].qname)] = r
    <3>1. r # q  BY <1>6, <2>3
    <3>2. r \notin todo /\ id'[r] = id[r]  BY <1>2, <2>3, <3>1
    <3> QED BY <2>3, <3>2 DEF WaitInv, KeyOf
  <2>4. WaitInv'  BY <1>1, <2>1, <2>3 DEF WaitInv, KeyOf, FmtKey
  <2> QED BY <1>3, <2>2, <2>4
<1> QED BY <1>5, <1>6

(* The answer to a query that was sent is looked up in the table.          *)
LEMMA ManagerTable ==
  ASSUME DistinctNames, TypeOK, TableInv, output_option = "latency", NEW q \in Q,
         q \notin todo, Queries[q].raw, SendtoManager(q), q \in complete', complete \subseteq complete',
         UNCHANGED <<setup, id, todo>>
  PROVE  /\ TableInv'
         /\ Queries[q].qname # NoName => reported'[q] = 1
         /\ \A r \in Q : reported'[r] >= reported[r]
<1>0. EntryInv /\ CountInv /\ WaitInv  BY DEF TableInv
<1>1. Q' = Q /\ Queries' = Queries  BY SameSetup
<1> DEFINE key == FmtKey(id[q], Queries[q].qname)
<1>2. CASE Outstanding(key)
  <2>1. key \in Keys /\ query_table[key] # 0  BY <1>2 DEF Outstanding
  <2>2. /\ reported' = [reported EXCEPT ![query_table[key]] = @ + 1]
        /\ query_table' = [query_table EXCEPT ![key] = 0]
    BY <1>2 DEF SendtoManager
  <2>3. query_table[key] = q
    <3>1. PICK r \in Q : r = query_table[key]
      <4> HIDE DEF key
      <4> QED BY <2>1 DEF TypeOK
    <3>2. key = FmtKey(id[r], Queries[r].qname) /\ Queries[r].raw
      BY <1>0, <2>1, <3>1 DEF EntryInv, KeyOf
    <3>3. Queries[r].qname = Queries[q].qname /\ Queries[q].qname \in Names
      BY <2>1, <3>2, KeyFacts
    <3>4. Queries[q].qname # NoName  BY <3>3
    <3> QED BY <3>1, <3>2, <3>3, <3>4, SameName
  <2>4. reported[q] = 0  BY <1>0, <2>1, <2>3 DEF EntryInv
  <2>5. /\ \A r \in Q : reported'[r] = IF r = q THEN 1 ELSE reported[r]
        /\ \A k \in Keys : query_table'[k] = IF k = key THEN 0 ELSE query_table[k]
    <3> HIDE DEF key
    <3> QED BY <2>1, <2>2, <2>3, <2>4 DEF TypeOK
  <2>6. EntryInv'
    <3> SUFFICES ASSUME NEW k \in Keys, query_table'[k] # 0
                 PROVE  /\ k = FmtKey(id[query_table'[k]], Queries[query_table'[k]].qname)
                        /\ reported'[query_table'[k]] = 0
                        /\ query_table'[k] \notin todo /\ Queries[query_table'[k]].raw
      BY <1>1 DEF EntryInv, KeyOf, FmtKey
    <3>1. k # key /\ query_table'[k] = query_table[k]  BY <2>5
    <3>2. PICK r \in Q : r = query_table[k]  BY <3>1 DEF TypeOK
    <3>3. /\ k = FmtKey(id[r], Queries[r].qname) /\ reported[r] = 0
          /\ r \notin todo /\ Queries[r].raw
      BY <1>0, <3>1, <3>2 DEF EntryInv, KeyOf
    <3>4. r # q  BY <3>1, <3>3
    <3> QED BY <2>5, <3>1, <3>2, <3>3, <3>4
  <2>7. CountInv'  BY <1>0, <1>1, <2>5 DEF CountInv
  <2>8. ASSUME NEW r \in Q, r \notin todo, Queries[r].raw, Queries[r].qname # NoName
        PROVE  \/ reported'[r] = 1
               \/ /\ FmtKey(id[r], Queries[r].qname) \in Keys
                  /\ query_table'[FmtKey(id[r], Queries[r].qname)] = r
    <3>1. CASE r = q  BY <2>5, <3>1
    <3>2. CASE r # q
      <4>1. PICK k : k = FmtKey(id[r], Queries[r].qname)  OBVIOUS
      <4>2. reported[r] = 1 \/ (k \in Keys /\ query_table[k] = r)
        BY <1>0, <2>8, <4>1 DEF WaitInv, KeyOf
      <4>3. k # key
        <5> SUFFICES ASSUME k = key PROVE FALSE
          OBVIOUS
        <5>1. Queries[r].qname = Queries[q].qname  BY <4>1 DEF FmtKey
        <5> QED BY <2>8, <3>2, <5>1, SameName
      <4> QED BY <2>5, <3>2, <4>1, <4>2, <4>3
    <3> QED BY <3>1, <3>2
  <2>9. WaitInv'  BY <1>1, <2>8 DEF WaitInv, KeyOf, FmtKey
  <2>10. \A r \in Q : reported[r] \in Nat  BY DEF TypeOK
  <2> QED BY <2>4, <2>5, <2>6, <2>7, <2>9, <2>10 DEF TableInv
<1>3. CASE ~Outstanding(key)
  <2>1. UNCHANGED <<reported, query_table>>  BY <1>3 DEF SendtoManager
  <2>2. TableInv'  BY <2>1, TableSame
  <2>3. Queries[q].qname # NoName => reported[q] = 1
    <3> SUFFICES ASSUME Queries[q].qname # NoName PROVE reported[q] = 1
      OBVIOUS
    <3>1. (key \in Keys /\ query_table[key] = q) \/ reported[q] = 1
      BY <1>0 DEF WaitInv, KeyOf
    <3>2. q # 0  BY SetupFacts
    <3> QED BY <1>3, <3>1, <3>2 DEF Outstanding
  <2>4. \A r \in Q : reported[r] \in Nat  BY DEF TypeOK
  <2> QED BY <2>1, <2>2, <2>3, <2>4
<1> QED BY <1>2, <1>3

(* The bodies in what is read, and in what is read behind what was kept.   *)
LEMMA DataBodies ==
  ASSUME TypeOK, NEW c \in Conns, NEW n \in 1 .. Len(stream[c]), NEW q
  PROVE  q \in Bodies(SubSeq(stream[c], 1, n))
           <=> \E i \in 1 .. n : stream[c][i].part = "body" /\ stream[c][i].q = q
<1>1. PICK t : t = SubSeq(stream[c], 1, n)  OBVIOUS
<1>2. t \in Seq(Unit) /\ Len(t) = n /\ \A i \in 1 .. n : t[i] = stream[c][i]
  BY <1>1, ReadFacts
<1>3. DOMAIN t = 1 .. n  BY <1>2
<1>4. q \in Bodies(t) <=> \E i \in 1 .. n : stream[c][i].part = "body" /\ stream[c][i].q = q
  <2> HIDE <1>1
  <2> QED BY <1>2, <1>3 DEF Bodies
<1> QED BY <1>1, <1>4

LEMMA ConcatBodies ==
  ASSUME NEW s \in Seq(Unit), NEW t \in Seq(Unit)
  PROVE  Bodies(s \o t) = Bodies(s) \cup Bodies(t)
<1>1. PICK u : u = s \o t  OBVIOUS
<1>2. PICK l \in Nat, m \in Nat : l = Len(s) /\ m = Len(t)  OBVIOUS
<1>3. /\ u \in Seq(Unit) /\ Len(u) = l + m
      /\ \A i \in 1 .. l + m : u[i] = IF i <= l THEN s[i] ELSE t[i - l]
  BY <1>1, <1>2, ConcatProperties
<1> HIDE <1>1
<1>4. DOMAIN u = 1 .. l + m /\ DOMAIN s = 1 .. l /\ DOMAIN t = 1 .. m  BY <1>2, <1>3
<1>5. \A i \in 1 .. l : i \in 1 .. l + m /\ u[i] = s[i]  BY <1>3
<1>6. \A i \in 1 .. m : i + l \in 1 .. l + m /\ u[i + l] = t[i]
  <2> TAKE i \in 1 .. m
  <2>1. i + l \in 1 .. l + m /\ ~(i + l <= l) /\ (i + l) - l = i  OBVIOUS
  <2> QED BY <1>3, <2>1
<1>7. \A i \in 1 .. l + m : (i \in 1 .. l /\ u[i] = s[i]) \/ (i - l \in 1 .. m /\ u[i] = t[i - l])
  BY <1>3
<1>8. Bodies(u) \subseteq Bodies(s) \cup Bodies(t)
  <2> SUFFICES ASSUME NEW i \in DOMAIN u, u[i].part = "body" PROVE u[i].q \in Bodies(s) \cup Bodies(t)
    BY DEF Bodies
  <2>1. CASE i \in 1 .. l /\ u[i] = s[i]  BY <1>4, <2>1 DEF Bodies
  <2>2. CASE i - l \in 1 .. m /\ u[i] = t[i - l]  BY <1>4, <2>2 DEF Bodies
  <2> QED BY <1>4, <1>7, <2>1, <2>2
<1>9. Bodies(s) \subseteq Bodies(u)
  <2> SUFFICES ASSUME NEW i \in DOMAIN s, s[i].part = "body" PROVE s[i].q \in Bodies(u)
    BY DEF Bodies
  <2>1. i \in DOMAIN u /\ u[i] = s[i]  BY <1>4, <1>5
  <2> QED BY <2>1 DEF Bodies
<1>10. Bodies(t) \subseteq Bodies(u)
  <2> SUFFICES ASSUME NEW i \in DOMAIN t, t[i].part = "body" PROVE t[i].q \in Bodies(u)
    BY DEF Bodies
  <2>1. i + l \in DOMAIN u /\ u[i + l] = t[i]  BY <1>4, <1>6
  <2> QED BY <2>1 DEF Bodies
<1>11. Bodies(u) = Bodies(s) \cup Bodies(t)  BY <1>8, <1>9, <1>10
<1> QED BY <1>1, <1>11

(* The first part of EachAnswerReported.                                   *)
Reportable(q) ==
  \/ output_option = "timing"
  \/ output_option = "latency" /\ ~UseTcp(q) /\ Queries[q].qname # NoName
ReportInv == \A q \in complete : Reportable(q) => reported[q] >= 1

LEMMA InitReport == Init => ReportInv
  BY DEF Init, ReportInv

(* Reports are not taken back, and what is new in complete is reported.    *)
LEMMA ReportGrows ==
  ASSUME TypeOK, ReportInv, setup' = setup,
         \A q \in Q : reported'[q] \in Nat /\ reported'[q] >= reported[q],
         \A q \in complete' : q \in complete \/ (Reportable(q) => reported'[q] >= 1)
  PROVE  ReportInv'
<1>1. \A q : Reportable(q)' <=> Reportable(q)
  BY SameSetup DEF Reportable, UseTcp
<1>2. ASSUME NEW q \in complete', Reportable(q) PROVE reported'[q] >= 1
  <2>1. CASE q \in complete
    <3>1. q \in Q /\ reported[q] \in Nat  BY <2>1 DEF TypeOK
    <3>2. reported[q] >= 1  BY <1>2, <2>1 DEF ReportInv
    <3> QED BY <3>1, <3>2
  <2> QED BY <1>2, <2>1
<1> QED BY <1>1, <1>2 DEF ReportInv

LEMMA UdpReadTable ==
  ASSUME DistinctNames, TypeOK, FlightInv, TableInv, ReportInv, NEW a \in answers,
         ServerUdpRead(a), setup' = setup
  PROVE  TableInv' /\ ReportInv'
<1>1. a.q \in Q  BY DEF TypeOK
<1>2. a.q \notin todo /\ Queries[a.q].raw  BY DEF FlightInv, Under
<1>3. complete' = complete \cup {a.q} /\ UNCHANGED <<setup, id, todo>> /\ ReportAnswer(a.q)
  BY DEF ServerUdpRead
<1>4. CASE output_option = "latency"
  <2>1. SendtoManager(a.q)  BY <1>3, <1>4 DEF ReportAnswer
  <2>2. /\ TableInv'
        /\ Queries[a.q].qname # NoName => reported'[a.q] = 1
        /\ \A r \in Q : reported'[r] >= reported[r]
    BY <1>1, <1>2, <1>3, <1>4, <2>1, ManagerTable
  <2>3. \A r \in Q : reported'[r] \in Nat  BY <1>1, <2>1, SendtoManagerType
  <2>4. Reportable(a.q) => reported'[a.q] >= 1
    BY <1>4, <2>2 DEF Reportable
  <2> QED BY <1>3, <2>2, <2>3, <2>4, ReportGrows
<1>5. CASE output_option = "timing"
  <2>1. reported' = [reported EXCEPT ![a.q] = @ + 1]  BY <1>3, <1>5 DEF ReportAnswer
  <2>2. \A r \in Q : reported[r] \in Nat /\ reported'[r] = IF r = a.q THEN reported[r] + 1 ELSE reported[r]
    BY <1>1, <2>1 DEF TypeOK
  <2>3. reported'[a.q] >= 1 /\ \A r \in Q : reported'[r] \in Nat /\ reported'[r] >= reported[r]
    BY <1>1, <2>2
  <2>4. ReportInv'  BY <1>3, <2>3, ReportGrows
  <2> QED BY <1>5, <2>4, SameSetup DEF TableInv
<1>6. CASE output_option \notin {"latency", "timing"}
  <2>1. UNCHANGED <<reported, query_table>>  BY <1>3, <1>6 DEF ReportAnswer
  <2>2. \A q : ~Reportable(q)  BY <1>6 DEF Reportable
  <2>3. \A r \in Q : reported'[r] \in Nat /\ reported'[r] >= reported[r]  BY <2>1 DEF TypeOK
  <2>4. ReportInv'  BY <2>2, <2>3, ReportGrows
  <2> QED BY <1>6, <2>4, SameSetup DEF TableInv
<1> QED BY <1>4, <1>5, <1>6

LEMMA ReadTable ==
  ASSUME DistinctNames, TypeOK, FlightInv, PairInv, TableInv, ReportInv, NEW c \in Conns,
         NEW n \in 1 .. Len(stream[c]), ServerRead(c, n), setup' = setup
  PROVE  TableInv' /\ ReportInv'
<1> DEFINE data == SubSeq(stream[c], 1, n)
           buf  == server_msg_buffer[c] \o data
<1>1. complete' = complete \cup Bodies(data) /\ UNCHANGED <<todo, id>>  BY DEF ServerRead
<1>2. /\ data \in Seq(Unit) /\ Len(data) = n /\ n \in Nat /\ DOMAIN stream[c] = 1 .. Len(stream[c])
      /\ \A i \in 1 .. n : data[i] = stream[c][i] /\ i \in 1 .. Len(stream[c])
      /\ server_msg_buffer[c] \in Seq(Unit)
  BY ReadFacts, SMTT(60) DEF TypeOK
<1>3. \A q : q \in Bodies(data) <=> \E i \in 1 .. n : stream[c][i].part = "body" /\ stream[c][i].q = q
  BY DataBodies
<1>4. ASSUME NEW q, q \in Bodies(data) PROVE UseTcp(q)
  BY <1>2, <1>3, <1>4, SMTT(60) DEF FlightInv, Under
<1>5. CASE output_option = "timing"
  <2>1. reported' = [q \in Q |-> reported[q] + (IF q \in Bodies(buf) THEN 1 ELSE 0)]
    BY <1>5 DEF ServerRead
  <2>2. Bodies(data) \subseteq Bodies(buf)  BY <1>2, ConcatBodies
  <2> HIDE DEF data, buf
  <2>3. \A q \in Q : reported[q] \in Nat /\ reported'[q] = reported[q] + (IF q \in Bodies(buf) THEN 1 ELSE 0)
    BY <2>1 DEF TypeOK
  <2>4. \A q \in Q : /\ reported'[q] \in Nat /\ reported'[q] >= reported[q]
                     /\ q \in Bodies(buf) => reported'[q] >= 1
    BY <2>3
  <2>5. Bodies(data) \subseteq Q
    <3>1. \A i \in DOMAIN data : data[i].q \in Q  BY <1>2, UnitFacts
    <3> QED BY <3>1 DEF Bodies
  <2>6. ReportInv'  BY <1>1, <2>2, <2>4, <2>5, ReportGrows
  <2> QED BY <1>5, <2>6, SameSetup DEF TableInv
<1>6. CASE output_option = "latency"
  <2>1. \A q \in Bodies(data) : ~Reportable(q)  BY <1>4, <1>6 DEF Reportable
  <2>2. CASE n >= 2 /\ data[1].part = "length"
    <3>1. PICK q : q = data[1].q  OBVIOUS
    <3>2. SendtoManager(q)  BY <1>6, <2>2, <3>1 DEF ServerRead
    <3>3. 1 \in 1 .. n /\ 2 \in 1 .. n /\ 1 + 1 = 2  BY <1>2, <2>2
    <3>4. stream[c][1].part = "length" /\ stream[c][1].q = q /\ 1 \in DOMAIN stream[c]
      BY <1>2, <2>2, <3>1, <3>3
    <3>5. stream[c][2].part = "body" /\ stream[c][2].q = q
      BY <3>3, <3>4 DEF PairInv
    <3>6. q \in Bodies(data)  BY <1>3, <3>3, <3>5
    <3>7. q \in Q
      <4>1. stream[c] \in Seq(Unit)  BY DEF TypeOK
      <4> QED BY <3>4, <4>1, UnitFacts
    <3>8. q \notin todo /\ Queries[q].raw  BY <3>4 DEF FlightInv, Under
    <3> HIDE DEF data, buf
    <3>9. TableInv' /\ \A r \in Q : reported'[r] >= reported[r]
      BY <1>1, <1>6, <3>2, <3>6, <3>7, <3>8, ManagerTable
    <3>10. \A r \in Q : reported'[r] \in Nat  BY <3>2, <3>7, SendtoManagerType
    <3>11. ReportInv'  BY <1>1, <2>1, <3>9, <3>10, ReportGrows
    <3> QED BY <3>9, <3>11
  <2>3. CASE ~(n >= 2 /\ data[1].part = "length")
    <3>1. UNCHANGED <<reported, query_table>>  BY <1>6, <2>3 DEF ServerRead
    <3> HIDE DEF data, buf
    <3>2. TableInv'  BY <1>1, <3>1, TableSame
    <3>3. \A r \in Q : reported'[r] \in Nat /\ reported'[r] >= reported[r]  BY <3>1 DEF TypeOK
    <3>4. ReportInv'  BY <1>1, <2>1, <3>3, ReportGrows
    <3> QED BY <3>2, <3>4
  <2> QED BY <2>2, <2>3
<1>7. CASE output_option \notin {"timing", "latency"}
  <2>1. UNCHANGED <<reported, query_table>>  BY <1>7 DEF ServerRead
  <2>2. \A q : ~Reportable(q)  BY <1>7 DEF Reportable
  <2>3. \A r \in Q : reported'[r] \in Nat /\ reported'[r] >= reported[r]  BY <2>1 DEF TypeOK
  <2>4. ReportInv'  BY <2>2, <2>3, ReportGrows
  <2> QED BY <1>7, <2>4, SameSetup DEF TableInv
<1> QED BY <1>5, <1>6, <1>7

LEMMA NextTable ==
  ASSUME DistinctNames
  PROVE  MapsInv /\ FlightInv /\ PairInv /\ TableInv /\ ReportInv /\ [Next]_vars
           => TableInv' /\ ReportInv'
<1> SUFFICES ASSUME MapsInv, FlightInv, PairInv, TableInv, ReportInv, [Next]_vars
             PROVE  TableInv' /\ ReportInv'
  OBVIOUS
<1>0. TypeOK  BY DEF MapsInv
<1>1. ASSUME UNCHANGED <<setup, reported, complete>> PROVE ReportInv'
  <2>1. \A r \in Q : reported'[r] \in Nat /\ reported'[r] >= reported[r]  BY <1>0, <1>1 DEF TypeOK
  <2> QED BY <1>0, <1>1, <2>1, ReportGrows
<1>2. CASE SendQuery
  <2>1. PICK q \in Q : SendEmpty(q) \/ SendUdp(q) \/ SendTcp(q)  BY <1>2 DEF SendQuery
  <2>2. setup' = setup  BY <1>2 DEF SendQuery, Running
  <2>3. CASE SendEmpty(q)
    <3>1. UNCHANGED <<setup, id, query_table, reported, complete>> /\ todo' = todo \ {q} /\ ~Queries[q].raw
      BY <2>2, <2>3 DEF SendEmpty
    <3> QED BY <1>1, <3>1, TableSame
  <2>4. CASE SendUdp(q) \/ SendTcp(q)
    <3>1. /\ q \in todo /\ Queries[q].raw /\ todo' = todo \ {q} /\ UNCHANGED <<reported, complete>>
          /\ \E i \in Ids : id' = [id EXCEPT ![q] = i] /\ LogQuery(q, i)
      BY <2>4 DEF SendUdp, SendTcp, FreshIds
    <3> QED BY <1>0, <1>1, <2>2, <3>1, LogTable
  <2> QED BY <2>1, <2>3, <2>4
<1>3. CASE UdpWrite
  BY <1>1, <1>3, TableSame DEF UdpWrite, Running, ServerUdpWrite
<1>4. CASE LogErr \/ UNCHANGED vars
  BY <1>1, <1>4, TableSame DEF LogErr, vars
<1>5. CASE Running /\ \E fd \in Fds : UdpReadTimeout(fd)
  BY <1>1, <1>5, TableSame DEF Running, UdpReadTimeout
<1>6. CASE Running /\ \E a \in answers : ServerUdpRead(a)
  BY <1>0, <1>6, UdpReadTable DEF Running
<1>7. CASE Running /\ \E c \in Conns : ServerAnswers(c) \/ ServerEvent(c)
  BY <1>1, <1>7, TableSame DEF Running, ServerAnswers, ServerEvent
<1>8. CASE Running /\ \E c \in Conns : \E n \in 1 .. Len(stream[c]) : ServerRead(c, n)
  BY <1>0, <1>8, ReadTable DEF Running
<1> QED BY <1>2, <1>3, <1>4, <1>5, <1>6, <1>7, <1>8 DEF Next

LEMMA TableSteps ==
  ASSUME DistinctNames
  PROVE  Spec => [](MapsInv /\ FlightInv /\ PairInv /\ TableInv /\ ReportInv)
<1>1. Init => FlightInv /\ PairInv /\ TableInv /\ ReportInv
  BY InitFlight, InitTable, InitReport
<1>2. MapsInv /\ FlightInv /\ PairInv /\ TableInv /\ ReportInv /\ [Next]_vars
        => TableInv' /\ ReportInv'
  BY NextTable
<1> QED BY <1>1, <1>2, NextFlight, MapsSteps, PTL DEF Spec

(* A latency is reported at most once, when the answer was read, and the   *)
(* table has no entry of the query then: for any number of queries with    *)
(* different names, answers repeated as often as the network likes.        *)
THEOREM LatencyOnceCorrect == ASSUME DistinctNames PROVE Spec => []LatencyOnce
<1>1. MapsInv /\ TableInv => LatencyOnce
  <2> SUFFICES ASSUME TypeOK, output_option = "latency", EntryInv, CountInv, NEW q \in Q
               PROVE  /\ reported[q] <= 1
                      /\ reported[q] = 1 => q \in complete
                      /\ reported[q] = 1 => \A k \in Keys : query_table[k] # q
    BY DEF MapsInv, TableInv, LatencyOnce
  <2>1. q # 0  BY SetupFacts
  <2>2. reported[q] \in Nat /\ (reported[q] = 0 \/ reported[q] = 1)  BY DEF TypeOK, CountInv
  <2>3. reported[q] <= 1  BY <2>2
  <2>4. reported[q] = 1 => q \in complete  BY DEF CountInv
  <2>5. reported[q] = 1 => \A k \in Keys : query_table[k] # q  BY <2>1 DEF EntryInv
  <2> QED BY <2>3, <2>4, <2>5
<1> QED BY <1>1, TableSteps, PTL
-----------------------------------------------------------------------------
(* Over TCP a query is on one connection, once, either on its way to the   *)
(* server or on its way back, and not after its answer was read; and what  *)
(* waits in the buffer of a connection is a length.                        *)
OutOnce ==
  \A c, d \in Conns : \A i \in DOMAIN outgoing[c], j \in DOMAIN outgoing[d] :
    outgoing[c][i] = outgoing[d][j] => c = d /\ i = j
BodyOnce ==
  \A c, d \in Conns : \A i \in DOMAIN stream[c], j \in DOMAIN stream[d] :
    stream[c][i].part = "body" /\ stream[d][j].part = "body"
      /\ stream[c][i].q = stream[d][j].q => c = d /\ i = j
OneWay ==
  \A c, d \in Conns : \A i \in DOMAIN stream[c], j \in DOMAIN outgoing[d] :
    stream[c][i].q # outgoing[d][j]
NotRead ==
  /\ \A c \in Conns : \A i \in DOMAIN outgoing[c] : outgoing[c][i] \notin complete
  /\ \A c \in Conns : \A i \in DOMAIN stream[c] :
       stream[c][i].part = "body" => stream[c][i].q \notin complete
  /\ complete \cap todo = {}
KeepsLength ==
  \A c \in Conns : \A i \in DOMAIN server_msg_buffer[c] : server_msg_buffer[c][i].part = "length"
OnceInv == OutOnce /\ BodyOnce /\ OneWay /\ NotRead /\ KeepsLength

LEMMA InitOnce == Init => OnceInv
  BY DEF Init, OnceInv, OutOnce, BodyOnce, OneWay, NotRead, KeepsLength

LEMMA OnceSame ==
  ASSUME OnceInv, UNCHANGED <<outgoing, stream, server_msg_buffer, complete>>, todo' \subseteq todo
  PROVE  OnceInv'
<1>1. OutOnce' /\ BodyOnce' /\ OneWay' /\ KeepsLength'
  BY DEF OnceInv, OutOnce, BodyOnce, OneWay, KeepsLength
<1>2. NotRead'  BY DEF OnceInv, NotRead
<1> QED BY <1>1, <1>2 DEF OnceInv

LEMMA SendTcpOnce ==
  ASSUME TypeOK, FlightInv, OnceInv, NEW q \in Q, SendTcp(q)
  PROVE  OnceInv'
<1>1. PICK c \in Conns :
         /\ \A d \in Conns : d # c => outgoing'[d] = outgoing[d]
         /\ DOMAIN outgoing[c] = 1 .. Len(outgoing[c]) /\ Len(outgoing[c]) \in Nat
         /\ DOMAIN outgoing'[c] = 1 .. Len(outgoing[c]) + 1
         /\ \A i \in 1 .. Len(outgoing[c]) : outgoing'[c][i] = outgoing[c][i]
         /\ outgoing'[c][Len(outgoing[c]) + 1] = q
  BY SendTcpSeqs
<1>2. PICK m \in Nat : m = Len(outgoing[c]) + 1  BY <1>1
<1>3. q \in todo /\ todo' = todo \ {q} /\ UNCHANGED <<stream, server_msg_buffer, complete>>
  BY DEF SendTcp
<1>4. ASSUME NEW d \in Conns, NEW i \in DOMAIN outgoing'[d]
      PROVE  \/ d = c /\ i = m /\ outgoing'[d][i] = q
             \/ i \in DOMAIN outgoing[d] /\ outgoing'[d][i] = outgoing[d][i]
  <2>1. CASE d = c
    <3>1. i \in 1 .. Len(outgoing[c]) \/ i = m  BY <1>1, <1>2, <2>1
    <3> QED BY <1>1, <1>2, <2>1, <3>1
  <2>2. CASE d # c
    <3>1. outgoing'[d] = outgoing[d]  BY <1>1, <2>2
    <3> QED BY <3>1
  <2> QED BY <2>1, <2>2
<1> HIDE <1>1, <1>2
<1>5. /\ \A d \in Conns : \A i \in DOMAIN outgoing[d] : outgoing[d][i] # q
      /\ \A d \in Conns : \A i \in DOMAIN stream[d] : stream[d][i].q # q
  BY <1>3 DEF FlightInv, Under
<1>6. OutOnce'
  <2> SUFFICES ASSUME NEW d \in Conns, NEW e \in Conns, NEW i \in DOMAIN outgoing'[d],
                      NEW j \in DOMAIN outgoing'[e], outgoing'[d][i] = outgoing'[e][j]
               PROVE  d = e /\ i = j
    BY DEF OutOnce
  <2> QED BY <1>4, <1>5 DEF OnceInv, OutOnce
<1>7. OneWay'
  <2> SUFFICES ASSUME NEW d \in Conns, NEW e \in Conns, NEW i \in DOMAIN stream[d],
                      NEW j \in DOMAIN outgoing'[e]
               PROVE  stream[d][i].q # outgoing'[e][j]
    BY <1>3 DEF OneWay
  <2> QED BY <1>4, <1>5 DEF OnceInv, OneWay
<1>8. NotRead'
  <2>1. ASSUME NEW d \in Conns, NEW i \in DOMAIN outgoing'[d] PROVE outgoing'[d][i] \notin complete
    BY <1>3, <1>4 DEF OnceInv, NotRead
  <2> QED BY <1>3, <2>1 DEF OnceInv, NotRead
<1>9. BodyOnce' /\ KeepsLength'  BY <1>3 DEF OnceInv, BodyOnce, KeepsLength
<1> QED BY <1>6, <1>7, <1>8, <1>9 DEF OnceInv

LEMMA AnswersOnce ==
  ASSUME TypeOK, OnceInv, NEW c \in Conns, ServerAnswers(c)
  PROVE  OnceInv'
<1>1. PICK l \in Nat, m \in Nat, h \in Q :
           /\ \A d \in Conns : d # c => outgoing'[d] = outgoing[d] /\ stream'[d] = stream[d]
           /\ DOMAIN outgoing[c] = 1 .. m + 1 /\ h = outgoing[c][1]
           /\ DOMAIN outgoing'[c] = 1 .. m
           /\ \A i \in 1 .. m : outgoing'[c][i] = outgoing[c][i + 1]
           /\ DOMAIN stream[c] = 1 .. l /\ DOMAIN stream'[c] = 1 .. l + 2
           /\ \A i \in 1 .. l : stream'[c][i] = stream[c][i]
           /\ stream'[c][l + 1].part = "length" /\ stream'[c][l + 1].q = h
           /\ stream'[c][l + 2].part = "body" /\ stream'[c][l + 2].q = h
  BY AnswersSeqs
<1>2. UNCHANGED <<todo, complete, server_msg_buffer>>  BY DEF ServerAnswers
<1> DEFINE J(d, i) == IF d = c THEN i + 1 ELSE i
<1>3. ASSUME NEW d \in Conns, NEW i \in DOMAIN outgoing'[d]
      PROVE  J(d, i) \in DOMAIN outgoing[d] /\ outgoing'[d][i] = outgoing[d][J(d, i)]
             /\ outgoing'[d][i] # h
  <2>1. CASE d = c
    <3>1. i \in 1 .. m  BY <1>1, <2>1
    <3>2. i + 1 \in 1 .. m + 1 /\ 1 \in 1 .. m + 1 /\ i + 1 # 1  BY <3>1
    <3>3. outgoing[c][i + 1] # outgoing[c][1]  BY <1>1, <3>2 DEF OnceInv, OutOnce
    <3> QED BY <1>1, <2>1, <3>1, <3>2, <3>3
  <2>2. CASE d # c
    <3>1. outgoing'[d] = outgoing[d] /\ 1 \in 1 .. m + 1  BY <1>1, <2>2
    <3>2. outgoing[d][i] # outgoing[c][1]  BY <1>1, <2>2, <3>1 DEF OnceInv, OutOnce
    <3> QED BY <1>1, <2>2, <3>1, <3>2
  <2> QED BY <2>1, <2>2
<1>4. \A d \in Conns : \A i, j \in DOMAIN outgoing'[d] : J(d, i) = J(d, j) => i = j
  <2> SUFFICES ASSUME NEW d \in Conns, NEW i \in DOMAIN outgoing'[d], NEW j \in DOMAIN outgoing'[d],
                      J(d, i) = J(d, j)
               PROVE  i = j
    OBVIOUS
  <2>1. CASE d = c
    <3>1. i \in 1 .. m /\ j \in 1 .. m  BY <1>1, <2>1
    <3> QED BY <2>1, <3>1
  <2> QED BY <2>1
<1>5. ASSUME NEW d \in Conns, NEW i \in DOMAIN stream'[d]
      PROVE  \/ d = c /\ stream'[d][i].q = h /\ (stream'[d][i].part = "body" => i = l + 2)
             \/ i \in DOMAIN stream[d] /\ stream'[d][i] = stream[d][i]
  <2>1. CASE d = c
    <3>1. i \in 1 .. l \/ i = l + 1 \/ i = l + 2  BY <1>1, <2>1
    <3> QED BY <1>1, <2>1, <3>1
  <2>2. CASE d # c
    <3>1. stream'[d] = stream[d]  BY <1>1, <2>2
    <3> QED BY <3>1
  <2> QED BY <2>1, <2>2
<1>6. /\ 1 \in DOMAIN outgoing[c] /\ h = outgoing[c][1]
      /\ \A d \in Conns : \A i \in DOMAIN stream[d] : stream[d][i].q # h
      /\ h \notin complete
  <2>1. 1 \in DOMAIN outgoing[c] /\ h = outgoing[c][1]  BY <1>1
  <2> QED BY <2>1 DEF OnceInv, OneWay, NotRead
<1> HIDE <1>1
<1> HIDE DEF J
<1>7. OutOnce'
  <2> SUFFICES ASSUME NEW d \in Conns, NEW e \in Conns, NEW i \in DOMAIN outgoing'[d],
                      NEW j \in DOMAIN outgoing'[e], outgoing'[d][i] = outgoing'[e][j]
               PROVE  d = e /\ i = j
    BY DEF OutOnce
  <2>1. d = e /\ J(d, i) = J(e, j)  BY <1>3 DEF OnceInv, OutOnce
  <2> QED BY <1>4, <2>1
<1>8. BodyOnce'
  <2> SUFFICES ASSUME NEW d \in Conns, NEW e \in Conns, NEW i \in DOMAIN stream'[d],
                      NEW j \in DOMAIN stream'[e], stream'[d][i].part = "body",
                      stream'[e][j].part = "body", stream'[d][i].q = stream'[e][j].q
               PROVE  d = e /\ i = j
    BY DEF BodyOnce
  <2> QED BY <1>5, <1>6 DEF OnceInv, BodyOnce
<1>9. OneWay'
  <2> SUFFICES ASSUME NEW d \in Conns, NEW e \in Conns, NEW i \in DOMAIN stream'[d],
                      NEW j \in DOMAIN outgoing'[e]
               PROVE  stream'[d][i].q # outgoing'[e][j]
    BY DEF OneWay
  <2> QED BY <1>3, <1>5 DEF OnceInv, OneWay
<1>10. NotRead'
  <2>1. ASSUME NEW d \in Conns, NEW i \in DOMAIN outgoing'[d] PROVE outgoing'[d][i] \notin complete
    BY <1>3 DEF OnceInv, NotRead
  <2>2. ASSUME NEW d \in Conns, NEW i \in DOMAIN stream'[d], stream'[d][i].part = "body"
        PROVE  stream'[d][i].q \notin complete
    BY <1>5, <1>6, <2>2 DEF OnceInv, NotRead
  <2> QED BY <1>2, <2>1, <2>2 DEF OnceInv, NotRead
<1>11. KeepsLength'  BY <1>2 DEF OnceInv, KeepsLength
<1> QED BY <1>7, <1>8, <1>9, <1>10, <1>11 DEF OnceInv

LEMMA EventOnce ==
  ASSUME TypeOK, OnceInv, NEW c \in Conns, ServerEvent(c)
  PROVE  OnceInv'
<1>1. /\ \A d \in Conns : d # c => /\ outgoing'[d] = outgoing[d] /\ stream'[d] = stream[d]
                                   /\ server_msg_buffer'[d] = server_msg_buffer[d]
      /\ DOMAIN outgoing'[c] = {} /\ DOMAIN stream'[c] = {} /\ DOMAIN server_msg_buffer'[c] = {}
  BY EventSeqs
<1>2. UNCHANGED <<todo, complete>>  BY DEF ServerEvent
<1>3. /\ \A d \in Conns : \A i \in DOMAIN outgoing'[d] :
           i \in DOMAIN outgoing[d] /\ outgoing'[d][i] = outgoing[d][i]
      /\ \A d \in Conns : \A i \in DOMAIN stream'[d] :
           i \in DOMAIN stream[d] /\ stream'[d][i] = stream[d][i]
      /\ \A d \in Conns : \A i \in DOMAIN server_msg_buffer'[d] :
           i \in DOMAIN server_msg_buffer[d] /\ server_msg_buffer'[d][i] = server_msg_buffer[d][i]
  BY <1>1
<1>4. OutOnce'  BY <1>3 DEF OnceInv, OutOnce
<1>5. BodyOnce'  BY <1>3 DEF OnceInv, BodyOnce
<1>6. OneWay'  BY <1>3 DEF OnceInv, OneWay
<1>7. NotRead'  BY <1>2, <1>3 DEF OnceInv, NotRead
<1>8. KeepsLength'  BY <1>3 DEF OnceInv, KeepsLength
<1> QED BY <1>4, <1>5, <1>6, <1>7, <1>8 DEF OnceInv

LEMMA UdpReadOnce ==
  ASSUME TypeOK, FlightInv, OnceInv, NEW a \in answers, ServerUdpRead(a)
  PROVE  OnceInv'
<1>1. /\ complete' = complete \cup {a.q}
      /\ UNCHANGED <<todo, outgoing, stream, server_msg_buffer>>
  BY DEF ServerUdpRead, tcp
<1>2. a.q \notin todo /\ ~UseTcp(a.q)  BY DEF FlightInv, Under
<1>3. /\ \A c \in Conns : \A i \in DOMAIN outgoing[c] : outgoing[c][i] # a.q
      /\ \A c \in Conns : \A i \in DOMAIN stream[c] : stream[c][i].q # a.q
  BY <1>2 DEF FlightInv, Under
<1>4. NotRead'  BY <1>1, <1>2, <1>3 DEF OnceInv, NotRead
<1>5. OutOnce' /\ BodyOnce' /\ OneWay' /\ KeepsLength'
  BY <1>1 DEF OnceInv, OutOnce, BodyOnce, OneWay, KeepsLength
<1> QED BY <1>4, <1>5 DEF OnceInv

LEMMA RestLength ==
  ASSUME NEW s \in Seq(Unit)
  PROVE  \A i \in DOMAIN Rest(s) : Rest(s)[i].part = "length"
<1>1. CASE s[Len(s)].part = "length"
  <2>1. PICK u : u = s[Len(s)]  OBVIOUS
  <2>2. Rest(s) = <<u>> /\ u.part = "length"  BY <1>1, <2>1 DEF Rest
  <2> HIDE <2>1
  <2> QED BY <2>2
<1>2. CASE s[Len(s)].part # "length"
  <2>1. Rest(s) = <<>>  BY <1>2 DEF Rest
  <2> QED BY <2>1
<1> QED BY <1>1, <1>2

LEMMA ReadOnce ==
  ASSUME TypeOK, FlightInv, OnceInv, NEW c \in Conns, NEW n \in 1 .. Len(stream[c]),
         ServerRead(c, n)
  PROVE  OnceInv'
<1>1. PICK l \in Nat :
           /\ \A d \in Conns : d # c => stream'[d] = stream[d]
           /\ n \in 1 .. l /\ n \in Nat
           /\ DOMAIN stream[c] = 1 .. l /\ DOMAIN stream'[c] = 1 .. l - n
           /\ \A i \in 1 .. l - n : stream'[c][i] = stream[c][i + n]
  BY ReadSeqs
<1> DEFINE J(d, i) == IF d = c THEN i + n ELSE i
           data == SubSeq(stream[c], 1, n)
<1>2. complete' = complete \cup Bodies(data) /\ UNCHANGED <<todo, outgoing>>  BY DEF ServerRead
<1>3. ASSUME NEW d \in Conns, NEW i \in DOMAIN stream'[d]
      PROVE  /\ J(d, i) \in DOMAIN stream[d] /\ stream'[d][i] = stream[d][J(d, i)]
             /\ ~(d = c /\ J(d, i) \in 1 .. n)
  <2>1. CASE d = c
    <3>1. i \in 1 .. l - n  BY <1>1, <2>1
    <3>2. i + n \in 1 .. l /\ i + n \notin 1 .. n  BY <1>1, <3>1
    <3> QED BY <1>1, <2>1, <3>1, <3>2
  <2>2. CASE d # c
    <3>1. stream'[d] = stream[d]  BY <1>1, <2>2
    <3> QED BY <2>2, <3>1
  <2> QED BY <2>1, <2>2
<1>4. \A d \in Conns : \A i, j \in DOMAIN stream'[d] : J(d, i) = J(d, j) => i = j
  <2> SUFFICES ASSUME NEW d \in Conns, NEW i \in DOMAIN stream'[d], NEW j \in DOMAIN stream'[d],
                      J(d, i) = J(d, j)
               PROVE  i = j
    OBVIOUS
  <2>1. CASE d = c
    <3>1. i \in 1 .. l - n /\ j \in 1 .. l - n  BY <1>1, <2>1
    <3> QED BY <1>1, <2>1, <3>1
  <2> QED BY <2>1
<1>5. ASSUME NEW q, q \in Bodies(data)
      PROVE  \E i \in DOMAIN stream[c] : i \in 1 .. n /\ stream[c][i].part = "body" /\ stream[c][i].q = q
  <2>1. \A i \in 1 .. n : i \in DOMAIN stream[c]  BY <1>1
  <2>2. \E i \in 1 .. n : stream[c][i].part = "body" /\ stream[c][i].q = q
    BY <1>5, DataBodies
  <2> QED BY <2>1, <2>2
<1>6. KeepsLength'
  <2>1. CASE output_option = "timing"
    <3>1. server_msg_buffer[c] \in Seq(Unit) /\ data \in Seq(Unit)  BY ReadFacts DEF TypeOK
    <3>2. PICK t : t = server_msg_buffer[c] \o data  OBVIOUS
    <3>3. t \in Seq(Unit)
      <4> HIDE DEF data
      <4> QED BY <3>1, <3>2, ConcatProperties
    <3>4. server_msg_buffer' = [server_msg_buffer EXCEPT ![c] = Rest(t)]
      BY <2>1, <3>2 DEF ServerRead
    <3>5. PICK r : r = Rest(t)  OBVIOUS
    <3>6. \A i \in DOMAIN r : r[i].part = "length"  BY <3>3, <3>5, RestLength
    <3>7. \A d \in Conns : server_msg_buffer'[d] = IF d = c THEN r ELSE server_msg_buffer[d]
      <4> HIDE <3>2
      <4> QED BY <3>4, <3>5 DEF TypeOK
    <3> HIDE <3>2, <3>4, <3>5
    <3>8. ASSUME NEW d \in Conns, NEW i \in DOMAIN server_msg_buffer'[d]
          PROVE  server_msg_buffer'[d][i].part = "length"
      <4>1. CASE d = c
        <5>1. server_msg_buffer'[d] = r  BY <3>7, <4>1
        <5> QED BY <3>6, <5>1
      <4>2. CASE d # c
        <5>1. server_msg_buffer'[d] = server_msg_buffer[d]  BY <3>7, <4>2
        <5> QED BY <5>1 DEF OnceInv, KeepsLength
      <4> QED BY <4>1, <4>2
    <3> QED BY <3>8 DEF KeepsLength
  <2>2. CASE output_option # "timing"
    <3>1. server_msg_buffer' = server_msg_buffer
      <4>1. CASE output_option = "latency"  BY <4>1 DEF ServerRead
      <4>2. CASE output_option # "latency"  BY <2>2, <4>2 DEF ServerRead
      <4> QED BY <4>1, <4>2
    <3> QED BY <3>1 DEF OnceInv, KeepsLength
  <2> QED BY <2>1, <2>2
<1> HIDE <1>1
<1> HIDE DEF J, data
<1>7. OutOnce'  BY <1>2 DEF OnceInv, OutOnce
<1>8. BodyOnce'
  <2> SUFFICES ASSUME NEW d \in Conns, NEW e \in Conns, NEW i \in DOMAIN stream'[d],
                      NEW j \in DOMAIN stream'[e], stream'[d][i].part = "body",
                      stream'[e][j].part = "body", stream'[d][i].q = stream'[e][j].q
               PROVE  d = e /\ i = j
    BY DEF BodyOnce
  <2>1. d = e /\ J(d, i) = J(e, j)  BY <1>3 DEF OnceInv, BodyOnce
  <2> QED BY <1>4, <2>1
<1>9. OneWay'
  <2> SUFFICES ASSUME NEW d \in Conns, NEW e \in Conns, NEW i \in DOMAIN stream'[d],
                      NEW j \in DOMAIN outgoing[e]
               PROVE  stream'[d][i].q # outgoing[e][j]
    BY <1>2 DEF OneWay
  <2> QED BY <1>3 DEF OnceInv, OneWay
<1>10. NotRead'
  <2>1. ASSUME NEW d \in Conns, NEW i \in DOMAIN outgoing[d] PROVE outgoing[d][i] \notin complete'
    BY <1>2, <1>5 DEF OnceInv, NotRead, OneWay
  <2>2. ASSUME NEW d \in Conns, NEW i \in DOMAIN stream'[d], stream'[d][i].part = "body"
        PROVE  stream'[d][i].q \notin complete'
    <3>1. PICK j \in DOMAIN stream[d] : stream'[d][i] = stream[d][j] /\ ~(d = c /\ j \in 1 .. n)
      BY <1>3
    <3>2. stream[d][j].q \notin complete  BY <2>2, <3>1 DEF OnceInv, NotRead
    <3>3. stream[d][j].q \notin Bodies(data)
      <4> SUFFICES ASSUME stream[d][j].q \in Bodies(data) PROVE FALSE
        OBVIOUS
      <4>1. PICK k \in DOMAIN stream[c] : k \in 1 .. n /\ stream[c][k].part = "body"
                                          /\ stream[c][k].q = stream[d][j].q
        BY <1>5
      <4>2. c = d /\ k = j  BY <2>2, <3>1, <4>1 DEF OnceInv, BodyOnce
      <4> QED BY <3>1, <4>1, <4>2
    <3> QED BY <1>2, <3>1, <3>2, <3>3
  <2>3. \A q \in Bodies(data) : q \notin todo  BY <1>5 DEF FlightInv, Under
  <2>4. complete' \cap todo' = {}  BY <1>2, <2>3 DEF OnceInv, NotRead
  <2> QED BY <1>2, <2>1, <2>2, <2>4 DEF NotRead
<1> QED BY <1>6, <1>7, <1>8, <1>9, <1>10 DEF OnceInv

LEMMA NextOnce == MapsInv /\ FlightInv /\ OnceInv /\ [Next]_vars => OnceInv'
<1> SUFFICES ASSUME MapsInv, FlightInv, OnceInv, [Next]_vars PROVE OnceInv'
  OBVIOUS
<1>0. TypeOK  BY DEF MapsInv
<1>1. CASE SendQuery
  <2>1. PICK q \in Q : SendEmpty(q) \/ SendUdp(q) \/ SendTcp(q)  BY <1>1 DEF SendQuery
  <2>2. CASE SendEmpty(q)  BY <2>2, OnceSame DEF SendEmpty, tcp
  <2>3. CASE SendUdp(q)  BY <2>3, OnceSame DEF SendUdp, tcp
  <2>4. CASE SendTcp(q)  BY <1>0, <2>4, SendTcpOnce
  <2> QED BY <2>1, <2>2, <2>3, <2>4
<1>2. CASE UdpWrite  BY <1>2, OnceSame DEF UdpWrite, ServerUdpWrite, tcp
<1>3. CASE LogErr \/ UNCHANGED vars  BY <1>3, OnceSame DEF LogErr, vars, tcp
<1>4. CASE Running /\ \E fd \in Fds : UdpReadTimeout(fd)
  BY <1>4, OnceSame DEF UdpReadTimeout, tcp
<1>5. CASE Running /\ \E a \in answers : ServerUdpRead(a)
  BY <1>0, <1>5, UdpReadOnce
<1>6. CASE Running /\ \E c \in Conns : ServerAnswers(c) \/ ServerEvent(c)
  BY <1>0, <1>6, AnswersOnce, EventOnce
<1>7. CASE Running /\ \E c \in Conns : \E n \in 1 .. Len(stream[c]) : ServerRead(c, n)
  BY <1>0, <1>7, ReadOnce
<1> QED BY <1>1, <1>2, <1>3, <1>4, <1>5, <1>6, <1>7 DEF Next

(* The second part of EachAnswerReported.                                  *)
ExactInv ==
  conn_type = "tcp" /\ output_option = "timing" =>
    \A q \in Q : reported[q] = IF q \in complete THEN 1 ELSE 0

LEMMA InitExact == Init => ExactInv
  BY DEF Init, ExactInv

LEMMA ReadExact ==
  ASSUME TypeOK, OnceInv, ExactInv, NEW c \in Conns, NEW n \in 1 .. Len(stream[c]),
         ServerRead(c, n), setup' = setup
  PROVE  ExactInv'
<1> SUFFICES ASSUME conn_type = "tcp", output_option = "timing", NEW q \in Q
             PROVE  reported'[q] = IF q \in complete' THEN 1 ELSE 0
  BY SameSetup DEF ExactInv
<1> DEFINE data == SubSeq(stream[c], 1, n)
           buf  == server_msg_buffer[c] \o data
<1>1. /\ complete' = complete \cup Bodies(data)
      /\ reported' = [r \in Q |-> reported[r] + (IF r \in Bodies(buf) THEN 1 ELSE 0)]
  BY DEF ServerRead
<1>2. Bodies(buf) = Bodies(data)
  <2>1. server_msg_buffer[c] \in Seq(Unit) /\ data \in Seq(Unit)  BY ReadFacts DEF TypeOK
  <2>2. Bodies(server_msg_buffer[c]) = {}  BY DEF OnceInv, KeepsLength, Bodies
  <2> HIDE DEF data
  <2> QED BY <2>1, <2>2, ConcatBodies
<1>3. q \in Bodies(data) => q \notin complete
  <2>1. \A i \in 1 .. n : i \in DOMAIN stream[c]  BY ReadFacts
  <2>2. q \in Bodies(data) => \E i \in 1 .. n : stream[c][i].part = "body" /\ stream[c][i].q = q
    BY DataBodies
  <2> QED BY <2>1, <2>2 DEF OnceInv, NotRead
<1>4. reported[q] = IF q \in complete THEN 1 ELSE 0  BY DEF ExactInv
<1> HIDE DEF data, buf
<1> QED BY <1>1, <1>2, <1>3, <1>4

LEMMA NextExact == MapsInv /\ FlightInv /\ OnceInv /\ ExactInv /\ [Next]_vars => ExactInv'
<1> SUFFICES ASSUME MapsInv, FlightInv, OnceInv, ExactInv, [Next]_vars PROVE ExactInv'
  OBVIOUS
<1>0. TypeOK  BY DEF MapsInv
<1>1. ASSUME UNCHANGED <<setup, reported, complete>> PROVE ExactInv'
  BY <1>1, SameSetup DEF ExactInv
<1>2. CASE SendQuery
  BY <1>1, <1>2 DEF SendQuery, Running, SendEmpty, SendUdp, SendTcp
<1>3. CASE UdpWrite  BY <1>1, <1>3 DEF UdpWrite, Running, ServerUdpWrite
<1>4. CASE LogErr \/ UNCHANGED vars  BY <1>1, <1>4 DEF LogErr, vars
<1>5. CASE Running /\ \E fd \in Fds : UdpReadTimeout(fd)
  BY <1>1, <1>5 DEF Running, UdpReadTimeout
<1>6. CASE Running /\ \E a \in answers : ServerUdpRead(a)
  <2>1. conn_type # "tcp"  BY <1>6 DEF FlightInv, Under, UseTcp
  <2>2. setup' = setup  BY <1>6 DEF Running
  <2> QED BY <2>1, <2>2, SameSetup DEF ExactInv
<1>7. CASE Running /\ \E c \in Conns : ServerAnswers(c) \/ ServerEvent(c)
  BY <1>1, <1>7 DEF Running, ServerAnswers, ServerEvent
<1>8. CASE Running /\ \E c \in Conns : \E n \in 1 .. Len(stream[c]) : ServerRead(c, n)
  BY <1>0, <1>8, ReadExact DEF Running
<1> QED BY <1>2, <1>3, <1>4, <1>5, <1>6, <1>7, <1>8 DEF Next

(* An answer that was read completely has been reported, and with timing   *)
(* over TCP exactly once, wherever the reads cut the stream, whichever     *)
(* connections close and however often the network repeats an answer.      *)
THEOREM AnswersReported == ASSUME DistinctNames PROVE Spec => []EachAnswerReported
<1>1. ReportInv /\ ExactInv => EachAnswerReported
  BY DEF ReportInv, ExactInv, Reportable, EachAnswerReported
<1>2. Spec => [](MapsInv /\ FlightInv /\ ReportInv /\ PairInv)  BY TableSteps, PTL
<1> QED BY <1>1, <1>2, InitOnce, InitExact, NextOnce, NextExact, PTL DEF Spec
=============================================================================
