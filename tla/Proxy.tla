------------------------------- MODULE Proxy -------------------------------
(***************************************************************************)
(* DNSReplayProxy (dns-replay-proxy-1.0/proxy.cc): one thread, the pusher, *)
(* reads packets from the TUN device into a safe_queue; num_threads        *)
(* threads, the poppers, take them out, rewrite their addresses and send   *)
(* them through a raw socket.  Every error ends the process.  The queue    *)
(* holds pointers: an item is the number of a packet.                      *)
(*                                                                         *)
(* There are two proxies, beside the recursive and beside the              *)
(* authoritative server; the rules of dns-route-setup-1.0 choose which     *)
(* packets of the host go to its TUN device.                               *)
(***************************************************************************)
EXTENDS SafeQueue, Checksum

CONSTANTS
  Inputs,              \* what each TUN device may yield: sequences of packets
  rec_addr, aut_addr,  \* --rec_addr and --auth_addr
  MayFail              \* whether read() and sendto() can fail

(* protocol is ip_p; frag is TRUE for a fragment; opts are the options of  *)
(* the IP header, and seg is the rest, a TCP or UDP header and its data.   *)
ICMP == 1
TCP  == 6
UDP  == 17
Bytes  == Seq(Octet)
Packet == [ver : {4, 6}, protocol : {ICMP, TCP, UDP}, src : Address, dst : Address,
           frag : BOOLEAN, opts : Bytes, seg : Bytes]

ProxyTypes == {"recursive", "authoritative"}

ASSUME ProxyAssumption ==
  /\ Cardinality(Pushers) = 1 /\ IsFiniteSet(Threads) /\ Poppers # {} /\ m = -1
  /\ rec_addr \in Address /\ aut_addr \in Address /\ MayFail \in BOOLEAN
  /\ DOMAIN Inputs = ProxyTypes
  /\ \A t \in ProxyTypes : \A s \in Inputs[t] : s \in Seq(Packet) /\ DOMAIN s \subseteq Items

VARIABLES
  proxy_type,
  Input,             \* the packets of the TUN device, in order
  tun,               \* packets read from the TUN device
  data,              \* the packet a worker has popped and not yet deleted
  sent,              \* what the raw sockets have sent: [item, pkt], in order
  status             \* "running" or "exited"

queue == <<q, mtx, pc, arg>>
proxyVars == <<queue, proxy_type, Input, tun, data, sent, status>>

ProxyInit ==
  /\ Init
  /\ proxy_type \in ProxyTypes /\ Input \in Inputs[proxy_type]
  /\ tun = 0 /\ data = [w \in Poppers |-> NoItem] /\ sent = <<>>
  /\ status = "running"

(* read_packet: a packet is read, copied, and push is called.              *)
ReadPacket(t) ==
  /\ status = "running" /\ tun < Len(Input)
  /\ tun' = tun + 1
  /\ Push(t, tun + 1)
  /\ UNCHANGED <<proxy_type, Input, data, sent, status>>

PushReturns(t) ==
  /\ status = "running"
  /\ Return(t)
  /\ UNCHANGED <<proxy_type, Input, tun, data, sent, status>>

(* process_packet: the call of pop, after the last packet was deleted.     *)
PopPacket(w) ==
  /\ status = "running" /\ data[w] = NoItem
  /\ Pop(w)
  /\ UNCHANGED <<proxy_type, Input, tun, data, sent, status>>

PopReturns(w) ==
  /\ status = "running"
  /\ Return(w)
  /\ data' = [data EXCEPT ![w] = arg[w]]
  /\ UNCHANGED <<proxy_type, Input, tun, sent, status>>

(* A step inside push or pop.                                              *)
QueueStep(t) ==
  /\ status = "running"
  /\ Step(t)
  /\ UNCHANGED <<proxy_type, Input, tun, data, sent, status>>

QueueWakes(t) ==
  /\ status = "running"
  /\ SpuriousWake(t)
  /\ UNCHANGED <<proxy_type, Input, tun, data, sent, status>>

(* The constructor's choice: the server at the other side.                 *)
TargetSame(type) == IF type = "recursive" THEN rec_addr ELSE aut_addr   \* mutant
TargetAddr(type) == IF type = "recursive" THEN aut_addr ELSE rec_addr

(* check of struct tcphdr and struct udphdr, set to zero and then to the   *)
(* checksum of what follows byte 20 of the packet, whatever that is.       *)
CheckAt(protocol) == IF protocol = TCP THEN 17 ELSE 7
SetCheck(body, protocol, c) ==
  [body EXCEPT ![CheckAt(protocol)] = c[1], ![CheckAt(protocol) + 1] = c[2]]

(* process_packet_helper: the packet comes from where it went, goes to the *)
(* target, and has the checksum of its new addresses.                      *)
Rewrite(p, target) ==
  LET body  == p.opts \o p.seg
      blank == SetCheck(body, p.protocol, <<0, 0>>)
      new   == IF p.protocol = ICMP THEN body
               ELSE SetCheck(body, p.protocol, UdpTcpCksum(blank, p.dst, target, p.protocol))
  IN [p EXCEPT !.src = p.dst, !.dst = target,
               !.opts = SubSeq(new, 1, Len(p.opts)),
               !.seg = SubSeq(new, Len(p.opts) + 1, Len(new))]

(* process_packet_helper and the delete: an IPv6 packet ends the process.  *)
ProcessPacket(w) ==
  /\ status = "running" /\ data[w] # NoItem
  /\ LET p == Input[data[w]]
     IN IF p.ver = 4
          THEN /\ sent' = Append(sent, [item |-> data[w],
                                        pkt |-> Rewrite(p, TargetAddr(proxy_type))])
               /\ data' = [data EXCEPT ![w] = NoItem]
               /\ UNCHANGED status
          ELSE status' = "exited" /\ UNCHANGED <<data, sent>>
  /\ UNCHANGED <<queue, proxy_type, Input, tun>>

(* read() on the TUN device or sendto() returns an error.                  *)
Fails ==
  /\ MayFail /\ status = "running"
  /\ \/ \E t \in Pushers : pc[t] = "idle"
     \/ \E w \in Poppers : data[w] # NoItem
  /\ status' = "exited"
  /\ UNCHANGED <<queue, proxy_type, Input, tun, data, sent>>

ReaderStep(t) == ReadPacket(t) \/ PushReturns(t)
WorkerStep(w) == PopPacket(w) \/ PopReturns(w) \/ ProcessPacket(w)

ProxyNext ==
  \/ \E t \in Pushers : ReaderStep(t)
  \/ \E w \in Poppers : WorkerStep(w)
  \/ \E t \in Threads : QueueStep(t) \/ QueueWakes(t)
  \/ Fails

ProxySpec == ProxyInit /\ [][ProxyNext]_proxyVars

(* The operating system runs every thread; of the threads that want the    *)
(* mutex, none is passed over for ever.                                    *)
Fairness ==
  /\ \A t \in Pushers : WF_proxyVars(ReaderStep(t))
  /\ \A w \in Poppers : WF_proxyVars(WorkerStep(w))
  /\ \A t \in Threads : SF_proxyVars(QueueStep(t))

FairSpec == ProxySpec /\ Fairness

-----------------------------------------------------------------------------
(* The types of the state: what is sent is a packet, one of those read.    *)
ProxyTypeOK ==
  /\ TypeOK
  /\ Input \in Inputs[proxy_type] /\ tun \in 0 .. Len(Input)
  /\ data \in [Poppers -> (1 .. tun) \cup {NoItem}]
  /\ sent \in Seq([item : 1 .. tun, pkt : Packet])
  /\ status \in {"running", "exited"}

(* Where packet i is: with a thread, in the queue, popped, or sent.        *)
Places(i) ==
  {<<"arg", t>> : t \in {u \in Threads : arg[u] = i}}
  \cup {<<"q", k>> : k \in {j \in DOMAIN q : q[j] = i}}
  \cup {<<"data", w>> : w \in {v \in Poppers : data[v] = i}}
  \cup {<<"sent", k>> : k \in {j \in DOMAIN sent : sent[j].item = i}}

(* Every packet read from the TUN device is in exactly one place, in any   *)
(* interleaving of the threads: no packet is lost, or processed twice.     *)
ExactlyOnce == \A i \in 1 .. tun : Cardinality(Places(i)) = 1

(* Packets overtake each other only while a worker holds them: of those    *)
(* read before one that has been sent, at most one per other worker is     *)
(* still to be sent.  With one worker the order is kept.                   *)
SentItems == {sent[k].item : k \in DOMAIN sent}
Overtaken == {i \in 1 .. tun : i \notin SentItems /\ \E j \in i + 1 .. tun : j \in SentItems}
BoundedReordering == Cardinality(Overtaken) <= Cardinality(Poppers) - 1

(* A packet of TCP or UDP that is sent is accepted by its receiver, which  *)
(* adds the words in the other byte order, for every length and every      *)
(* carry, unless it has IP options or is a fragment (the checksum is then  *)
(* taken of, and stored in, other bytes).  (And the state has its types,   *)
(* the packets that are sent among them.)                                  *)
ChecksumValid ==
  /\ ProxyTypeOK
  /\ \A k \in DOMAIN sent :
       LET p == sent[k].pkt
       IN p.protocol \in {TCP, UDP} /\ p.opts = <<>> /\ ~p.frag
            => Verifies(p.seg, p.src, p.dst, p.protocol)

(* External: the rules of route_setup.sh, and what answers a packet.       *)
Port53(p, at) == SubSeq(p.seg, at, at + 1) = <<0, 53>>
ToTun(type, p) ==
  /\ p.protocol \in {TCP, UDP}
  /\ IF type = "recursive" THEN p.src = rec_addr /\ Port53(p, 3)
     ELSE p.src = aut_addr /\ Port53(p, 1)
Ports(p) == SubSeq(p.seg, 1, 4)
Answer(p) == [p EXCEPT !.src = p.dst, !.dst = p.src,
                       !.seg = SubSeq(@, 3, 4) \o SubSeq(@, 1, 2) \o SubSeq(@, 5, Len(@))]
Other(type) == IF type = "recursive" THEN "authoritative" ELSE "recursive"

(* The two proxies hide each other: a packet that is sent does not go to   *)
(* the TUN device again; what the other server answers goes to the TUN     *)
(* device there; and what the other proxy makes of it is, to the server    *)
(* here, the answer of the address it had written to.                      *)
HierarchyKept ==
  \A k \in DOMAIN sent :
    LET p == Input[sent[k].item]
        a == Answer(sent[k].pkt)
        b == Rewrite(a, TargetAddr(Other(proxy_type)))
    IN ToTun(proxy_type, p) /\ p.opts = <<>> =>
         /\ ~ToTun(proxy_type, sent[k].pkt)
         /\ ToTun(Other(proxy_type), a)
         /\ b.src = p.dst /\ b.dst = p.src /\ Ports(b) = Ports(Answer(p))

(* Every packet is sent in the end, unless the process exits.              *)
AllForwarded == <>(status = "exited" \/ Len(sent) = Len(Input))
=============================================================================
