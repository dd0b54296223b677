------------------------------ MODULE MCProxy ------------------------------
(* The instance of Proxy for TLC.                                          *)
EXTENDS Proxy

MCRec == <<10, 1, 1, 2>>
MCAut == <<10, 1, 1, 3>>
MinusOne == -1
com   == <<192, 5, 6, 30>>
client == <<200, 10>>     \* a port

MCPacket(v, pr, src, seg) ==
  [ver |-> v, protocol |-> pr, src |-> src, dst |-> com, frag |-> FALSE,
   opts |-> <<>>, seg |-> seg]
UdpSeg(sport, dport, payload) == sport \o dport \o <<0, 8 + Len(payload), 3, 3>> \o payload
TcpSeg(sport, dport, payload) ==
  sport \o dport \o <<0, 0, 0, 1, 0, 0, 0, 0, 80, 24, 255, 255, 1, 2, 0, 0>> \o payload

dns == <<0, 53>>
Query  == MCPacket(4, UDP, MCRec, UdpSeg(client, dns, <<255, 255, 255>>))
QueryT == MCPacket(4, TCP, MCRec, TcpSeg(client, dns, <<255, 255, 255, 254>>))
Reply  == MCPacket(4, UDP, MCAut, UdpSeg(dns, client, <<1>>))
ReplyT == MCPacket(4, TCP, MCAut, TcpSeg(dns, client, <<>>))
Ping   == MCPacket(4, ICMP, MCRec, <<8, 0, 1, 1>>)

\* all protocols, odd and even lengths, IP options, a fragment, IPv6
MCInputs ==
  [recursive     |-> {<<Query, Ping, QueryT, Query>>,
                      <<Query, MCPacket(6, UDP, MCRec, <<>>), Query>>},
   authoritative |-> {<<Reply, ReplyT, [Reply EXCEPT !.opts = <<148, 4, 0, 0>>],
                        [Reply EXCEPT !.frag = TRUE]>>}]
=============================================================================
