---------------------------- MODULE MCDNSClient ----------------------------
(* Instances of DNSClient for TLC.                                         *)
EXTENDS DNSClient

MCQ(s, n, t, r) == [src |-> s, qname |-> n, tcp |-> t, raw |-> r]
MCSrcs  == {"s1", "s2"}
MCNames == {"a", "b", "c"}

\* three names, two sources; one query without payload
MCUdp  == <<MCQ("s1", "a", FALSE, TRUE), MCQ("s2", "b", FALSE, TRUE),
            MCQ("s1", "c", FALSE, TRUE), MCQ("s2", "a", FALSE, FALSE)>>
MCTcp  == <<MCQ("s1", "a", TRUE, TRUE), MCQ("s1", "b", TRUE, TRUE),
            MCQ("s2", "c", TRUE, TRUE)>>
\* UDP and TCP, and a query whose name cannot be parsed
MCBoth == <<MCQ("s1", "a", FALSE, TRUE), MCQ("s1", NoName, TRUE, TRUE),
            MCQ("s2", "c", FALSE, TRUE)>>
\* two queries for the same name
MCSame == <<MCQ("s1", "a", FALSE, TRUE), MCQ("s2", "a", FALSE, TRUE)>>

MCSetup(qs, c, u, o) ==
  [queries |-> qs, conn_type |-> c, socket_unify |-> u, output_option |-> o]
\* different names, over UDP, TCP and both
MCSetups == {MCSetup(MCUdp, "udp", FALSE, "latency"), MCSetup(MCUdp, "udp", TRUE, "timing"),
             MCSetup(MCTcp, "tcp", FALSE, "timing"), MCSetup(MCBoth, "adaptive", FALSE, "latency"),
             MCSetup(MCSame, "adaptive", FALSE, "none")}
MCSameName == {MCSetup(MCSame, "udp", FALSE, "latency")}
=============================================================================
