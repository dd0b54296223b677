----------------------------- MODULE MCManager -----------------------------
(* Instances of ClientMain and Manager for TLC.                            *)
EXTENDS ClientMain

MCMsg(y, s, t, r) == [sync |-> y, src |-> s, ts |-> t, raw |-> r]
MCSrcs == {"s1", "s2"}
\* what the commander sends: the sync message, then queries
MCCom  == <<MCMsg(TRUE, "s1", 1, TRUE), MCMsg(FALSE, "s1", 1, TRUE),
            MCMsg(FALSE, "s2", 2, TRUE), MCMsg(FALSE, "s1", 3, TRUE)>>
\* a file: a packet without query first, and one second more than the limit ahead
MCFile == <<MCMsg(FALSE, "s2", 0, FALSE), MCMsg(FALSE, "s1", 1, TRUE),
            MCMsg(FALSE, "s2", 2, TRUE), MCMsg(FALSE, "s1", 5, TRUE)>>
MCShort == <<MCMsg(FALSE, "s1", 1, TRUE), MCMsg(FALSE, "s2", 2, TRUE)>>

MCSetup(in, d, m, l, p, n) ==
  [incoming |-> in, dist |-> d, disable_mapping |-> m, trace_limit |-> l, query_pace |-> p,
   num_clients |-> n]
MCSetups == {MCSetup(MCCom, TRUE, FALSE, -1, -1, 2), MCSetup(MCFile, FALSE, FALSE, 1, -1, 2),
             MCSetup(MCShort, FALSE, FALSE, 1, 4, 2), MCSetup(MCShort, FALSE, TRUE, -1, -1, 2),
             MCSetup(MCShort, FALSE, FALSE, -1, -1, 0), MCSetup(SubSeq(MCCom, 1, 2), TRUE, TRUE, -1, -1, 0),
             MCSetup(MCShort, FALSE, FALSE, -1, -1, -1)}

MCCommand(c, i) ==
  [conn_type |-> TRUE, server_port |-> 53, command_port |-> c, time_out |-> 30, input |-> i,
   output |-> TRUE]
\* for either mode, for both, and one without a server
MCCommands == {MCCommand(2018, FALSE), MCCommand(-1, TRUE),
               [MCCommand(2018, TRUE) EXCEPT !.server_port = -1]}
=============================================================================
