--------------------------- MODULE MCReplayTimer ---------------------------
(* Instances of ReplayTimer for TLC.                                       *)
EXTENDS ReplayTimer

MCMsg(s, t) == [sync |-> s, ts |-> t]

\* two queries of the same time, then one out of order
MCStream == <<MCMsg(TRUE, 10), MCMsg(FALSE, 10), MCMsg(FALSE, 12), MCMsg(FALSE, 12),
              MCMsg(FALSE, 11)>>
\* what a manager that was not connected at the first message sends on
MCNotSynced == <<MCMsg(FALSE, 10), MCMsg(TRUE, 10), MCMsg(FALSE, 11)>>
MCTwoSyncs == <<MCMsg(TRUE, 10), MCMsg(FALSE, 11), MCMsg(TRUE, 12)>>
\* traces that begin at time 0
MCAtZero == <<MCMsg(TRUE, 0), MCMsg(FALSE, 0), MCMsg(FALSE, 1)>>
MCZeroTwice == <<MCMsg(TRUE, 0), MCMsg(TRUE, 3), MCMsg(FALSE, 4)>>
MCStreams == {MCStream, MCNotSynced, MCTwoSyncs, MCAtZero, MCZeroTwice}
=============================================================================
