---------------------------- MODULE MCController ----------------------------
(* Instances of Controller for TLC.                                        *)
EXTENDS Controller

\* two sources, interleaved, and a record without a query
MCTrace ==
  << [src |-> "s1", raw |-> TRUE,  ts |-> 0], [src |-> "s2", raw |-> TRUE, ts |-> 1],
     [src |-> "s2", raw |-> FALSE, ts |-> 1], [src |-> "s1", raw |-> TRUE, ts |-> 3] >>

MCShort ==
  << [src |-> "s1", raw |-> TRUE,  ts |-> 0], [src |-> "s2", raw |-> TRUE, ts |-> 1],
     [src |-> "s1", raw |-> TRUE,  ts |-> 2] >>

MCSrcs == {"s1", "s2"}
=============================================================================
