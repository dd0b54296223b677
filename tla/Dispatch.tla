------------------------------ MODULE Dispatch ------------------------------
(***************************************************************************)
(* What the controller promises of a replay, without its processes,        *)
(* descriptors and connections: the queries of a source go to one target   *)
(* at a time, in the order of the trace and each at most once.  A source   *)
(* gets another target only after it has lost the one it had; queries may  *)
(* be lost on the way.                                                     *)
(***************************************************************************)
EXTENDS Naturals

CONSTANTS
  Targets, Sources, NoTarget,
  source             \* the source of each query; queries are numbered

(* What the parameters are to be.                                          *)
DispatchAssumption ==
  /\ NoTarget \notin Targets
  /\ DOMAIN source \subseteq Nat
  /\ \A n \in DOMAIN source : source[n] \in Sources

VARIABLES
  owner,             \* the target of a source, or NoTarget
  handed             \* the queries that a target has received, each with its place

dvars == <<owner, handed>>

DInit ==
  /\ owner = [s \in Sources |-> NoTarget]
  /\ handed = [t \in Targets |-> {}]

Own(s, t) ==
  /\ owner[s] = NoTarget
  /\ owner' = [owner EXCEPT ![s] = t]
  /\ UNCHANGED handed

(* A connection ends, and some sources lose their target.                  *)
Lose(lost) ==
  /\ owner' = [s \in Sources |-> IF s \in lost THEN NoTarget ELSE owner[s]]
  /\ UNCHANGED handed

(* A query reaches the target of its source, after all that it has sent.   *)
Earlier(n) ==
  \A t \in Targets : \A p \in handed[t] : source[p[2]] = source[n] => p[2] < n
Hand(t, n) ==
  /\ owner[source[n]] = t /\ Earlier(n)
  /\ \E p \in handed'[t] : /\ p[1] \in Nat /\ p[2] = n
                           /\ \A o \in handed[t] : o[1] < p[1]
                           /\ handed' = [handed EXCEPT ![t] = @ \cup {<<p[1], n>>}]
  /\ UNCHANGED owner

DNext ==
  \/ \E s \in Sources, t \in Targets : Own(s, t)
  \/ \E lost \in SUBSET Sources : Lose(lost)
  \/ \E t \in Targets, n \in DOMAIN source : Hand(t, n)

DSpec == DInit /\ [][DNext]_dvars

-----------------------------------------------------------------------------
(* The types of the state.                                                 *)
DTypeOK ==
  /\ owner \in [Sources -> Targets \cup {NoTarget}]
  /\ handed \in [Targets -> SUBSET (Nat \X DOMAIN source)]

(* A query reaches one target at most, and once, and a target gets the     *)
(* queries of a source in the order of the trace.                          *)
OnceInOrder ==
  \A t, u \in Targets : \A p \in handed[t], q \in handed[u] :
    /\ p[2] = q[2] => t = u /\ p = q
    /\ t = u /\ source[p[2]] = source[q[2]] /\ p[1] < q[1] => p[2] < q[2]
=============================================================================
