---------------------------- MODULE ReplayTimer ----------------------------
(***************************************************************************)
(* When a DNSClient (a worker process of dns-replay-client-1.0) sends each *)
(* query: DNSClient::manager_read_cb takes the messages of the manager,    *)
(* the sync message sets the two time origins, and every query is sent at  *)
(* once when its time has passed, or given to a libevent timer.            *)
(*                                                                         *)
(* libevent reads the clock once before it runs callbacks, and adds a      *)
(* timer to that cached time, while the code computes the delay from the   *)
(* real clock; tv_cache is that cached time.                               *)
(***************************************************************************)
EXTENDS Integers, Sequences, FiniteSets

CONSTANTS
  Streams,     \* what a manager may send: sequences of [sync, ts]
  MaxNow       \* bound: the clock

Message == [sync : BOOLEAN, ts : Nat]
ASSUME TimerAssumption ==
  Streams \subseteq Seq(Message) /\ MaxNow \in Nat

VARIABLES
  non_wait,        \* --fast: send without waiting
  incoming,        \* the manager's messages
  pos,             \* how many were taken from msg_buffer
  start_trace_ts,  \* 0 is "not set" (evutil_timerisset)
  start_real_ts,
  timers,          \* queries with a timer event, and when it is due
  num_query, num_timer, num_notimer, num_pending_event, num_pending_event_max,
  issued,          \* when send_query was called for a message, or -1
  lag,             \* real minus cached time when its timer was added
  tv_cache,        \* libevent's cached time in a callback, or -1
  now,
  status           \* "running" or "aborted" (log_err)

counters == <<num_query, num_timer, num_notimer, num_pending_event,
              num_pending_event_max>>
vars == <<non_wait, incoming, pos, start_trace_ts, start_real_ts, timers, counters, issued,
          lag, tv_cache, now, status>>

Msgs == 1 .. Len(incoming)

(* The types of the state: no counter of the worker falls below zero, and  *)
(* every timer belongs to a message.                                       *)
TypeOK ==
  /\ non_wait \in BOOLEAN /\ incoming \in Streams /\ pos \in 0 .. Len(incoming)
  /\ start_trace_ts \in Nat /\ start_real_ts \in Nat
  /\ timers \subseteq [q : Msgs, due : Int]
  /\ num_query \in Nat /\ num_timer \in Nat /\ num_notimer \in Nat
  /\ num_pending_event \in Nat /\ num_pending_event_max \in Nat
  /\ issued \in [Msgs -> Nat \cup {-1}] /\ lag \in [Msgs -> Nat]
  /\ tv_cache \in Nat \cup {-1} /\ now \in Nat
  /\ status \in {"running", "aborted"}

Init ==
  /\ non_wait \in BOOLEAN /\ incoming \in Streams
  /\ pos = 0 /\ start_trace_ts = 0 /\ start_real_ts = 0 /\ timers = {}
  /\ num_query = 0 /\ num_timer = 0 /\ num_notimer = 0
  /\ num_pending_event = 0 /\ num_pending_event_max = 0
  /\ issued = [i \in Msgs |-> -1] /\ lag = [i \in Msgs |-> 0]
  /\ tv_cache = -1 /\ now = 1 /\ status = "running"

(* The event loop enters a callback, with messages to read.                *)
EnterCallbackLate ==  \* mutant: one message is left waiting for the next
  /\ status = "running" /\ tv_cache = -1 /\ pos < Len(incoming) - 1
  /\ tv_cache' = now
  /\ UNCHANGED <<non_wait, incoming, pos, start_trace_ts, start_real_ts, timers, counters, issued, lag,
                 now, status>>
EnterCallback ==
  /\ status = "running" /\ tv_cache = -1 /\ pos < Len(incoming)
  /\ tv_cache' = now
  /\ UNCHANGED <<non_wait, incoming, pos, start_trace_ts, start_real_ts, timers, counters, issued, lag,
                 now, status>>

(* The loop of manager_read_cb runs out of complete messages.              *)
LeaveCallback ==
  /\ status = "running" /\ tv_cache # -1
  /\ tv_cache' = -1
  /\ UNCHANGED <<non_wait, incoming, pos, start_trace_ts, start_real_ts, timers, counters, issued, lag,
                 now, status>>

InCallback == status = "running" /\ tv_cache # -1 /\ pos < Len(incoming)
Msg == incoming[pos + 1]

(* A sync message: sets the origins, or aborts when they are set.          *)
SyncTimeAgain ==     \* mutant: a second sync message sets the origins again
  /\ InCallback /\ Msg.sync
  /\ pos' = pos + 1
  /\ start_trace_ts' = Msg.ts /\ start_real_ts' = now
  /\ UNCHANGED <<non_wait, incoming, timers, counters, issued, lag, tv_cache, now, status>>
SyncTime ==
  /\ InCallback /\ Msg.sync
  /\ pos' = pos + 1
  /\ IF start_trace_ts # 0
       THEN status' = "aborted" /\ UNCHANGED <<start_trace_ts, start_real_ts>>
       ELSE /\ start_trace_ts' = Msg.ts /\ start_real_ts' = now
            /\ UNCHANGED status
  /\ UNCHANGED <<non_wait, incoming, timers, counters, issued, lag, tv_cache, now>>

(* A query before the sync message aborts the worker.                      *)
QueryNotSynced ==
  /\ InCallback /\ ~Msg.sync /\ start_trace_ts = 0
  /\ pos' = pos + 1 /\ status' = "aborted"
  /\ UNCHANGED <<non_wait, incoming, start_trace_ts, start_real_ts, timers, counters, issued, lag,
                 tv_cache, now>>

(* tv: how long until the query is to be sent.                             *)
Delay(ts) == (ts - start_trace_ts) - (now - start_real_ts)

(* Sent in the callback, because its time has passed (at either of the two *)
(* tests) or waiting is off.                                               *)
SendNow ==
  /\ InCallback /\ ~Msg.sync /\ start_trace_ts # 0
  /\ non_wait \/ Delay(Msg.ts) < 0
  /\ pos' = pos + 1
  /\ issued' = [issued EXCEPT ![pos + 1] = now]
  /\ num_query' = num_query + 1 /\ num_notimer' = num_notimer + 1
  /\ UNCHANGED <<non_wait, incoming, start_trace_ts, start_real_ts, timers, num_timer, num_pending_event,
                 num_pending_event_max, lag, tv_cache, now, status>>

(* Given to a timer.                                                       *)
AddTimerTrace ==     \* mutant: the timer takes the query's trace time
  /\ InCallback /\ ~Msg.sync /\ start_trace_ts # 0
  /\ ~non_wait /\ Delay(Msg.ts) >= 0
  /\ pos' = pos + 1
  /\ timers' = timers \cup {[q |-> pos + 1, due |-> Delay(Msg.ts)]}
  /\ lag' = [lag EXCEPT ![pos + 1] = now - tv_cache]
  /\ num_query' = num_query + 1 /\ num_timer' = num_timer + 1
  /\ num_pending_event' = num_pending_event + 1
  /\ num_pending_event_max' = IF num_pending_event' > num_pending_event_max
                                THEN num_pending_event' ELSE num_pending_event_max
  /\ UNCHANGED <<non_wait, incoming, start_trace_ts, start_real_ts, num_notimer, issued, tv_cache, now,
                 status>>
AddTimer ==
  /\ InCallback /\ ~Msg.sync /\ start_trace_ts # 0
  /\ ~non_wait /\ Delay(Msg.ts) >= 0
  /\ pos' = pos + 1
  /\ timers' = timers \cup {[q |-> pos + 1, due |-> tv_cache + Delay(Msg.ts)]}
  /\ lag' = [lag EXCEPT ![pos + 1] = now - tv_cache]
  /\ num_query' = num_query + 1 /\ num_timer' = num_timer + 1
  /\ num_pending_event' = num_pending_event + 1
  /\ num_pending_event_max' = IF num_pending_event' > num_pending_event_max
                                THEN num_pending_event' ELSE num_pending_event_max
  /\ UNCHANGED <<non_wait, incoming, start_trace_ts, start_real_ts, num_notimer, issued, tv_cache, now,
                 status>>

(* DNSClient::send_query_helper, when a timer is due and no callback runs. *)
HelperDrops(t) ==               \* mutant: send_query is not called
  /\ status = "running" /\ tv_cache = -1 /\ now >= t.due
  /\ timers' = timers \ {t}
  /\ num_pending_event' = num_pending_event - 1
  /\ UNCHANGED <<non_wait, incoming, pos, start_trace_ts, start_real_ts, num_query, num_timer, num_notimer,
                 num_pending_event_max, issued, lag, tv_cache, now, status>>
SendQueryHelper(t) ==
  /\ status = "running" /\ tv_cache = -1 /\ now >= t.due
  /\ timers' = timers \ {t}
  /\ num_pending_event' = num_pending_event - 1
  /\ issued' = [issued EXCEPT ![t.q] = now]
  /\ UNCHANGED <<non_wait, incoming, pos, start_trace_ts, start_real_ts, num_query, num_timer, num_notimer,
                 num_pending_event_max, lag, tv_cache, now, status>>

(* Time passes, up to MaxNow before and after the sync message.            *)
Tick ==
  /\ now < MaxNow \/ (start_trace_ts # 0 /\ now - start_real_ts < MaxNow)
  /\ now' = now + 1
  /\ UNCHANGED <<non_wait, incoming, pos, start_trace_ts, start_real_ts, timers, counters, issued, lag,
                 tv_cache, status>>

ManagerReadCb == SyncTime \/ QueryNotSynced \/ SendNow \/ AddTimer
FireTimer == \E t \in timers : SendQueryHelper(t)

Next == EnterCallback \/ ManagerReadCb \/ LeaveCallback \/ FireTimer \/ Tick

Spec == Init /\ [][Next]_vars

(* The event loop fires due timers and runs callbacks to their end; of the *)
(* callbacks that are entered, some find a complete message.               *)
Fairness ==
  /\ WF_vars(EnterCallback) /\ SF_vars(ManagerReadCb)
  /\ WF_vars(LeaveCallback /\ pos = Len(incoming))
  /\ WF_vars(FireTimer) /\ WF_vars(Tick)
FairSpec == Spec /\ Fairness

-----------------------------------------------------------------------------
Queries == {i \in 1 .. pos : ~incoming[i].sync}
Issued  == {i \in Queries : issued[i] # -1}

(* Every query taken from the manager is sent or waits for exactly one     *)
(* timer, and the statistics the worker prints agree with that.  (And the  *)
(* state has its types.)                                                   *)
Accounting ==
  /\ TypeOK
  /\ status = "running" =>
       /\ \A i \in Queries : i \in Issued <=> ~\E t \in timers : t.q = i
       /\ num_query = num_timer + num_notimer /\ num_query = Cardinality(Queries)
       /\ num_pending_event = Cardinality(timers)
       /\ num_pending_event <= num_pending_event_max

(* "correct timing": a query is never sent earlier than its offset in the  *)
(* trace, except by the time the callback had already run when it added    *)
(* the timer.                                                              *)
EarlyOnlyByLag ==
  ~non_wait =>
    \A i \in Issued :
      issued[i] - start_real_ts >= (incoming[i].ts - start_trace_ts) - lag[i]

(* The worker aborts exactly when the manager has sent it a query before   *)
(* the sync message, or a second sync message.  A sync message whose time  *)
(* is 0 counts for none: such a trace ends the worker at its first query.  *)
WellFormed(n) ==
  LET Sets(i) == incoming[i].sync /\ incoming[i].ts # 0
      First   == {i \in 1 .. n : Sets(i) /\ ~\E k \in 1 .. i - 1 : Sets(k)}
  IN \A i \in 1 .. n : IF incoming[i].sync THEN \A k \in First : i <= k
                                           ELSE \E k \in First : k < i
AbortsExactly == status = "aborted" <=> ~WellFormed(pos)

(* Every query of a well-formed stream is sent.                            *)
AllIssued ==
  WellFormed(Len(incoming)) =>
    <>(\A i \in Msgs : ~incoming[i].sync => issued[i] # -1)
=============================================================================
